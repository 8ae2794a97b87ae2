--------------------------- MODULE MCControlPanel ---------------------------
(***************************************************************************)
(* A control connection whose client sends every message in any order, and *)
(* the texts behind it.  The lease IDs are "x", a quote, and "xe", which   *)
(* has as many bytes as a lease ID may; "ee" has one more.                 *)
(***************************************************************************)
EXTENDS ControlPanel

Wide == {"e"}
Symbols == {"'", "x", "/", ")"}

\* One text of each kind, with the white space the grammar allows.
Texts ==
    {<<>>,
     <<"ws", "select", "ws", "1", ";">>,
     <<"select", "ws", "pgtest_release", "(", "'", "x", "'", ")">>,
     <<"select", "ws", "pgtest_release", "ws", "(", "'", "'", "'", "'", ")", "ws", ";">>,
     <<"select", "ws", "pgtest_release", "(", "'", "'", ")">>,
     <<"select", "ws", "pgtest_release", "(", "'", "x", "/", "'", ")">>,
     <<"select", "ws", "pgtest_release", "(", "$1", "ws", "::", "text", ")">>,
     <<"select", "ws", "1", ";", "select", "ws", "1">>}

Types == {<<>>, <<"unspecified">>, <<"text">>, <<"int4">>, <<"text", "text">>}
Parameters == {<<>>, <<Null>>, <<<<"x", "e">>>>, <<<<"e", "e">>>>, <<<<"x">>, <<"x">>>>}
Formats == {<<>>, <<1>>, <<2>>, <<0, 0>>}
NullParameter == <<"NUL">>
=============================================================================
