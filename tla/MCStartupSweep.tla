--------------------------- MODULE MCStartupSweep ---------------------------
(* Names of a few bytes for StartupSweep.  With MaxIdentifier 7 and ids and *)
(* discriminators of one byte, a prefix has at most three.                  *)
EXTENDS StartupSweep

ThreeIds == {<<"A">>, <<"B">>, <<"C">>}
FiveIds == ThreeIds \cup {<<"D">>, <<"E">>}
OneDiscriminator == {<<"X">>}
TwoDiscriminators == {<<"X">>, <<"Y">>}
AllBytes == {"a", "b", "c", "d", "x", "1", "2", "A", "B", "C", "D", "E", "X", "Y", "Z", "_"}
Bytes2 == {"2"}

\* The longest template that is not truncated, with an underscore in it.
Short == <<"a", "_", "b">>
\* A long one, with a character of two bytes across the limit.
Long == <<"a", "b", "1", "2", "c", "d">>
\* A database the pattern of Short matches by its wildcards, and one it does not.
Neighbours == {<<"a", "x", "b">>, <<"a", "x", "b", "_", "Z">>}
None == {}
=============================================================================
