------------------------- MODULE MCUpstreamStartup --------------------------
(***************************************************************************)
(* Answers of PostgreSQL: every kind of first frame, and after one that    *)
(* authenticates up to two frames of every kind, or three that end or go   *)
(* on after the burst; each with every truncation.                         *)
(***************************************************************************)
EXTENDS UpstreamStartup

Frame(tag, length, code) == [tag |-> tag, length |-> length, code |-> code]

AuthenticationOk == Frame("R", 8, 0)
Parameter == Frame("S", 6, 0)
Ready == Frame("Z", 5, 0)

\* Refused, unexpected, too short for the length field or negative, too short for
\* the code and for the salt, too long, and methods other than trust.
OtherFirst ==
    {Frame("E", 5, 0), Frame("N", 5, 0), Frame("R", 3, 0), Frame("R", -1, 0), Frame("R", 7, 0),
     Frame("R", 8, 5), Frame("R", 17, 0), Frame("R", 8, 3), Frame("R", 12, 5)}

\* A parameter, ready, an error, and lengths that are too short and too long.
Later ==
    {Parameter, Ready, Frame("E", 5, 0), Frame("S", 3, 0), Frame("S", 19, 0)}

PostgresAnswers ==
    {<<f>> : f \in OtherFirst}
        \cup {<<AuthenticationOk>> \o rest : rest \in UNION {[1 .. n -> Later] : n \in 0 .. 2}}
        \cup {<<AuthenticationOk, Parameter>> \o rest : rest \in [1 .. 2 -> {Parameter, Ready}]}

Params == {{"user", "database", "options"}}
=============================================================================
