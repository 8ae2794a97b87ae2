---------------------------- MODULE MCConnection ----------------------------
(***************************************************************************)
(* Client connections with the manager behind them, on small instances.    *)
(***************************************************************************)
EXTENDS Connection, TLC

\* Sound for the safety run: no definition tells leases or connections apart.
Symmetry == Permutations(LeaseIds) \cup Permutations(Requests)
=============================================================================
