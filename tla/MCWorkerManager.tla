--------------------------- MODULE MCWorkerManager --------------------------
(***************************************************************************)
(* The engine with its callers, timers and database workers, on small      *)
(* instances.                                                              *)
(***************************************************************************)
EXTENDS WorkerManager, TLC

\* Sound for the safety runs: no definition tells leases or calls apart.
Symmetry == Permutations(LeaseIds) \cup Permutations(Requests) \cup Permutations(Releases)
=============================================================================
