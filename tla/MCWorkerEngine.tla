--------------------------- MODULE MCWorkerEngine ---------------------------
(***************************************************************************)
(* The open engine on small instances: every message the engine can be     *)
(* sent, in every order, with lost replies and refused worker requests.    *)
(***************************************************************************)
EXTENDS EngineRefinement, TLC

\* Leases and calls are interchangeable: no definition tells them apart.
Symmetry == Permutations(LeaseIds) \cup Permutations(Requests)
=============================================================================
