-------------------------- MODULE EngineRefinement --------------------------
(***************************************************************************)
(* The lease engine implements LeasePool: what its records, its lease      *)
(* entries and its replies show of themselves to callers.                  *)
(***************************************************************************)
EXTENDS WorkerEngine

PoolStatus == [l \in LeaseIds |-> IF lease_records[l] = "None" THEN "Unknown" ELSE lease_records[l]]

PoolHolds == [l \in LeaseIds |-> leases[l].database]

\* A call that waits was told nothing; one whose answer could not be
\* delivered, or was dropped, is as good as refused.
PoolTold ==
    [r \in Requests |->
        [status |-> CASE answer[r].status \in {"Fresh", "Waiting"} -> "Pending"
                      [] answer[r].status = "Attached" -> "Attached"
                      [] OTHER -> "Refused",
         lease |-> IF answer[r].status = "Attached" THEN answer[r].lease ELSE NoLease,
         database |-> answer[r].database]]

Pool == INSTANCE LeasePool WITH
            Databases <- 1 .. MaxDatabaseId, NoDatabase <- 0,
            status <- PoolStatus, holds <- PoolHolds, told <- PoolTold

\* Every behaviour of the engine, with every message in every order, is one of
\* the pool: a step of the engine is a step of the pool or invisible to callers.
\* A closed lease stays closed and is given nothing, the records never outgrow
\* their limit, an answer is final, and a database somebody was attached to is
\* never given to another lease or to the same lease again.
ImplementsLeasePool == Pool!PoolSpec
=============================================================================
