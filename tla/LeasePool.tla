------------------------------ MODULE LeasePool -----------------------------
(***************************************************************************)
(* What the lease engine promises its callers, without queues, inventory,  *)
(* generations or workers.                                                 *)
(*                                                                         *)
(* A lease is admitted while there is room for its record, and closed once *)
(* and for all.  While it is open it holds at most one database at a time. *)
(* A call is answered at most once: refused, or attached to the database   *)
(* its lease holds at that moment.  A database is given to a lease only if *)
(* no other lease holds it and nobody was ever attached to it.             *)
(***************************************************************************)
EXTENDS Integers, FiniteSets

CONSTANTS LeaseIds, Requests, Databases, NoLease, NoDatabase, MaxLeaseRecords

VARIABLES
    status,     \* lease -> "Unknown", "Open" or "Closed"
    holds,      \* lease -> its database, or NoDatabase
    told        \* call -> what the caller was told

poolvars == <<status, holds, told>>

Pending == [status |-> "Pending", lease |-> NoLease, database |-> NoDatabase]
Refusal == [status |-> "Refused", lease |-> NoLease, database |-> NoDatabase]
Attachment(l, d) == [status |-> "Attached", lease |-> l, database |-> d]

PoolInit ==
    /\ status = [l \in LeaseIds |-> "Unknown"]
    /\ holds = [l \in LeaseIds |-> NoDatabase]
    /\ told = [r \in Requests |-> Pending]

Known == {l \in LeaseIds : status[l] # "Unknown"}

Admissible(l) ==
    status[l] = "Open" \/ (status[l] = "Unknown" /\ Cardinality(Known) < MaxLeaseRecords)

PendingCalls == {r \in Requests : told[r] = Pending}

\* Databases somebody was attached to.
Seen == {told[r].database : r \in {s \in Requests : told[s].status = "Attached"}}

Unused(d) == d \notin Seen /\ \A l \in LeaseIds : holds[l] # d

\* These pending calls get this answer.
Tell(calls, reply) ==
    /\ calls \subseteq PendingCalls
    /\ told' = [r \in Requests |-> IF r \in calls THEN reply ELSE told[r]]

----------------------------------------------------------------------------

\* Calls may always be refused: nothing is promised about supply.
Refuse(calls) ==
    /\ Tell(calls, Refusal)
    /\ UNCHANGED <<status, holds>>

Admit(l, refused) ==
    /\ Admissible(l)
    /\ status' = [status EXCEPT ![l] = "Open"]
    /\ Tell(refused, Refusal)
    /\ UNCHANGED holds

\* A fresh database, with its first caller attached, or with nobody told of it.
Assign(l, d) ==
    /\ Admissible(l)
    /\ holds[l] = NoDatabase
    /\ Unused(d)
    /\ status' = [status EXCEPT ![l] = "Open"]
    /\ holds' = [holds EXCEPT ![l] = d]
    /\ \E r \in Requests : Tell({r}, Attachment(l, d)) \/ Tell({r}, Refusal)

Join(l, r) ==
    /\ status[l] = "Open"
    /\ holds[l] # NoDatabase
    /\ Tell({r}, Attachment(l, holds[l]))
    /\ UNCHANGED <<status, holds>>

\* The assignment expires, or is taken back because nobody was told of it.
Vacate(l) ==
    /\ holds' = [holds EXCEPT ![l] = NoDatabase]
    /\ UNCHANGED <<status, told>>

Close(l, refused) ==
    /\ Admissible(l)
    /\ status' = [status EXCEPT ![l] = "Closed"]
    /\ holds' = [holds EXCEPT ![l] = NoDatabase]
    /\ Tell(refused, Refusal)

PoolNext ==
    \/ \E calls \in SUBSET Requests : Refuse(calls)
    \/ \E l \in LeaseIds :
        \/ \E refused \in SUBSET Requests : Admit(l, refused) \/ Close(l, refused)
        \/ \E d \in Databases : Assign(l, d)
        \/ \E r \in Requests : Join(l, r)
        \/ Vacate(l)

PoolSpec == PoolInit /\ [][PoolNext]_poolvars
=============================================================================
