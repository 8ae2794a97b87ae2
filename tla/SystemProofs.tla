---------------------------- MODULE SystemProofs ----------------------------
(***************************************************************************)
(* The engine inside the program: with the callers, timers and database    *)
(* workers that really send its messages, the system behaves as the engine *)
(* is specified, and keeps PostgreSQL, the calls and the shutdown in step. *)
(***************************************************************************)
EXTENDS WorkerManager, WorkerEngineProofs

\* The inventory's operations are expanded wherever they occur.
USE DEF Reservation, Settled, Supplied, ReturnReady, Retired, CompleteCleanup

----------------------------------------------------------------------------
\* The strengthening.

SystemTypeOK ==
    /\ call \in [Requests -> {"Idle", "Waiting", "Elapsed", "Holding", "Done"}]
    /\ release \in [Releases -> [lease : LeaseIds \cup {NoLease},
                                 status : {"Idle", "Waiting", "ReplyOk", "ReplyLimit",
                                           "Ok", "Limit", "TimedOut"}]]
    /\ phase \in {"Running", "Stopping", "Drained", "Stopped"}

\* The messages that can be under way: what they name was issued before.
IssuedMessages ==
    [type : {"AttachOrJoin"}, lease : LeaseIds, call : Requests]
        \cup [type : {"ReleaseLease"}, lease : LeaseIds, call : Releases]
        \cup [type : {"Detach", "LeaseMaxTimeReached"}, lease : LeaseIds,
              generation : 1 .. next_generation]
        \cup [type : {"CreationFinished", "CleanupFinished"}, database : 1 .. next_database_id,
              ok : BOOLEAN]
        \cup [type : {"Shutdown"}]

\* Nothing in a channel, a timer or a job is about something not yet issued.
OnlyIssued ==
    /\ inbox \in Seq(IssuedMessages)
    /\ timers \subseteq [lease : LeaseIds, generation : 1 .. next_generation]
    /\ creations \cup cleanups \cup pg \subseteq 1 .. next_database_id

\* A session is held only of a reply that was delivered.
HoldersAttached == \A r \in Requests : call[r] = "Holding" => r \in AttachedCalls

UnderWay(type, d, ok) == [type |-> type, database |-> d, ok |-> ok] \in Elements(inbox)

Unused == creating \cup Elements(ready) \cup LeasedDatabases

\* What jobs and their reports say of PostgreSQL.  A creation is reported once
\* its job is over, and says truly whether the database exists, lost
\* acknowledgements apart; what is being dropped, or was, is not in use.
JobsMatchPostgres ==
    /\ creations \subseteq creating
    /\ creations \cap pg = {}
    /\ cleanups \cap Unused = {}
    /\ \A d \in 1 .. next_database_id :
        /\ \A ok \in BOOLEAN : UnderWay("CreationFinished", d, ok) => d \notin creations
        /\ UnderWay("CreationFinished", d, TRUE) /\ d \in creating => d \in pg
        /\ UnderWay("CreationFinished", d, FALSE) /\ d \in creating /\ d \in pg => d \in orphans
        /\ UnderWay("CleanupFinished", d, TRUE) => d \notin pg /\ d \notin Unused

\* A creation is reported once.
ReportedOnce ==
    \A i, j \in InboxPositions("CreationFinished") :
        inbox[i].database = inbox[j].database => i = j

\* The workers stay while the server runs, and everything tracked is over
\* before the engine is told to stop.
ShutdownInOrder ==
    /\ phase = "Running" => "creation" \in workers
    /\ phase \in {"Drained", "Stopped"} => creations \cup cleanups = {} /\ workers = {}
    /\ phase = "Stopped" => pc = "stopped"
    /\ pc = "stopped" => cancelled = 1 .. next_generation

\* A release under way is the one its caller waits for, and a confirmed one has
\* closed its lease.
ReleasesClose ==
    /\ \A m \in Elements(inbox) : m.type = "ReleaseLease" =>
            release[m.call].lease = m.lease /\ release[m.call].status # "Idle"
    /\ \A x \in Releases : release[x].status \in {"ReplyOk", "Ok"} =>
            release[x].lease \in LeaseIds /\ lease_records[release[x].lease] = "Closed"

\* A call is answered only after it was made, and one made after its lease was
\* closed is never queued or attached.
LateCallsRefused ==
    /\ \A r \in Requests : call[r] = "Idle" => answer[r].status = "Fresh" /\ r \notin late
    /\ \A m \in Elements(inbox) : m.type = "AttachOrJoin" =>
            /\ call[m.call] # "Idle"
            /\ m.call \in late => lease_records[m.lease] = "Closed"
    /\ \A r \in Requests \cap late : answer[r].status \notin {"Attached", "Waiting"}

----------------------------------------------------------------------------
\* The system behaves as the engine is specified.

\* Generations and database identities are only ever issued.
LEMMA CountersGrow ==
    ASSUME TypeOK, TypeOK', [Next]_vars
    PROVE  next_generation <= next_generation' /\ next_database_id <= next_database_id'
<1>1. next_generation \in Nat /\ next_database_id \in Nat
    BY WidthAssumption DEF TypeOK
<1>2. ready' \in Seq(Nat)
    BY DEF TypeOK
<1>3. \A accepted \in BOOLEAN : Grow(creating, accepted) => next_database_id <= next_database_id'
    <2> SUFFICES ASSUME NEW CONSTANT accepted \in BOOLEAN, Grow(creating, accepted)
                 PROVE  next_database_id <= next_database_id'
        OBVIOUS
    <2> QED  BY <1>2, GrowReserves DEF OnlyNewReservations
<1>4. ASSUME NEW l \in LeaseIds, NEW r \in Requests, NEW delivered \in BOOLEAN,
             NEW accepted \in BOOLEAN, AttachOrJoin(l, r, delivered, accepted)
      PROVE  next_generation <= next_generation' /\ next_database_id <= next_database_id'
    <2>1. CASE AttachReject(l, r) \/ AttachJoin(l, r, delivered)
        BY <1>1, <2>1 DEF AttachReject, AttachJoin, inventory
    <2>2. CASE AttachQueue(l, r, accepted)
        BY <1>1, <1>3, <2>2 DEF AttachQueue
    <2>3. CASE AttachAssign(l, r, accepted)
        BY <1>1, <1>3, <2>3 DEF AttachAssign
    <2>4. CASE AttachUnclaimed(l, r)
        BY <1>1, <2>4 DEF AttachUnclaimed
    <2> QED  BY <1>4, <2>1, <2>2, <2>3, <2>4 DEF AttachOrJoin
<1>5. ASSUME NEW l \in LeaseIds, NEW accepted \in BOOLEAN, ReleaseLease(l, accepted)
      PROVE  next_generation <= next_generation' /\ next_database_id <= next_database_id'
    BY <1>1, <1>3, <1>5 DEF ReleaseLease, ReleaseNothing, ReleaseOpen, RetireLease, vars, inventory
<1>6. ASSUME NEW l \in LeaseIds, NEW g, NEW accepted \in BOOLEAN,
             LeaseMaxTimeReached(l, g, accepted)
      PROVE  next_generation <= next_generation' /\ next_database_id <= next_database_id'
    BY <1>1, <1>3, <1>6 DEF LeaseMaxTimeReached, RetireLease
<1>7. CASE \E accepted \in BOOLEAN : DispatchExit(accepted)
    BY <1>1, <1>3, <1>7 DEF DispatchExit
<1>8. CASE DispatchPop \/ ServeOverdue \/ ServeDone \/ \E delivered \in BOOLEAN : ServeReply(delivered)
    BY <1>1, <1>8 DEF DispatchPop, ServeOverdue, ServeDone, ServeReply, inventory
<1>9. CASE \/ \E l \in LeaseIds, g \in 1 .. next_generation : Detach(l, g)
           \/ \E d \in 1 .. next_database_id, ok \in BOOLEAN : CreationFinished(d, ok)
           \/ \E d \in 1 .. next_database_id, ok \in BOOLEAN : CleanupFinished(d, ok)
           \/ Shutdown
           \/ \E r \in Requests : BecomeOverdue(r)
           \/ UNCHANGED vars
    BY <1>1, <1>9 DEF Detach, CreationFinished, CleanupFinished, Shutdown, BecomeOverdue, vars,
                      inventory
<1> QED  BY <1>4, <1>5, <1>6, <1>7, <1>8, <1>9 DEF Next

\* Whether something is a member is one of the two truth values a message
\* handler can be told.
LEMMA TruthValue ==
    ASSUME NEW S, NEW e
    PROVE  \E b \in BOOLEAN : b = (e \in S)
<1>1. CASE e \in S
    <2>1. TRUE = (e \in S) /\ TRUE \in BOOLEAN
        BY <1>1
    <2> QED  BY <2>1, Zenon
<1>2. CASE e \notin S
    <2>1. FALSE = (e \in S) /\ FALSE \in BOOLEAN
        BY <1>2
    <2> QED  BY <2>1, Zenon
<1> QED  BY <1>1, <1>2

LEMMA HeadIsElement ==
    ASSUME NEW S, NEW s \in Seq(S), s # <<>>
    PROVE  Head(s) \in S /\ Head(s) \in Elements(s)
<1>1. 1 \in DOMAIN s /\ Head(s) = s[1] /\ Head(s) \in S
    BY EmptySeq, LenProperties, HeadTailProperties
<1> QED  BY <1>1 DEF Elements

\* The head of the inbox is a message that was sent.
LEMMA ReceivedIsIssued ==
    ASSUME OnlyIssued, inbox # <<>>
    PROVE  Head(inbox) \in IssuedMessages /\ Head(inbox) \in Elements(inbox)
BY HeadIsElement DEF OnlyIssued

\* The engine's steps but for the results of the database workers.
ServesCalls ==
    \/ \E l \in LeaseIds, r \in Requests, delivered, accepted \in BOOLEAN :
            AttachOrJoin(l, r, delivered, accepted)
    \/ DispatchPop
    \/ ServeOverdue
    \/ \E delivered \in BOOLEAN : ServeReply(delivered)
    \/ ServeDone
    \/ \E accepted \in BOOLEAN : DispatchExit(accepted)
    \/ \E l \in LeaseIds, accepted \in BOOLEAN : ReleaseLease(l, accepted)
    \/ \E l \in LeaseIds, g \in 1 .. next_generation : Detach(l, g)
    \/ \E l \in LeaseIds, g \in 1 .. next_generation, accepted \in BOOLEAN :
            LeaseMaxTimeReached(l, g, accepted)
    \/ Shutdown
    \/ \E r \in Requests : BecomeOverdue(r)

\* Every step of the engine task is one the engine's specification allows: what
\* its messages name was issued.
LEMMA EngineStepIsNext ==
    ASSUME TypeOK, OnlyIssued, EngineStep
    PROVE  /\ Next
           /\ ServesCalls \/ HandleCreationFinished \/ HandleCleanupFinished
<1> DEFINE m == Head(inbox)
<1>1. PICK accepted \in BOOLEAN : accepted = CreationAccepted
    BY TruthValue DEF CreationAccepted
<1>2. CASE HandleAttachOrJoin
    <2>1. m \in IssuedMessages /\ m.type = "AttachOrJoin"
        BY <1>2, ReceivedIsIssued DEF HandleAttachOrJoin, Receive
    <2>2. m.lease \in LeaseIds /\ m.call \in Requests
        BY <2>1 DEF IssuedMessages
    <2>3. PICK delivered \in BOOLEAN : delivered = ReceiverOpen(m.call)
        BY TruthValue DEF ReceiverOpen
    <2>4. AttachOrJoin(m.lease, m.call, delivered, accepted)
        BY <1>1, <1>2, <2>3 DEF HandleAttachOrJoin
    <2> QED  BY <2>2, <2>4 DEF Next, ServesCalls
<1>3. CASE HandleReleaseLease
    <2>1. m \in IssuedMessages /\ m.type = "ReleaseLease"
        BY <1>3, ReceivedIsIssued DEF HandleReleaseLease, Receive
    <2>2. m.lease \in LeaseIds
        BY <2>1 DEF IssuedMessages
    <2>3. ReleaseLease(m.lease, accepted)
        BY <1>1, <1>3 DEF HandleReleaseLease
    <2> QED  BY <2>2, <2>3 DEF Next, ServesCalls
<1>4. CASE HandleDetach
    <2>1. m \in IssuedMessages /\ m.type = "Detach"
        BY <1>4, ReceivedIsIssued DEF HandleDetach, Receive
    <2>2. m.lease \in LeaseIds /\ m.generation \in 1 .. next_generation
        BY <2>1 DEF IssuedMessages
    <2> QED  BY <1>4, <2>2 DEF Next, ServesCalls, HandleDetach
<1>5. CASE HandleLeaseMaxTimeReached
    <2>1. m \in IssuedMessages /\ m.type = "LeaseMaxTimeReached"
        BY <1>5, ReceivedIsIssued DEF HandleLeaseMaxTimeReached, Receive
    <2>2. m.lease \in LeaseIds /\ m.generation \in 1 .. next_generation
        BY <2>1 DEF IssuedMessages
    <2>3. LeaseMaxTimeReached(m.lease, m.generation, accepted)
        BY <1>1, <1>5 DEF HandleLeaseMaxTimeReached
    <2> QED  BY <2>2, <2>3 DEF Next, ServesCalls
<1>6. CASE HandleCreationFinished
    <2>1. m \in IssuedMessages /\ m.type = "CreationFinished"
        BY <1>6, ReceivedIsIssued DEF HandleCreationFinished, Receive
    <2>2. m.database \in 1 .. next_database_id /\ m.ok \in BOOLEAN
        BY <2>1 DEF IssuedMessages
    <2> QED  BY <1>6, <2>2 DEF Next, HandleCreationFinished
<1>7. CASE HandleCleanupFinished
    <2>1. m \in IssuedMessages /\ m.type = "CleanupFinished"
        BY <1>7, ReceivedIsIssued DEF HandleCleanupFinished, Receive
    <2>2. m.database \in 1 .. next_database_id /\ m.ok \in BOOLEAN
        BY <2>1 DEF IssuedMessages
    <2> QED  BY <1>7, <2>2 DEF Next, HandleCleanupFinished
<1>8. CASE HandleShutdown
    BY <1>8 DEF Next, ServesCalls, HandleShutdown
<1>9. CASE DispatchWaiters
    <2>1. CASE ServeReply(ReceiverOpen(Head(replies)))
        <3>1. PICK delivered \in BOOLEAN : delivered = ReceiverOpen(Head(replies))
            BY TruthValue DEF ReceiverOpen
        <3>2. ServeReply(delivered)
            BY <2>1, <3>1
        <3> QED  BY <3>2 DEF Next, ServesCalls
    <2>2. CASE DispatchExit(CreationAccepted)
        <3>1. DispatchExit(accepted)
            BY <1>1, <2>2
        <3> QED  BY <3>1 DEF Next, ServesCalls
    <2> QED  BY <1>9, <2>1, <2>2 DEF DispatchWaiters, Next, ServesCalls
<1> QED  BY <1>2, <1>3, <1>4, <1>5, <1>6, <1>7, <1>8, <1>9 DEF EngineStep

\* Everything else in the program leaves the engine alone, but for the time
\* that passes for a call.
LEMMA SystemStepIsNext ==
    ASSUME TypeOK, OnlyIssued, [SystemNext]_allvars
    PROVE  [Next]_vars
<1>1. CASE EngineStep
    BY <1>1, EngineStepIsNext
<1>2. CASE CallerStep
    <2>1. ASSUME NEW r \in Requests, CallBecomesOverdue(r)
          PROVE  Next
        BY <2>1 DEF CallBecomesOverdue, Next
    <2> QED  BY <1>2, <2>1 DEF CallerStep, AttachSend, AttachReturn, AttachElapsed, AttachTimedOut,
                AttachAborted, DropReceiver, SessionDrop, ReleaseSend, ReleaseReturn, ReleaseTimedOut
<1>3. CASE TaskStep
    BY <1>3 DEF TaskStep, TimerFires, TimerCancelled, DatabaseCreated, CreationFailed,
                CreationInterrupted, DatabaseDropped, CleanupFailed, CleanupInterrupted
<1>4. CASE ShutdownStep
    BY <1>4 DEF ShutdownStep, BeginShutdown, WorkerExits, SendShutdown, JoinEngine
<1>5. CASE UNCHANGED allvars
    BY <1>5 DEF allvars
<1> QED  BY <1>1, <1>2, <1>3, <1>4, <1>5 DEF SystemNext

----------------------------------------------------------------------------
\* What the engine never takes back.

EngineInv ==
    TypeOK /\ ServeOK /\ Inv /\ QueueInv /\ NoLostCall /\ TokenInv /\ RecordsFit

LEMMA EngineInvStep == EngineInv /\ [Next]_vars => EngineInv'
<1> SUFFICES ASSUME EngineInv, [Next]_vars PROVE EngineInv'
    OBVIOUS
<1>1. TypeOK' /\ ServeOK'
    BY TypeStep DEF EngineInv
<1>2. Inv'
    BY <1>1, InvStep DEF EngineInv
<1>3. GenerationsIdentify
    BY DEF EngineInv, Inv, AssignmentsTraced
<1>4. QueueInv' /\ NoLostCall' /\ TokenInv' /\ RecordsFit'
    BY <1>1, <1>3, QueueStep, CallsStep, TokenStep, RecordsStep DEF EngineInv
<1> QED  BY <1>1, <1>2, <1>4 DEF EngineInv

\* A call that was answered keeps its answer, and one that was not received yet
\* is only answered by the handler of its own message.
LEMMA AnswersAreFinal ==
    ASSUME EngineInv, [Next]_vars, NEW r \in Requests
    PROVE  /\ answer[r].status \notin {"Fresh", "Waiting"} => answer'[r] = answer[r]
           /\ answer[r].status = "Fresh" =>
                \/ answer'[r] = answer[r]
                \/ \E l \in LeaseIds, delivered, accepted \in BOOLEAN :
                        AttachOrJoin(l, r, delivered, accepted)
<1> USE DEF inventory, dispatch
<1> DEFINE Goal == /\ answer[r].status \notin {"Fresh", "Waiting"} => answer'[r] = answer[r]
                   /\ answer[r].status = "Fresh" =>
                        \/ answer'[r] = answer[r]
                        \/ \E l \in LeaseIds, delivered, accepted \in BOOLEAN :
                                AttachOrJoin(l, r, delivered, accepted)
<1>0. TypeOK /\ NoLostCall /\ answer \in [Requests -> Answers]
    BY DEF EngineInv, TypeOK
<1>A. ASSUME answer'[r] = answer[r] PROVE Goal
    BY <1>A
<1>1. ASSUME NEW l \in LeaseIds, NEW q \in Requests, NEW delivered \in BOOLEAN,
             NEW accepted \in BOOLEAN, AttachOrJoin(l, q, delivered, accepted)
      PROVE  Goal
    <2>1. answer[q].status = "Fresh"
        BY <1>1 DEF AttachOrJoin, NotAsked
    <2>2. CASE q = r
        BY <1>1, <2>1, <2>2
    <2>3. CASE q # r
        <3>1. answer'[r] = answer[r]
            BY <1>0, <1>1, <2>3 DEF AttachOrJoin, AttachReject, AttachJoin, AttachQueue,
                AttachAssign, AttachUnclaimed, Answered, ReplyAttached
        <3> QED  BY <1>A, <3>1
    <2> QED  BY <2>2, <2>3
<1>2. CASE ServeOverdue \/ \E delivered \in BOOLEAN : ServeReply(delivered)
    <2>1. replies \in Seq(Requests) /\ replies # <<>>
        BY <1>0, <1>2 DEF TypeOK, ServeOverdue, ServeReply
    <2>2. Head(replies) \in Requests /\ Head(replies) \in Elements(replies)
        BY <2>1, HeadIsElement
    <2>3. answer[Head(replies)].status = "Waiting"
        BY <1>0, <2>2 DEF NoLostCall
    <2>4. r # Head(replies) => answer'[r] = answer[r]
        BY <1>0, <1>2 DEF ServeOverdue, ServeReply, Answered, ReplyAttached
    <2> QED  BY <1>A, <2>3, <2>4
<1>3. ASSUME NEW l \in LeaseIds, NEW accepted \in BOOLEAN, ReleaseLease(l, accepted)
      PROVE  Goal
    <2>1. CASE ReleaseNothing(l)
        BY <1>A, <2>1 DEF ReleaseNothing, vars
    <2>2. CASE ReleaseOpen(l, accepted)
        <3>1. r \in Elements(group_waiters[l]) => answer[r].status = "Waiting"
            BY <1>0 DEF NoLostCall
        <3>2. r \notin Elements(group_waiters[l]) => answer'[r] = answer[r]
            BY <2>2 DEF ReleaseOpen, Rejected
        <3> QED  BY <1>A, <3>1, <3>2
    <2> QED  BY <1>3, <2>1, <2>2 DEF ReleaseLease
<1>4. CASE DispatchPop
    <2>1. answer' = answer
        BY <1>4, PopEffect DEF EngineInv, QueueInv
    <2> QED  BY <1>A, <2>1
<1>5. CASE \/ ServeDone \/ Shutdown \/ UNCHANGED vars
           \/ \E accepted \in BOOLEAN : DispatchExit(accepted)
           \/ \E l \in LeaseIds, g \in 1 .. next_generation : Detach(l, g)
           \/ \E l \in LeaseIds, g \in 1 .. next_generation, accepted \in BOOLEAN :
                LeaseMaxTimeReached(l, g, accepted)
           \/ \E d \in 1 .. next_database_id, ok \in BOOLEAN :
                CreationFinished(d, ok) \/ CleanupFinished(d, ok)
           \/ \E q \in Requests : BecomeOverdue(q)
    BY <1>5, <1>A DEF ServeDone, Shutdown, vars, DispatchExit, Detach, LeaseMaxTimeReached,
        CreationFinished, CleanupFinished, BecomeOverdue
<1> QED  BY <1>1, <1>2, <1>3, <1>4, <1>5 DEF Next

\* A closed lease stays closed, a record stays, a cancelled token stays so.
LEMMA ClosedIsForever ==
    ASSUME EngineInv, [Next]_vars
    PROVE  /\ \A l \in LeaseIds : lease_records[l] = "Closed" => lease_records'[l] = "Closed"
           /\ Records \subseteq Records'
           /\ cancelled \subseteq cancelled'
<1> USE DEF inventory, dispatch
<1>0. /\ lease_records \in [LeaseIds -> {"None", "Open", "Closed"}]
      /\ next_generation \in Nat /\ cancelled \subseteq 1 .. next_generation
    BY DEF EngineInv, TypeOK, TokenInv, TokensIssued
<1>1. ASSUME NEW l \in LeaseIds,
             \/ lease_records' = Admitted(l)
             \/ Admission(l) = "Open" /\ lease_records' = [lease_records EXCEPT ![l] = "Closed"]
      PROVE  /\ \A k \in LeaseIds : lease_records[k] = "Closed" => lease_records'[k] = "Closed"
             /\ Records \subseteq Records'
    BY <1>0, <1>1 DEF Admitted, Admission, Records
<1>2. ASSUME NEW l \in LeaseIds, NEW q \in Requests, NEW delivered \in BOOLEAN,
             NEW accepted \in BOOLEAN, AttachOrJoin(l, q, delivered, accepted)
      PROVE  /\ lease_records' = lease_records \/ lease_records' = Admitted(l)
             /\ cancelled \subseteq cancelled'
    BY <1>2 DEF AttachOrJoin, AttachReject, AttachJoin, AttachQueue, AttachAssign, AttachUnclaimed
<1>3. ASSUME NEW l \in LeaseIds, NEW accepted \in BOOLEAN, ReleaseLease(l, accepted)
      PROVE  /\ \/ lease_records' = lease_records
                \/ Admission(l) = "Open" /\ lease_records' = [lease_records EXCEPT ![l] = "Closed"]
             /\ cancelled \subseteq cancelled'
    BY <1>3 DEF ReleaseLease, ReleaseNothing, ReleaseOpen, RetireLease, vars
<1>4. CASE UNCHANGED lease_records /\ cancelled \subseteq cancelled'
    BY <1>4 DEF Records
<1>5. CASE Shutdown
    BY <1>0, <1>4, <1>5 DEF Shutdown
<1>6. CASE \/ DispatchPop \/ ServeOverdue \/ ServeDone \/ UNCHANGED vars
           \/ \E delivered \in BOOLEAN : ServeReply(delivered)
           \/ \E accepted \in BOOLEAN : DispatchExit(accepted)
           \/ \E l \in LeaseIds, g \in 1 .. next_generation : Detach(l, g)
           \/ \E l \in LeaseIds, g \in 1 .. next_generation, accepted \in BOOLEAN :
                LeaseMaxTimeReached(l, g, accepted)
           \/ \E d \in 1 .. next_database_id, ok \in BOOLEAN :
                CreationFinished(d, ok) \/ CleanupFinished(d, ok)
           \/ \E q \in Requests : BecomeOverdue(q)
    BY <1>4, <1>6 DEF DispatchPop, ServeOverdue, ServeDone, vars, ServeReply, DispatchExit, Detach,
        LeaseMaxTimeReached, RetireLease, CreationFinished, CleanupFinished, BecomeOverdue
<1> QED  BY <1>1, <1>2, <1>3, <1>4, <1>5, <1>6 DEF Next

----------------------------------------------------------------------------
\* What a step of the engine makes of the databases it knows.

\* The entry of one lease changes.
LEMMA LeasedAfter ==
    ASSUME leases \in [LeaseIds -> Entries], leases' \in [LeaseIds -> Entries],
           NEW STATE l, l \in LeaseIds,
           \A k \in LeaseIds \ {l} : leases'[k] = leases[k]
    PROVE  \A d : /\ d \in LeasedDatabases' =>
                        \/ d \in LeasedDatabases
                        \/ leases'[l].generation # 0 /\ d = leases'[l].database
                  /\ d \in LeasedDatabases =>
                        \/ d \in LeasedDatabases'
                        \/ Leased(l) /\ d = leases[l].database
                  /\ leases'[l].generation # 0 => leases'[l].database \in LeasedDatabases'
                  /\ leases[l].generation # 0 => leases[l].database \in LeasedDatabases
<1>1. \A d : d \in LeasedDatabases <=>
                \E k \in LeaseIds : leases[k].generation # 0 /\ d = leases[k].database
    BY DEF LeasedDatabases, Leased
<1>2. \A d : d \in LeasedDatabases' <=>
                \E k \in LeaseIds : leases'[k].generation # 0 /\ d = leases'[k].database
    BY DEF LeasedDatabases, Leased
<1> QED  BY <1>1, <1>2 DEF Leased

LEMMA SameLeased ==
    ASSUME \A k \in LeaseIds : /\ leases'[k].database = leases[k].database
                               /\ leases'[k].generation = leases[k].generation
    PROVE  LeasedDatabases' = LeasedDatabases
BY DEF LeasedDatabases, Leased

\* Databases that are or will be handed out, and those that are to be dropped.
Usable == Elements(ready) \cup LeasedDatabases

KeepsInventory ==
    /\ Usable' \subseteq Usable
    /\ Usable \cup retiring \subseteq Usable' \cup retiring'
    /\ retiring' \subseteq retiring \cup LeasedDatabases
    /\ creating \subseteq creating'
    /\ OnlyNewReservations

LEMMA GrowKeeps ==
    ASSUME TypeOK, ready' \in Seq(Nat), NEW CONSTANT accepted, Grow(creating, accepted)
    PROVE  creating \subseteq creating' /\ OnlyNewReservations
<1>1. creating \subseteq creating'
    BY DEF Grow
<1> QED  BY <1>1, GrowReserves

\* A database that is leased or handed back is one the engine had; one that is
\* retired was leased.
LEMMA InventoryStep ==
    ASSUME EngineInv, TypeOK', ServesCalls
    PROVE  KeepsInventory
<1> USE DEF inventory, dispatch
<1>0. /\ TypeOK /\ ServeOK /\ Distinct(ready) /\ ready \in Seq(Nat) /\ ready' \in Seq(Nat)
      /\ leases \in [LeaseIds -> Entries] /\ leases' \in [LeaseIds -> Entries]
      /\ NoEntry.generation = 0
    BY DEF EngineInv, TypeOK, Inv, OnePlacePerDatabase, NoEntry
<1>A. ASSUME UNCHANGED <<next_database_id, creating>>
      PROVE  creating \subseteq creating' /\ OnlyNewReservations
    BY <1>0, <1>A, KeepReserves
\* Steps that move no database.
<1>B. ASSUME UNCHANGED <<leases, ready, retiring>>, creating \subseteq creating', OnlyNewReservations
      PROVE  KeepsInventory
    BY <1>B DEF KeepsInventory, Usable, LeasedDatabases, Leased
\* A call joins a lease that has a database.
<1>C. ASSUME NEW STATE l, l \in LeaseIds, NEW STATE r, r \in Requests, NEW delivered \in BOOLEAN,
             Leased(l), ReplyAttached(r, l, leases[l], delivered), UNCHANGED inventory
      PROVE  KeepsInventory
    <2>1. leases[l] \in Entries
        BY <1>0, <1>C
    <2>2. /\ \A k \in LeaseIds \ {l} : leases'[k] = leases[k]
          /\ leases'[l].database = leases[l].database
          /\ leases'[l].generation = leases[l].generation
        BY <1>0, <1>C, <2>1, ReplyEffect
    <2>3. \A k \in LeaseIds : /\ leases'[k].database = leases[k].database
                               /\ leases'[k].generation = leases[k].generation
        BY <2>2
    <2>4. LeasedDatabases' = LeasedDatabases
        BY <2>3, SameLeased
    <2> QED  BY <1>A, <1>C, <2>4 DEF KeepsInventory, Usable
\* A lease takes the head of the supply.
<1>D. ASSUME NEW STATE l, l \in LeaseIds, NEW STATE r, r \in Requests, NEW delivered \in BOOLEAN,
             ~Leased(l), ready # <<>>, ReplyAttached(r, l, NewEntry, delivered),
             ready' = Tail(ready), UNCHANGED retiring, creating \subseteq creating',
             OnlyNewReservations
      PROVE  KeepsInventory
    <2>1. NewEntry \in Entries /\ NewEntry.database = Head(ready) /\ NewEntry.generation # 0
        BY <1>0, <1>D, NewEntryType, SMTT(30) DEF NewEntry, TypeOK
    <2>2. /\ \A k \in LeaseIds \ {l} : leases'[k] = leases[k]
          /\ leases'[l].database = Head(ready)
          /\ leases'[l].generation # 0
        BY <1>0, <1>D, <2>1, ReplyEffect
    <2>3. Elements(ready') = Elements(ready) \ {Head(ready)} /\ Head(ready) \in Elements(ready)
        BY <1>0, <1>D, TailElements, HeadIsElement
    <2>4. /\ LeasedDatabases' \subseteq LeasedDatabases \cup {Head(ready)}
          /\ LeasedDatabases \subseteq LeasedDatabases'
          /\ Head(ready) \in LeasedDatabases'
        BY <1>0, <1>D, <2>2, LeasedAfter
    <2> QED  BY <1>D, <2>3, <2>4 DEF KeepsInventory, Usable
\* A lease gives its database up.
<1>E. ASSUME NEW STATE l, l \in LeaseIds, Leased(l), leases' = [leases EXCEPT ![l] = NoEntry]
      PROVE  /\ LeasedDatabases' \subseteq LeasedDatabases
             /\ LeasedDatabases \subseteq LeasedDatabases' \cup {leases[l].database}
             /\ leases[l].database \in LeasedDatabases
    <2>1. (\A k \in LeaseIds \ {l} : leases'[k] = leases[k]) /\ leases'[l].generation = 0
        BY <1>0, <1>E
    <2> QED  BY <1>0, <1>E, <2>1, LeasedAfter DEF Leased
<1>F. ASSUME NEW l \in LeaseIds, NEW accepted \in BOOLEAN, RetireLease(l, accepted), UNCHANGED ready
      PROVE  KeepsInventory
    <2>1. CASE Leased(l)
        <3>1. creating \subseteq creating' /\ OnlyNewReservations
            BY <1>0, <1>F, <2>1, GrowKeeps DEF RetireLease
        <3>2. leases' = [leases EXCEPT ![l] = NoEntry] /\ retiring' = retiring \cup {leases[l].database}
            BY <1>F, <2>1 DEF RetireLease
        <3> QED  BY <1>E, <1>F, <2>1, <3>1, <3>2 DEF KeepsInventory, Usable
    <2>2. CASE ~Leased(l)
        BY <1>A, <1>B, <1>F, <2>2 DEF RetireLease
    <2> QED  BY <2>1, <2>2
<1>1. ASSUME NEW l \in LeaseIds, NEW r \in Requests, NEW delivered \in BOOLEAN,
             NEW accepted \in BOOLEAN, AttachOrJoin(l, r, delivered, accepted)
      PROVE  KeepsInventory
    <2>1. CASE AttachReject(l, r)
        BY <1>A, <1>B, <2>1 DEF AttachReject
    <2>2. CASE AttachJoin(l, r, delivered)
        BY <1>C, <2>2 DEF AttachJoin
    <2>3. CASE AttachQueue(l, r, accepted)
        BY <1>0, <1>B, <2>3, GrowKeeps DEF AttachQueue
    <2>4. CASE delivered /\ AttachAssign(l, r, accepted)
        <3>1. PICK b \in BOOLEAN : ReplyAttached(r, l, NewEntry, b)
            BY <2>4 DEF AttachAssign
        <3>2. creating \subseteq creating' /\ OnlyNewReservations
            BY <1>0, <2>4, GrowKeeps DEF AttachAssign
        <3> QED  BY <1>D, <2>4, <3>1, <3>2 DEF AttachAssign
    <2>5. CASE AttachUnclaimed(l, r)
        <3>1. ready' = <<Head(ready)>> \o Tail(ready) /\ ready # <<>>
            BY <2>5 DEF AttachUnclaimed, NewEntry
        <3>2. ready' = ready
            BY <1>0, <3>1, HeadTailProperties, ConcatProperties
        <3> QED  BY <1>A, <1>B, <2>5, <3>2 DEF AttachUnclaimed
    <2> QED  BY <1>1, <2>1, <2>2, <2>3, <2>4, <2>5 DEF AttachOrJoin
<1>2. CASE DispatchPop \/ ServeOverdue \/ Shutdown \/ \E r \in Requests : BecomeOverdue(r)
    BY <1>A, <1>B, <1>2 DEF DispatchPop, ServeOverdue, Shutdown, BecomeOverdue
<1>3. ASSUME NEW delivered \in BOOLEAN, ServeReply(delivered)
      PROVE  KeepsInventory
    <2>1. /\ serving \in LeaseIds /\ Head(replies) \in Requests
          /\ Leased(serving) \/ ready # <<>>
        BY <1>0, <1>3, HeadIsElement DEF ServeReply, ServeOK, TypeOK
    <2>2. CASE Leased(serving)
        BY <1>C, <1>3, <2>1, <2>2 DEF ServeReply
    <2>3. CASE ~Leased(serving)
        BY <1>A, <1>D, <1>3, <2>1, <2>3 DEF ServeReply
    <2> QED  BY <2>2, <2>3
<1>4. CASE ServeDone
    <2>1. CASE ~already_assigned /\ Unclaimed(serving)
        <3>1. /\ serving \in LeaseIds /\ Leased(serving)
              /\ leases' = [leases EXCEPT ![serving] = NoEntry]
              /\ ready' = <<leases[serving].database>> \o ready
              /\ UNCHANGED <<next_database_id, creating, retiring>>
            BY <1>0, <1>4, <2>1 DEF ServeDone, Unclaimed, ServeOK
        <3>2. leases[serving].database \in Nat /\ leases[serving].database \notin Elements(ready)
            BY <1>0, <3>1 DEF Entries, EngineInv, Inv, OnePlacePerDatabase
        <3>3. Elements(ready') = Elements(ready) \cup {leases[serving].database}
            BY <1>0, <3>1, <3>2, ConsElements
        <3> QED  BY <1>A, <1>E, <3>1, <3>3 DEF KeepsInventory, Usable
    <2>2. CASE ~(~already_assigned /\ Unclaimed(serving))
        BY <1>A, <1>B, <1>4, <2>2 DEF ServeDone
    <2> QED  BY <2>1, <2>2
<1>5. ASSUME NEW accepted \in BOOLEAN, DispatchExit(accepted)
      PROVE  KeepsInventory
    BY <1>0, <1>B, <1>5, GrowKeeps DEF DispatchExit
<1>6. ASSUME NEW l \in LeaseIds, NEW accepted \in BOOLEAN, ReleaseLease(l, accepted)
      PROVE  KeepsInventory
    <2>1. CASE ReleaseNothing(l)
        BY <1>A, <1>B, <2>1 DEF ReleaseNothing, vars
    <2>2. CASE ReleaseOpen(l, accepted)
        BY <1>F, <2>2 DEF ReleaseOpen
    <2> QED  BY <1>6, <2>1, <2>2 DEF ReleaseLease
<1>7. ASSUME NEW l \in LeaseIds, NEW g \in 1 .. next_generation, Detach(l, g)
      PROVE  KeepsInventory
    <2>1. LeasedDatabases' = LeasedDatabases
        <3>1. \A k \in LeaseIds : /\ leases'[k].database = leases[k].database
                                   /\ leases'[k].generation = leases[k].generation
            <4>1. CASE leases' = [leases EXCEPT ![l].conns = @ - 1]
                BY <1>0, <4>1 DEF Entries
            <4> QED  BY <1>7, <4>1 DEF Detach
        <3> QED  BY <3>1, SameLeased
    <2> QED  BY <1>A, <1>7, <2>1 DEF Detach, KeepsInventory, Usable
<1>8. ASSUME NEW l \in LeaseIds, NEW g \in 1 .. next_generation, NEW accepted \in BOOLEAN,
             LeaseMaxTimeReached(l, g, accepted)
      PROVE  KeepsInventory
    <2>1. CASE RetireLease(l, accepted)
        BY <1>F, <1>8, <2>1 DEF LeaseMaxTimeReached
    <2>2. CASE UNCHANGED <<leases, cancelled, retiring, next_database_id, creating>>
        BY <1>A, <1>B, <1>8, <2>2 DEF LeaseMaxTimeReached
    <2> QED  BY <1>8, <2>1, <2>2 DEF LeaseMaxTimeReached
<1> QED  BY <1>1, <1>2, <1>3, <1>4, <1>5, <1>6, <1>7, <1>8 DEF ServesCalls

----------------------------------------------------------------------------
\* Messages, timers and jobs.

LEMMA SequenceOver ==
    ASSUME NEW S, NEW T, S \subseteq T, NEW s \in Seq(S)
    PROVE  s \in Seq(T) /\ (s # <<>> => Tail(s) \in Seq(T)) /\ \A m \in T : Append(s, m) \in Seq(T)
<1>1. s \in Seq(T)
    BY LenProperties, IsASeq, ElementOfSeq
<1> QED  BY <1>1, HeadTailProperties, AppendProperties

LEMMA AppendedElements ==
    ASSUME NEW S, NEW s \in Seq(S), NEW m \in S
    PROVE  Elements(Append(s, m)) = Elements(s) \cup {m}
<1>1. /\ Len(Append(s, m)) = Len(s) + 1 /\ Append(s, m)[Len(s) + 1] = m /\ Len(s) \in Nat
      /\ \A i \in 1 .. Len(s) : Append(s, m)[i] = s[i]
      /\ Append(s, m) \in Seq(S)
    BY AppendProperties, LenProperties
<1>2. DOMAIN Append(s, m) = 1 .. Len(s) + 1 /\ DOMAIN s = 1 .. Len(s)
    BY <1>1, LenProperties
<1> DEFINE t == Append(s, m)
<1> HIDE DEF t
<1>3. /\ DOMAIN t = 1 .. Len(s) + 1 /\ t[Len(s) + 1] = m
      /\ \A i \in 1 .. Len(s) : t[i] = s[i]
    BY <1>1, <1>2 DEF t
<1>4. \A n \in Nat : \A k \in 1 .. n + 1 : k = n + 1 \/ k \in 1 .. n
    OBVIOUS
<1>5. \A n \in Nat : n + 1 \in 1 .. n + 1 /\ \A k \in 1 .. n : k \in 1 .. n + 1
    OBVIOUS
<1>6. Elements(t) = Elements(s) \cup {m}
    BY <1>1, <1>2, <1>3, <1>4, <1>5 DEF Elements
<1> QED  BY <1>6 DEF t

LEMMA RemainingElements ==
    ASSUME NEW S, NEW s \in Seq(S), s # <<>>
    PROVE  Elements(Tail(s)) \subseteq Elements(s)
<1>1. /\ Tail(s) \in Seq(S) /\ Len(Tail(s)) = Len(s) - 1 /\ Len(s) \in Nat
      /\ \A i \in 1 .. Len(Tail(s)) : Tail(s)[i] = s[i + 1]
    BY HeadTailProperties, LenProperties, EmptySeq
<1>2. DOMAIN Tail(s) = 1 .. Len(s) - 1 /\ DOMAIN s = 1 .. Len(s)
    BY <1>1, LenProperties
<1>3. \A n \in Nat : \A k \in 1 .. n - 1 : k + 1 \in 1 .. n
    OBVIOUS
<1> QED  BY <1>1, <1>2, <1>3 DEF Elements

\* A session that is dropped names the assignment it was attached to.
LEMMA DetachIsIssued ==
    ASSUME EngineInv, NEW r \in AttachedCalls
    PROVE  [type |-> "Detach", lease |-> answer[r].lease, generation |-> answer[r].generation]
                \in IssuedMessages
<1>1. answer[r].lease \in LeaseIds /\ answer[r].generation \in 1 .. next_generation
    BY DEF EngineInv, Inv, AssignmentsTraced, RepliesTraced
<1> QED  BY <1>1 DEF IssuedMessages

LEMMA HoldersStep ==
    ASSUME EngineInv, SystemTypeOK, HoldersAttached, OnlyIssued, [SystemNext]_allvars
    PROVE  HoldersAttached'
<1>1. [Next]_vars
    BY SystemStepIsNext DEF EngineInv
<1>2. \A r \in Requests : r \in AttachedCalls => r \in AttachedCalls'
    BY <1>1, AnswersAreFinal DEF AttachedCalls
<1>3. ASSUME NEW r \in Requests, call'[r] = "Holding", call[r] # "Holding"
      PROVE  r \in AttachedCalls
    <2>1. PICK q \in Requests : AttachReturn(q)
        <3> USE DEF SystemTypeOK
        <3>1. CASE EngineStep \/ TaskStep \/ ShutdownStep \/ UNCHANGED allvars
            BY <1>3, <3>1 DEF EngineStep, HandleAttachOrJoin, HandleReleaseLease, HandleDetach,
                HandleLeaseMaxTimeReached, HandleCreationFinished, HandleCleanupFinished,
                HandleShutdown, DispatchWaiters, TaskStep, TimerFires, TimerCancelled,
                DatabaseCreated, CreationFailed, CreationInterrupted, DatabaseDropped,
                CleanupFailed, CleanupInterrupted, ShutdownStep, BeginShutdown, WorkerExits,
                SendShutdown, JoinEngine, allvars, callers
        <3>2. CASE CallerStep
            BY <1>3, <3>2 DEF CallerStep, AttachSend, AttachElapsed, AttachTimedOut,
                AttachAborted, DropReceiver, SessionDrop, CallBecomesOverdue, callers,
                ReleaseSend, ReleaseReturn, ReleaseTimedOut
        <3> QED  BY <3>1, <3>2 DEF SystemNext
    <2>2. q = r /\ AttachResult(answer[r]) = "Ok"
        BY <1>3, <2>1 DEF AttachReturn, SystemTypeOK
    <2>3. answer[r].status \in Statuses
        BY DEF EngineInv, TypeOK, Answers
    <2> QED  BY <2>2, <2>3 DEF AttachResult, AttachedCalls, Statuses
<1> QED  BY <1>2, <1>3 DEF HoldersAttached

\* The engine issues timers and jobs only for what it assigned or reserved.
LEMMA EngineIOIsIssued ==
    ASSUME EngineInv, EngineInv', OnlyIssued, [Next]_vars, NEW STATE l, EngineIO(l),
           l \in LeaseIds \/ next_generation' = next_generation
    PROVE  /\ timers' \subseteq [lease : LeaseIds, generation : 1 .. next_generation']
           /\ creations' \cup cleanups' \cup pg' \subseteq 1 .. next_database_id'
<1>1. /\ next_generation \in Nat /\ next_generation' \in Nat
      /\ next_generation <= next_generation'
      /\ next_database_id \in Nat /\ next_database_id' \in Nat
      /\ next_database_id <= next_database_id'
    BY CountersGrow, WidthAssumption, SMTT(30) DEF EngineInv, TypeOK
<1>2. \A t \in timers' :
        t \in timers \/ \E g \in next_generation + 1 .. next_generation' :
                            t = [lease |-> l, generation |-> g]
    BY DEF EngineIO
<1>3. timers \subseteq [lease : LeaseIds, generation : 1 .. next_generation]
    BY DEF OnlyIssued
<1>4. timers' \subseteq [lease : LeaseIds, generation : 1 .. next_generation']
    <2> SUFFICES ASSUME NEW t \in timers'
                 PROVE  t \in [lease : LeaseIds, generation : 1 .. next_generation']
        OBVIOUS
    <2>1. CASE t \in timers
        BY <1>1, <1>3, <2>1
    <2>2. CASE t \notin timers
        <3>1. PICK g \in next_generation + 1 .. next_generation' :
                    t = [lease |-> l, generation |-> g]
            BY <1>2, <2>2
        <3>2. l \in LeaseIds /\ g \in 1 .. next_generation'
            BY <1>1, <3>1
        <3> QED  BY <3>1, <3>2
    <2> QED  BY <2>1, <2>2
<1>5. retiring' \subseteq 1 .. next_database_id' /\ creating' \subseteq 1 .. next_database_id'
    BY DEF EngineInv, Inv, OnePlacePerDatabase, TypeOK
<1>6. creations \cup cleanups \cup pg \subseteq 1 .. next_database_id'
    BY <1>1 DEF OnlyIssued
<1>7. /\ creations' \subseteq creations \cup creating' /\ pg' = pg
      /\ cleanups' \subseteq cleanups \cup retiring'
    BY DEF EngineIO
<1> QED  BY <1>4, <1>5, <1>6, <1>7

LEMMA IssuedStep ==
    ASSUME EngineInv, EngineInv', OnlyIssued, HoldersAttached, [SystemNext]_allvars
    PROVE  OnlyIssued'
<1> USE DEF jobs, callers
<1>0. [Next]_vars
    BY SystemStepIsNext DEF EngineInv
<1>1. /\ next_generation \in Nat /\ next_generation' \in Nat
      /\ next_generation <= next_generation'
      /\ next_database_id \in Nat /\ next_database_id' \in Nat
      /\ next_database_id <= next_database_id'
    BY <1>0, CountersGrow, WidthAssumption, SMTT(30) DEF EngineInv, TypeOK
<1>2. IssuedMessages \subseteq IssuedMessages'
    BY <1>1 DEF IssuedMessages
<1>3. ASSUME \/ inbox' = inbox \/ inbox' = <<>>
             \/ inbox # <<>> /\ inbox' = Tail(inbox)
             \/ \E m \in IssuedMessages' : inbox' = Append(inbox, m)
      PROVE  inbox' \in Seq(IssuedMessages')
    <2>1. inbox \in Seq(IssuedMessages)
        BY DEF OnlyIssued
    <2> DEFINE T == IssuedMessages'
    <2>2. inbox \in Seq(T) /\ (inbox # <<>> => Tail(inbox) \in Seq(T))
            /\ \A m \in T : Append(inbox, m) \in Seq(T)
        <3> HIDE DEF T
        <3>1. IssuedMessages \subseteq T
            BY <1>2 DEF T
        <3> QED  BY <2>1, <3>1, SequenceOver
    <2> QED  BY <1>3, <2>2, EmptySeq
<1>4. /\ timers \subseteq [lease : LeaseIds, generation : 1 .. next_generation']
      /\ creations \cup cleanups \cup pg \subseteq 1 .. next_database_id'
    <2>1. [lease : LeaseIds, generation : 1 .. next_generation]
            \subseteq [lease : LeaseIds, generation : 1 .. next_generation']
        BY <1>1
    <2> QED  BY <1>1, <2>1 DEF OnlyIssued
<1>5. ASSUME NEW type \in {"CreationFinished", "CleanupFinished"},
             NEW d \in 1 .. next_database_id, NEW ok \in BOOLEAN, Finished(type, d, ok)
      PROVE  inbox' \in Seq(IssuedMessages')
    <2>1. [type |-> type, database |-> d, ok |-> ok] \in IssuedMessages
        BY DEF IssuedMessages
    <2> QED  BY <1>2, <1>3, <1>5, <2>1 DEF Finished, Send
<1>6. ASSUME NEW r \in AttachedCalls, SendDetach(r)
      PROVE  inbox' \in Seq(IssuedMessages')
    BY <1>2, <1>3, <1>6, DetachIsIssued DEF SendDetach, Send
<1>7. ASSUME inbox' \in Seq(IssuedMessages'),
             timers' \subseteq timers, creations' \subseteq creations, cleanups' \subseteq cleanups,
             pg' \subseteq pg \cup creations
      PROVE  OnlyIssued'
    BY <1>4, <1>7 DEF OnlyIssued
<1>8. CASE EngineStep
    <2> DEFINE m == Head(inbox)
    <2>1. ASSUME NEW type, Receive(type)
          PROVE  m \in IssuedMessages /\ m.type = type /\ inbox' \in Seq(IssuedMessages')
        BY <1>3, <2>1, ReceivedIsIssued DEF Receive
    <2>2. CASE HandleAttachOrJoin
        <3>1. m.lease \in LeaseIds
            BY <2>1, <2>2 DEF HandleAttachOrJoin, IssuedMessages
        <3> QED  BY <1>0, <2>1, <2>2, <3>1, EngineIOIsIssued DEF HandleAttachOrJoin, OnlyIssued
    <2>3. CASE HandleReleaseLease
        <3>1. m.lease \in LeaseIds
            BY <2>1, <2>3 DEF HandleReleaseLease, IssuedMessages
        <3> QED  BY <1>0, <2>1, <2>3, <3>1, EngineIOIsIssued DEF HandleReleaseLease, OnlyIssued
    <2>4. CASE HandleLeaseMaxTimeReached
        <3>1. m.lease \in LeaseIds
            BY <2>1, <2>4 DEF HandleLeaseMaxTimeReached, IssuedMessages
        <3> QED  BY <1>0, <2>1, <2>4, <3>1, EngineIOIsIssued DEF HandleLeaseMaxTimeReached, OnlyIssued
    <2>5. CASE HandleDetach \/ HandleCreationFinished \/ HandleCleanupFinished \/ HandleShutdown
        BY <1>7, <2>1, <2>5 DEF HandleDetach, HandleCreationFinished, HandleCleanupFinished,
            HandleShutdown
    <2>6. CASE DispatchWaiters
        <3>1. serving \in LeaseIds \/ next_generation' = next_generation
            BY <2>6 DEF DispatchWaiters, DispatchPop, ServeOverdue, ServeReply, ServeDone,
                DispatchExit, EngineInv, ServeOK
        <3>2. inbox' \in Seq(IssuedMessages') /\ EngineIO(serving)
            BY <1>3, <2>6 DEF DispatchWaiters
        <3> QED  BY <1>0, <3>1, <3>2, EngineIOIsIssued DEF OnlyIssued
    <2> QED  BY <1>8, <2>2, <2>3, <2>4, <2>5, <2>6 DEF EngineStep
<1>9. CASE CallerStep
    <2>1. ASSUME NEW r \in Requests, NEW l \in LeaseIds, AttachSend(r, l)
          PROVE  OnlyIssued'
        <3>1. [type |-> "AttachOrJoin", lease |-> l, call |-> r] \in IssuedMessages'
            BY DEF IssuedMessages
        <3> QED  BY <1>3, <1>7, <2>1, <3>1 DEF AttachSend, Send
    <2>2. ASSUME NEW x \in Releases, NEW l \in LeaseIds, ReleaseSend(x, l)
          PROVE  OnlyIssued'
        <3>1. [type |-> "ReleaseLease", lease |-> l, call |-> x] \in IssuedMessages'
            BY DEF IssuedMessages
        <3> QED  BY <1>3, <1>7, <2>2, <3>1 DEF ReleaseSend, Send
    <2>3. ASSUME NEW r \in Requests, AttachReturn(r) \/ AttachTimedOut(r) \/ AttachAborted(r)
          PROVE  OnlyIssued'
        <3>1. inbox' = inbox \/ (r \in AttachedCalls /\ SendDetach(r))
            BY <2>3 DEF AttachReturn, AttachTimedOut, AttachAborted, DropReceiver, AttachedCalls
        <3> QED  BY <1>3, <1>6, <1>7, <2>3, <3>1 DEF AttachReturn, AttachTimedOut, AttachAborted,
                    DropReceiver
    <2>4. ASSUME NEW r \in Requests, SessionDrop(r)
          PROVE  OnlyIssued'
        BY <1>6, <1>7, <2>4 DEF SessionDrop, HoldersAttached
    <2>5. CASE \/ \E r \in Requests : AttachElapsed(r) \/ CallBecomesOverdue(r)
               \/ \E x \in Releases : ReleaseReturn(x) \/ ReleaseTimedOut(x)
        BY <1>3, <1>7, <2>5 DEF AttachElapsed, CallBecomesOverdue, ReleaseReturn, ReleaseTimedOut
    <2> QED  BY <1>9, <2>1, <2>2, <2>3, <2>4, <2>5 DEF CallerStep
<1>10. CASE TaskStep
    <2>1. ASSUME NEW t \in timers, TimerFires(t)
          PROVE  OnlyIssued'
        <3>1. t.lease \in LeaseIds /\ t.generation \in 1 .. next_generation'
            BY <1>4
        <3>2. [type |-> "LeaseMaxTimeReached", lease |-> t.lease, generation |-> t.generation]
                \in IssuedMessages'
            BY <3>1 DEF IssuedMessages
        <3> QED  BY <1>3, <1>7, <2>1, <3>2 DEF TimerFires, Send
    <2>2. ASSUME NEW t \in timers, TimerCancelled(t)
          PROVE  OnlyIssued'
        BY <1>3, <1>7, <2>2 DEF TimerCancelled
    <2>3. ASSUME NEW d \in creations,
                 \/ DatabaseCreated(d)
                 \/ \E executed \in BOOLEAN :
                        CreationFailed(d, executed) \/ CreationInterrupted(d, executed)
          PROVE  OnlyIssued'
        <3>1. d \in 1 .. next_database_id
            BY DEF OnlyIssued
        <3>2. inbox' \in Seq(IssuedMessages')
            BY <1>3, <1>5, <2>3, <3>1 DEF DatabaseCreated, CreationFailed, CreationInterrupted
        <3> QED  BY <1>7, <2>3, <3>2 DEF DatabaseCreated, CreationFailed, CreationInterrupted
    <2>4. ASSUME NEW d \in cleanups,
                 \/ DatabaseDropped(d)
                 \/ \E executed \in BOOLEAN :
                        CleanupFailed(d, executed) \/ CleanupInterrupted(d, executed)
          PROVE  OnlyIssued'
        <3>1. d \in 1 .. next_database_id
            BY DEF OnlyIssued
        <3>2. inbox' \in Seq(IssuedMessages')
            BY <1>3, <1>5, <2>4, <3>1 DEF DatabaseDropped, CleanupFailed, CleanupInterrupted
        <3> QED  BY <1>7, <2>4, <3>2 DEF DatabaseDropped, CleanupFailed, CleanupInterrupted
    <2> QED  BY <1>10, <2>1, <2>2, <2>3, <2>4 DEF TaskStep
<1>11. CASE ShutdownStep
    <2>1. [type |-> "Shutdown"] \in IssuedMessages'
        BY DEF IssuedMessages
    <2>2. inbox' \in Seq(IssuedMessages')
        BY <1>3, <1>11, <2>1 DEF ShutdownStep, BeginShutdown, WorkerExits, SendShutdown, JoinEngine,
            Send
    <2> QED  BY <1>7, <1>11, <2>2 DEF ShutdownStep, BeginShutdown, WorkerExits, SendShutdown, JoinEngine
<1>12. CASE UNCHANGED allvars
    BY <1>3, <1>7, <1>12 DEF allvars
<1> QED  BY <1>8, <1>9, <1>10, <1>11, <1>12 DEF SystemNext

LEMMA SystemTypeStep ==
    ASSUME SystemTypeOK, OnlyIssued, [SystemNext]_allvars
    PROVE  SystemTypeOK'
<1> USE DEF SystemTypeOK, callers
<1>1. CASE EngineStep
    <2>1. CASE HandleReleaseLease
        BY <2>1, ZenonT(30) DEF HandleReleaseLease, ReleaseReply
    <2> QED  BY <1>1, <2>1 DEF EngineStep, HandleAttachOrJoin, HandleDetach,
                HandleLeaseMaxTimeReached, HandleCreationFinished, HandleCleanupFinished,
                HandleShutdown, DispatchWaiters
<1>2. CASE CallerStep
    <2>1. CASE \E r \in Requests, l \in LeaseIds : AttachSend(r, l)
        BY <2>1 DEF AttachSend
    <2>2. CASE \E r \in Requests : \/ AttachReturn(r) \/ AttachElapsed(r) \/ AttachTimedOut(r)
                                   \/ AttachAborted(r) \/ SessionDrop(r) \/ CallBecomesOverdue(r)
        BY <2>2 DEF AttachReturn, AttachElapsed, AttachTimedOut, AttachAborted, DropReceiver,
            SessionDrop, CallBecomesOverdue
    <2>3. CASE \E x \in Releases, l \in LeaseIds : ReleaseSend(x, l)
        BY <2>3 DEF ReleaseSend
    <2>4. CASE \E x \in Releases : ReleaseReturn(x) \/ ReleaseTimedOut(x)
        BY <2>4 DEF ReleaseReturn, ReleaseTimedOut
    <2> QED  BY <1>2, <2>1, <2>2, <2>3, <2>4 DEF CallerStep
<1>3. CASE TaskStep
    BY <1>3 DEF TaskStep, TimerFires, TimerCancelled, DatabaseCreated, CreationFailed,
                CreationInterrupted, DatabaseDropped, CleanupFailed, CleanupInterrupted
<1>4. CASE ShutdownStep
    BY <1>4 DEF ShutdownStep, BeginShutdown, WorkerExits, SendShutdown, JoinEngine
<1>5. CASE UNCHANGED allvars
    BY <1>5 DEF allvars
<1> QED  BY <1>1, <1>2, <1>3, <1>4, <1>5 DEF SystemNext

LEMMA SystemStart ==
    ASSUME SystemInit
    PROVE  EngineInv /\ SystemTypeOK /\ OnlyIssued /\ HoldersAttached
<1>1. EngineInv
    BY TypeInit, InvInit, QueuesInit DEF SystemInit, EngineInv
<1>2. SystemTypeOK /\ HoldersAttached
    BY DEF SystemInit, SystemTypeOK, HoldersAttached, NoRelease
<1>3. OnlyIssued
    BY EmptySeq DEF SystemInit, Init, OnlyIssued
<1> QED  BY <1>1, <1>2, <1>3

\* The invariant of the engine in its surroundings.
Surroundings == EngineInv /\ SystemTypeOK /\ OnlyIssued /\ HoldersAttached

LEMMA SurroundingsStep == Surroundings /\ [SystemNext]_allvars => Surroundings' /\ [Next]_vars
<1> SUFFICES ASSUME Surroundings, [SystemNext]_allvars PROVE Surroundings' /\ [Next]_vars
    OBVIOUS
<1>1. [Next]_vars
    BY SystemStepIsNext DEF Surroundings, EngineInv
<1>2. EngineInv'
    BY <1>1, EngineInvStep DEF Surroundings
<1>3. SystemTypeOK' /\ OnlyIssued' /\ HoldersAttached'
    BY <1>2, SystemTypeStep, IssuedStep, HoldersStep DEF Surroundings
<1> QED  BY <1>1, <1>2, <1>3 DEF Surroundings

\* Whatever callers, timers and workers do, and however their messages are
\* delayed, the engine is never asked for anything its specification leaves
\* out: every theorem about the engine alone holds of it inside the program.
THEOREM SystemImplementsEngine == SystemSpec => Spec
<1>1. SystemInit => Surroundings
    BY SystemStart DEF Surroundings
<1>2. SystemInit => Init
    BY DEF SystemInit
<1> QED  BY <1>1, <1>2, SurroundingsStep, PTL DEF SystemSpec, Spec

\* The invariant of the engine in its surroundings holds throughout.
THEOREM SurroundingsHold == SystemSpec => []Surroundings
<1>1. SystemInit => Surroundings
    BY SystemStart DEF Surroundings
<1> QED  BY <1>1, SurroundingsStep, PTL DEF SystemSpec

----------------------------------------------------------------------------
\* PostgreSQL.

LEMMA SentElements ==
    ASSUME OnlyIssued, NEW STATE m, Send(m)
    PROVE  Elements(inbox') \subseteq Elements(inbox) \cup {m}
<1> DEFINE T == IssuedMessages \cup {m}
<1>1. inbox \in Seq(IssuedMessages) /\ IssuedMessages \subseteq T /\ m \in T
    BY DEF OnlyIssued
<1> HIDE DEF T
<1>2. inbox \in Seq(T)
    BY <1>1, SequenceOver
<1>3. Elements(Append(inbox, m)) = Elements(inbox) \cup {m}
    BY <1>1, <1>2, AppendedElements
<1>4. inbox' = inbox \/ inbox' = Append(inbox, m)
    BY DEF Send
<1> QED  BY <1>3, <1>4

LEMMA ReceivedElements ==
    ASSUME OnlyIssued, NEW CONSTANT type, Receive(type)
    PROVE  /\ Elements(inbox') \subseteq Elements(inbox)
           /\ Head(inbox) \in Elements(inbox) /\ Head(inbox) \in IssuedMessages
           /\ Head(inbox).type = type
<1>1. inbox # <<>> /\ inbox' = Tail(inbox) /\ Head(inbox).type = type
    BY DEF Receive
<1>2. inbox \in Seq(IssuedMessages)
    BY DEF OnlyIssued
<1>3. Elements(Tail(inbox)) \subseteq Elements(inbox)
    BY <1>1, <1>2, RemainingElements
<1> QED  BY <1>1, <1>3, ReceivedIsIssued

Reserved == next_database_id + 1 .. next_database_id'

\* What a step of the engine leaves of the jobs, and of the messages.
LEMMA EngineJobs ==
    ASSUME Surroundings, EngineStep
    PROVE  /\ creations' = creations \cup (creating' \cap Reserved)
           /\ cleanups' \subseteq cleanups \cup (retiring' \ retiring)
           /\ UNCHANGED <<workers, pg, orphans, phase>>
           /\ Elements(inbox') \subseteq Elements(inbox)
<1>0. OnlyIssued /\ next_database_id \in Nat
    BY WidthAssumption DEF Surroundings, EngineInv, TypeOK
<1>1. ASSUME NEW STATE l, EngineIO(l)
      PROVE  /\ creations' = creations \cup (creating' \cap Reserved)
             /\ cleanups' \subseteq cleanups \cup (retiring' \ retiring)
             /\ UNCHANGED <<workers, pg, orphans>>
    BY <1>1 DEF EngineIO, Reserved
<1>2. ASSUME next_database_id' = next_database_id, UNCHANGED jobs
      PROVE  /\ creations' = creations \cup (creating' \cap Reserved)
             /\ cleanups' \subseteq cleanups \cup (retiring' \ retiring)
             /\ UNCHANGED <<workers, pg, orphans>>
    BY <1>0, <1>2 DEF jobs, Reserved
<1>3. CASE HandleAttachOrJoin
    <2>1. EngineIO(Head(inbox).lease) /\ phase' = phase /\ Receive("AttachOrJoin")
        BY <1>3 DEF HandleAttachOrJoin
    <2> QED  BY <1>0, <1>1, <2>1, ReceivedElements
<1>4. CASE HandleReleaseLease
    <2>1. EngineIO(Head(inbox).lease) /\ phase' = phase /\ Receive("ReleaseLease")
        BY <1>4 DEF HandleReleaseLease
    <2> QED  BY <1>0, <1>1, <2>1, ReceivedElements
<1>5. CASE HandleLeaseMaxTimeReached
    <2>1. EngineIO(Head(inbox).lease) /\ phase' = phase /\ Receive("LeaseMaxTimeReached")
        BY <1>5 DEF HandleLeaseMaxTimeReached
    <2> QED  BY <1>0, <1>1, <2>1, ReceivedElements
<1>6. CASE HandleDetach
    <2>1. next_database_id' = next_database_id /\ UNCHANGED jobs /\ phase' = phase /\ Receive("Detach")
        BY <1>6 DEF HandleDetach, Detach, inventory
    <2> QED  BY <1>0, <1>2, <2>1, ReceivedElements
<1>7. CASE HandleCreationFinished
    <2>1. /\ next_database_id' = next_database_id /\ UNCHANGED jobs /\ phase' = phase
          /\ Receive("CreationFinished")
        BY <1>7 DEF HandleCreationFinished, CreationFinished
    <2> QED  BY <1>0, <1>2, <2>1, ReceivedElements
<1>8. CASE HandleCleanupFinished
    <2>1. /\ next_database_id' = next_database_id /\ UNCHANGED jobs /\ phase' = phase
          /\ Receive("CleanupFinished")
        BY <1>8 DEF HandleCleanupFinished, CleanupFinished
    <2> QED  BY <1>0, <1>2, <2>1, ReceivedElements
<1>9. CASE HandleShutdown
    <2>1. /\ next_database_id' = next_database_id /\ UNCHANGED jobs /\ phase' = phase
          /\ Receive("Shutdown")
        BY <1>9 DEF HandleShutdown, Shutdown, inventory
    <2> QED  BY <1>0, <1>2, <2>1, ReceivedElements
<1>10. CASE DispatchWaiters
    BY <1>1, <1>10 DEF DispatchWaiters
<1> QED  BY <1>3, <1>4, <1>5, <1>6, <1>7, <1>8, <1>9, <1>10 DEF EngineStep

PostgresInv == JobsMatchPostgres /\ InventoryMatchesPostgres

\* A report that is under way is of a database that was reserved.
LEMMA ReportsAreIssued ==
    ASSUME OnlyIssued, NEW m \in Elements(inbox), m.type \in {"CreationFinished", "CleanupFinished"}
    PROVE  m.database \in 1 .. next_database_id /\ m.ok \in BOOLEAN
<1>1. PICK i \in DOMAIN inbox : m = inbox[i]
    BY DEF Elements
<1>2. m \in IssuedMessages
    BY <1>1, ElementOfSeq, LenProperties DEF OnlyIssued
<1> QED  BY <1>2 DEF IssuedMessages

LEMMA UnusedParts ==
    Unused = creating \cup Usable
BY DEF Unused, Usable

\* Calls are served.
LEMMA PostgresServes ==
    ASSUME Surroundings, Surroundings', PostgresInv, EngineStep, ServesCalls
    PROVE  PostgresInv'
<1>1. KeepsInventory
    BY InventoryStep DEF Surroundings, EngineInv
<1>2. /\ creations' = creations \cup (creating' \cap Reserved)
      /\ cleanups' \subseteq cleanups \cup (retiring' \ retiring)
      /\ UNCHANGED <<pg, orphans>>
      /\ Elements(inbox') \subseteq Elements(inbox)
    BY EngineJobs
<1>3. /\ next_database_id \in Nat /\ creations \cup cleanups \cup pg \subseteq 1 .. next_database_id
      /\ \A d \in 1 .. next_database_id : d \notin Reserved
    BY WidthAssumption DEF Surroundings, EngineInv, TypeOK, OnlyIssued, Reserved
<1>4. /\ creating \subseteq creating' /\ creating' \subseteq creating \cup Reserved
      /\ Usable' \subseteq Usable /\ Usable \cup retiring \subseteq Usable' \cup retiring'
    BY <1>1 DEF KeepsInventory, OnlyNewReservations, Reserved
<1>5. Unused = creating \cup Usable /\ Unused' = creating' \cup Usable'
    BY UnusedParts DEF Unused, Usable
<1>6. InventoryMatchesPostgres'
    <2>1. Usable' \subseteq pg'
        BY <1>2, <1>4 DEF PostgresInv, InventoryMatchesPostgres, Usable
    <2>2. pg' \subseteq creating' \cup Usable' \cup retiring' \cup orphans'
        BY <1>2, <1>4 DEF PostgresInv, InventoryMatchesPostgres, Usable
    <2> QED  BY <2>1, <2>2 DEF InventoryMatchesPostgres, Usable
<1>7. cleanups' \cap Unused' = {}
    <2>1. retiring' \cap Unused' = {}
        <3>1. OnePlacePerDatabase'
            BY DEF Surroundings, EngineInv, Inv
        <3> QED  BY <3>1 DEF OnePlacePerDatabase, Unused, LeasedDatabases
    <2>2. cleanups \cap Unused' = {}
        BY <1>3, <1>4, <1>5 DEF PostgresInv, JobsMatchPostgres
    <2> QED  BY <1>2, <2>1, <2>2
<1>8. ASSUME NEW type \in {"CreationFinished", "CleanupFinished"}, NEW d, NEW ok \in BOOLEAN,
             UnderWay(type, d, ok)'
      PROVE  UnderWay(type, d, ok) /\ d \in 1 .. next_database_id
    <2>1. UnderWay(type, d, ok)
        BY <1>2, <1>8 DEF UnderWay
    <2> QED  BY <2>1, ReportsAreIssued DEF UnderWay, Surroundings
<1>9. ASSUME NEW d \in 1 .. next_database_id'
      PROVE  /\ \A ok \in BOOLEAN : UnderWay("CreationFinished", d, ok)' => d \notin creations'
             /\ UnderWay("CreationFinished", d, TRUE)' /\ d \in creating' => d \in pg'
             /\ UnderWay("CreationFinished", d, FALSE)' /\ d \in creating' /\ d \in pg'
                    => d \in orphans'
             /\ UnderWay("CleanupFinished", d, TRUE)' => d \notin pg' /\ d \notin Unused'
    BY <1>2, <1>3, <1>4, <1>5, <1>8 DEF PostgresInv, JobsMatchPostgres
<1>10. creations' \subseteq creating' /\ creations' \cap pg' = {}
    BY <1>2, <1>3, <1>4 DEF PostgresInv, JobsMatchPostgres
<1> QED  BY <1>6, <1>7, <1>9, <1>10 DEF PostgresInv, JobsMatchPostgres

\* The result of a database worker is handled.
LEMMA PostgresReports ==
    ASSUME Surroundings, PostgresInv, HandleCreationFinished \/ HandleCleanupFinished
    PROVE  PostgresInv'
<1> DEFINE m == Head(inbox)
           d == m.database
<1>0. OnlyIssued
    BY DEF Surroundings
<1>1. /\ UNCHANGED <<creations, cleanups, pg, orphans, next_database_id>>
      /\ UNCHANGED leases
    BY DEF HandleCreationFinished, CreationFinished, HandleCleanupFinished, CleanupFinished, jobs
<1>2. /\ Elements(inbox') \subseteq Elements(inbox) /\ m \in Elements(inbox)
      /\ m \in IssuedMessages
      /\ m.type = "CreationFinished" \/ m.type = "CleanupFinished"
    BY <1>0, ReceivedElements DEF HandleCreationFinished, HandleCleanupFinished
<1>3. \A type, c, ok : UnderWay(type, c, ok)' => UnderWay(type, c, ok)
    BY <1>2 DEF UnderWay
<1>4. LeasedDatabases' = LeasedDatabases
    BY <1>1 DEF LeasedDatabases, Leased
<1>5. ASSUME creating' = creating, ready' = ready
      PROVE  JobsMatchPostgres'
    BY <1>1, <1>3, <1>4, <1>5 DEF PostgresInv, JobsMatchPostgres, Unused
<1>6. CASE HandleCreationFinished
    <2>1. /\ m.type = "CreationFinished" /\ d \in 1 .. next_database_id /\ m.ok \in BOOLEAN
          /\ m = [type |-> "CreationFinished", database |-> d, ok |-> m.ok]
        BY <1>2, <1>6 DEF HandleCreationFinished, Receive, IssuedMessages
    <2>2. UnderWay("CreationFinished", d, m.ok)
        BY <1>2, <2>1 DEF UnderWay
    <2>3. d \notin creations
        BY <2>1, <2>2 DEF PostgresInv, JobsMatchPostgres
    <2>4. CASE d \notin creating
        <3>1. creating' = creating /\ ready' = ready /\ retiring' = retiring
            BY <1>6, <2>4 DEF HandleCreationFinished, CreationFinished
        <3>2. InventoryMatchesPostgres'
            BY <1>1, <1>4, <3>1 DEF PostgresInv, InventoryMatchesPostgres
        <3> QED  BY <1>5, <3>1, <3>2 DEF PostgresInv
    <2>5. CASE d \in creating
        <3>1. /\ creating' = creating \ {d} /\ retiring' = retiring
              /\ ready' = IF m.ok THEN Append(ready, d) ELSE ready
            BY <1>6, <2>5 DEF HandleCreationFinished, CreationFinished
        <3>2. ready \in Seq(Nat) /\ d \in Nat
            BY <2>1 DEF Surroundings, EngineInv, TypeOK
        <3>3. Elements(ready') = IF m.ok THEN Elements(ready) \cup {d} ELSE Elements(ready)
            <4>1. Elements(Append(ready, d)) = Elements(ready) \cup {d}
                BY <3>2, AppendedElements
            <4> QED  BY <3>1, <4>1
        <3>4. Unused' \subseteq Unused
            BY <1>4, <2>5, <3>1, <3>3 DEF Unused
        <3>5. JobsMatchPostgres'
            BY <1>1, <1>3, <2>3, <3>1, <3>4 DEF PostgresInv, JobsMatchPostgres
        <3>6. m.ok => d \in pg
            <4>1. CASE m.ok = TRUE
                <5>1. UnderWay("CreationFinished", d, TRUE)
                    BY <2>2, <4>1
                <5> QED  BY <2>1, <2>5, <5>1 DEF PostgresInv, JobsMatchPostgres
            <4> QED  BY <2>1, <4>1
        <3>7. ~m.ok /\ d \in pg => d \in orphans
            <4>1. CASE m.ok = FALSE
                <5>1. UnderWay("CreationFinished", d, FALSE)
                    BY <2>2, <4>1
                <5> QED  BY <2>1, <2>5, <5>1 DEF PostgresInv, JobsMatchPostgres
            <4> QED  BY <2>1, <4>1
        <3>8. Elements(ready') \cup LeasedDatabases' \subseteq pg'
            BY <1>1, <1>4, <3>3, <3>6 DEF PostgresInv, InventoryMatchesPostgres
        <3>9. pg' \subseteq creating' \cup Elements(ready') \cup LeasedDatabases' \cup retiring' \cup orphans'
            BY <1>1, <1>4, <3>1, <3>3, <3>7 DEF PostgresInv, InventoryMatchesPostgres
        <3> QED  BY <3>5, <3>8, <3>9 DEF PostgresInv, InventoryMatchesPostgres
    <2> QED  BY <2>4, <2>5
<1>7. CASE HandleCleanupFinished
    <2>1. /\ m.type = "CleanupFinished" /\ d \in 1 .. next_database_id /\ m.ok \in BOOLEAN
          /\ m = [type |-> "CleanupFinished", database |-> d, ok |-> m.ok]
        BY <1>2, <1>7 DEF HandleCleanupFinished, Receive, IssuedMessages
    <2>2. UnderWay("CleanupFinished", d, m.ok)
        BY <1>2, <2>1 DEF UnderWay
    <2>3. /\ creating' = creating /\ ready' = ready
          /\ retiring' = IF m.ok THEN retiring \ {d} ELSE retiring
        BY <1>7 DEF HandleCleanupFinished, CleanupFinished
    <2>4. m.ok => d \notin pg
        <3>1. CASE m.ok = TRUE
            <4>1. UnderWay("CleanupFinished", d, TRUE)
                BY <2>2, <3>1
            <4> QED  BY <2>1, <4>1 DEF PostgresInv, JobsMatchPostgres
        <3> QED  BY <2>1, <3>1
    <2>5. InventoryMatchesPostgres'
        BY <1>1, <1>4, <2>3, <2>4 DEF PostgresInv, InventoryMatchesPostgres
    <2> QED  BY <1>5, <2>3, <2>5 DEF PostgresInv
<1> QED  BY <1>6, <1>7

\* A statement is executed, or is not, and reported, or is not.
LEMMA PostgresExecutes ==
    ASSUME Surroundings, PostgresInv, TaskStep
    PROVE  PostgresInv'
<1>0. OnlyIssued /\ creations \cup cleanups \subseteq 1 .. next_database_id
    BY DEF Surroundings, OnlyIssued
<1>1. UNCHANGED <<creating, ready, retiring, leases, next_database_id>>
    BY DEF TaskStep, TimerFires, TimerCancelled, DatabaseCreated, CreationFailed,
           CreationInterrupted, DatabaseDropped, CleanupFailed, CleanupInterrupted, vars, inventory
<1>2. LeasedDatabases' = LeasedDatabases /\ Unused' = Unused
    BY <1>1 DEF LeasedDatabases, Leased, Unused
<1>3. ASSUME NEW t \in timers, TimerFires(t) \/ TimerCancelled(t)
      PROVE  PostgresInv'
    <2>1. UNCHANGED <<creations, cleanups, pg, orphans>>
        BY <1>3 DEF TimerFires, TimerCancelled, jobs
    <2> DEFINE e == [type |-> "LeaseMaxTimeReached", lease |-> t.lease, generation |-> t.generation]
    <2>2. Elements(inbox') \subseteq Elements(inbox) \cup {e}
        BY <1>0, <1>3, SentElements DEF TimerFires, TimerCancelled
    <2>3. \A d, ok : \A type \in {"CreationFinished", "CleanupFinished"} :
                UnderWay(type, d, ok)' => UnderWay(type, d, ok)
        BY <2>2 DEF UnderWay
    <2> QED  BY <1>1, <1>2, <2>1, <2>3 DEF PostgresInv, JobsMatchPostgres, InventoryMatchesPostgres
<1>4. ASSUME NEW d \in creations,
             \/ DatabaseCreated(d)
             \/ \E executed \in BOOLEAN :
                    CreationFailed(d, executed) \/ CreationInterrupted(d, executed)
      PROVE  PostgresInv'
    <2>1. /\ creations' = creations \ {d} /\ cleanups' = cleanups
          /\ pg \subseteq pg' /\ pg' \subseteq pg \cup {d}
          /\ orphans \subseteq orphans'
        BY <1>4 DEF DatabaseCreated, CreationFailed, CreationInterrupted
    <2>2. PICK ok \in BOOLEAN :
            /\ Elements(inbox') \subseteq
                    Elements(inbox) \cup {[type |-> "CreationFinished", database |-> d, ok |-> ok]}
            /\ UnderWay("CreationFinished", d, ok)' =>
                    IF ok THEN d \in pg' ELSE d \in pg' => d \in orphans'
        <3>1. CASE DatabaseCreated(d)
            <4>1. /\ d \in pg'
                  /\ Elements(inbox') \subseteq
                        Elements(inbox) \cup {[type |-> "CreationFinished", database |-> d, ok |-> TRUE]}
                BY <1>0, <3>1, SentElements DEF DatabaseCreated, Finished
            <4> QED  BY <4>1
        <3>2. CASE \E executed \in BOOLEAN : CreationFailed(d, executed)
            <4>1. /\ d \in pg' => d \in orphans'
                  /\ Elements(inbox') \subseteq
                        Elements(inbox) \cup {[type |-> "CreationFinished", database |-> d, ok |-> FALSE]}
                BY <1>0, <3>2, SentElements DEF CreationFailed, Finished, PostgresInv, JobsMatchPostgres
            <4> QED  BY <4>1
        <3>3. CASE \E executed \in BOOLEAN : CreationInterrupted(d, executed)
            <4>1. inbox' = inbox
                BY <3>3 DEF CreationInterrupted
            <4>2. ~UnderWay("CreationFinished", d, TRUE)'
                BY <1>0, <4>1 DEF PostgresInv, JobsMatchPostgres, UnderWay
            <4> QED  BY <4>1, <4>2
        <3> QED  BY <1>4, <3>1, <3>2, <3>3
    <2>3. /\ d \in creating /\ d \in 1 .. next_database_id /\ d \in Unused
          /\ \A b \in BOOLEAN : ~UnderWay("CreationFinished", d, b)
          /\ ~UnderWay("CleanupFinished", d, TRUE)
        BY <1>0 DEF PostgresInv, JobsMatchPostgres, Unused
    <2>4. \A c, b : /\ UnderWay("CleanupFinished", c, b)' => UnderWay("CleanupFinished", c, b)
                    /\ UnderWay("CreationFinished", c, b)' =>
                            \/ UnderWay("CreationFinished", c, b)
                            \/ c = d /\ b = ok
        BY <2>2 DEF UnderWay
    <2>5. InventoryMatchesPostgres'
        BY <1>1, <1>2, <2>1, <2>3 DEF PostgresInv, InventoryMatchesPostgres
    <2>6. ASSUME NEW c \in 1 .. next_database_id
          PROVE  /\ \A b \in BOOLEAN : UnderWay("CreationFinished", c, b)' => c \notin creations'
                 /\ UnderWay("CreationFinished", c, TRUE)' /\ c \in creating => c \in pg'
                 /\ UnderWay("CreationFinished", c, FALSE)' /\ c \in creating /\ c \in pg'
                        => c \in orphans'
                 /\ UnderWay("CleanupFinished", c, TRUE)' => c \notin pg' /\ c \notin Unused
        <3>1. CASE c # d
            BY <2>1, <2>4, <3>1 DEF PostgresInv, JobsMatchPostgres
        <3>2. CASE c = d
            BY <2>1, <2>2, <2>3, <2>4, <3>2
        <3> QED  BY <3>1, <3>2
    <2>7. /\ creations' \subseteq creating /\ creations' \cap pg' = {} /\ cleanups' \cap Unused = {}
        BY <2>1 DEF PostgresInv, JobsMatchPostgres
    <2> QED  BY <1>1, <1>2, <2>5, <2>6, <2>7 DEF PostgresInv, JobsMatchPostgres
<1>5. ASSUME NEW d \in cleanups,
             \/ DatabaseDropped(d)
             \/ \E executed \in BOOLEAN :
                    CleanupFailed(d, executed) \/ CleanupInterrupted(d, executed)
      PROVE  PostgresInv'
    <2>1. /\ cleanups' = cleanups \ {d} /\ creations' = creations /\ orphans' = orphans
          /\ pg' \subseteq pg /\ pg \subseteq pg' \cup {d}
        BY <1>5 DEF DatabaseDropped, CleanupFailed, CleanupInterrupted
    <2>2. PICK ok \in BOOLEAN :
            /\ Elements(inbox') \subseteq
                    Elements(inbox) \cup {[type |-> "CleanupFinished", database |-> d, ok |-> ok]}
            /\ ok => d \notin pg'
        <3>1. CASE DatabaseDropped(d)
            <4>1. /\ d \notin pg'
                  /\ Elements(inbox') \subseteq
                        Elements(inbox) \cup {[type |-> "CleanupFinished", database |-> d, ok |-> TRUE]}
                BY <1>0, <3>1, SentElements DEF DatabaseDropped, Finished
            <4> QED  BY <4>1
        <3>2. CASE \E executed \in BOOLEAN : CleanupFailed(d, executed)
            <4>1. Elements(inbox') \subseteq
                    Elements(inbox) \cup {[type |-> "CleanupFinished", database |-> d, ok |-> FALSE]}
                BY <1>0, <3>2, SentElements DEF CleanupFailed, Finished
            <4> QED  BY <4>1
        <3>3. CASE \E executed \in BOOLEAN : CleanupInterrupted(d, executed)
            <4>1. inbox' = inbox
                BY <3>3 DEF CleanupInterrupted
            <4> QED  BY <4>1
        <3> QED  BY <1>5, <3>1, <3>2, <3>3
    <2>3. d \notin Unused /\ d \in 1 .. next_database_id
        BY <1>0 DEF PostgresInv, JobsMatchPostgres
    <2>4. \A c, b : /\ UnderWay("CreationFinished", c, b)' => UnderWay("CreationFinished", c, b)
                    /\ UnderWay("CleanupFinished", c, b)' =>
                            \/ UnderWay("CleanupFinished", c, b)
                            \/ c = d /\ b = ok
        BY <2>2 DEF UnderWay
    <2>5. InventoryMatchesPostgres'
        BY <1>1, <1>2, <2>1, <2>3 DEF PostgresInv, InventoryMatchesPostgres, Unused
    <2>6. ASSUME NEW c \in 1 .. next_database_id
          PROVE  /\ \A b \in BOOLEAN : UnderWay("CreationFinished", c, b)' => c \notin creations'
                 /\ UnderWay("CreationFinished", c, TRUE)' /\ c \in creating => c \in pg'
                 /\ UnderWay("CreationFinished", c, FALSE)' /\ c \in creating /\ c \in pg'
                        => c \in orphans'
                 /\ UnderWay("CleanupFinished", c, TRUE)' => c \notin pg' /\ c \notin Unused
        BY <2>1, <2>2, <2>3, <2>4 DEF PostgresInv, JobsMatchPostgres, Unused
    <2>7. /\ creations' \subseteq creating /\ creations' \cap pg' = {} /\ cleanups' \cap Unused = {}
        BY <2>1 DEF PostgresInv, JobsMatchPostgres
    <2> QED  BY <1>1, <1>2, <2>5, <2>6, <2>7 DEF PostgresInv, JobsMatchPostgres
<1> QED  BY <1>3, <1>4, <1>5 DEF TaskStep

LEMMA PostgresStep ==
    ASSUME Surroundings, Surroundings', PostgresInv, [SystemNext]_allvars
    PROVE  PostgresInv'
<1>0. OnlyIssued
    BY DEF Surroundings
<1>1. CASE EngineStep
    <2>1. ServesCalls \/ HandleCreationFinished \/ HandleCleanupFinished
        BY <1>1, EngineStepIsNext DEF Surroundings, EngineInv
    <2> QED  BY <1>1, <2>1, PostgresServes, PostgresReports
<1>2. CASE TaskStep
    BY <1>2, PostgresExecutes
\* Nothing else touches databases, their jobs or their reports.
<1>3. ASSUME UNCHANGED <<creating, ready, retiring, leases, next_database_id>>,
             UNCHANGED <<creations, cleanups, pg, orphans>>,
             \A m \in Elements(inbox') :
                m \in Elements(inbox) \/ m.type \notin {"CreationFinished", "CleanupFinished"}
      PROVE  PostgresInv'
    <2>1. LeasedDatabases' = LeasedDatabases /\ Unused' = Unused
        BY <1>3 DEF LeasedDatabases, Leased, Unused
    <2>2. \A d, ok : \A type \in {"CreationFinished", "CleanupFinished"} :
                UnderWay(type, d, ok)' => UnderWay(type, d, ok)
        BY <1>3 DEF UnderWay
    <2> QED  BY <1>3, <2>1, <2>2 DEF PostgresInv, JobsMatchPostgres, InventoryMatchesPostgres
<1>4. CASE CallerStep
    <2>1. /\ UNCHANGED <<creating, ready, retiring, leases, next_database_id>>
          /\ UNCHANGED <<creations, cleanups, pg, orphans>>
        BY <1>4 DEF CallerStep, AttachSend, AttachReturn, AttachElapsed, AttachTimedOut,
            AttachAborted, DropReceiver, SessionDrop, CallBecomesOverdue, BecomeOverdue, ReleaseSend,
            ReleaseReturn, ReleaseTimedOut, vars, jobs, inventory
    <2>2. ASSUME NEW r, SendDetach(r)
          PROVE  \A m \in Elements(inbox') : m \in Elements(inbox) \/ m.type = "Detach"
        <3> DEFINE e == [type |-> "Detach", lease |-> answer[r].lease, generation |-> answer[r].generation]
        <3>1. Elements(inbox') \subseteq Elements(inbox) \cup {e}
            BY <1>0, <2>2, SentElements DEF SendDetach
        <3> QED  BY <3>1
    <2>3. ASSUME NEW r, NEW l, AttachSend(r, l)
          PROVE  \A m \in Elements(inbox') : m \in Elements(inbox) \/ m.type = "AttachOrJoin"
        <3> DEFINE e == [type |-> "AttachOrJoin", lease |-> l, call |-> r]
        <3>1. Elements(inbox') \subseteq Elements(inbox) \cup {e}
            BY <1>0, <2>3, SentElements DEF AttachSend
        <3> QED  BY <3>1
    <2>4. ASSUME NEW x, NEW l, ReleaseSend(x, l)
          PROVE  \A m \in Elements(inbox') : m \in Elements(inbox) \/ m.type = "ReleaseLease"
        <3> DEFINE e == [type |-> "ReleaseLease", lease |-> l, call |-> x]
        <3>1. Elements(inbox') \subseteq Elements(inbox) \cup {e}
            BY <1>0, <2>4, SentElements DEF ReleaseSend
        <3> QED  BY <3>1
    <2>5. \/ inbox' = inbox
          \/ \E r \in Requests : SendDetach(r)
          \/ \E r \in Requests, l \in LeaseIds : AttachSend(r, l)
          \/ \E x \in Releases, l \in LeaseIds : ReleaseSend(x, l)
        BY <1>4 DEF CallerStep, AttachReturn, AttachElapsed, AttachTimedOut, AttachAborted,
            DropReceiver, SessionDrop, CallBecomesOverdue, ReleaseReturn, ReleaseTimedOut
    <2>6. \A m \in Elements(inbox') :
            m \in Elements(inbox) \/ m.type \notin {"CreationFinished", "CleanupFinished"}
        BY <2>2, <2>3, <2>4, <2>5
    <2> QED  BY <1>3, <2>1, <2>6
<1>5. CASE ShutdownStep
    <2>1. /\ UNCHANGED <<creating, ready, retiring, leases, next_database_id>>
          /\ UNCHANGED <<creations, cleanups, pg, orphans>>
        BY <1>5 DEF ShutdownStep, BeginShutdown, WorkerExits, SendShutdown, JoinEngine, vars, jobs,
            inventory
    <2> DEFINE e == [type |-> "Shutdown"]
    <2>2. inbox' = inbox \/ inbox' = <<>> \/ Send(e)
        BY <1>5 DEF ShutdownStep, BeginShutdown, WorkerExits, SendShutdown, JoinEngine
    <2>3. Elements(inbox') \subseteq Elements(inbox) \cup {e}
        <3>1. CASE inbox' = <<>>
            BY <3>1 DEF Elements
        <3> QED  BY <1>0, <2>2, <3>1, SentElements
    <2> QED  BY <1>3, <2>1, <2>3
<1>6. CASE UNCHANGED allvars
    BY <1>3, <1>6 DEF allvars, vars, inventory, jobs
<1> QED  BY <1>1, <1>2, <1>4, <1>5, <1>6 DEF SystemNext

LEMMA PostgresStart ==
    ASSUME SystemInit
    PROVE  PostgresInv
<1>1. /\ creating = {} /\ retiring = {} /\ orphans = {} /\ creations = {} /\ cleanups = {}
      /\ inbox = <<>> /\ pg = 1 .. InitialSlots /\ ready \in InitialOrders
      /\ leases = [l \in LeaseIds |-> NoEntry]
    BY DEF SystemInit, Init
<1>2. LeasedDatabases = {}
    BY <1>1 DEF LeasedDatabases, Leased, NoEntry
<1>3. Elements(inbox) = {}
    BY <1>1 DEF Elements
<1>4. Elements(ready) = 1 .. InitialSlots
    <2>1. InitialSlots \in Nat
        BY ConfigAssumption
    <2> DEFINE S == 1 .. InitialSlots
    <2>2. IsFiniteSet(S)
        BY <2>1, FS_Interval
    <2>3. ready \in [S -> S] /\ \A i, j \in S : ready[i] = ready[j] => i = j
        BY <1>1 DEF InitialOrders
    <2> HIDE DEF S
    <2>4. ready \in Injection(S, S)
        BY <2>3 DEF Injection, IsInjective
    <2>5. ready \in Surjection(S, S)
        BY <2>2, <2>4, FS_Injection
    <2>6. Elements(ready) = S
        BY <2>3, <2>5 DEF Surjection, Elements
    <2> QED  BY <2>6 DEF S
<1> QED  BY <1>1, <1>2, <1>3, <1>4 DEF PostgresInv, JobsMatchPostgres, InventoryMatchesPostgres,
            UnderWay, Unused

\* Whatever is lost, fails or is interrupted: what the engine hands out or keeps
\* for handing out exists, and every database in PostgreSQL is known to it, but
\* for those whose creation was reported as failed although it had succeeded.
THEOREM InventoryIsTrue == SystemSpec => []InventoryMatchesPostgres
<1>1. SystemInit => PostgresInv
    BY PostgresStart
<1>2. Surroundings /\ Surroundings' /\ PostgresInv /\ [SystemNext]_allvars => PostgresInv'
    BY PostgresStep
<1>3. SystemSpec => []PostgresInv
    BY <1>1, <1>2, SurroundingsHold, PTL DEF SystemSpec
<1>4. PostgresInv => InventoryMatchesPostgres
    BY DEF PostgresInv
<1> QED  BY <1>3, <1>4, PTL

----------------------------------------------------------------------------
\* Shutdown.

\* Once its worker is gone no creation is requested any more.
LEMMA NothingRequested ==
    ASSUME Surroundings, EngineStep, ~CreationAccepted
    PROVE  creating' \subseteq creating
<1> USE DEF inventory
<1>0. \A base : Grow(base, CreationAccepted) => creating' = base
    BY DEF Grow
<1>1. ASSUME NEW l, RetireLease(l, CreationAccepted)
      PROVE  creating' \subseteq creating
    BY <1>0, <1>1 DEF RetireLease
<1>2. CASE HandleAttachOrJoin
    <2> DEFINE l == Head(inbox).lease
               r == Head(inbox).call
    <2>1. AttachOrJoin(l, r, ReceiverOpen(r), CreationAccepted)
        BY <1>2 DEF HandleAttachOrJoin
    <2>2. \/ AttachReject(l, r) \/ AttachJoin(l, r, ReceiverOpen(r))
          \/ AttachQueue(l, r, CreationAccepted) \/ AttachAssign(l, r, CreationAccepted)
          \/ AttachUnclaimed(l, r)
        BY <2>1 DEF AttachOrJoin
    <2> HIDE DEF l, r
    <2>3. CASE AttachQueue(l, r, CreationAccepted) \/ AttachAssign(l, r, CreationAccepted)
        BY <1>0, <2>3 DEF AttachQueue, AttachAssign
    <2>4. CASE AttachReject(l, r) \/ AttachJoin(l, r, ReceiverOpen(r)) \/ AttachUnclaimed(l, r)
        BY <2>4 DEF AttachReject, AttachJoin, AttachUnclaimed
    <2> QED  BY <2>2, <2>3, <2>4
<1>3. CASE HandleReleaseLease
    BY <1>1, <1>3 DEF HandleReleaseLease, ReleaseLease, ReleaseNothing, ReleaseOpen, vars
<1>4. CASE HandleLeaseMaxTimeReached
    BY <1>1, <1>4 DEF HandleLeaseMaxTimeReached, LeaseMaxTimeReached
<1>5. CASE HandleDetach \/ HandleCreationFinished \/ HandleCleanupFinished \/ HandleShutdown
    BY <1>5 DEF HandleDetach, Detach, HandleCreationFinished, CreationFinished,
        HandleCleanupFinished, CleanupFinished, HandleShutdown, Shutdown
<1>6. CASE DispatchWaiters
    BY <1>0, <1>6 DEF DispatchWaiters, DispatchPop, ServeOverdue, ServeReply, ServeDone, DispatchExit
<1> QED  BY <1>2, <1>3, <1>4, <1>5, <1>6 DEF EngineStep

\* The engine stops by Shutdown only, and then does nothing.
LEMMA StoppedIsLast ==
    ASSUME Surroundings, [Next]_vars
    PROVE  /\ pc = "stopped" => pc' = "stopped"
           /\ pc' = "stopped" => Shutdown \/ UNCHANGED vars
<1> USE DEF dispatch
<1>1. ASSUME NEW l \in LeaseIds, NEW r \in Requests, NEW delivered \in BOOLEAN,
             NEW accepted \in BOOLEAN, AttachOrJoin(l, r, delivered, accepted)
      PROVE  pc = "idle" /\ pc' \in {"idle", "dispatch"}
    BY <1>1 DEF AttachOrJoin, AttachReject, AttachJoin, AttachQueue, AttachAssign, AttachUnclaimed
<1>2. ASSUME NEW l \in LeaseIds, NEW accepted \in BOOLEAN, ReleaseLease(l, accepted)
      PROVE  pc = "idle" /\ pc' = "idle"
    BY <1>2 DEF ReleaseLease, ReleaseNothing, ReleaseOpen, vars
<1>3. CASE \/ DispatchPop \/ ServeOverdue \/ ServeDone
           \/ \E delivered \in BOOLEAN : ServeReply(delivered)
           \/ \E accepted \in BOOLEAN : DispatchExit(accepted)
           \/ \E l \in LeaseIds, g \in 1 .. next_generation : Detach(l, g)
           \/ \E l \in LeaseIds, g \in 1 .. next_generation, accepted \in BOOLEAN :
                LeaseMaxTimeReached(l, g, accepted)
           \/ \E d \in 1 .. next_database_id, ok \in BOOLEAN :
                CreationFinished(d, ok) \/ CleanupFinished(d, ok)
           \/ \E r \in Requests : BecomeOverdue(r)
    <2>1. pc # "stopped" /\ pc' # "stopped"
        BY <1>3 DEF DispatchPop, ServeOverdue, ServeDone, ServeReply, DispatchExit, Detach,
            LeaseMaxTimeReached, CreationFinished, CleanupFinished, BecomeOverdue
    <2> QED  BY <2>1
<1>4. CASE Shutdown
    BY <1>4 DEF Shutdown
<1>5. CASE UNCHANGED vars
    BY <1>5 DEF vars
<1> QED  BY <1>1, <1>2, <1>3, <1>4, <1>5 DEF Next

LEMMA ShutdownInOrderStep ==
    ASSUME Surroundings, ShutdownInOrder, [SystemNext]_allvars
    PROVE  ShutdownInOrder'
<1> USE DEF jobs
<1>0. [Next]_vars
    BY SurroundingsStep
<1>1. pc' = "stopped" => cancelled' = 1 .. next_generation'
    BY <1>0, StoppedIsLast DEF Shutdown, vars, dispatch, ShutdownInOrder
<1>2. pc = "stopped" => pc' = "stopped"
    BY <1>0, StoppedIsLast
<1>3. CASE EngineStep
    <2>1. /\ creations' = creations \cup (creating' \cap Reserved)
          /\ cleanups' \subseteq cleanups \cup (retiring' \ retiring)
          /\ UNCHANGED <<workers, phase>>
        BY <1>3, EngineJobs
    <2>2. ASSUME workers = {}
          PROVE  creations' = creations /\ cleanups' = cleanups
        <3>1. creating' \subseteq 1 .. next_database_id
            BY <1>3, <2>2, NothingRequested DEF CreationAccepted, Surroundings, EngineInv, TypeOK
        <3>2. creating' \cap Reserved = {}
            BY <3>1, WidthAssumption DEF Reserved, Surroundings, EngineInv, TypeOK
        <3>3. cleanups' = cleanups
            BY <1>3, <2>2 DEF EngineStep, HandleAttachOrJoin, HandleReleaseLease, HandleDetach,
                HandleLeaseMaxTimeReached, HandleCreationFinished, HandleCleanupFinished,
                HandleShutdown, DispatchWaiters, EngineIO
        <3> QED  BY <2>1, <3>2, <3>3
    <2> QED  BY <1>1, <1>2, <2>1, <2>2 DEF ShutdownInOrder
<1>4. CASE CallerStep
    <2>1. UNCHANGED <<creations, cleanups, workers, phase>>
        BY <1>4 DEF CallerStep, AttachSend, AttachReturn, AttachElapsed, AttachTimedOut,
            AttachAborted, DropReceiver, SessionDrop, CallBecomesOverdue, ReleaseSend,
            ReleaseReturn, ReleaseTimedOut
    <2> QED  BY <1>1, <1>2, <2>1 DEF ShutdownInOrder
<1>5. CASE TaskStep
    <2>1. creations' \cup cleanups' \subseteq creations \cup cleanups /\ UNCHANGED <<workers, phase>>
        BY <1>5 DEF TaskStep, TimerFires, TimerCancelled, DatabaseCreated, CreationFailed,
            CreationInterrupted, DatabaseDropped, CleanupFailed, CleanupInterrupted
    <2> QED  BY <1>1, <1>2, <2>1 DEF ShutdownInOrder
<1>6. CASE ShutdownStep
    <2>1. CASE BeginShutdown \/ \E w \in workers : WorkerExits(w)
        BY <1>1, <1>2, <2>1 DEF BeginShutdown, WorkerExits, Stopping, ShutdownInOrder
    <2>2. CASE SendShutdown
        BY <1>1, <1>2, <2>2 DEF SendShutdown, TrackerEmpty, ShutdownInOrder
    <2>3. CASE JoinEngine
        BY <1>1, <1>2, <2>3 DEF JoinEngine, ShutdownInOrder
    <2> QED  BY <1>6, <2>1, <2>2, <2>3 DEF ShutdownStep
<1>7. CASE UNCHANGED allvars
    BY <1>1, <1>2, <1>7 DEF allvars, ShutdownInOrder
<1> QED  BY <1>3, <1>4, <1>5, <1>6, <1>7 DEF SystemNext

\* Shutdown goes through its phases in order: workers and jobs are gone before
\* the engine is told to stop, and a stopped engine has cancelled every token.
THEOREM ShutdownInOrderHolds == SystemSpec => []ShutdownInOrder
<1>1. SystemInit => ShutdownInOrder
    BY DEF SystemInit, Init, ShutdownInOrder
<1>2. Surroundings /\ ShutdownInOrder /\ [SystemNext]_allvars => ShutdownInOrder'
    BY ShutdownInOrderStep
<1> QED  BY <1>1, <1>2, SurroundingsHold, PTL DEF SystemSpec

\* When shutdown has returned no statement is under way or can be requested,
\* and every session that was ever handed out is cut off.
THEOREM ShutdownIsComplete == SystemSpec => []StoppedIsQuiet
<1>1. Surroundings /\ ShutdownInOrder => StoppedIsQuiet
    <2> SUFFICES ASSUME Surroundings, ShutdownInOrder, phase = "Stopped"
                 PROVE  /\ creations \cup cleanups = {} /\ workers = {}
                        /\ \A r \in AttachedCalls : answer[r].generation \in cancelled
        BY DEF StoppedIsQuiet
    <2>1. \A r \in AttachedCalls : answer[r].generation \in 1 .. next_generation
        BY DEF Surroundings, EngineInv, Inv, AssignmentsTraced, RepliesTraced
    <2> QED  BY <2>1 DEF ShutdownInOrder
<1> QED  BY <1>1, SurroundingsHold, ShutdownInOrderHolds, PTL

----------------------------------------------------------------------------
\* Reservations.

Reported == {inbox[i].database : i \in InboxPositions("CreationFinished")}

BackedInv == phase = "Running" => ReportedOnce /\ creating = creations \cup Reported

\* Where a queue holds members of K.
Positions(s, K) == {i \in DOMAIN s : s[i] \in K}

LEMMA PositionsInTail ==
    ASSUME NEW M, NEW s \in Seq(M), s # <<>>, NEW K
    PROVE  /\ \A i \in Positions(Tail(s), K) :
                i \in Nat /\ i + 1 \in Positions(s, K) \ {1} /\ Tail(s)[i] = s[i + 1]
           /\ \A i \in Positions(s, K) \ {1} :
                i \in Nat /\ i - 1 \in Positions(Tail(s), K) /\ Tail(s)[i - 1] = s[i]
           /\ 1 \in Positions(s, K) <=> Head(s) \in K
<1> DEFINE t == Tail(s)
           n == Len(s)
<1>1. /\ n \in Nat /\ n > 0 /\ t \in Seq(M) /\ Len(t) = n - 1 /\ Head(s) = s[1]
      /\ \A i \in 1 .. Len(t) : t[i] = s[i + 1]
    BY HeadTailProperties, LenProperties, EmptySeq
<1>2. DOMAIN s = 1 .. n /\ DOMAIN t = 1 .. n - 1
    BY <1>1, LenProperties
<1>3. \A i \in 1 .. n - 1 : t[i] = s[i + 1]
    BY <1>1
<1> HIDE DEF t, n
<1>4. /\ Positions(s, K) = {i \in 1 .. n : s[i] \in K}
      /\ Positions(t, K) = {i \in 1 .. n - 1 : t[i] \in K}
    BY <1>2 DEF Positions
<1>5. ASSUME NEW i \in Positions(t, K)
      PROVE  i \in Nat /\ i + 1 \in Positions(s, K) \ {1} /\ t[i] = s[i + 1]
    <2>1. i \in 1 .. n - 1 /\ t[i] \in K
        BY <1>4
    <2>2. i \in Nat /\ i + 1 \in 1 .. n /\ i + 1 # 1
        BY <1>1, <2>1
    <2> QED  BY <1>3, <1>4, <2>1, <2>2
<1>6. ASSUME NEW i \in Positions(s, K) \ {1}
      PROVE  i \in Nat /\ i - 1 \in Positions(t, K) /\ t[i - 1] = s[i]
    <2>1. i \in 1 .. n /\ s[i] \in K /\ i # 1
        BY <1>4
    <2>2. i \in Nat /\ i - 1 \in 1 .. n - 1 /\ (i - 1) + 1 = i
        BY <1>1, <2>1
    <2>3. t[i - 1] = s[i]
        BY <1>3, <2>2
    <2> QED  BY <1>4, <2>1, <2>2, <2>3
<1>7. 1 \in Positions(s, K) <=> Head(s) \in K
    BY <1>1, <1>4
<1> QED  BY <1>5, <1>6, <1>7 DEF t

LEMMA PositionsInAppend ==
    ASSUME NEW M, NEW s \in Seq(M), NEW m \in M, NEW K
    PROVE  /\ Len(s) + 1 \notin Positions(s, K)
           /\ Positions(Append(s, m), K) =
                IF m \in K THEN Positions(s, K) \cup {Len(s) + 1} ELSE Positions(s, K)
           /\ Append(s, m)[Len(s) + 1] = m
           /\ \A i \in Positions(s, K) : Append(s, m)[i] = s[i]
<1> DEFINE t == Append(s, m)
           n == Len(s)
<1>1. /\ n \in Nat /\ t \in Seq(M) /\ Len(t) = n + 1 /\ t[n + 1] = m
      /\ \A i \in 1 .. n : t[i] = s[i]
    BY AppendProperties, LenProperties
<1>2. DOMAIN s = 1 .. n /\ DOMAIN t = 1 .. n + 1
    BY <1>1, LenProperties
<1> HIDE DEF t, n
<1>3. /\ Positions(s, K) = {i \in 1 .. n : s[i] \in K}
      /\ Positions(t, K) = {i \in 1 .. n + 1 : t[i] \in K}
    BY <1>2 DEF Positions
<1>4. \A i : i \in 1 .. n + 1 <=> i \in 1 .. n \/ i = n + 1
    BY <1>1
<1>5. n + 1 \notin 1 .. n
    BY <1>1
<1>6. \A i : i \in Positions(t, K) <=> i \in Positions(s, K) \/ (i = n + 1 /\ m \in K)
    BY <1>1, <1>3, <1>4
<1>7. \A i \in Positions(s, K) : t[i] = s[i]
    BY <1>1, <1>3
<1>8. n + 1 \notin Positions(s, K)
    BY <1>3, <1>5
<1>9. Positions(t, K) = IF m \in K THEN Positions(s, K) \cup {n + 1} ELSE Positions(s, K)
    BY <1>6
<1> QED  BY <1>1, <1>7, <1>8, <1>9 DEF t, n

Creations(M) == {m \in M : m.type = "CreationFinished"}

LEMMA CreationPositions ==
    ASSUME NEW M, NEW s \in Seq(M)
    PROVE  {i \in DOMAIN s : s[i].type = "CreationFinished"} = Positions(s, Creations(M))
<1>1. \A i \in DOMAIN s : s[i] \in M
    BY ElementOfSeq, LenProperties
<1> QED  BY <1>1 DEF Positions, Creations

\* A message is consumed: a report of a creation is gone with it.
LEMMA ReportedAfterReceive ==
    ASSUME OnlyIssued, inbox # <<>>, inbox' = Tail(inbox), ReportedOnce
    PROVE  /\ ReportedOnce'
           /\ Reported' = IF Head(inbox).type = "CreationFinished"
                          THEN Reported \ {Head(inbox).database} ELSE Reported
<1> DEFINE s == inbox
           t == Tail(inbox)
           K == Creations(IssuedMessages)
           P == Positions(s, K)
           Q == Positions(t, K)
<1>1. s \in Seq(IssuedMessages) /\ t \in Seq(IssuedMessages)
    BY HeadTailProperties DEF OnlyIssued
<1>2. InboxPositions("CreationFinished") = P
    BY <1>1, CreationPositions DEF InboxPositions
<1>3. InboxPositions("CreationFinished")' = {i \in DOMAIN t : t[i].type = "CreationFinished"}
    BY DEF InboxPositions
<1>4. InboxPositions("CreationFinished")' = Q
    BY <1>1, <1>3, CreationPositions
<1>5. /\ \A i \in Q : i \in Nat /\ i + 1 \in P \ {1} /\ t[i] = s[i + 1]
      /\ \A i \in P \ {1} : i \in Nat /\ i - 1 \in Q /\ t[i - 1] = s[i]
      /\ 1 \in P <=> Head(s) \in K
    BY <1>1, PositionsInTail
<1>6. Head(s) \in IssuedMessages /\ Head(s) = s[1]
    BY <1>1, HeadTailProperties
<1>7. 1 \in P <=> Head(s).type = "CreationFinished"
    BY <1>5, <1>6 DEF Creations
<1>8. \A i, j \in P : s[i].database = s[j].database => i = j
    BY <1>2 DEF ReportedOnce
<1>9. Reported = {s[i].database : i \in P}
    BY <1>2 DEF Reported
<1>10. Reported' = {t[i].database : i \in Q}
    BY <1>4 DEF Reported
<1>11. inbox' = t
    OBVIOUS
<1> HIDE DEF s, t, K, P, Q
<1>A. ReportedOnce' <=> \A i, j \in Q : t[i].database = t[j].database => i = j
    BY <1>4, <1>11 DEF ReportedOnce
<1>12. ASSUME NEW i \in Q, NEW j \in Q, t[i].database = t[j].database
       PROVE  i = j
    <2>1. i + 1 = j + 1
        BY <1>5, <1>8, <1>12
    <2> QED  BY <1>5, <2>1
<1>13. \A d : d \in Reported' => \E i \in P \ {1} : d = s[i].database
    BY <1>5, <1>10
<1>14. \A i \in P \ {1} : s[i].database \in Reported'
    BY <1>5, <1>10
<1>15. Reported' = IF 1 \in P THEN Reported \ {s[1].database} ELSE Reported
    <2>1. CASE 1 \in P
        BY <1>8, <1>9, <1>13, <1>14, <2>1
    <2>2. CASE 1 \notin P
        BY <1>9, <1>13, <1>14, <2>2
    <2> QED  BY <2>1, <2>2
<1> QED  BY <1>6, <1>7, <1>A, <1>12, <1>15 DEF s

\* A message is sent: it is a report of a creation, or of something else.
LEMMA ReportedAfterSend ==
    ASSUME OnlyIssued, NEW STATE m, inbox' = Append(inbox, m), ReportedOnce,
           m.type = "CreationFinished" => m.database \notin Reported
    PROVE  /\ ReportedOnce'
           /\ Reported' = IF m.type = "CreationFinished" THEN Reported \cup {m.database} ELSE Reported
<1> DEFINE s == inbox
           t == Append(inbox, m)
           T == IssuedMessages \cup {m}
           K == Creations(T)
           P == Positions(s, K)
           Q == Positions(t, K)
           e == Len(inbox) + 1
<1>1. inbox \in Seq(IssuedMessages) /\ IssuedMessages \subseteq T /\ m \in T
    BY DEF OnlyIssued
<1> HIDE DEF T
<1>2. s \in Seq(T) /\ t \in Seq(T)
    BY <1>1, SequenceOver, AppendProperties
<1>3. InboxPositions("CreationFinished") = P
    BY <1>2, CreationPositions DEF InboxPositions
<1>4. InboxPositions("CreationFinished")' = {i \in DOMAIN t : t[i].type = "CreationFinished"}
    BY DEF InboxPositions
<1>5. InboxPositions("CreationFinished")' = Q
    BY <1>2, <1>4, CreationPositions
<1> HIDE DEF K
<1>6. /\ e \notin P /\ t[e] = m /\ Q = IF m \in K THEN P \cup {e} ELSE P
      /\ \A i \in P : t[i] = s[i]
    <2>1. inbox \in Seq(T) /\ m \in T
        BY <1>1, <1>2
    <2>2. /\ Len(inbox) + 1 \notin Positions(inbox, K)
          /\ Positions(Append(inbox, m), K) =
                IF m \in K THEN Positions(inbox, K) \cup {Len(inbox) + 1} ELSE Positions(inbox, K)
          /\ Append(inbox, m)[Len(inbox) + 1] = m
          /\ \A i \in Positions(inbox, K) : Append(inbox, m)[i] = inbox[i]
        BY <2>1, PositionsInAppend, ZenonT(30)
    <2> QED  BY <2>2
<1>7. m \in K <=> m.type = "CreationFinished"
    BY <1>1 DEF Creations, K
<1>8. \A i, j \in P : s[i].database = s[j].database => i = j
    BY <1>3 DEF ReportedOnce
<1>9. Reported = {s[i].database : i \in P}
    BY <1>3 DEF Reported
<1>10. Reported' = {t[i].database : i \in Q}
    BY <1>5 DEF Reported
<1>11. inbox' = t
    OBVIOUS
<1> HIDE DEF s, t, P, Q, e
<1>A. ReportedOnce' <=> \A i, j \in Q : t[i].database = t[j].database => i = j
    BY <1>5, <1>11 DEF ReportedOnce
<1>12. \A i, j \in Q : t[i].database = t[j].database => i = j
    BY <1>6, <1>7, <1>8, <1>9
<1>13. Reported' = IF m.type = "CreationFinished" THEN Reported \cup {m.database} ELSE Reported
    BY <1>6, <1>7, <1>9, <1>10
<1> QED  BY <1>A, <1>12, <1>13

LEMMA ReportIsUnderWay ==
    ASSUME OnlyIssued, NEW d \in Reported
    PROVE  d \in 1 .. next_database_id /\ \E ok \in BOOLEAN : UnderWay("CreationFinished", d, ok)
<1>1. PICK i \in DOMAIN inbox : inbox[i].type = "CreationFinished" /\ d = inbox[i].database
    BY DEF Reported, InboxPositions
<1>2. inbox[i] \in IssuedMessages /\ inbox[i] \in Elements(inbox)
    BY <1>1, ElementOfSeq, LenProperties DEF OnlyIssued, Elements
<1>3. /\ d \in 1 .. next_database_id /\ inbox[i].ok \in BOOLEAN
      /\ inbox[i] = [type |-> "CreationFinished", database |-> d, ok |-> inbox[i].ok]
    BY <1>1, <1>2 DEF IssuedMessages
<1> QED  BY <1>2, <1>3 DEF UnderWay

\* What callers send is not a report.
LEMMA CallersSend ==
    ASSUME CallerStep
    PROVE  \/ inbox' = inbox
           \/ \E r \in Requests : SendDetach(r)
           \/ \E r \in Requests, l \in LeaseIds : AttachSend(r, l)
           \/ \E x \in Releases, l \in LeaseIds : ReleaseSend(x, l)
BY DEF CallerStep, AttachReturn, AttachElapsed, AttachTimedOut, AttachAborted,
       DropReceiver, SessionDrop, CallBecomesOverdue, ReleaseReturn, ReleaseTimedOut

\* The server runs until it is told to stop.
LEMMA RunningIsFirst ==
    ASSUME Surroundings, [SystemNext]_allvars, phase' = "Running"
    PROVE  phase = "Running"
<1> USE DEF callers, jobs
<1>1. CASE EngineStep
    BY <1>1, EngineJobs
<1>2. CASE CallerStep
    BY <1>2 DEF CallerStep, AttachSend, AttachReturn, AttachElapsed, AttachTimedOut,
        AttachAborted, DropReceiver, SessionDrop, CallBecomesOverdue, ReleaseSend,
        ReleaseReturn, ReleaseTimedOut
<1>3. CASE TaskStep
    BY <1>3 DEF TaskStep, TimerFires, TimerCancelled, DatabaseCreated, CreationFailed,
        CreationInterrupted, DatabaseDropped, CleanupFailed, CleanupInterrupted
<1>4. CASE ShutdownStep \/ UNCHANGED allvars
    BY <1>4 DEF ShutdownStep, BeginShutdown, WorkerExits, SendShutdown, JoinEngine, allvars
<1> QED  BY <1>1, <1>2, <1>3, <1>4 DEF SystemNext

LEMMA BackedStep ==
    ASSUME Surroundings, PostgresInv, BackedInv, Surroundings', [SystemNext]_allvars
    PROVE  BackedInv'
<1> USE DEF callers, jobs
<1> DEFINE Backed == ReportedOnce' /\ creating' = creations' \cup Reported'
<1> SUFFICES ASSUME phase' = "Running" PROVE Backed
    BY DEF BackedInv
<1>0. OnlyIssued
    BY DEF Surroundings
<1>1. phase = "Running"
    BY RunningIsFirst
<1>2. ReportedOnce /\ creating = creations \cup Reported
    BY <1>1 DEF BackedInv
<1>3. ASSUME inbox' = inbox
      PROVE  ReportedOnce' /\ Reported' = Reported
    BY <1>2, <1>3 DEF ReportedOnce, Reported, InboxPositions
<1>4. ASSUME NEW STATE m, Send(m), m.type # "CreationFinished", UNCHANGED <<creating, creations>>
      PROVE  Backed
    <2>1. inbox' = Append(inbox, m)
        BY <1>1, <1>4 DEF Send
    <2>2. ReportedOnce' /\ Reported' = Reported
        BY <1>0, <1>2, <1>4, <2>1, ReportedAfterSend
    <2> QED  BY <1>2, <1>4, <2>2
<1>5. CASE HandleCreationFinished
    <2> DEFINE d == Head(inbox).database
    <2>1. /\ inbox # <<>> /\ inbox' = Tail(inbox) /\ Head(inbox).type = "CreationFinished"
          /\ creations' = creations
          /\ creating' = IF d \in creating THEN creating \ {d} ELSE creating
        BY <1>5 DEF HandleCreationFinished, Receive, CreationFinished
    <2>2. ReportedOnce' /\ Reported' = Reported \ {d}
        BY <1>0, <1>2, <2>1, ReportedAfterReceive
    <2>3. d \in Reported
        <3>1. 1 \in DOMAIN inbox /\ Head(inbox) = inbox[1]
            BY <1>0, <2>1, EmptySeq, LenProperties, HeadTailProperties DEF OnlyIssued
        <3> QED  BY <2>1, <3>1 DEF Reported, InboxPositions
    <2>4. d \notin creations
        BY <1>0, <2>3, ReportIsUnderWay DEF PostgresInv, JobsMatchPostgres
    <2> QED  BY <1>2, <2>1, <2>2, <2>3, <2>4
<1>6. CASE EngineStep /\ ~HandleCreationFinished
    <2>1. ReportedOnce' /\ Reported' = Reported
        <3>1. CASE inbox' = inbox
            BY <1>3, <3>1
        <3>2. CASE inbox # <<>> /\ inbox' = Tail(inbox) /\ Head(inbox).type # "CreationFinished"
            BY <1>0, <1>2, <3>2, ReportedAfterReceive
        <3> QED  BY <1>6, <3>1, <3>2 DEF EngineStep, HandleAttachOrJoin, HandleReleaseLease,
                HandleDetach, HandleLeaseMaxTimeReached, HandleCleanupFinished, HandleShutdown,
                DispatchWaiters, Receive
    <2>2. creations' = creations \cup (creating' \cap Reserved)
        BY <1>6, EngineJobs
    <2>3. creating \subseteq creating' /\ creating' \subseteq creating \cup Reserved
        <3>1. CASE HandleCleanupFinished
            BY <3>1 DEF HandleCleanupFinished, CleanupFinished
        <3>2. CASE ServesCalls
            <4>1. KeepsInventory
                BY <3>2, InventoryStep DEF Surroundings, EngineInv
            <4> QED  BY <4>1 DEF KeepsInventory, OnlyNewReservations, Reserved
        <3> QED  BY <1>6, <3>1, <3>2, EngineStepIsNext DEF Surroundings, EngineInv
    <2>4. creating' = creating \cup (creating' \cap Reserved)
        BY <2>3
    <2> QED  BY <1>2, <2>1, <2>2, <2>4
<1>7. CASE CallerStep
    <2>1. UNCHANGED <<creating, creations>>
        BY <1>7 DEF CallerStep, AttachSend, AttachReturn, AttachElapsed, AttachTimedOut,
            AttachAborted, DropReceiver, SessionDrop, CallBecomesOverdue, BecomeOverdue, ReleaseSend,
            ReleaseReturn, ReleaseTimedOut, vars, inventory
    <2>2. CASE inbox' = inbox
        BY <1>2, <1>3, <2>1, <2>2
    <2>3. ASSUME NEW r, SendDetach(r)
          PROVE  Backed
        BY <1>4, <2>1, <2>3 DEF SendDetach
    <2>4. ASSUME NEW r, NEW l, AttachSend(r, l)
          PROVE  Backed
        BY <1>4, <2>1, <2>4 DEF AttachSend
    <2>5. ASSUME NEW x, NEW l, ReleaseSend(x, l)
          PROVE  Backed
        BY <1>4, <2>1, <2>5 DEF ReleaseSend
    <2> QED  BY <1>7, <2>2, <2>3, <2>4, <2>5, CallersSend
<1>8. CASE TaskStep
    <2>0. creating' = creating
        BY <1>8 DEF TaskStep, TimerFires, TimerCancelled, DatabaseCreated, CreationFailed,
            CreationInterrupted, DatabaseDropped, CleanupFailed, CleanupInterrupted, vars, inventory
    <2>1. ASSUME NEW t \in timers, TimerFires(t)
          PROVE  Backed
        BY <1>4, <2>0, <2>1 DEF TimerFires
    <2>2. ASSUME NEW t \in timers, TimerCancelled(t)
          PROVE  Backed
        BY <1>2, <1>3, <2>0, <2>2 DEF TimerCancelled
    <2>3. ASSUME NEW d \in cleanups, NEW ok \in BOOLEAN, Finished("CleanupFinished", d, ok),
                 creations' = creations
          PROVE  Backed
        BY <1>4, <2>0, <2>3 DEF Finished
    <2>4. ASSUME NEW d \in creations, NEW ok \in BOOLEAN, Finished("CreationFinished", d, ok),
                 creations' = creations \ {d}
          PROVE  Backed
        <3> DEFINE m == [type |-> "CreationFinished", database |-> d, ok |-> ok]
        <3>1. inbox' = Append(inbox, m)
            BY <1>1, <2>4 DEF Finished, Send
        <3>2. m.database \notin Reported
            BY <1>0, <2>4, ReportIsUnderWay DEF PostgresInv, JobsMatchPostgres
        <3>3. ReportedOnce' /\ Reported' = Reported \cup {d}
            BY <1>0, <1>2, <3>1, <3>2, ReportedAfterSend
        <3> QED  BY <1>2, <2>0, <2>4, <3>3
    <2> QED  BY <1>1, <1>8, <2>1, <2>2, <2>3, <2>4 DEF TaskStep, DatabaseCreated, CreationFailed,
                CreationInterrupted, DatabaseDropped, CleanupFailed, CleanupInterrupted, Stopping
<1>9. CASE ShutdownStep
    BY <1>1, <1>9 DEF ShutdownStep, BeginShutdown, WorkerExits, SendShutdown, JoinEngine, Stopping
<1>10. CASE UNCHANGED allvars
    BY <1>2, <1>3, <1>10 DEF allvars, vars, inventory
<1> QED  BY <1>5, <1>6, <1>7, <1>8, <1>9, <1>10 DEF SystemNext

\* What jobs, reports and the inventory say of PostgreSQL holds, and with it the
\* correspondence between reservations and the work on them.
THEOREM ReservationsHold == SystemSpec => [](PostgresInv /\ BackedInv)
<1>1. SystemInit => PostgresInv /\ BackedInv
    <2> SUFFICES ASSUME SystemInit PROVE BackedInv
        BY PostgresStart
    <2>1. inbox = <<>> /\ creating = {} /\ creations = {}
        BY DEF SystemInit, Init
    <2>2. InboxPositions("CreationFinished") = {}
        BY <2>1 DEF InboxPositions
    <2> QED  BY <2>1, <2>2 DEF BackedInv, ReportedOnce, Reported
<1>2. Surroundings /\ Surroundings' /\ PostgresInv /\ [SystemNext]_allvars => PostgresInv'
    BY PostgresStep
<1>3. Surroundings /\ Surroundings' /\ PostgresInv /\ BackedInv /\ [SystemNext]_allvars => BackedInv'
    BY BackedStep
<1> QED  BY <1>1, <1>2, <1>3, SurroundingsHold, PTL DEF SystemSpec

\* While the server runs, every reservation that counts as supply has a worker
\* on it or its one report in the inbox: no failure, and no order of results,
\* leaves grow counting on a database that nobody creates.
THEOREM ReservationsHaveWorkers == SystemSpec => []ReservationsAreBacked
<1>1. BackedInv => ReservationsAreBacked
    BY DEF BackedInv, ReservationsAreBacked, Reported
<1> QED  BY <1>1, ReservationsHold, PTL

=============================================================================
