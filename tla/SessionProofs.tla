---------------------------- MODULE SessionProofs ---------------------------
(***************************************************************************)
(* What callers of attach and release can rely on: a release they saw      *)
(* succeed is final, the engine counts the sessions that exist, a session  *)
(* whose token is live has its database to itself, leases that wait have   *)
(* supply under way, and a client that is refused is told why.             *)
(***************************************************************************)
EXTENDS Connection, SystemProofs

USE DEF Reservation, Settled, Supplied, ReturnReady, Retired, CompleteCleanup

----------------------------------------------------------------------------
\* Who sends a request, and who moves a caller.

\* A request that joins the inbox is the one its caller just made.
LEMMA RequestsAreSent ==
    ASSUME Surroundings, [SystemNext]_allvars, NEW m \in Elements(inbox'), m \notin Elements(inbox)
    PROVE  \/ \E r \in Requests, l \in LeaseIds :
                AttachSend(r, l) /\ m = [type |-> "AttachOrJoin", lease |-> l, call |-> r]
           \/ \E x \in Releases, l \in LeaseIds :
                ReleaseSend(x, l) /\ m = [type |-> "ReleaseLease", lease |-> l, call |-> x]
           \/ m.type \notin {"AttachOrJoin", "ReleaseLease"}
<1>0. OnlyIssued
    BY DEF Surroundings
<1>1. ~EngineStep
    BY EngineJobs
<1>2. inbox' # inbox
    OBVIOUS
<1>3. ASSUME NEW STATE e, Send(e)
      PROVE  m = e
    BY <1>0, <1>3, SentElements
<1>4. CASE CallerStep
    <2>1. ASSUME NEW r \in Requests, SendDetach(r)
          PROVE  m.type = "Detach"
        BY <1>3, <2>1 DEF SendDetach
    <2>2. ASSUME NEW r \in Requests, NEW l \in LeaseIds, AttachSend(r, l)
          PROVE  m = [type |-> "AttachOrJoin", lease |-> l, call |-> r]
        BY <1>3, <2>2 DEF AttachSend
    <2>3. ASSUME NEW x \in Releases, NEW l \in LeaseIds, ReleaseSend(x, l)
          PROVE  m = [type |-> "ReleaseLease", lease |-> l, call |-> x]
        BY <1>3, <2>3 DEF ReleaseSend
    <2> QED  BY <1>2, <1>4, <2>1, <2>2, <2>3, CallersSend
<1>5. CASE TaskStep
    <2>1. ASSUME NEW t, TimerFires(t)
          PROVE  m.type = "LeaseMaxTimeReached"
        BY <1>3, <2>1 DEF TimerFires
    <2>2. ASSUME NEW d, NEW ok, Finished("CreationFinished", d, ok) \/ Finished("CleanupFinished", d, ok)
          PROVE  m.type \in {"CreationFinished", "CleanupFinished"}
        BY <1>3, <2>2 DEF Finished
    <2> QED  BY <1>2, <1>5, <2>1, <2>2 DEF TaskStep, TimerCancelled, DatabaseCreated, CreationFailed,
                CreationInterrupted, DatabaseDropped, CleanupFailed, CleanupInterrupted
<1>6. CASE ShutdownStep
    <2>1. inbox' # <<>>
        BY DEF Elements
    <2>2. Send([type |-> "Shutdown"])
        BY <1>2, <1>6, <2>1 DEF ShutdownStep, BeginShutdown, WorkerExits, SendShutdown, JoinEngine
    <2> QED  BY <1>3, <2>2
<1> QED  BY <1>1, <1>2, <1>4, <1>5, <1>6 DEF SystemNext, allvars

\* A release moves by its own caller, or by the engine's answer.
LEMMA ReleasesMove ==
    ASSUME [SystemNext]_allvars, release' # release
    PROVE  \/ HandleReleaseLease
           \/ \E x \in Releases, l \in LeaseIds : ReleaseSend(x, l)
           \/ \E x \in Releases : ReleaseReturn(x) \/ ReleaseTimedOut(x)
<1> USE DEF callers
<1>1. CASE EngineStep
    BY <1>1 DEF EngineStep, HandleAttachOrJoin, HandleDetach, HandleLeaseMaxTimeReached,
        HandleCreationFinished, HandleCleanupFinished, HandleShutdown, DispatchWaiters
<1>2. CASE CallerStep
    BY <1>2 DEF CallerStep, AttachSend, AttachReturn, AttachElapsed, AttachTimedOut,
        AttachAborted, DropReceiver, SessionDrop, CallBecomesOverdue
<1>3. CASE TaskStep
    BY <1>3 DEF TaskStep, TimerFires, TimerCancelled, DatabaseCreated, CreationFailed,
        CreationInterrupted, DatabaseDropped, CleanupFailed, CleanupInterrupted
<1>4. CASE ShutdownStep \/ UNCHANGED allvars
    BY <1>4 DEF ShutdownStep, BeginShutdown, WorkerExits, SendShutdown, JoinEngine, allvars
<1> QED  BY <1>1, <1>2, <1>3, <1>4 DEF SystemNext

\* A caller of attach moves by itself.
LEMMA CallsMove ==
    ASSUME [SystemNext]_allvars, call' # call \/ late' # late
    PROVE  \/ \E r \in Requests, l \in LeaseIds : AttachSend(r, l)
           \/ /\ late' = late
              /\ \E r \in Requests : \/ AttachReturn(r) \/ AttachElapsed(r) \/ AttachTimedOut(r)
                                     \/ AttachAborted(r) \/ SessionDrop(r)
<1> USE DEF callers
<1>1. CASE EngineStep
    BY <1>1 DEF EngineStep, HandleAttachOrJoin, HandleReleaseLease, HandleDetach,
        HandleLeaseMaxTimeReached, HandleCreationFinished, HandleCleanupFinished,
        HandleShutdown, DispatchWaiters
<1>2. CASE CallerStep
    BY <1>2 DEF CallerStep, AttachReturn, AttachElapsed, AttachTimedOut, AttachAborted,
        DropReceiver, SessionDrop, CallBecomesOverdue, ReleaseSend, ReleaseReturn, ReleaseTimedOut
<1>3. CASE TaskStep
    BY <1>3 DEF TaskStep, TimerFires, TimerCancelled, DatabaseCreated, CreationFailed,
        CreationInterrupted, DatabaseDropped, CleanupFailed, CleanupInterrupted
<1>4. CASE ShutdownStep \/ UNCHANGED allvars
    BY <1>4 DEF ShutdownStep, BeginShutdown, WorkerExits, SendShutdown, JoinEngine, allvars
<1> QED  BY <1>1, <1>2, <1>3, <1>4 DEF SystemNext

\* A call the engine has not received yet is answered by the handler of its own
\* message only.
LEMMA FreshIsReceived ==
    ASSUME Surroundings, [SystemNext]_allvars, NEW r \in Requests,
           answer[r].status = "Fresh", answer'[r] # answer[r]
    PROVE  HandleAttachOrJoin /\ Head(inbox).call = r
<1> USE DEF inventory, dispatch
<1>0. TypeOK /\ NoLostCall /\ answer \in [Requests -> Answers]
    BY DEF Surroundings, EngineInv, TypeOK
<1>1. EngineStep
    BY DEF SystemNext, CallerStep, AttachSend, AttachReturn, AttachElapsed, AttachTimedOut,
        AttachAborted, DropReceiver, SessionDrop, CallBecomesOverdue, BecomeOverdue, ReleaseSend,
        ReleaseReturn, ReleaseTimedOut, TaskStep, TimerFires, TimerCancelled, DatabaseCreated,
        CreationFailed, CreationInterrupted, DatabaseDropped, CleanupFailed, CleanupInterrupted,
        ShutdownStep, BeginShutdown, WorkerExits, SendShutdown, JoinEngine, allvars, vars
<1>2. CASE HandleAttachOrJoin
    <2> DEFINE l == Head(inbox).lease
               q == Head(inbox).call
               delivered == ReceiverOpen(q)
    <2>1. AttachOrJoin(l, q, delivered, CreationAccepted)
        BY <1>2 DEF HandleAttachOrJoin
    <2> HIDE DEF l, q, delivered
    <2>2. q # r => answer'[r] = answer[r]
        BY <1>0, <2>1 DEF AttachOrJoin, AttachReject, AttachJoin, AttachQueue,
            AttachAssign, AttachUnclaimed, Answered, ReplyAttached
    <2> QED  BY <1>2, <2>2 DEF q
<1>3. ASSUME ServeOverdue \/ ServeReply(ReceiverOpen(Head(replies)))
      PROVE  FALSE
    <2>1. replies \in Seq(Requests) /\ replies # <<>>
        BY <1>0, <1>3 DEF TypeOK, ServeOverdue, ServeReply
    <2>2. Head(replies) \in Requests /\ Head(replies) \in Elements(replies)
        BY <2>1, HeadIsElement
    <2>3. answer[Head(replies)].status = "Waiting"
        BY <1>0, <2>2 DEF NoLostCall
    <2>4. r # Head(replies) => answer'[r] = answer[r]
        BY <1>0, <1>3 DEF ServeOverdue, ServeReply, Answered, ReplyAttached
    <2> QED  BY <2>3, <2>4
<1>4. ASSUME HandleReleaseLease
      PROVE  FALSE
    <2> DEFINE l == Head(inbox).lease
    <2>1. ReleaseLease(l, CreationAccepted) /\ l \in LeaseIds
        BY <1>4, ReceivedElements DEF HandleReleaseLease, Surroundings, IssuedMessages
    <2> HIDE DEF l
    <2>2. r \notin Elements(group_waiters[l])
        BY <1>0, <2>1 DEF NoLostCall
    <2> QED  BY <2>1, <2>2 DEF ReleaseLease, ReleaseNothing, ReleaseOpen, Rejected, vars
<1>5. ASSUME DispatchPop
      PROVE  FALSE
    BY <1>5, PopEffect DEF Surroundings, EngineInv, QueueInv
<1> QED  BY <1>1, <1>2, <1>3, <1>4, <1>5 DEF EngineStep, HandleDetach, Detach,
            HandleLeaseMaxTimeReached, LeaseMaxTimeReached, HandleCreationFinished, CreationFinished,
            HandleCleanupFinished, CleanupFinished, HandleShutdown, Shutdown, DispatchWaiters,
            ServeDone, DispatchExit
----------------------------------------------------------------------------
\* Release.

LEMMA ReleasesCloseStep ==
    ASSUME Surroundings, ReleasesClose, [SystemNext]_allvars
    PROVE  ReleasesClose'
<1>0. /\ OnlyIssued /\ EngineInv /\ [Next]_vars
      /\ release \in [Releases -> [lease : LeaseIds \cup {NoLease},
                                   status : {"Idle", "Waiting", "ReplyOk", "ReplyLimit",
                                             "Ok", "Limit", "TimedOut"}]]
    BY SurroundingsStep DEF Surroundings, SystemTypeOK
<1>1. \A l \in LeaseIds : lease_records[l] = "Closed" => lease_records'[l] = "Closed"
    BY <1>0, ClosedIsForever
\* What becomes of one release.
<1>2. ASSUME NEW x \in Releases
      PROVE  /\ release[x].status # "Idle" =>
                    release'[x].lease = release[x].lease /\ release'[x].status # "Idle"
             /\ release'[x].status \in {"ReplyOk", "Ok"} =>
                    /\ release'[x].lease \in LeaseIds
                    /\ lease_records'[release'[x].lease] = "Closed"
    <2>0. release[x].status \in {"ReplyOk", "Ok"} =>
                release[x].lease \in LeaseIds /\ lease_records'[release[x].lease] = "Closed"
        BY <1>1 DEF ReleasesClose
    <2>1. CASE release' = release
        BY <2>0, <2>1
    <2>2. CASE HandleReleaseLease
        <3> DEFINE m == Head(inbox)
        <3>1. /\ m \in Elements(inbox) /\ m.lease \in LeaseIds /\ m.type = "ReleaseLease"
              /\ m.call \in Releases
            BY <1>0, <2>2, ReceivedElements DEF HandleReleaseLease, IssuedMessages
        <3>2. release[m.call].lease = m.lease
            BY <3>1 DEF ReleasesClose
        <3>3. /\ ReleaseLease(m.lease, CreationAccepted)
              /\ release' = IF release[m.call].status = "Waiting"
                            THEN [release EXCEPT ![m.call].status = ReleaseReply(m.lease)]
                            ELSE release
            BY <2>2 DEF HandleReleaseLease
        <3>4. ReleaseReply(m.lease) = "ReplyOk" => lease_records'[m.lease] = "Closed"
            BY <1>0, <3>1, <3>3 DEF ReleaseReply, ReleaseLease, ReleaseNothing, ReleaseOpen, Admission,
                vars, EngineInv, TypeOK
        <3> HIDE DEF m
        <3>5. CASE x = m.call /\ release[m.call].status = "Waiting"
            <4>1. /\ release'[x].lease = m.lease /\ release'[x].status = ReleaseReply(m.lease)
                  /\ ReleaseReply(m.lease) # "Idle"
                BY <1>0, <3>1, <3>2, <3>3, <3>5 DEF ReleaseReply
            <4> QED  BY <3>1, <3>2, <3>4, <3>5, <4>1 DEF ReleaseReply
        <3>6. CASE ~(x = m.call /\ release[m.call].status = "Waiting")
            <4>1. release'[x] = release[x]
                BY <1>0, <3>3, <3>6
            <4> QED  BY <2>0, <4>1
        <3> QED  BY <3>5, <3>6
    <2>3. ASSUME NEW y \in Releases, NEW l \in LeaseIds, ReleaseSend(y, l)
          PROVE  /\ release[x].status # "Idle" => release'[x] = release[x]
                 /\ release'[x] = release[x] \/ release'[x].status = "Waiting"
        BY <1>0, <2>3 DEF ReleaseSend, NoRelease
    <2>4. ASSUME NEW y \in Releases, ReleaseReturn(y) \/ ReleaseTimedOut(y)
          PROVE  /\ release'[x].lease = release[x].lease
                 /\ release[x].status # "Idle" => release'[x].status # "Idle"
                 /\ release'[x].status \in {"ReplyOk", "Ok"} => release[x].status \in {"ReplyOk", "Ok"}
        BY <1>0, <2>4 DEF ReleaseReturn, ReleaseTimedOut
    <2> QED  BY <2>0, <2>1, <2>2, <2>3, <2>4, ReleasesMove
<1>3. ASSUME NEW m \in Elements(inbox'), m.type = "ReleaseLease"
      PROVE  release'[m.call].lease = m.lease /\ release'[m.call].status # "Idle"
    <2>1. CASE m \in Elements(inbox)
        <3>1. m.call \in Releases
            <4>1. PICK i \in DOMAIN inbox : m = inbox[i]
                BY <2>1 DEF Elements
            <4>2. m \in IssuedMessages
                BY <1>0, <4>1, ElementOfSeq, LenProperties DEF OnlyIssued
            <4> QED  BY <1>3, <4>2 DEF IssuedMessages
        <3> QED  BY <1>2, <1>3, <2>1, <3>1 DEF ReleasesClose
    <2>2. CASE m \notin Elements(inbox)
        <3>1. PICK x \in Releases, l \in LeaseIds :
                    ReleaseSend(x, l) /\ m = [type |-> "ReleaseLease", lease |-> l, call |-> x]
            BY <1>3, <2>2, RequestsAreSent
        <3> QED  BY <1>0, <3>1 DEF ReleaseSend
    <2> QED  BY <2>1, <2>2
<1> QED  BY <1>2, <1>3 DEF ReleasesClose

LEMMA LateStep ==
    ASSUME Surroundings, ReleasesClose, LateCallsRefused, [SystemNext]_allvars
    PROVE  LateCallsRefused'
<1>0. /\ OnlyIssued /\ EngineInv /\ [Next]_vars /\ TypeOK
      /\ call \in [Requests -> {"Idle", "Waiting", "Elapsed", "Holding", "Done"}]
    BY SurroundingsStep DEF Surroundings, SystemTypeOK, EngineInv
<1>1. \A l \in LeaseIds : lease_records[l] = "Closed" => lease_records'[l] = "Closed"
    BY <1>0, ClosedIsForever
\* A caller that has called has called for good.
<1>2. ASSUME NEW r \in Requests
      PROVE  /\ call'[r] = "Idle" => call[r] = "Idle"
             /\ r \in late' /\ r \notin late => call[r] = "Idle" /\ call'[r] # "Idle"
    <2>1. ASSUME NEW q \in Requests, NEW l \in LeaseIds, AttachSend(q, l)
          PROVE  /\ call'[r] = "Idle" => call[r] = "Idle"
                 /\ r \in late' /\ r \notin late => call[r] = "Idle" /\ call'[r] # "Idle"
        BY <1>0, <2>1 DEF AttachSend
    <2>2. ASSUME NEW q \in Requests, \/ AttachReturn(q) \/ AttachElapsed(q) \/ AttachTimedOut(q)
                                     \/ AttachAborted(q) \/ SessionDrop(q)
          PROVE  call'[r] = "Idle" => call[r] = "Idle"
        BY <1>0, <2>2 DEF AttachReturn, AttachElapsed, AttachTimedOut, AttachAborted, DropReceiver,
            SessionDrop
    <2> QED  BY <2>1, <2>2, CallsMove
\* The message of a call is that of a caller.
<1>3. ASSUME NEW m \in Elements(inbox), m.type = "AttachOrJoin"
      PROVE  m.call \in Requests /\ m.lease \in LeaseIds
    <2>1. PICK i \in DOMAIN inbox : m = inbox[i]
        BY <1>3 DEF Elements
    <2>2. m \in IssuedMessages
        BY <1>0, <2>1, ElementOfSeq, LenProperties DEF OnlyIssued
    <2> QED  BY <1>3, <2>2 DEF IssuedMessages
<1>4. ASSUME NEW r \in Requests, answer[r].status = "Fresh", answer'[r] # answer[r]
      PROVE  /\ HandleAttachOrJoin /\ Head(inbox) \in Elements(inbox)
             /\ Head(inbox).type = "AttachOrJoin" /\ Head(inbox).call = r
    <2>1. HandleAttachOrJoin /\ Head(inbox).call = r
        BY <1>4, FreshIsReceived
    <2> QED  BY <1>0, <2>1, ReceivedElements DEF HandleAttachOrJoin
<1>5. ASSUME NEW r \in Requests, call'[r] = "Idle"
      PROVE  answer'[r].status = "Fresh" /\ r \notin late'
    <2>1. call[r] = "Idle" /\ answer[r].status = "Fresh" /\ r \notin late
        BY <1>2, <1>5 DEF LateCallsRefused
    <2>2. answer'[r] = answer[r]
        BY <1>4, <2>1 DEF LateCallsRefused
    <2> QED  BY <1>2, <1>5, <2>1, <2>2
<1>6. ASSUME NEW m \in Elements(inbox'), m.type = "AttachOrJoin"
      PROVE  /\ call'[m.call] # "Idle"
             /\ m.call \in late' => lease_records'[m.lease] = "Closed"
    <2>1. CASE m \in Elements(inbox)
        <3>1. /\ m.call \in Requests /\ m.lease \in LeaseIds /\ call[m.call] # "Idle"
              /\ m.call \in late => lease_records[m.lease] = "Closed"
            BY <1>3, <1>6, <2>1 DEF LateCallsRefused
        <3> QED  BY <1>1, <1>2, <3>1
    <2>2. CASE m \notin Elements(inbox)
        <3>1. PICK r \in Requests, l \in LeaseIds :
                    AttachSend(r, l) /\ m = [type |-> "AttachOrJoin", lease |-> l, call |-> r]
            BY <1>6, <2>2, RequestsAreSent
        <3>2. call[r] = "Idle" /\ call'[r] = "Waiting" /\ r \notin late
            BY <1>0, <3>1 DEF AttachSend, LateCallsRefused
        <3>3. r \in late' => Acknowledged(l)
            BY <3>1, <3>2 DEF AttachSend
        <3>4. Acknowledged(l) => lease_records[l] = "Closed"
            BY DEF Acknowledged, ReleasesClose
        <3> QED  BY <1>1, <3>1, <3>2, <3>3, <3>4
    <2> QED  BY <2>1, <2>2
<1>7. ASSUME NEW r \in Requests, r \in late'
      PROVE  answer'[r].status \notin {"Attached", "Waiting"}
    <2>1. CASE r \notin late
        <3>1. call[r] = "Idle" /\ answer[r].status = "Fresh"
            BY <1>2, <1>7, <2>1 DEF LateCallsRefused
        <3>2. answer'[r] = answer[r]
            BY <1>4, <3>1 DEF LateCallsRefused
        <3> QED  BY <3>1, <3>2
    <2>2. CASE r \in late /\ answer[r].status # "Fresh"
        <3>1. answer[r].status \notin {"Fresh", "Waiting", "Attached"}
            BY <2>2 DEF LateCallsRefused
        <3>2. answer'[r] = answer[r]
            BY <1>0, <3>1, AnswersAreFinal
        <3> QED  BY <3>1, <3>2
    <2>3. CASE r \in late /\ answer[r].status = "Fresh" /\ answer'[r] # answer[r]
        <3> DEFINE l == Head(inbox).lease
        <3>1. /\ HandleAttachOrJoin /\ Head(inbox) \in Elements(inbox)
              /\ Head(inbox).type = "AttachOrJoin" /\ Head(inbox).call = r
            BY <1>4, <2>3
        <3>2. l \in LeaseIds /\ lease_records[l] = "Closed"
            BY <1>3, <2>3, <3>1 DEF LateCallsRefused
        <3>3. AttachOrJoin(l, r, ReceiverOpen(r), CreationAccepted)
            BY <3>1 DEF HandleAttachOrJoin
        <3> HIDE DEF l
        <3>4. Admission(l) = "Closed"
            BY <3>2 DEF Admission
        <3>5. AttachReject(l, r)
            BY <3>3, <3>4 DEF AttachOrJoin, AttachJoin, AttachQueue, AttachAssign, AttachUnclaimed
        <3>6. answer'[r].status = "LeaseClosed"
            BY <1>0, <3>4, <3>5 DEF AttachReject, Answered, TypeOK
        <3> QED  BY <3>6
    <2>4. CASE r \in late /\ answer[r].status = "Fresh" /\ answer'[r] = answer[r]
        BY <2>4
    <2> QED  BY <2>1, <2>2, <2>3, <2>4
<1> QED  BY <1>5, <1>6, <1>7 DEF LateCallsRefused

\* The calls and releases of the program are where their answers say.
THEOREM ReleasesHold == SystemSpec => [](ReleasesClose /\ LateCallsRefused)
<1>1. SystemInit => ReleasesClose /\ LateCallsRefused
    <2> SUFFICES ASSUME SystemInit PROVE ReleasesClose /\ LateCallsRefused
        OBVIOUS
    <2>1. Elements(inbox) = {}
        BY DEF SystemInit, Elements
    <2> QED  BY <2>1 DEF SystemInit, Init, ReleasesClose, LateCallsRefused, NoRelease, NotAsked
<1>2. Surroundings /\ ReleasesClose /\ LateCallsRefused /\ [SystemNext]_allvars
        => ReleasesClose' /\ LateCallsRefused'
    BY ReleasesCloseStep, LateStep
<1> QED  BY <1>1, <1>2, SurroundingsHold, PTL DEF SystemSpec

\* A delivered reply whose token is live is of the lease that still holds it.
LEMMA LiveIsLeased ==
    ASSUME Surroundings, pc # "stopped", NEW r \in AttachedCalls, answer[r].generation \notin cancelled
    PROVE  /\ answer[r].lease \in LeaseIds /\ Leased(answer[r].lease)
           /\ leases[answer[r].lease].generation = answer[r].generation
           /\ leases[answer[r].lease].database = answer[r].database
<1>1. RepliesTraced /\ TokensFollowLeases
    BY DEF Surroundings, EngineInv, Inv, AssignmentsTraced, TokenInv
<1>2. answer[r].generation \in 1 .. next_generation /\ answer[r].lease \in LeaseIds
    BY <1>1 DEF RepliesTraced
<1>3. PICK l \in LeaseIds : Leased(l) /\ leases[l].generation = answer[r].generation
    BY <1>1, <1>2 DEF TokensFollowLeases
<1> QED  BY <1>1, <1>2, <1>3 DEF RepliesTraced

\* A release that was acknowledged is final: every session of the lease is cut
\* off by then, and no call made afterwards is ever attached to it, however the
\* messages, answers and deadlines of other callers interleave.
THEOREM ReleaseIsFinalForAll == SystemSpec => []ReleaseIsFinal
<1>1. Surroundings /\ ShutdownInOrder /\ ReleasesClose /\ LateCallsRefused => ReleaseIsFinal
    <2> SUFFICES ASSUME Surroundings, ShutdownInOrder, ReleasesClose, LateCallsRefused,
                        NEW r \in AttachedCalls
                 PROVE  /\ r \notin late
                        /\ Acknowledged(answer[r].lease) => answer[r].generation \in cancelled
        BY DEF ReleaseIsFinal
    <2>1. r \notin late
        BY DEF LateCallsRefused, AttachedCalls
    <2>2. ASSUME Acknowledged(answer[r].lease), answer[r].generation \notin cancelled
          PROVE  FALSE
        <3>1. lease_records[answer[r].lease] = "Closed"
            BY <2>2 DEF Acknowledged, ReleasesClose
        <3>2. CASE pc = "stopped"
            <4>1. answer[r].generation \in 1 .. next_generation
                BY DEF Surroundings, EngineInv, Inv, AssignmentsTraced, RepliesTraced
            <4> QED  BY <2>2, <3>2, <4>1 DEF ShutdownInOrder
        <3>3. CASE pc # "stopped"
            <4>1. answer[r].lease \in LeaseIds /\ Leased(answer[r].lease)
                BY <2>2, <3>3, LiveIsLeased
            <4> QED  BY <3>1, <4>1 DEF Surroundings, EngineInv, QueueInv, HeldIsOpen
        <3> QED  BY <3>2, <3>3
    <2> QED  BY <2>1, <2>2
<1> QED  BY <1>1, SurroundingsHold, ShutdownInOrderHolds, ReleasesHold, PTL

----------------------------------------------------------------------------
\* Counting the places of a kind of message in a queue.

LEMMA CountInTail ==
    ASSUME NEW M, NEW s \in Seq(M), s # <<>>, NEW K
    PROVE  /\ IsFiniteSet(Positions(s, K)) /\ IsFiniteSet(Positions(Tail(s), K))
           /\ Cardinality(Positions(Tail(s), K)) =
                IF Head(s) \in K THEN Cardinality(Positions(s, K)) - 1
                ELSE Cardinality(Positions(s, K))
<1> DEFINE t == Tail(s)
           P == Positions(s, K)
           Q == Positions(t, K)
<1>1. /\ \A i \in Q : i \in Nat /\ i + 1 \in P \ {1}
      /\ \A i \in P \ {1} : i \in Nat /\ i - 1 \in Q
      /\ 1 \in P <=> Head(s) \in K
    BY PositionsInTail
<1>2. IsFiniteSet(P)
    <2>1. Len(s) \in Nat /\ DOMAIN s = 1 .. Len(s)
        BY LenProperties
    <2>2. IsFiniteSet(1 .. Len(s))
        BY <2>1, FS_Interval
    <2>3. P \subseteq 1 .. Len(s)
        BY <2>1 DEF Positions
    <2> QED  BY <2>2, <2>3, FS_Subset
<1> HIDE DEF t, P, Q
<1>3. IsFiniteSet(P \ {1}) /\ Cardinality(P \ {1}) = IF 1 \in P THEN Cardinality(P) - 1 ELSE Cardinality(P)
    BY <1>2, FS_RemoveElement
<1> DEFINE f == [i \in P \ {1} |-> i - 1]
<1>4. f \in Bijection(P \ {1}, Q)
    <2>1. f \in [P \ {1} -> Q]
        BY <1>1
    <2>2. \A i, j \in P \ {1} : f[i] = f[j] => i = j
        BY <1>1
    <2>3. \A k \in Q : \E i \in P \ {1} : f[i] = k
        <3> SUFFICES ASSUME NEW k \in Q PROVE \E i \in P \ {1} : f[i] = k
            OBVIOUS
        <3>1. k \in Nat /\ k + 1 \in P \ {1} /\ (k + 1) - 1 = k
            BY <1>1
        <3> QED  BY <3>1
    <2> HIDE DEF f
    <2> QED  BY <2>1, <2>2, <2>3 DEF Bijection, Injection, Surjection, IsInjective
<1>5. IsFiniteSet(Q) /\ Cardinality(Q) = Cardinality(P \ {1})
    BY <1>3, <1>4, FS_Bijection DEF ExistsBijection
<1> QED  BY <1>1, <1>2, <1>3, <1>5 DEF t, P, Q

LEMMA CountInAppend ==
    ASSUME NEW M, NEW s \in Seq(M), NEW m \in M, NEW K
    PROVE  /\ IsFiniteSet(Positions(s, K)) /\ IsFiniteSet(Positions(Append(s, m), K))
           /\ Cardinality(Positions(Append(s, m), K)) =
                IF m \in K THEN Cardinality(Positions(s, K)) + 1
                ELSE Cardinality(Positions(s, K))
<1> DEFINE P == Positions(s, K)
           Q == Positions(Append(s, m), K)
           e == Len(s) + 1
<1>1. e \notin P /\ Q = IF m \in K THEN P \cup {e} ELSE P
    BY PositionsInAppend
<1>2. IsFiniteSet(P)
    <2>1. Len(s) \in Nat /\ DOMAIN s = 1 .. Len(s)
        BY LenProperties
    <2>2. IsFiniteSet(1 .. Len(s))
        BY <2>1, FS_Interval
    <2>3. P \subseteq 1 .. Len(s)
        BY <2>1 DEF Positions
    <2> QED  BY <2>2, <2>3, FS_Subset
<1> HIDE DEF P, Q, e
<1>3. IsFiniteSet(P \cup {e}) /\ Cardinality(P \cup {e}) = Cardinality(P) + 1
    BY <1>1, <1>2, FS_AddElement
<1> QED  BY <1>1, <1>2, <1>3 DEF P, Q

\* Detach messages of one generation.
DetachKind(M, g) == {m \in M : m.type = "Detach" /\ m.generation = g}

LEMMA DetachPositions ==
    ASSUME NEW M, NEW s \in Seq(M), NEW g
    PROVE  {i \in {k \in DOMAIN s : s[k].type = "Detach"} : s[i].generation = g}
                = Positions(s, DetachKind(M, g))
<1>1. \A i \in DOMAIN s : s[i] \in M
    BY ElementOfSeq, LenProperties
<1> QED  BY <1>1 DEF Positions, DetachKind

\* A message is consumed.
LEMMA DetachesReceived ==
    ASSUME OnlyIssued, inbox # <<>>, inbox' = Tail(inbox), NEW g
    PROVE  /\ IsFiniteSet(DetachesOf(g)) /\ IsFiniteSet(DetachesOf(g)')
           /\ Cardinality(DetachesOf(g)') =
                IF Head(inbox).type = "Detach" /\ Head(inbox).generation = g
                THEN Cardinality(DetachesOf(g)) - 1 ELSE Cardinality(DetachesOf(g))
<1> DEFINE T == IssuedMessages
           K == DetachKind(T, g)
<1>1. inbox \in Seq(T) /\ Tail(inbox) \in Seq(T) /\ Head(inbox) \in T
    BY HeadTailProperties DEF OnlyIssued
<1>2. DetachesOf(g)' = {i \in {k \in DOMAIN Tail(inbox) : Tail(inbox)[k].type = "Detach"} :
                            Tail(inbox)[i].generation = g}
    BY DEF DetachesOf, InboxPositions
<1> HIDE DEF T
<1>3. DetachesOf(g) = Positions(inbox, K)
    BY <1>1, DetachPositions DEF DetachesOf, InboxPositions
<1>4. DetachesOf(g)' = Positions(Tail(inbox), K)
    BY <1>1, <1>2, DetachPositions
<1>5. Head(inbox) \in K <=> Head(inbox).type = "Detach" /\ Head(inbox).generation = g
    BY <1>1 DEF DetachKind
<1> HIDE DEF K
<1>6. /\ IsFiniteSet(Positions(inbox, K)) /\ IsFiniteSet(Positions(Tail(inbox), K))
      /\ Cardinality(Positions(Tail(inbox), K)) =
            IF Head(inbox) \in K THEN Cardinality(Positions(inbox, K)) - 1
            ELSE Cardinality(Positions(inbox, K))
    BY <1>1, CountInTail
<1> QED  BY <1>3, <1>4, <1>5, <1>6

\* A message is sent.
LEMMA DetachesSent ==
    ASSUME OnlyIssued, NEW STATE m, inbox' = Append(inbox, m), NEW g
    PROVE  /\ IsFiniteSet(DetachesOf(g)) /\ IsFiniteSet(DetachesOf(g)')
           /\ Cardinality(DetachesOf(g)') =
                IF m.type = "Detach" /\ m.generation = g
                THEN Cardinality(DetachesOf(g)) + 1 ELSE Cardinality(DetachesOf(g))
<1> DEFINE T == IssuedMessages \cup {m}
           K == DetachKind(T, g)
<1>1. inbox \in Seq(IssuedMessages) /\ IssuedMessages \subseteq T /\ m \in T
    BY DEF OnlyIssued
<1>2. DetachesOf(g)' = {i \in {k \in DOMAIN Append(inbox, m) : Append(inbox, m)[k].type = "Detach"} :
                            Append(inbox, m)[i].generation = g}
    BY DEF DetachesOf, InboxPositions
<1> HIDE DEF T
<1>3. inbox \in Seq(T) /\ Append(inbox, m) \in Seq(T)
    BY <1>1, SequenceOver
<1>4. DetachesOf(g) = Positions(inbox, K)
    BY <1>3, DetachPositions DEF DetachesOf, InboxPositions
<1>5. DetachesOf(g)' = Positions(Append(inbox, m), K)
    BY <1>2, <1>3, DetachPositions
<1>6. m \in K <=> m.type = "Detach" /\ m.generation = g
    BY <1>1 DEF DetachKind
<1> HIDE DEF K
<1>7. /\ IsFiniteSet(Positions(inbox, K)) /\ IsFiniteSet(Positions(Append(inbox, m), K))
      /\ Cardinality(Positions(Append(inbox, m), K)) =
            IF m \in K THEN Cardinality(Positions(inbox, K)) + 1
            ELSE Cardinality(Positions(inbox, K))
    BY <1>1, <1>3, CountInAppend
<1> QED  BY <1>4, <1>5, <1>6, <1>7

----------------------------------------------------------------------------
\* Sessions and the connections the engine counts.

\* A Detach message is that of a session that was handed out.
DetachesTraced ==
    \A m \in Elements(inbox) : m.type = "Detach" =>
        \E r \in AttachedCalls : answer[r].lease = m.lease /\ answer[r].generation = m.generation

SessionsFinite == \A g \in Nat : IsFiniteSet(SessionsOf(g))

\* A reply that is delivered is a session and a connection; one that is not is
\* neither.
LEMMA ReplyCounts ==
    ASSUME TypeOK, SessionsFinite, NEW STATE r, r \in Requests, NEW STATE l, l \in LeaseIds,
           NEW STATE entry, entry \in Entries, NEW delivered \in BOOLEAN,
           ReplyAttached(r, l, entry, delivered), delivered <=> ReceiverOpen(r),
           r \notin AttachedCalls, UNCHANGED call, NEW CONSTANT h \in Nat, h = entry.generation
    PROVE  /\ SessionsFinite'
           /\ \A g \in Nat \ {h} : SessionsOf(g)' = SessionsOf(g)
           /\ Cardinality(SessionsOf(h)') + entry.conns
                = Cardinality(SessionsOf(h)) + leases'[l].conns
<1>1. /\ \A q \in Requests \ {r} : answer'[q] = answer[q]
      /\ answer'[r].status = "Attached" => answer'[r].generation = h
      /\ leases'[l].conns = ConnsAfterReply(entry, delivered)
      /\ answer'[r].status = "Attached" <=> entry.conns # MaxConns /\ delivered
    BY DEF ReplyAttached, TypeOK, Answered, Entries
<1>2. entry.conns \in 0 .. MaxConns /\ MaxConns \in Nat
    BY WidthAssumption DEF Entries
<1>3. \A g \in Nat : r \notin SessionsOf(g)
    BY DEF SessionsOf
<1>4. \A g \in Nat : SessionsOf(g)' \ {r} = SessionsOf(g)
    BY <1>1, <1>3 DEF SessionsOf, AttachedCalls
<1>5. IsFiniteSet(SessionsOf(h))
    BY <1>2 DEF SessionsFinite
<1>6. CASE answer'[r].status = "Attached"
    <2>1. SessionsOf(h)' = SessionsOf(h) \cup {r}
        BY <1>1, <1>2, <1>4, <1>6 DEF SessionsOf, AttachedCalls, ReceiverOpen
    <2>2. \A g \in Nat \ {h} : SessionsOf(g)' = SessionsOf(g)
        BY <1>1, <1>4, <1>6 DEF SessionsOf
    <2>3. leases'[l].conns = entry.conns + 1
        BY <1>1, <1>2, <1>6 DEF ConnsAfterReply
    <2>4. IsFiniteSet(SessionsOf(h)') /\ Cardinality(SessionsOf(h)') = Cardinality(SessionsOf(h)) + 1
        BY <1>2, <1>3, <1>5, <2>1, FS_AddElement
    <2>5. SessionsFinite'
        BY <2>2, <2>4 DEF SessionsFinite
    <2>6. Cardinality(SessionsOf(h)) \in Nat
        BY <1>5, FS_CardinalityType
    <2>7. Cardinality(SessionsOf(h)') + entry.conns = Cardinality(SessionsOf(h)) + leases'[l].conns
        BY <1>2, <2>3, <2>4, <2>6
    <2> QED  BY <2>2, <2>5, <2>7
<1>7. CASE answer'[r].status # "Attached"
    <2>1. \A g \in Nat : SessionsOf(g)' = SessionsOf(g)
        BY <1>4, <1>7 DEF SessionsOf, AttachedCalls
    <2>2. leases'[l].conns = entry.conns
        BY <1>1, <1>2, <1>7 DEF ConnsAfterReply
    <2>3. SessionsFinite'
        BY <2>1 DEF SessionsFinite
    <2> QED  BY <1>2, <2>1, <2>2, <2>3
<1> QED  BY <1>6, <1>7

\* The count, by generation.
LEMMA CountByGeneration ==
    ASSUME TypeOK
    PROVE  ConnsMatchSessions <=>
             (pc # "stopped" => \A l \in LeaseIds, h \in Nat \ {0} : leases[l].generation = h =>
                leases[l].conns = Cardinality(SessionsOf(h)) + Cardinality(DetachesOf(h)))
<1>1. \A l \in LeaseIds : leases[l].generation \in Nat
    BY DEF TypeOK, Entries
<1> QED  BY <1>1 DEF ConnsMatchSessions, Leased

LEMMA CountByGenerationNext ==
    ASSUME TypeOK'
    PROVE  ConnsMatchSessions' <=>
             (pc' # "stopped" => \A l \in LeaseIds, h \in Nat \ {0} : leases'[l].generation = h =>
                leases'[l].conns = Cardinality(SessionsOf(h)') + Cardinality(DetachesOf(h)'))
<1>1. \A l \in LeaseIds : leases'[l].generation \in Nat
    BY DEF TypeOK, Entries
<1>2. ConnsMatchSessions' <=>
        (pc' # "stopped" => \A l \in LeaseIds : leases'[l].generation # 0 =>
            leases'[l].conns = Cardinality({r \in AttachedCalls' :
                                    /\ answer'[r].generation = leases'[l].generation
                                    /\ call'[r] \in {"Waiting", "Elapsed", "Holding"}})
                + Cardinality({i \in InboxPositions("Detach")' :
                                    inbox'[i].generation = leases'[l].generation}))
    BY DEF ConnsMatchSessions, Leased, SessionsOf, DetachesOf
<1>3. \A h : /\ SessionsOf(h)' = {r \in AttachedCalls' :
                                    /\ answer'[r].generation = h
                                    /\ call'[r] \in {"Waiting", "Elapsed", "Holding"}}
             /\ DetachesOf(h)' = {i \in InboxPositions("Detach")' : inbox'[i].generation = h}
    BY DEF SessionsOf, DetachesOf
<1> QED  BY <1>1, <1>2, <1>3

\* Nobody has a session of a generation that was not issued yet.
LEMMA NewCounts ==
    ASSUME Surroundings, NEW h \in Nat, h = next_generation + 1
    PROVE  /\ SessionsOf(h) = {} /\ DetachesOf(h) = {}
           /\ \A k \in LeaseIds : leases[k].generation # h
<1>0. next_generation \in Nat /\ h \notin 1 .. next_generation /\ h # 0
    BY DEF Surroundings, EngineInv, TypeOK
<1>1. SessionsOf(h) = {}
    BY <1>0 DEF SessionsOf, Surroundings, EngineInv, Inv, AssignmentsTraced, RepliesTraced
<1>2. DetachesOf(h) = {}
    <2> SUFFICES ASSUME NEW i \in DOMAIN inbox, inbox[i].type = "Detach", inbox[i].generation = h
                 PROVE  FALSE
        BY DEF DetachesOf, InboxPositions
    <2>1. inbox[i] \in IssuedMessages
        BY ElementOfSeq, LenProperties DEF Surroundings, OnlyIssued
    <2> QED  BY <1>0, <2>1 DEF IssuedMessages
<1>3. \A k \in LeaseIds : leases[k].generation # h
    BY <1>0 DEF Surroundings, EngineInv, Inv, AssignmentsTraced, GenerationsIdentify, Leased
<1> QED  BY <1>1, <1>2, <1>3

\* An unread Detach message is a member of the inbox, which is finite.
LEMMA DetachesFinite ==
    ASSUME OnlyIssued, NEW g
    PROVE  IsFiniteSet(DetachesOf(g)) /\ Cardinality(DetachesOf(g)) \in Nat
<1>1. Len(inbox) \in Nat /\ DOMAIN inbox = 1 .. Len(inbox)
    BY LenProperties DEF OnlyIssued
<1>2. IsFiniteSet(1 .. Len(inbox))
    BY <1>1, FS_Interval
<1>3. DetachesOf(g) \subseteq 1 .. Len(inbox)
    BY <1>1 DEF DetachesOf, InboxPositions
<1>4. IsFiniteSet(DetachesOf(g))
    BY <1>2, <1>3, FS_Subset
<1> QED  BY <1>4, FS_CardinalityType

\* A step that hands out no session and takes none back.
LEMMA QuietStep ==
    ASSUME Surroundings, TypeOK', SessionsFinite, ConnsMatchSessions,
           \A g \in Nat : Cardinality(DetachesOf(g)') = Cardinality(DetachesOf(g)),
           \A g \in Nat : SessionsOf(g)' = SessionsOf(g),
           pc' # "stopped" => pc # "stopped",
           \A l \in LeaseIds : leases'[l].generation # 0 =>
                /\ leases'[l].generation = leases[l].generation
                /\ leases'[l].conns = leases[l].conns
    PROVE  SessionsFinite' /\ ConnsMatchSessions'
<1>0. TypeOK
    BY DEF Surroundings, EngineInv
<1>1. SessionsFinite'
    BY DEF SessionsFinite
<1>2. ConnsMatchSessions'
    BY <1>0, CountByGeneration, CountByGenerationNext
<1> QED  BY <1>1, <1>2

\* A reply that is or is not delivered keeps the count.
LEMMA ReplyKeepsCount ==
    ASSUME Surroundings, TypeOK', SessionsFinite, ConnsMatchSessions, pc # "stopped",
           NEW STATE r, r \in Requests, NEW STATE l, l \in LeaseIds,
           NEW STATE entry, entry \in Entries, NEW delivered \in BOOLEAN,
           ReplyAttached(r, l, entry, delivered), delivered <=> ReceiverOpen(r),
           r \notin AttachedCalls, UNCHANGED call, NEW CONSTANT h \in Nat, h = entry.generation,
           entry.conns = Cardinality(SessionsOf(h)) + Cardinality(DetachesOf(h)),
           \A k \in LeaseIds \ {l} : leases[k].generation # h,
           \A g \in Nat : Cardinality(DetachesOf(g)') = Cardinality(DetachesOf(g))
    PROVE  SessionsFinite' /\ ConnsMatchSessions'
<1>0. TypeOK /\ OnlyIssued
    BY DEF Surroundings, EngineInv
<1>1. /\ SessionsFinite'
      /\ \A g \in Nat \ {h} : SessionsOf(g)' = SessionsOf(g)
      /\ Cardinality(SessionsOf(h)') + entry.conns = Cardinality(SessionsOf(h)) + leases'[l].conns
    BY <1>0, ReplyCounts
<1>2. (\A k \in LeaseIds \ {l} : leases'[k] = leases[k]) /\ leases'[l].generation = h
    BY <1>0, ReplyEffect
<1>3. leases'[l].conns = Cardinality(SessionsOf(h)') + Cardinality(DetachesOf(h)')
    <2>1. /\ Cardinality(SessionsOf(h)') \in Nat /\ Cardinality(SessionsOf(h)) \in Nat
          /\ Cardinality(DetachesOf(h)) \in Nat
        BY <1>0, <1>1, DetachesFinite, FS_CardinalityType DEF SessionsFinite
    <2>2. leases'[l].conns \in Nat
        BY WidthAssumption DEF TypeOK, Entries
    <2> QED  BY <1>1, <2>1, <2>2
<1>4. ASSUME NEW k \in LeaseIds, NEW g \in Nat \ {0}, leases'[k].generation = g
      PROVE  leases'[k].conns = Cardinality(SessionsOf(g)') + Cardinality(DetachesOf(g)')
    <2>1. CASE k = l
        BY <1>2, <1>3, <1>4, <2>1
    <2>2. CASE k # l
        BY <1>0, <1>1, <1>2, <1>4, <2>2, CountByGeneration
    <2> QED  BY <2>1, <2>2
<1>5. ConnsMatchSessions'
    BY <1>4, CountByGenerationNext
<1> QED  BY <1>1, <1>5

LEMMA SameSessions ==
    ASSUME UNCHANGED call,
           \A q \in Requests : \/ answer'[q] = answer[q]
                               \/ answer[q].status # "Attached" /\ answer'[q].status # "Attached"
    PROVE  \A g \in Nat : SessionsOf(g)' = SessionsOf(g)
BY DEF SessionsOf, AttachedCalls

\* A session's message is handled: its connection is counted no more.
LEMMA DetachCounts ==
    ASSUME Surroundings, Surroundings', SessionsFinite, DetachesTraced, ConnsMatchSessions, HandleDetach
    PROVE  SessionsFinite' /\ ConnsMatchSessions'
<1> USE DEF dispatch
<1> DEFINE m == Head(inbox)
<1>0. /\ TypeOK /\ TypeOK' /\ OnlyIssued /\ RepliesTraced
      /\ leases \in [LeaseIds -> Entries]
    BY DEF Surroundings, EngineInv, Inv, AssignmentsTraced, TypeOK
<1>1. /\ inbox # <<>> /\ inbox' = Tail(inbox) /\ m.type = "Detach" /\ m \in Elements(inbox)
      /\ m.lease \in LeaseIds /\ m.generation \in Nat /\ pc' = pc /\ pc # "stopped"
      /\ Detach(m.lease, m.generation) /\ UNCHANGED <<answer, call>>
    <2>1. m \in Elements(inbox) /\ m \in IssuedMessages /\ m.type = "Detach"
        BY <1>0, ReceivedElements DEF HandleDetach
    <2>2. m.lease \in LeaseIds /\ m.generation \in 1 .. next_generation
        BY <2>1 DEF IssuedMessages
    <2> QED  BY <2>1, <2>2 DEF HandleDetach, Receive, Detach, callers
<1>2. \A g \in Nat : SessionsOf(g)' = SessionsOf(g)
    BY <1>1, SameSessions
<1>3. \A g \in Nat : /\ Cardinality(DetachesOf(g)) \in Nat
                     /\ Cardinality(DetachesOf(g)') \in Nat
                     /\ Cardinality(SessionsOf(g)) \in Nat
                     /\ Cardinality(DetachesOf(g)') = IF m.generation = g
                            THEN Cardinality(DetachesOf(g)) - 1 ELSE Cardinality(DetachesOf(g))
    BY <1>0, <1>1, DetachesReceived, FS_CardinalityType DEF SessionsFinite
<1>4. PICK r \in AttachedCalls : answer[r].lease = m.lease /\ answer[r].generation = m.generation
    BY <1>1 DEF DetachesTraced
<1>5. \A k \in LeaseIds : leases[k].generation # 0 /\ leases[k].generation = m.generation => k = m.lease
    BY <1>0, <1>4 DEF RepliesTraced, Leased
<1>6. IF Leased(m.lease) /\ leases[m.lease].generation = m.generation /\ leases[m.lease].conns > 0
      THEN leases' = [leases EXCEPT ![m.lease].conns = @ - 1]
      ELSE UNCHANGED leases
    BY <1>1 DEF Detach
<1>7. ASSUME NEW k \in LeaseIds, NEW g \in Nat \ {0}, leases'[k].generation = g
      PROVE  leases'[k].conns = Cardinality(SessionsOf(g)') + Cardinality(DetachesOf(g)')
    <2>0. leases[k].generation = g
        BY <1>0, <1>1, <1>6, <1>7 DEF Entries
    <2>1. leases[k].conns = Cardinality(SessionsOf(g)) + Cardinality(DetachesOf(g))
        BY <1>0, <1>1, <2>0, CountByGeneration
    <2>2. CASE g = m.generation
        <3>1. k = m.lease /\ Leased(m.lease)
            BY <1>5, <2>0, <2>2 DEF Leased
        <3>2. /\ Cardinality(DetachesOf(g)') = Cardinality(DetachesOf(g)) - 1
              /\ Cardinality(DetachesOf(g)') \in Nat /\ Cardinality(DetachesOf(g)) \in Nat
              /\ Cardinality(SessionsOf(g)) \in Nat /\ SessionsOf(g)' = SessionsOf(g)
            BY <1>2, <1>3, <2>2
        <3>3. leases[k].conns > 0
            BY <2>1, <3>2
        <3>4. leases'[k].conns = leases[k].conns - 1
            BY <1>0, <1>1, <1>6, <2>0, <2>2, <3>1, <3>3 DEF Entries
        <3> QED  BY <2>1, <3>2, <3>4
    <2>3. CASE g # m.generation
        <3>1. leases'[k] = leases[k]
            BY <1>0, <1>6, <2>0, <2>3
        <3> QED  BY <1>2, <1>3, <2>1, <2>3, <3>1
    <2> QED  BY <2>2, <2>3
<1>8. ConnsMatchSessions'
    BY <1>0, <1>7, CountByGenerationNext
<1>9. SessionsFinite'
    BY <1>2 DEF SessionsFinite
<1> QED  BY <1>8, <1>9

\* The engine counts a connection exactly when it hands a session out.
LEMMA EngineCounts ==
    ASSUME Surroundings, Surroundings', SessionsFinite, DetachesTraced, ConnsMatchSessions, EngineStep
    PROVE  SessionsFinite' /\ ConnsMatchSessions'
<1> USE DEF inventory, dispatch
<1>0. /\ TypeOK /\ TypeOK' /\ OnlyIssued /\ NoLostCall /\ ServeOK /\ GenerationsIdentify
      /\ leases \in [LeaseIds -> Entries] /\ answer \in [Requests -> Answers]
      /\ NoEntry.generation = 0
    BY DEF Surroundings, EngineInv, Inv, AssignmentsTraced, TypeOK, NoEntry
<1>1. CASE HandleDetach
    BY <1>1, DetachCounts
<1> SUFFICES ASSUME ~HandleDetach PROVE SessionsFinite' /\ ConnsMatchSessions'
    BY <1>1
<1>2. UNCHANGED call
    BY DEF EngineStep, HandleAttachOrJoin, HandleReleaseLease, HandleLeaseMaxTimeReached,
        HandleCreationFinished, HandleCleanupFinished, HandleShutdown, DispatchWaiters, callers
<1>3. \A g \in Nat : Cardinality(DetachesOf(g)') = Cardinality(DetachesOf(g))
    <2>1. CASE inbox' = inbox
        BY <2>1 DEF DetachesOf, InboxPositions
    <2>2. CASE inbox # <<>> /\ inbox' = Tail(inbox) /\ Head(inbox).type # "Detach"
        BY <1>0, <2>2, DetachesReceived
    <2> QED  BY <2>1, <2>2 DEF EngineStep, HandleAttachOrJoin, HandleReleaseLease,
                HandleLeaseMaxTimeReached, HandleCreationFinished, HandleCleanupFinished,
                HandleShutdown, DispatchWaiters, Receive
<1>4. pc' # "stopped" => pc # "stopped"
    <2>1. [Next]_vars
        BY EngineStepIsNext DEF Surroundings, EngineInv
    <2> QED  BY <2>1, StoppedIsLast
\* Steps that hand out no session.
<1>A. ASSUME \A q \in Requests : \/ answer'[q] = answer[q]
                                 \/ answer[q].status # "Attached" /\ answer'[q].status # "Attached",
             \A l \in LeaseIds : leases'[l] = leases[l] \/ leases'[l].generation = 0
      PROVE  SessionsFinite' /\ ConnsMatchSessions'
    <2>1. \A g \in Nat : SessionsOf(g)' = SessionsOf(g)
        BY <1>2, <1>A, SameSessions
    <2> QED  BY <1>0, <1>3, <1>4, <1>A, <2>1, QuietStep
\* A call joins a lease.
<1>B. ASSUME NEW STATE r, r \in Requests, NEW STATE l, l \in LeaseIds, NEW delivered \in BOOLEAN,
             ReplyAttached(r, l, leases[l], delivered), delivered <=> ReceiverOpen(r),
             r \notin AttachedCalls, Leased(l), pc # "stopped"
      PROVE  SessionsFinite' /\ ConnsMatchSessions'
    <2>1. PICK h \in Nat : h = leases[l].generation
        BY <1>0, <1>B DEF Entries
    <2>2. h # 0 /\ \A k \in LeaseIds \ {l} : leases[k].generation # h
        BY <1>0, <1>B, <2>1 DEF GenerationsIdentify, Leased
    <2>3. leases[l].conns = Cardinality(SessionsOf(h)) + Cardinality(DetachesOf(h))
        BY <1>0, <1>B, <2>1, <2>2, CountByGeneration
    <2>4. leases[l] \in Entries
        BY <1>0, <1>B
    <2> QED  BY <1>0, <1>2, <1>3, <1>B, <2>1, <2>2, <2>3, <2>4, ReplyKeepsCount
\* A lease is assigned a database.
<1>C. ASSUME NEW STATE r, r \in Requests, NEW STATE l, l \in LeaseIds, NEW delivered \in BOOLEAN,
             ReplyAttached(r, l, NewEntry, delivered), delivered <=> ReceiverOpen(r),
             r \notin AttachedCalls, ready # <<>>, pc # "stopped"
      PROVE  SessionsFinite' /\ ConnsMatchSessions'
    <2>1. NewEntry \in Entries /\ NewEntry.conns = 0 /\ NewEntry.generation = next_generation + 1
        BY <1>0, <1>C, NewEntryType
    <2>2. PICK h \in Nat : h = NewEntry.generation
        BY <2>1 DEF Entries
    <2>3. /\ SessionsOf(h) = {} /\ DetachesOf(h) = {}
          /\ \A k \in LeaseIds : leases[k].generation # h
        BY <2>1, <2>2, NewCounts
    <2>4. NewEntry.conns = Cardinality(SessionsOf(h)) + Cardinality(DetachesOf(h))
        BY <2>1, <2>3, FS_EmptySet
    <2> QED  BY <1>0, <1>2, <1>3, <1>C, <2>1, <2>2, <2>3, <2>4, ReplyKeepsCount
\* A lease may give its database up.
<1>D. ASSUME NEW l \in LeaseIds, NEW accepted, RetireLease(l, accepted)
      PROVE  \A k \in LeaseIds : leases'[k] = leases[k] \/ leases'[k].generation = 0
    BY <1>0, <1>D DEF RetireLease
<1>5. CASE HandleAttachOrJoin
    <2> DEFINE l == Head(inbox).lease
               r == Head(inbox).call
    <2>1. l \in LeaseIds /\ r \in Requests
        BY <1>0, <1>5, ReceivedElements DEF HandleAttachOrJoin, IssuedMessages
    <2>2. PICK delivered \in BOOLEAN : delivered = ReceiverOpen(r)
        BY TruthValue DEF ReceiverOpen
    <2>3. AttachOrJoin(l, r, delivered, CreationAccepted)
        BY <1>5, <2>2 DEF HandleAttachOrJoin
    <2> HIDE DEF l, r
    <2>4. pc = "idle" /\ answer[r].status = "Fresh" /\ r \notin AttachedCalls
        BY <2>3 DEF AttachOrJoin, NotAsked, AttachedCalls
    <2>5. delivered <=> ReceiverOpen(r)
        BY <2>2
    <2>6. CASE AttachReject(l, r) \/ AttachQueue(l, r, CreationAccepted) \/ AttachUnclaimed(l, r)
        <3>1. leases' = leases
            BY <2>6 DEF AttachReject, AttachQueue, AttachUnclaimed
        <3>2. (\A q \in Requests \ {r} : answer'[q] = answer[q]) /\ answer'[r].status # "Attached"
            BY <1>0, <2>1, <2>6 DEF AttachReject, AttachQueue, AttachUnclaimed, Answered
        <3> QED  BY <1>A, <2>4, <3>1, <3>2
    <2>7. CASE AttachJoin(l, r, delivered)
        BY <1>B, <2>1, <2>4, <2>5, <2>7 DEF AttachJoin
    <2>8. CASE delivered /\ AttachAssign(l, r, CreationAccepted)
        <3>1. ReplyAttached(r, l, NewEntry, TRUE) /\ ready # <<>>
            BY <2>8 DEF AttachAssign
        <3>2. TRUE <=> ReceiverOpen(r)
            BY <2>5, <2>8
        <3> QED  BY <1>C, <2>1, <2>4, <3>1, <3>2
    <2> QED  BY <2>3, <2>6, <2>7, <2>8 DEF AttachOrJoin
<1>6. CASE HandleReleaseLease
    <2> DEFINE l == Head(inbox).lease
    <2>1. l \in LeaseIds /\ ReleaseLease(l, CreationAccepted)
        BY <1>0, <1>6, ReceivedElements DEF HandleReleaseLease, IssuedMessages
    <2> HIDE DEF l
    <2>2. CASE ReleaseNothing(l)
        BY <1>A, <2>2 DEF ReleaseNothing, vars
    <2>3. CASE ReleaseOpen(l, CreationAccepted)
        <3>1. \A q \in Requests : \/ answer'[q] = answer[q]
                                  \/ answer[q].status # "Attached" /\ answer'[q].status # "Attached"
            <4>1. \A q \in Requests : q \in Elements(group_waiters[l]) => answer[q].status = "Waiting"
                BY <1>0, <2>1 DEF NoLostCall
            <4> QED  BY <2>3, <4>1 DEF ReleaseOpen, Rejected
        <3>2. RetireLease(l, CreationAccepted)
            BY <2>3 DEF ReleaseOpen
        <3> QED  BY <1>A, <1>D, <2>1, <3>1, <3>2
    <2> QED  BY <2>1, <2>2, <2>3 DEF ReleaseLease
<1>7. CASE HandleLeaseMaxTimeReached
    <2> DEFINE l == Head(inbox).lease
    <2>1. l \in LeaseIds /\ LeaseMaxTimeReached(l, Head(inbox).generation, CreationAccepted)
        BY <1>0, <1>7, ReceivedElements DEF HandleLeaseMaxTimeReached, IssuedMessages
    <2> HIDE DEF l
    <2> QED  BY <1>A, <1>D, <2>1 DEF LeaseMaxTimeReached
<1>8. CASE HandleCreationFinished \/ HandleCleanupFinished \/ HandleShutdown
    BY <1>A, <1>8 DEF HandleCreationFinished, CreationFinished, HandleCleanupFinished,
        CleanupFinished, HandleShutdown, Shutdown
<1>9. CASE DispatchWaiters
    <2>1. CASE DispatchPop
        BY <1>0, <1>A, <2>1, PopEffect DEF Surroundings, EngineInv, QueueInv
    <2>2. ASSUME pc = "serve", replies # <<>>
          PROVE  /\ Head(replies) \in Requests /\ answer[Head(replies)].status = "Waiting"
                 /\ serving \in LeaseIds /\ (Leased(serving) \/ ready # <<>>)
        <3>1. Head(replies) \in Requests /\ Head(replies) \in Elements(replies)
            BY <1>0, <2>2, HeadIsElement DEF TypeOK
        <3> QED  BY <1>0, <2>2, <3>1 DEF NoLostCall, ServeOK
    <2>3. CASE ServeOverdue
        <3>1. /\ leases' = leases
              /\ \A q \in Requests \ {Head(replies)} : answer'[q] = answer[q]
              /\ answer'[Head(replies)].status # "Attached"
              /\ answer[Head(replies)].status # "Attached"
            BY <1>0, <2>2, <2>3 DEF ServeOverdue, Answered
        <3> QED  BY <1>A, <3>1
    <2>4. CASE replies # <<>> /\ ServeReply(ReceiverOpen(Head(replies)))
        <3>1. PICK delivered \in BOOLEAN : delivered = ReceiverOpen(Head(replies))
            BY TruthValue DEF ReceiverOpen
        <3>2. ServeReply(delivered) /\ (delivered <=> ReceiverOpen(Head(replies)))
            BY <2>4, <3>1
        <3>3. pc = "serve" /\ Head(replies) \notin AttachedCalls
            BY <2>2, <2>4, <3>2 DEF ServeReply, AttachedCalls
        <3>4. CASE Leased(serving)
            <4>1. ReplyAttached(Head(replies), serving, leases[serving], delivered)
                BY <3>2, <3>4 DEF ServeReply
            <4> QED  BY <1>B, <2>2, <2>4, <3>2, <3>3, <3>4, <4>1
        <3>5. CASE ~Leased(serving)
            <4>1. ReplyAttached(Head(replies), serving, NewEntry, delivered)
                BY <3>2, <3>5 DEF ServeReply
            <4> QED  BY <1>C, <2>2, <2>4, <3>2, <3>3, <3>5, <4>1
        <3> QED  BY <3>4, <3>5
    <2>5. CASE ServeDone
        BY <1>0, <1>A, <2>5 DEF ServeDone
    <2>6. CASE DispatchExit(CreationAccepted)
        BY <1>A, <2>6 DEF DispatchExit
    <2> QED  BY <1>9, <2>1, <2>3, <2>4, <2>5, <2>6 DEF DispatchWaiters
<1> QED  BY <1>5, <1>6, <1>7, <1>8, <1>9 DEF EngineStep

\* A session ends: its connection goes on being counted as a message.
LEMMA DropKeepsCount ==
    ASSUME Surroundings, Surroundings', SessionsFinite, ConnsMatchSessions, pc # "stopped",
           UNCHANGED <<leases, answer, pc>>, NEW r \in AttachedCalls,
           call[r] \in {"Waiting", "Elapsed", "Holding"}, call' = [call EXCEPT ![r] = "Done"],
           inbox' = Append(inbox, [type |-> "Detach", lease |-> answer[r].lease,
                                   generation |-> answer[r].generation])
    PROVE  ConnsMatchSessions'
<1>0. TypeOK /\ TypeOK' /\ OnlyIssued /\ r \in Requests
    BY DEF Surroundings, EngineInv, AttachedCalls
<1>1. ASSUME NEW g \in Nat
      PROVE  Cardinality(SessionsOf(g)') + Cardinality(DetachesOf(g)')
                = Cardinality(SessionsOf(g)) + Cardinality(DetachesOf(g))
    <2>1. /\ IsFiniteSet(DetachesOf(g))
          /\ Cardinality(DetachesOf(g)') = IF answer[r].generation = g
                THEN Cardinality(DetachesOf(g)) + 1 ELSE Cardinality(DetachesOf(g))
        <3> DEFINE m == [type |-> "Detach", lease |-> answer[r].lease,
                         generation |-> answer[r].generation]
        <3>1. m.type = "Detach" /\ m.generation = answer[r].generation /\ inbox' = Append(inbox, m)
            OBVIOUS
        <3> HIDE DEF m
        <3> QED  BY <1>0, <3>1, DetachesSent
    <2>2. SessionsOf(g)' = IF answer[r].generation = g THEN SessionsOf(g) \ {r} ELSE SessionsOf(g)
        BY <1>0 DEF SessionsOf, AttachedCalls, Surroundings, SystemTypeOK
    <2>3. answer[r].generation = g => r \in SessionsOf(g)
        BY DEF SessionsOf
    <2>4. IsFiniteSet(SessionsOf(g))
        BY DEF SessionsFinite
    <2>5. answer[r].generation = g => Cardinality(SessionsOf(g)') = Cardinality(SessionsOf(g)) - 1
        BY <2>2, <2>3, <2>4, FS_RemoveElement
    <2>6. Cardinality(SessionsOf(g)) \in Nat /\ Cardinality(DetachesOf(g)) \in Nat
        BY <2>1, <2>4, FS_CardinalityType
    <2> QED  BY <2>1, <2>2, <2>5, <2>6
<1> QED  BY <1>0, <1>1, CountByGeneration, CountByGenerationNext

\* Callers, timers, workers and the shutdown keep the count.
LEMMA OthersCount ==
    ASSUME Surroundings, Surroundings', ShutdownInOrder, LateCallsRefused, SessionsFinite,
           ConnsMatchSessions, CallerStep \/ TaskStep \/ ShutdownStep \/ UNCHANGED allvars
    PROVE  SessionsFinite' /\ ConnsMatchSessions'
<1> USE DEF inventory, dispatch, callers
<1>0. /\ TypeOK /\ TypeOK' /\ OnlyIssued /\ HoldersAttached /\ answer \in [Requests -> Answers]
      /\ call \in [Requests -> {"Idle", "Waiting", "Elapsed", "Holding", "Done"}]
    BY DEF Surroundings, EngineInv, TypeOK, SystemTypeOK
<1>1. UNCHANGED <<leases, answer, pc>>
    BY DEF CallerStep, AttachSend, AttachReturn, AttachElapsed, AttachTimedOut,
        AttachAborted, DropReceiver, SessionDrop, CallBecomesOverdue, BecomeOverdue, ReleaseSend,
        ReleaseReturn, ReleaseTimedOut, TaskStep, TimerFires, TimerCancelled, DatabaseCreated,
        CreationFailed, CreationInterrupted, DatabaseDropped, CleanupFailed, CleanupInterrupted,
        ShutdownStep, BeginShutdown, WorkerExits, SendShutdown, JoinEngine, allvars, vars
\* The callers that move, and what they send.
<1>2. ASSUME NEW r \in Requests, NEW l \in LeaseIds, AttachSend(r, l)
      PROVE  /\ \A g \in Nat : SessionsOf(g)' = SessionsOf(g)
             /\ \E m : m.type # "Detach" /\ Send(m)
    <2>1. r \notin AttachedCalls
        BY <1>2 DEF AttachSend, LateCallsRefused, AttachedCalls
    <2>2. \A g \in Nat : SessionsOf(g)' = SessionsOf(g)
        BY <1>0, <1>1, <1>2, <2>1 DEF AttachSend, SessionsOf, AttachedCalls
    <2> DEFINE m == [type |-> "AttachOrJoin", lease |-> l, call |-> r]
    <2>3. m.type # "Detach" /\ Send(m)
        BY <1>2 DEF AttachSend
    <2> HIDE DEF m
    <2> QED  BY <2>2, <2>3
<1>3. ASSUME NEW r \in Requests,
             \/ AttachReturn(r) \/ AttachElapsed(r) \/ AttachTimedOut(r) \/ AttachAborted(r)
             \/ SessionDrop(r)
      PROVE  \/ inbox' = inbox /\ \A g \in Nat : SessionsOf(g)' = SessionsOf(g)
             \/ /\ r \in AttachedCalls /\ call[r] \in {"Waiting", "Elapsed", "Holding"}
                /\ call' = [call EXCEPT ![r] = "Done"] /\ SendDetach(r)
    <2>1. CASE AttachElapsed(r)
        BY <1>0, <1>1, <2>1 DEF AttachElapsed, SessionsOf, AttachedCalls
    <2>2. CASE AttachTimedOut(r) \/ AttachAborted(r)
        <3>1. CASE answer[r].status = "Attached"
            BY <2>2, <3>1 DEF AttachTimedOut, AttachAborted, DropReceiver, AttachedCalls
        <3>2. CASE answer[r].status # "Attached"
            BY <1>0, <1>1, <2>2, <3>2 DEF AttachTimedOut, AttachAborted, DropReceiver, SessionsOf,
                AttachedCalls
        <3> QED  BY <3>1, <3>2
    <2>3. CASE SessionDrop(r)
        BY <1>0, <2>3 DEF SessionDrop, HoldersAttached
    <2>4. CASE AttachReturn(r) /\ answer[r].status # "Attached"
        BY <1>0, <1>1, <2>4 DEF AttachReturn, SessionsOf, AttachedCalls
    <2>5. CASE AttachReturn(r) /\ answer[r].status = "Attached" /\ AttachResult(answer[r]) = "Ok"
        BY <1>0, <1>1, <2>5 DEF AttachReturn, SessionsOf, AttachedCalls
    <2>6. CASE AttachReturn(r) /\ answer[r].status = "Attached" /\ AttachResult(answer[r]) # "Ok"
        BY <2>6 DEF AttachReturn, AttachedCalls
    <2> QED  BY <1>3, <2>1, <2>2, <2>3, <2>4, <2>5, <2>6
<1>4. [SystemNext]_allvars
    BY DEF SystemNext
<1>5. \A g \in Nat : SessionsOf(g)' \subseteq SessionsOf(g)
    <2>1. CASE call' = call
        BY <1>1, <2>1 DEF SessionsOf, AttachedCalls
    <2>2. ASSUME NEW r \in Requests, call' = [call EXCEPT ![r] = "Done"]
          PROVE  \A g \in Nat : SessionsOf(g)' \subseteq SessionsOf(g)
        BY <1>0, <1>1, <2>2 DEF SessionsOf, AttachedCalls
    <2> QED  BY <1>2, <1>3, <1>4, <2>1, <2>2, CallsMove
<1>6. SessionsFinite'
    BY <1>5, FS_Subset DEF SessionsFinite
<1>7. CASE pc = "stopped"
    BY <1>1, <1>6, <1>7 DEF ConnsMatchSessions
<1> SUFFICES ASSUME pc # "stopped" PROVE ConnsMatchSessions'
    BY <1>6, <1>7
<1>8. \A m : Send(m) => inbox' = Append(inbox, m)
    BY DEF Send, ShutdownInOrder
<1>9. ASSUME \A g \in Nat : SessionsOf(g)' = SessionsOf(g),
             inbox' = inbox \/ \E m : m.type # "Detach" /\ Send(m)
      PROVE  ConnsMatchSessions'
    <2>1. \A g \in Nat : Cardinality(DetachesOf(g)') = Cardinality(DetachesOf(g))
        <3>1. CASE inbox' = inbox
            BY <3>1 DEF DetachesOf, InboxPositions
        <3>2. CASE inbox' # inbox
            <4>1. PICK m : m.type # "Detach" /\ inbox' = Append(inbox, m)
                BY <1>8, <1>9, <3>2
            <4> QED  BY <1>0, <4>1, DetachesSent
        <3> QED  BY <3>1, <3>2
    <2> QED  BY <1>0, <1>1, <1>9, <2>1, QuietStep
<1>10. ASSUME NEW r \in AttachedCalls, call[r] \in {"Waiting", "Elapsed", "Holding"},
              call' = [call EXCEPT ![r] = "Done"], SendDetach(r)
       PROVE  ConnsMatchSessions'
    <2>1. inbox' = Append(inbox, [type |-> "Detach", lease |-> answer[r].lease,
                                  generation |-> answer[r].generation])
        BY <1>8, <1>10 DEF SendDetach
    <2> QED  BY <1>0, <1>1, <1>10, <2>1, DropKeepsCount
<1>11. ASSUME call' = call, inbox' = inbox \/ \E m : m.type # "Detach" /\ Send(m)
       PROVE  ConnsMatchSessions'
    BY <1>1, <1>9, <1>11, SameSessions
<1>12. CASE CallerStep
    <2>1. ASSUME NEW r \in Requests, NEW l \in LeaseIds, AttachSend(r, l)
          PROVE  ConnsMatchSessions'
        BY <1>2, <1>9, <2>1
    <2>2. ASSUME NEW r \in Requests, \/ AttachReturn(r) \/ AttachElapsed(r) \/ AttachTimedOut(r)
                                     \/ AttachAborted(r) \/ SessionDrop(r)
          PROVE  ConnsMatchSessions'
        BY <1>3, <1>9, <1>10, <2>2
    <2>3. ASSUME NEW r \in Requests, CallBecomesOverdue(r)
          PROVE  ConnsMatchSessions'
        BY <1>11, <2>3 DEF CallBecomesOverdue
    <2>4. ASSUME NEW x \in Releases, NEW l \in LeaseIds, ReleaseSend(x, l)
          PROVE  ConnsMatchSessions'
        <3> DEFINE m == [type |-> "ReleaseLease", lease |-> l, call |-> x]
        <3>1. m.type # "Detach" /\ Send(m) /\ call' = call
            BY <2>4 DEF ReleaseSend
        <3> HIDE DEF m
        <3> QED  BY <1>11, <3>1
    <2>5. ASSUME NEW x \in Releases, ReleaseReturn(x) \/ ReleaseTimedOut(x)
          PROVE  ConnsMatchSessions'
        BY <1>11, <2>5 DEF ReleaseReturn, ReleaseTimedOut
    <2> QED  BY <1>12, <2>1, <2>2, <2>3, <2>4, <2>5 DEF CallerStep
<1>13. CASE TaskStep
    <2>1. call' = call
        BY <1>13 DEF TaskStep, TimerFires, TimerCancelled, DatabaseCreated, CreationFailed,
            CreationInterrupted, DatabaseDropped, CleanupFailed, CleanupInterrupted
    <2>2. ASSUME NEW t, TimerFires(t)
          PROVE  \E m : m.type # "Detach" /\ Send(m)
        <3> DEFINE m == [type |-> "LeaseMaxTimeReached", lease |-> t.lease, generation |-> t.generation]
        <3>1. m.type # "Detach" /\ Send(m)
            BY <2>2 DEF TimerFires
        <3> HIDE DEF m
        <3> QED  BY <3>1
    <2>3. ASSUME NEW d, NEW ok, NEW type \in {"CreationFinished", "CleanupFinished"},
                 Finished(type, d, ok)
          PROVE  \E m : m.type # "Detach" /\ Send(m)
        <3> DEFINE m == [type |-> type, database |-> d, ok |-> ok]
        <3>1. m.type # "Detach" /\ Send(m)
            BY <2>3 DEF Finished
        <3> HIDE DEF m
        <3> QED  BY <3>1
    <2> QED  BY <1>11, <1>13, <2>1, <2>2, <2>3 DEF TaskStep, TimerCancelled, DatabaseCreated,
                CreationFailed, CreationInterrupted, DatabaseDropped, CleanupFailed, CleanupInterrupted
<1>14. CASE ShutdownStep
    <2>1. call' = call
        BY <1>14 DEF ShutdownStep, BeginShutdown, WorkerExits, SendShutdown, JoinEngine
    <2> DEFINE m == [type |-> "Shutdown"]
    <2>2. m.type # "Detach" /\ (inbox' = inbox \/ Send(m))
        BY <1>14 DEF ShutdownStep, BeginShutdown, WorkerExits, SendShutdown, JoinEngine
    <2> HIDE DEF m
    <2> QED  BY <1>11, <2>1, <2>2
<1>15. CASE UNCHANGED allvars
    BY <1>11, <1>15 DEF allvars
<1> QED  BY <1>12, <1>13, <1>14, <1>15

LEMMA DetachesTracedStep ==
    ASSUME Surroundings, DetachesTraced, [SystemNext]_allvars
    PROVE  DetachesTraced'
<1>0. OnlyIssued /\ EngineInv /\ [Next]_vars /\ HoldersAttached
    BY SurroundingsStep DEF Surroundings
<1>1. \A r \in AttachedCalls : r \in AttachedCalls' /\ answer'[r] = answer[r]
    BY <1>0, AnswersAreFinal DEF AttachedCalls
<1> SUFFICES ASSUME NEW m \in Elements(inbox'), m.type = "Detach"
             PROVE  \E r \in AttachedCalls : answer[r].lease = m.lease
                                             /\ answer[r].generation = m.generation
    BY <1>1 DEF DetachesTraced
<1>2. CASE m \in Elements(inbox)
    BY <1>2 DEF DetachesTraced
<1> SUFFICES ASSUME m \notin Elements(inbox)
             PROVE  \E r \in AttachedCalls : answer[r].lease = m.lease
                                             /\ answer[r].generation = m.generation
    BY <1>2
<1>3. ASSUME NEW STATE e, Send(e)
      PROVE  m = e
    BY <1>0, <1>3, SentElements
<1>4. inbox' # inbox /\ inbox' # <<>> /\ ~EngineStep
    BY EngineJobs DEF Elements
<1>5. CASE CallerStep
    <2>1. ASSUME NEW r \in Requests, NEW l \in LeaseIds, AttachSend(r, l)
          PROVE  FALSE
        BY <1>3, <2>1 DEF AttachSend
    <2>2. ASSUME NEW x \in Releases, NEW l \in LeaseIds, ReleaseSend(x, l)
          PROVE  FALSE
        BY <1>3, <2>2 DEF ReleaseSend
    <2>3. PICK r \in AttachedCalls : SendDetach(r)
        BY <1>0, <1>4, <1>5, <2>1, <2>2 DEF CallerStep, AttachReturn, AttachElapsed, AttachTimedOut,
            AttachAborted, DropReceiver, SessionDrop, CallBecomesOverdue, ReleaseReturn,
            ReleaseTimedOut, AttachedCalls, HoldersAttached
    <2>4. m = [type |-> "Detach", lease |-> answer[r].lease, generation |-> answer[r].generation]
        BY <1>3, <2>3 DEF SendDetach
    <2> QED  BY <2>4
<1>6. CASE TaskStep
    <2>1. ASSUME NEW t, TimerFires(t)
          PROVE  FALSE
        BY <1>3, <2>1 DEF TimerFires
    <2>2. ASSUME NEW d, NEW ok, Finished("CreationFinished", d, ok) \/ Finished("CleanupFinished", d, ok)
          PROVE  FALSE
        BY <1>3, <2>2 DEF Finished
    <2> QED  BY <1>4, <1>6, <2>1, <2>2 DEF TaskStep, TimerCancelled, DatabaseCreated, CreationFailed,
                CreationInterrupted, DatabaseDropped, CleanupFailed, CleanupInterrupted
<1>7. CASE ShutdownStep
    <2>1. Send([type |-> "Shutdown"])
        BY <1>4, <1>7 DEF ShutdownStep, BeginShutdown, WorkerExits, SendShutdown, JoinEngine
    <2> QED  BY <1>3, <2>1
<1> QED  BY <1>4, <1>5, <1>6, <1>7 DEF SystemNext, allvars

\* The invariant behind the count of connections.
CountInv == SessionsFinite /\ DetachesTraced /\ ConnsMatchSessions

\* The count and what it rests on hold throughout.
THEOREM CountHolds == SystemSpec => []CountInv
<1>1. SystemInit => CountInv
    <2> SUFFICES ASSUME SystemInit PROVE CountInv
        OBVIOUS
    <2>1. Elements(inbox) = {} /\ AttachedCalls = {} /\ \A l \in LeaseIds : ~Leased(l)
        BY DEF SystemInit, Init, Elements, AttachedCalls, NotAsked, Leased, NoEntry
    <2>2. \A g \in Nat : SessionsOf(g) = {}
        BY <2>1 DEF SessionsOf
    <2> QED  BY <2>1, <2>2, FS_EmptySet DEF CountInv, SessionsFinite, DetachesTraced, ConnsMatchSessions
<1>2. ASSUME Surroundings, Surroundings', ShutdownInOrder, LateCallsRefused, CountInv,
             [SystemNext]_allvars
      PROVE  CountInv'
    <2>1. DetachesTraced'
        BY <1>2, DetachesTracedStep DEF CountInv
    <2>2. SessionsFinite' /\ ConnsMatchSessions'
        <3>1. CASE EngineStep
            BY <1>2, <3>1, EngineCounts DEF CountInv
        <3>2. CASE CallerStep \/ TaskStep \/ ShutdownStep \/ UNCHANGED allvars
            BY <1>2, <3>2, OthersCount DEF CountInv
        <3> QED  BY <1>2, <3>1, <3>2 DEF SystemNext
    <2> QED  BY <2>1, <2>2 DEF CountInv
<1>3. Surroundings /\ Surroundings' /\ ShutdownInOrder /\ LateCallsRefused /\ CountInv
        /\ [SystemNext]_allvars => CountInv'
    BY <1>2
<1> QED  BY <1>1, <1>3, SurroundingsHold, ShutdownInOrderHolds, ReleasesHold, PTL DEF SystemSpec

\* LeaseEntry.conns is the number of sessions that exist and of Detach messages
\* under way, for any number of callers that give up, time out, are aborted or
\* drop their session while replies and messages are in flight.
THEOREM ConnectionsAreCounted == SystemSpec => []ConnsMatchSessions
<1>1. CountInv => ConnsMatchSessions
    BY DEF CountInv
<1> QED  BY <1>1, CountHolds, PTL

\* A client whose token is live has its database to itself: the lease still
\* holds that database under the client's generation and counts its
\* connection, and PostgreSQL still has it.
THEOREM LiveSessionsAreSafe == SystemSpec => []LiveSessionsKeepTheirDatabase
<1>1. Surroundings /\ PostgresInv /\ CountInv => LiveSessionsKeepTheirDatabase
    <2> SUFFICES ASSUME Surroundings, PostgresInv, CountInv, pc # "stopped", NEW r \in AttachedCalls,
                        call[r] = "Holding", answer[r].generation \notin cancelled
                 PROVE  /\ leases[answer[r].lease].generation = answer[r].generation
                        /\ leases[answer[r].lease].database = answer[r].database
                        /\ leases[answer[r].lease].conns > 0
                        /\ answer[r].database \in pg
        BY DEF LiveSessionsKeepTheirDatabase
    <2> DEFINE l == answer[r].lease
    <2>1. /\ l \in LeaseIds /\ Leased(l) /\ leases[l].generation = answer[r].generation
          /\ leases[l].database = answer[r].database
        BY LiveIsLeased
    <2>2. answer[r].database \in pg
        BY <2>1 DEF PostgresInv, InventoryMatchesPostgres, LeasedDatabases
    <2> HIDE DEF l
    <2>3. PICK h \in Nat : h = leases[l].generation /\ h # 0
        BY <2>1 DEF Surroundings, EngineInv, TypeOK, Entries, Leased
    <2>4. leases[l].conns = Cardinality(SessionsOf(h)) + Cardinality(DetachesOf(h))
        BY <2>1, <2>3, CountByGeneration DEF CountInv, Surroundings, EngineInv
    <2>5. r \in SessionsOf(h) /\ IsFiniteSet(SessionsOf(h))
        BY <2>1, <2>3 DEF SessionsOf, CountInv, SessionsFinite
    <2>6. Cardinality(SessionsOf(h)) \in Nat /\ Cardinality(SessionsOf(h)) # 0
        BY <2>5, FS_CardinalityType, FS_EmptySet
    <2>7. Cardinality(DetachesOf(h)) \in Nat
        BY DetachesFinite DEF Surroundings
    <2>8. leases[l].conns > 0
        BY <2>4, <2>6, <2>7
    <2> QED  BY <2>1, <2>2, <2>8 DEF l
<1> QED  BY <1>1, SurroundingsHold, ReservationsHold, CountHolds, PTL

----------------------------------------------------------------------------
\* Supply and demand.

\* Whole batches are rounded up.
LEMMA GrowCountCovers ==
    ASSUME NEW required \in Nat, NEW supply \in Nat, GrowBatchSize > 0
    PROVE  GrowCount(required, supply) \in Nat /\ supply + GrowCount(required, supply) >= required
<1>0. GrowBatchSize \in Nat
    BY ConfigAssumption
<1>1. CASE supply >= required
    BY <1>0, <1>1 DEF GrowCount
<1>2. CASE ~(supply >= required)
    <2> DEFINE n == required - supply + GrowBatchSize - 1
    <2>1. n \in Nat
        BY <1>0, <1>2
    <2>2. GrowCount(required, supply) = (n \div GrowBatchSize) * GrowBatchSize
        BY <1>0, <1>2 DEF GrowCount
    <2> HIDE DEF n
    <2>3. /\ (n \div GrowBatchSize) * GrowBatchSize \in Nat
          /\ (n \div GrowBatchSize) * GrowBatchSize + GrowBatchSize > n
        BY <1>0, <2>1
    <2>4. required - supply + GrowBatchSize - 1 = n
        BY DEF n
    <2> DEFINE c == (n \div GrowBatchSize) * GrowBatchSize
    <2>5. c \in Nat /\ c + GrowBatchSize > n
        BY <2>3
    <2> HIDE DEF c
    <2>6. supply + c >= required
        BY <1>0, <2>1, <2>4, <2>5
    <2> QED  BY <2>2, <2>5, <2>6 DEF c
<1> QED  BY <1>1, <1>2

\* What grow() leaves when its request is accepted.
LEMMA GrowCovers ==
    ASSUME TypeOK, TypeOK', Grow(creating, TRUE), GrowBatchSize > 0
    PROVE  Len(ready') + Cardinality(creating') >= Required'
<1> DEFINE supply == Len(ready') + Cardinality(creating)
           count == GrowCount(Required', supply)
           new == next_database_id + 1 .. next_database_id + count
<1>1. IsFiniteSet(creating) /\ Cardinality(creating) \in Nat /\ next_database_id \in Nat
    <2>1. next_database_id \in Nat /\ 1 \in Int /\ next_database_id \in Int
        BY WidthAssumption DEF TypeOK
    <2>2. IsFiniteSet(1 .. next_database_id)
        BY <2>1, FS_Interval
    <2>3. IsFiniteSet(creating)
        BY <2>2, FS_Subset DEF TypeOK
    <2> QED  BY <2>1, <2>3, FS_CardinalityType
<1>2. Len(ready') \in Nat /\ supply \in Nat
    BY <1>1, LenProperties DEF TypeOK
<1>3. Required' \in Nat
    <2>1. WaitingLeases' \subseteq LeaseIds
        BY DEF WaitingLeases
    <2>2. IsFiniteSet(WaitingLeases')
        BY <2>1, LeaseAssumption, FS_Subset
    <2>3. Cardinality(WaitingLeases') \in Nat
        BY <2>2, FS_CardinalityType
    <2> QED  BY <2>3, ConfigAssumption DEF Required
<1>4. count \in Nat /\ supply + count >= Required'
    BY <1>2, <1>3, GrowCountCovers
<1>5. creating' = creating \cup new
    BY DEF Grow
<1> HIDE DEF count
<1>6. IsFiniteSet(new) /\ Cardinality(new) = count /\ creating \cap new = {}
    <2>1. next_database_id + 1 \in Int /\ next_database_id + count \in Int
        BY <1>1, <1>4
    <2>2. /\ IsFiniteSet(new)
          /\ Cardinality(new) = IF next_database_id + 1 > next_database_id + count
                                THEN 0
                                ELSE (next_database_id + count) - (next_database_id + 1) + 1
        BY <2>1, FS_Interval
    <2>3. creating \cap new = {}
        BY <1>1, <1>4 DEF TypeOK
    <2> HIDE DEF new
    <2> QED  BY <1>1, <1>4, <2>2, <2>3
<1> HIDE DEF new
<1>7. Cardinality(creating') = Cardinality(creating) + count
    <2>1. Cardinality(creating \cup new)
            = Cardinality(creating) + Cardinality(new) - Cardinality(creating \cap new)
        BY <1>1, <1>6, FS_Union
    <2>2. Cardinality(creating \cap new) = 0
        BY <1>6, FS_EmptySet
    <2>3. Cardinality(creating') = Cardinality(creating \cup new)
        BY <1>5
    <2> QED  BY <1>1, <1>4, <1>6, <2>1, <2>2, <2>3
<1> QED  BY <1>1, <1>2, <1>4, <1>7

\* The supply stays and the demand does not grow.
LEMMA DemandShrinks ==
    ASSUME TypeOK, UNCHANGED <<ready, creating>>, Len(ready) + Cardinality(creating) >= Required,
           WaitingLeases' \subseteq WaitingLeases
    PROVE  Len(ready') + Cardinality(creating') >= Required'
<1>1. IsFiniteSet(WaitingLeases)
    BY LeaseAssumption, FS_Subset DEF WaitingLeases
<1>2. /\ Cardinality(WaitingLeases) \in Nat /\ Cardinality(WaitingLeases') \in Nat
      /\ Cardinality(WaitingLeases') <= Cardinality(WaitingLeases)
    BY <1>1, FS_Subset, FS_CardinalityType
<1>3. Cardinality(creating) \in Nat /\ Len(ready) \in Nat
    <2>1. next_database_id \in Int /\ 1 \in Int
        BY WidthAssumption DEF TypeOK
    <2>2. IsFiniteSet(1 .. next_database_id)
        BY <2>1, FS_Interval
    <2>3. IsFiniteSet(creating)
        BY <2>2, FS_Subset DEF TypeOK
    <2> QED  BY <2>3, FS_CardinalityType, LenProperties DEF TypeOK
<1> QED  BY <1>2, <1>3, ConfigAssumption DEF Required

LEMMA WaitingShrinks ==
    ASSUME \A l \in LeaseIds : /\ leases'[l].generation = 0 => leases[l].generation = 0
                               /\ group_waiters'[l] = group_waiters[l] \/ group_waiters'[l] = <<>>,
           overdue \subseteq overdue'
    PROVE  WaitingLeases' \subseteq WaitingLeases
BY DEF WaitingLeases, Leased, IsOverdue

LEMMA DemandStep ==
    ASSUME Surroundings, Surroundings', ShutdownInOrder, SupplyCoversDemand, [SystemNext]_allvars
    PROVE  SupplyCoversDemand'
<1> USE DEF inventory, dispatch
<1> DEFINE Covered == Len(ready') + Cardinality(creating') >= Required'
<1> SUFFICES ASSUME phase' = "Running", pc' = "idle", GrowBatchSize > 0, WaitingLeases' # {}
             PROVE  Covered
    BY DEF SupplyCoversDemand
<1>0. /\ TypeOK /\ TypeOK' /\ OnlyIssued /\ leases \in [LeaseIds -> Entries]
      /\ group_waiters \in [LeaseIds -> Seq(Requests)]
    BY DEF Surroundings, EngineInv, TypeOK
<1>1. phase = "Running" /\ CreationAccepted
    BY RunningIsFirst DEF ShutdownInOrder, CreationAccepted
<1>2. Grow(creating, CreationAccepted) => Covered
    <2>1. Grow(creating, CreationAccepted) => Grow(creating, TRUE)
        BY <1>1 DEF Grow
    <2> QED  BY <1>0, <2>1, GrowCovers
<1>3. ASSUME pc = "idle", UNCHANGED <<ready, creating>>,
             \A l \in LeaseIds : /\ leases'[l].generation = 0 => leases[l].generation = 0
                                 /\ group_waiters'[l] = group_waiters[l] \/ group_waiters'[l] = <<>>,
             overdue \subseteq overdue'
      PROVE  Covered
    <2>1. WaitingLeases' \subseteq WaitingLeases
        BY <1>3, WaitingShrinks
    <2>2. Len(ready) + Cardinality(creating) >= Required
        BY <1>1, <1>3, <2>1 DEF SupplyCoversDemand
    <2> QED  BY <1>0, <1>3, <2>1, <2>2, DemandShrinks
<1>4. CASE HandleAttachOrJoin
    <2> DEFINE l == Head(inbox).lease
               r == Head(inbox).call
    <2>1. l \in LeaseIds /\ r \in Requests
        BY <1>0, <1>4, ReceivedElements DEF HandleAttachOrJoin, IssuedMessages
    <2>2. PICK delivered \in BOOLEAN : delivered = ReceiverOpen(r)
        BY TruthValue DEF ReceiverOpen
    <2>3. AttachOrJoin(l, r, delivered, CreationAccepted)
        BY <1>4, <2>2 DEF HandleAttachOrJoin
    <2> HIDE DEF l, r
    <2>4. pc = "idle"
        BY <2>3 DEF AttachOrJoin
    <2>5. CASE AttachReject(l, r)
        BY <1>3, <2>4, <2>5 DEF AttachReject
    <2>6. CASE AttachQueue(l, r, CreationAccepted) \/ AttachAssign(l, r, CreationAccepted)
        BY <1>2, <2>6 DEF AttachQueue, AttachAssign
    <2>7. CASE AttachJoin(l, r, delivered)
        <3>1. \A k \in LeaseIds : leases'[k].generation = leases[k].generation
            <4>1. leases[l] \in Entries /\ ReplyAttached(r, l, leases[l], delivered)
                BY <1>0, <2>1, <2>7 DEF AttachJoin
            <4> QED  BY <1>0, <2>1, <4>1, ReplyEffect
        <3> QED  BY <1>3, <2>4, <2>7, <3>1 DEF AttachJoin
    <2>8. CASE AttachUnclaimed(l, r)
        BY <2>8 DEF AttachUnclaimed
    <2> QED  BY <2>3, <2>5, <2>6, <2>7, <2>8 DEF AttachOrJoin
<1>5. CASE HandleReleaseLease
    <2> DEFINE l == Head(inbox).lease
    <2>1. l \in LeaseIds /\ ReleaseLease(l, CreationAccepted)
        BY <1>0, <1>5, ReceivedElements DEF HandleReleaseLease, IssuedMessages
    <2> HIDE DEF l
    <2>2. CASE ReleaseNothing(l)
        BY <1>3, <2>1, <2>2 DEF ReleaseNothing, ReleaseLease, vars
    <2>3. CASE ReleaseOpen(l, CreationAccepted) /\ Leased(l)
        BY <1>2, <2>3 DEF ReleaseOpen, RetireLease
    <2>4. CASE ReleaseOpen(l, CreationAccepted) /\ ~Leased(l)
        BY <1>0, <1>3, <2>1, <2>4 DEF ReleaseLease, ReleaseOpen, RetireLease
    <2> QED  BY <2>1, <2>2, <2>3, <2>4 DEF ReleaseLease
<1>6. CASE HandleLeaseMaxTimeReached
    <2> DEFINE l == Head(inbox).lease
               g == Head(inbox).generation
    <2>1. LeaseMaxTimeReached(l, g, CreationAccepted)
        BY <1>6 DEF HandleLeaseMaxTimeReached
    <2> HIDE DEF l, g
    <2>2. CASE Leased(l) /\ leases[l].generation = g
        BY <1>2, <2>1, <2>2 DEF LeaseMaxTimeReached, RetireLease
    <2>3. CASE ~(Leased(l) /\ leases[l].generation = g)
        BY <1>3, <2>1, <2>3 DEF LeaseMaxTimeReached
    <2> QED  BY <2>2, <2>3
<1>7. CASE HandleDetach
    <2> DEFINE l == Head(inbox).lease
               g == Head(inbox).generation
    <2>1. Detach(l, g)
        BY <1>7 DEF HandleDetach
    <2> HIDE DEF l, g
    <2>2. \A k \in LeaseIds : leases'[k].generation = leases[k].generation
        BY <1>0, <2>1 DEF Detach, Entries
    <2> QED  BY <1>3, <2>1, <2>2 DEF Detach
<1>8. CASE HandleCreationFinished \/ HandleCleanupFinished \/ HandleShutdown
    BY <1>3, <1>8 DEF HandleCreationFinished, CreationFinished, HandleCleanupFinished,
        CleanupFinished, HandleShutdown, Shutdown
<1>9. CASE DispatchWaiters
    BY <1>2, <1>9 DEF DispatchWaiters, DispatchPop, ServeOverdue, ServeReply, ServeDone, DispatchExit
<1>10. CASE CallerStep \/ TaskStep \/ ShutdownStep \/ UNCHANGED allvars
    <2>1. UNCHANGED <<leases, group_waiters, ready, creating, pc>> /\ overdue \subseteq overdue'
        BY <1>10 DEF CallerStep, AttachSend, AttachReturn, AttachElapsed, AttachTimedOut,
            AttachAborted, DropReceiver, SessionDrop, CallBecomesOverdue, BecomeOverdue, ReleaseSend,
            ReleaseReturn, ReleaseTimedOut, TaskStep, TimerFires, TimerCancelled, DatabaseCreated,
            CreationFailed, CreationInterrupted, DatabaseDropped, CleanupFailed, CleanupInterrupted,
            ShutdownStep, BeginShutdown, WorkerExits, SendShutdown, JoinEngine, allvars, vars
    <2> QED  BY <1>3, <2>1
<1> QED  BY <1>4, <1>5, <1>6, <1>7, <1>8, <1>9, <1>10 DEF SystemNext, EngineStep

\* While the server runs with growth enabled, every lease that waits between two
\* messages has a database under way on top of the threshold, for every batch
\* size, threshold and number of leases, and whatever creations fail.
THEOREM DemandIsCovered == SystemSpec => []SupplyCoversDemand
<1>1. SystemInit => SupplyCoversDemand
    <2> SUFFICES ASSUME SystemInit PROVE SupplyCoversDemand
        OBVIOUS
    <2>1. WaitingLeases = {}
        BY DEF SystemInit, Init, WaitingLeases
    <2> QED  BY <2>1 DEF SupplyCoversDemand
<1>2. Surroundings /\ Surroundings' /\ ShutdownInOrder /\ SupplyCoversDemand /\ [SystemNext]_allvars
        => SupplyCoversDemand'
    BY DemandStep
<1> QED  BY <1>1, <1>2, SurroundingsHold, ShutdownInOrderHolds, PTL DEF SystemSpec


----------------------------------------------------------------------------
\* Client connections.

\* A refusal stays true: a closed lease stays closed, and once the records are
\* full a lease without one never gets one.
RefusalsHold ==
    \A r \in Requests :
        /\ answer[r].status = "LeaseClosed" => answer[r].lease \in ClosedLeases
        /\ answer[r].status = "LeaseRecordLimitReached" =>
                /\ answer[r].lease \in LeaseIds \ Records
                /\ Cardinality(Records) = MaxLeaseRecords

\* How a connection's stage and its attach call go together.
StageMatchesCall(r) ==
    /\ conn[r] = "Idle" => call[r] = "Idle"
    /\ conn[r] = "Attaching" <=> call[r] \in {"Waiting", "Elapsed"}
    /\ call[r] = "Holding" <=> HoldsSession(r)

\* What a client was told rests on an answer that is final.
ReasonIsFinal(r) ==
    /\ told[r] = "55000" =>
            /\ answer[r].status \notin {"Fresh", "Waiting"}
            /\ answer[r].generation \in cancelled \/ answer[r].lease \in ClosedLeases
    /\ told[r] = "53400" => answer[r].status = "LeaseRecordLimitReached"

WireTypeOK ==
    /\ conn \in [Requests -> {"Idle", "Attaching", "Connecting", "Ready", "Refused", "Relaying", "Closed"}]
    /\ told \in [Requests -> {"Nothing", "0A000", "3D000", "22023", "08006", "53400", "55000",
                              "Ready", "Refused"}]
    /\ DOMAIN result = Requests

WireInv ==
    /\ Surroundings
    /\ RefusalsHold
    /\ WireTypeOK
    /\ \A r \in Requests : StageMatchesCall(r)
    /\ \A r \in Requests : ReasonIsFinal(r)

\* Records that are full stay as they are.
LEMMA FullIsFull ==
    ASSUME TypeOK, RecordsFit', Records \subseteq Records', Cardinality(Records) = MaxLeaseRecords
    PROVE  Records' = Records
<1>1. Records \in SUBSET LeaseIds /\ Records' \in SUBSET LeaseIds
    BY DEF Records
<1>2. IsFiniteSet(Records) /\ IsFiniteSet(Records')
    BY <1>1, LeaseAssumption, FS_Subset
<1>3. Cardinality(Records) \in Nat /\ Cardinality(Records') \in Nat
    BY <1>2, FS_CardinalityType
<1>4. Cardinality(Records) <= Cardinality(Records')
    BY <1>2, FS_Subset
<1>5. Cardinality(Records') <= MaxLeaseRecords
    BY DEF RecordsFit
<1>6. Cardinality(Records') = Cardinality(Records)
    BY <1>3, <1>4, <1>5
<1> QED  BY <1>2, <1>6, FS_Subset

LEMMA RefusalsStep ==
    ASSUME EngineInv, RefusalsHold, [Next]_vars
    PROVE  RefusalsHold'
<1> USE DEF inventory, dispatch
<1>0. /\ TypeOK /\ NoLostCall /\ answer \in [Requests -> Answers] /\ RecordsFit'
      /\ lease_records \in [LeaseIds -> {"None", "Open", "Closed"}]
    BY EngineInvStep DEF EngineInv, TypeOK
<1>1. /\ \A l \in LeaseIds : lease_records[l] = "Closed" => lease_records'[l] = "Closed"
      /\ Records \subseteq Records'
    BY ClosedIsForever
<1> DEFINE Kept(a) ==
            /\ a.status = "LeaseClosed" => a.lease \in ClosedLeases'
            /\ a.status = "LeaseRecordLimitReached" =>
                    /\ a.lease \in LeaseIds \ Records'
                    /\ Cardinality(Records') = MaxLeaseRecords
<1>2. ASSUME NEW r \in Requests, answer'[r] = answer[r]
      PROVE  Kept(answer'[r])
    <2>1. answer[r].lease \in ClosedLeases => answer[r].lease \in ClosedLeases'
        BY <1>1 DEF ClosedLeases
    <2>2. Cardinality(Records) = MaxLeaseRecords => Records' = Records
        BY <1>0, <1>1, FullIsFull
    <2> QED  BY <1>2, <2>1, <2>2 DEF RefusalsHold
<1>3. ASSUME NEW r \in Requests, answer'[r].status \notin {"LeaseClosed", "LeaseRecordLimitReached"}
      PROVE  Kept(answer'[r])
    BY <1>3
<1> SUFFICES ASSUME NEW r \in Requests PROVE Kept(answer'[r])
    BY DEF RefusalsHold
<1>4. ASSUME NEW l \in LeaseIds, NEW q \in Requests, NEW delivered \in BOOLEAN,
             NEW accepted \in BOOLEAN, AttachOrJoin(l, q, delivered, accepted)
      PROVE  Kept(answer'[r])
    <2>1. CASE q # r
        <3>1. answer'[r] = answer[r]
            BY <1>0, <1>4, <2>1 DEF AttachOrJoin, AttachReject, AttachJoin, AttachQueue,
                AttachAssign, AttachUnclaimed, Answered, ReplyAttached
        <3> QED  BY <1>2, <3>1
    <2>2. CASE q = r /\ AttachReject(l, q)
        <3>1. /\ answer'[r].lease = l /\ lease_records' = lease_records
              /\ answer'[r].status = IF Admission(l) = "Closed" THEN "LeaseClosed"
                                     ELSE "LeaseRecordLimitReached"
              /\ Admission(l) \in {"Closed", "LimitReached"}
            BY <1>0, <2>2 DEF AttachReject, Answered
        <3>2. Records' = Records /\ ClosedLeases' = ClosedLeases
            BY <3>1 DEF Records, ClosedLeases
        <3>3. Admission(l) = "Closed" => l \in ClosedLeases
            BY DEF Admission, ClosedLeases
        <3>4. Admission(l) = "LimitReached" => l \notin Records /\ Cardinality(Records) >= MaxLeaseRecords
            BY <1>0 DEF Admission, Records
        <3>5. Cardinality(Records) <= MaxLeaseRecords /\ Cardinality(Records) \in Nat /\ MaxLeaseRecords \in Nat
            <4>1. Records \in SUBSET LeaseIds
                BY DEF Records
            <4>2. IsFiniteSet(Records)
                BY <4>1, LeaseAssumption, FS_Subset
            <4> QED  BY <4>2, FS_CardinalityType, ConfigAssumption DEF EngineInv, RecordsFit
        <3>6. Admission(l) = "LimitReached" => Cardinality(Records) = MaxLeaseRecords
            BY <3>4, <3>5
        <3> QED  BY <3>1, <3>2, <3>3, <3>4, <3>6
    <2>3. CASE q = r /\ ~AttachReject(l, q)
        <3>1. answer'[r].status \in {"Attached", "FailedToAttach", "Undelivered", "Waiting"}
            <4>1. ASSUME NEW STATE entry, NEW STATE received, ReplyAttached(r, l, entry, received)
                  PROVE  answer'[r].status \in {"Attached", "FailedToAttach", "Undelivered"}
                BY <1>0, <4>1 DEF ReplyAttached, Answered
            <4>2. CASE AttachJoin(l, r, delivered) \/ AttachAssign(l, r, accepted)
                BY <4>1, <4>2 DEF AttachJoin, AttachAssign
            <4>3. CASE AttachQueue(l, r, accepted) \/ AttachUnclaimed(l, r)
                BY <1>0, <4>3 DEF AttachQueue, AttachUnclaimed, Answered
            <4> QED  BY <1>4, <2>3, <4>2, <4>3 DEF AttachOrJoin
        <3> QED  BY <1>3, <3>1
    <2> QED  BY <2>1, <2>2, <2>3
<1>5. CASE ServeOverdue \/ \E delivered \in BOOLEAN : ServeReply(delivered)
    <2>1. answer'[r] = answer[r] \/ answer'[r].status \in {"Attached", "FailedToAttach", "Undelivered", "Dropped"}
        BY <1>0, <1>5 DEF ServeOverdue, ServeReply, Answered, ReplyAttached
    <2> QED  BY <1>2, <1>3, <2>1
<1>6. ASSUME NEW l \in LeaseIds, NEW accepted \in BOOLEAN, ReleaseLease(l, accepted)
      PROVE  Kept(answer'[r])
    <2>1. CASE ReleaseNothing(l)
        BY <1>2, <2>1 DEF ReleaseNothing, vars
    <2>2. CASE ReleaseOpen(l, accepted)
        <3>1. answer'[r] = answer[r] \/ (answer'[r].status = "LeaseClosed" /\ answer'[r].lease = l)
            BY <2>2 DEF ReleaseOpen, Rejected
        <3>2. l \in ClosedLeases'
            BY <1>0, <2>2 DEF ReleaseOpen, ClosedLeases
        <3> QED  BY <1>2, <3>1, <3>2
    <2> QED  BY <1>6, <2>1, <2>2 DEF ReleaseLease
<1>7. CASE DispatchPop
    <2>1. answer' = answer
        BY <1>7, PopEffect DEF EngineInv, QueueInv
    <2> QED  BY <1>2, <2>1
<1>8. CASE \/ ServeDone \/ Shutdown \/ UNCHANGED vars
           \/ \E accepted \in BOOLEAN : DispatchExit(accepted)
           \/ \E l \in LeaseIds, g \in 1 .. next_generation : Detach(l, g)
           \/ \E l \in LeaseIds, g \in 1 .. next_generation, accepted \in BOOLEAN :
                LeaseMaxTimeReached(l, g, accepted)
           \/ \E d \in 1 .. next_database_id, ok \in BOOLEAN :
                CreationFinished(d, ok) \/ CleanupFinished(d, ok)
           \/ \E q \in Requests : BecomeOverdue(q)
    <2>1. answer' = answer
        BY <1>8 DEF ServeDone, Shutdown, vars, DispatchExit, Detach, LeaseMaxTimeReached,
            CreationFinished, CleanupFinished, BecomeOverdue
    <2> QED  BY <1>2, <2>1
<1> QED  BY <1>4, <1>5, <1>6, <1>7, <1>8 DEF Next
\* Whatever a connection does is something the manager's callers may do.
LEMMA ConnectionIsCaller ==
    ASSUME [ConnectionNext]_connvars
    PROVE  [SystemNext]_allvars
<1>1. CASE ManagerStep
    BY <1>1 DEF ManagerStep, SystemNext, CallerStep
<1>2. ASSUME NEW r \in Requests, \/ StartupFails(r) \/ Handover(r)
                                 \/ \E flaw \in DOMAIN Screening : StartupRejected(r, flaw)
                                 \/ \E outcome \in {"Ready", "Refused"} : UpstreamConnected(r, outcome)
      PROVE  UNCHANGED allvars
    BY <1>2 DEF StartupFails, Handover, StartupRejected, UpstreamConnected
<1>3. ASSUME NEW r \in Requests, \/ Attached(r) \/ AttachDeadlinePassed(r) \/ Aborted(r)
                                 \/ CancelledWhileConnecting(r) \/ UpstreamFails(r)
                                 \/ RelayCut(r) \/ RelayEnds(r)
      PROVE  AttachReturn(r) \/ AttachTimedOut(r) \/ AttachAborted(r) \/ SessionDrop(r)
    BY <1>3 DEF Attached, AttachDeadlinePassed, Aborted, CancelledWhileConnecting, UpstreamFails,
        RelayCut, RelayEnds
<1>4. ASSUME NEW r \in Requests, NEW l \in LeaseIds, StartupAccepted(r, l)
      PROVE  AttachSend(r, l)
    BY <1>4 DEF StartupAccepted
<1>5. CASE ConnectionStep
    BY <1>2, <1>3, <1>4, <1>5 DEF ConnectionStep, SystemNext, CallerStep
<1>6. CASE UNCHANGED connvars
    BY <1>6 DEF connvars
<1> QED  BY <1>1, <1>5, <1>6 DEF ConnectionNext

\* Only a caller's own step moves it, and what the manager does moves no connection.
LEMMA ManagerMoves ==
    ASSUME WireInv, ManagerStep
    PROVE  /\ DOMAIN result' = Requests
           /\ \A r \in Requests :
                call'[r] = call[r] \/ (call[r] = "Waiting" /\ call'[r] = "Elapsed")
<1>0. /\ call \in [Requests -> {"Idle", "Waiting", "Elapsed", "Holding", "Done"}]
      /\ DOMAIN result = Requests
    BY DEF WireInv, Surroundings, SystemTypeOK, WireTypeOK
<1>1. CASE EngineStep
    BY <1>0, <1>1 DEF EngineStep, HandleAttachOrJoin, HandleReleaseLease, HandleDetach,
        HandleLeaseMaxTimeReached, HandleCreationFinished, HandleCleanupFinished,
        HandleShutdown, DispatchWaiters, callers
<1>2. CASE TaskStep
    BY <1>0, <1>2 DEF TaskStep, TimerFires, TimerCancelled, DatabaseCreated, CreationFailed,
        CreationInterrupted, DatabaseDropped, CleanupFailed, CleanupInterrupted, callers
<1>3. ASSUME NEW q \in Requests, AttachElapsed(q)
      PROVE  /\ result' = result
             /\ \A r \in Requests :
                    call'[r] = call[r] \/ (call[r] = "Waiting" /\ call'[r] = "Elapsed")
    BY <1>0, <1>3 DEF AttachElapsed
<1>4. ASSUME \/ \E q \in Requests : CallBecomesOverdue(q)
             \/ \E x \in Releases, l \in LeaseIds : ReleaseSend(x, l)
             \/ \E x \in Releases : ReleaseReturn(x) \/ ReleaseTimedOut(x)
      PROVE  call' = call /\ result' = result
    BY <1>4 DEF CallBecomesOverdue, ReleaseSend, ReleaseReturn, ReleaseTimedOut, callers
<1> QED  BY <1>0, <1>1, <1>2, <1>3, <1>4 DEF ManagerStep

\* A stage that a connection moves to goes with what its call becomes.
LEMMA ConnectionMoves ==
    ASSUME WireInv, ConnectionStep
    PROVE  WireTypeOK' /\ \A r \in Requests : StageMatchesCall(r)'
<1>0. /\ call \in [Requests -> {"Idle", "Waiting", "Elapsed", "Holding", "Done"}]
      /\ WireTypeOK /\ \A r \in Requests : StageMatchesCall(r)
    BY DEF WireInv, Surroundings, SystemTypeOK
<1> USE DEF Reject, Leave, Proceed, Screening, AttachErrorCode
<1>1. ASSUME NEW q \in Requests, NEW s, NEW c,
             conn' = [conn EXCEPT ![q] = s], call' = [call EXCEPT ![q] = c],
             \/ s = "Closed" /\ c \in {"Idle", "Done"}
             \/ s = "Attaching" /\ c = "Waiting"
             \/ s \in {"Connecting", "Ready", "Refused", "Relaying"} /\ c = "Holding",
             NEW r \in Requests
      PROVE  StageMatchesCall(r)'
    <2>1. CASE r = q
        BY <1>0, <1>1, <2>1 DEF StageMatchesCall, HoldsSession, InRelay, WireTypeOK
    <2>2. CASE r # q
        <3>1. conn'[r] = conn[r] /\ call'[r] = call[r]
            BY <1>0, <1>1, <2>2 DEF WireTypeOK
        <3> QED  BY <1>0, <3>1 DEF StageMatchesCall, HoldsSession, InRelay
    <2> QED  BY <2>1, <2>2
\* The call of a connection that changes nothing else.
<1>2. ASSUME NEW q \in Requests, UNCHANGED allvars
      PROVE  call' = [call EXCEPT ![q] = call[q]] /\ result' = result
    BY <1>0, <1>2 DEF allvars, callers
<1>3. ASSUME NEW q \in Requests, \/ StartupFails(q)
                                 \/ \E flaw \in DOMAIN Screening : StartupRejected(q, flaw)
      PROVE  WireTypeOK' /\ \A r \in Requests : StageMatchesCall(r)'
    <2>1. /\ conn' = [conn EXCEPT ![q] = "Closed"] /\ call[q] = "Idle" /\ UNCHANGED allvars
          /\ told' = told \/ \E code \in {"0A000", "3D000", "22023"} : told' = [told EXCEPT ![q] = code]
        BY <1>0, <1>3 DEF StartupFails, StartupRejected, StageMatchesCall
    <2>2. WireTypeOK'
        BY <1>0, <1>2, <2>1 DEF WireTypeOK
    <2> QED  BY <1>1, <1>2, <2>1, <2>2
<1>4. ASSUME NEW q \in Requests, NEW l \in LeaseIds, StartupAccepted(q, l)
      PROVE  WireTypeOK' /\ \A r \in Requests : StageMatchesCall(r)'
    <2>1. /\ conn' = [conn EXCEPT ![q] = "Attaching"] /\ call' = [call EXCEPT ![q] = "Waiting"]
          /\ told' = told /\ result' = result
        BY <1>4 DEF StartupAccepted, AttachSend
    <2>2. WireTypeOK'
        BY <1>0, <2>1 DEF WireTypeOK
    <2> QED  BY <1>1, <2>1, <2>2
<1>5. ASSUME NEW q \in Requests, Attached(q)
      PROVE  WireTypeOK' /\ \A r \in Requests : StageMatchesCall(r)'
    <2> DEFINE e == AttachResult(answer[q])
    <2>1. /\ result' = [result EXCEPT ![q] = e]
          /\ call' = [call EXCEPT ![q] = IF e = "Ok" THEN "Holding" ELSE "Done"]
          /\ IF result'[q] = "Ok" THEN Proceed(q, "Connecting") ELSE Reject(q, AttachErrorCode(result'[q]))
        BY <1>5 DEF Attached, AttachReturn
    <2> HIDE DEF e
    <2>2. result'[q] = e /\ DOMAIN result' = Requests
        BY <1>0, <2>1 DEF WireTypeOK
    <2>3. /\ conn' = [conn EXCEPT ![q] = IF e = "Ok" THEN "Connecting" ELSE "Closed"]
          /\ told' = told \/ \E code \in {"53400", "55000", "08006"} : told' = [told EXCEPT ![q] = code]
        BY <2>1, <2>2
    <2>4. WireTypeOK'
        BY <1>0, <2>2, <2>3 DEF WireTypeOK
    <2> QED  BY <1>1, <2>1, <2>3, <2>4
<1>6. ASSUME NEW q \in Requests, \/ AttachDeadlinePassed(q) \/ Aborted(q) \/ RelayCut(q) \/ RelayEnds(q)
                                 \/ CancelledWhileConnecting(q) \/ UpstreamFails(q)
      PROVE  WireTypeOK' /\ \A r \in Requests : StageMatchesCall(r)'
    <2>1. /\ conn' = [conn EXCEPT ![q] = "Closed"] /\ call' = [call EXCEPT ![q] = "Done"]
          /\ told' = told \/ \E code \in {"55000", "08006"} : told' = [told EXCEPT ![q] = code]
          /\ result' = result \/ \E outcome \in {"TimedOut", "Aborted"} : result' = [result EXCEPT ![q] = outcome]
        BY <1>6 DEF AttachDeadlinePassed, AttachTimedOut, Aborted, AttachAborted, DropReceiver,
            RelayCut, RelayEnds, CancelledWhileConnecting, UpstreamFails, SessionDrop
    <2>2. WireTypeOK'
        BY <1>0, <2>1 DEF WireTypeOK
    <2> QED  BY <1>1, <2>1, <2>2
<1>7. ASSUME NEW q \in Requests, \/ Handover(q)
                                 \/ \E outcome \in {"Ready", "Refused"} : UpstreamConnected(q, outcome)
      PROVE  WireTypeOK' /\ \A r \in Requests : StageMatchesCall(r)'
    <2>1. /\ \E s \in {"Ready", "Refused", "Relaying"} : conn' = [conn EXCEPT ![q] = s]
          /\ call[q] = "Holding" /\ UNCHANGED allvars
          /\ told' = told \/ \E code \in {"Ready", "Refused"} : told' = [told EXCEPT ![q] = code]
        BY <1>0, <1>7 DEF Handover, UpstreamConnected, StageMatchesCall, HoldsSession, InRelay
    <2>2. WireTypeOK'
        BY <1>0, <1>2, <2>1 DEF WireTypeOK
    <2> QED  BY <1>1, <1>2, <2>1, <2>2
<1> QED  BY <1>3, <1>4, <1>5, <1>6, <1>7 DEF ConnectionStep

LEMMA WireStep == WireInv /\ [ConnectionNext]_connvars => WireInv'
<1> SUFFICES ASSUME WireInv, [ConnectionNext]_connvars  PROVE  WireInv'
    OBVIOUS
<1>0. /\ Surroundings /\ EngineInv /\ RefusalsHold /\ WireTypeOK /\ HoldersAttached
      /\ \A r \in Requests : StageMatchesCall(r)
      /\ \A r \in Requests : ReasonIsFinal(r)
    BY DEF WireInv, Surroundings
<1>1. [SystemNext]_allvars
    BY ConnectionIsCaller
<1>2. Surroundings' /\ [Next]_vars
    BY <1>0, <1>1, SurroundingsStep
<1>3. RefusalsHold'
    BY <1>0, <1>2, RefusalsStep
<1>4. WireTypeOK' /\ \A r \in Requests : StageMatchesCall(r)'
    <2>1. CASE ConnectionStep
        BY <2>1, ConnectionMoves
    <2>2. CASE ManagerStep /\ UNCHANGED wire
        <3>1. conn' = conn /\ told' = told
            BY <2>2 DEF wire
        <3>2. /\ DOMAIN result' = Requests
              /\ \A r \in Requests :
                    call'[r] = call[r] \/ (call[r] = "Waiting" /\ call'[r] = "Elapsed")
            BY <2>2, ManagerMoves
        <3>3. ASSUME NEW r \in Requests PROVE StageMatchesCall(r)'
            BY <1>0, <3>1, <3>2 DEF StageMatchesCall, HoldsSession, InRelay
        <3> QED  BY <1>0, <3>1, <3>2, <3>3 DEF WireTypeOK
    <2>3. CASE UNCHANGED connvars
        <3>1. UNCHANGED <<conn, told, call, result>>
            BY <2>3 DEF connvars, wire, allvars, callers
        <3> QED  BY <1>0, <3>1 DEF WireTypeOK, StageMatchesCall, HoldsSession, InRelay
    <2> QED  BY <2>1, <2>2, <2>3 DEF ConnectionNext
<1>5. ASSUME NEW r \in Requests PROVE ReasonIsFinal(r)'
    <2>1. /\ answer[r].status \notin {"Fresh", "Waiting"} => answer'[r] = answer[r]
          /\ cancelled \subseteq cancelled' /\ ClosedLeases \subseteq ClosedLeases'
        BY <1>0, <1>2, AnswersAreFinal, ClosedIsForever DEF ClosedLeases
    <2>2. CASE told'[r] = told[r] \/ told'[r] \notin {"55000", "53400"}
        BY <1>0, <2>1, <2>2 DEF ReasonIsFinal
    <2>3. ASSUME NEW q \in Requests, Attached(q), told'[r] # told[r]
          PROVE  ReasonIsFinal(r)'
        <3> DEFINE e == AttachResult(answer[q])
        <3>1. /\ result' = [result EXCEPT ![q] = e] /\ UNCHANGED vars
              /\ answer[q].status \notin {"Fresh", "Waiting"}
              /\ IF result'[q] = "Ok" THEN Proceed(q, "Connecting") ELSE Reject(q, AttachErrorCode(result'[q]))
            BY <2>3 DEF Attached, AttachReturn
        <3>2. result'[q] = e
            BY <1>0, <3>1 DEF WireTypeOK
        <3>3. told' = [told EXCEPT ![q] = AttachErrorCode(e)]
            BY <2>3, <3>1, <3>2 DEF Proceed, Reject
        <3>4. q = r /\ told'[r] = AttachErrorCode(e)
            BY <1>0, <2>3, <3>3 DEF WireTypeOK
        <3>5. /\ e = "LeaseClosed" => \/ answer[q].status = "LeaseClosed"
                                      \/ answer[q].generation \in cancelled
              /\ e = "LeaseRecordLimitReached" => answer[q].status = "LeaseRecordLimitReached"
            BY DEF AttachResult
        <3>6. answer' = answer /\ cancelled' = cancelled /\ lease_records' = lease_records
            BY <3>1 DEF vars
        <3>7. /\ told'[r] = "55000" => e = "LeaseClosed"
              /\ told'[r] = "53400" => e = "LeaseRecordLimitReached"
            BY <3>4 DEF AttachErrorCode
        <3> HIDE DEF e
        <3> QED  BY <1>0, <3>1, <3>4, <3>5, <3>6, <3>7 DEF ReasonIsFinal, RefusalsHold, ClosedLeases
    <2>4. ASSUME NEW q \in Requests, CancelledWhileConnecting(q), told'[r] # told[r]
          PROVE  ReasonIsFinal(r)'
        <3>1. /\ told' = [told EXCEPT ![q] = "55000"] /\ UNCHANGED vars
              /\ answer[q].generation \in cancelled /\ call[q] = "Holding"
            BY <2>4 DEF CancelledWhileConnecting, Cancelled, SessionDrop, Reject
        <3>2. q = r /\ told'[r] = "55000"
            BY <1>0, <2>4, <3>1 DEF WireTypeOK
        <3>3. answer[r].status = "Attached"
            BY <1>0, <3>1, <3>2 DEF HoldersAttached, AttachedCalls
        <3>4. answer' = answer /\ cancelled' = cancelled
            BY <3>1 DEF vars
        <3> QED  BY <3>1, <3>2, <3>3, <3>4 DEF ReasonIsFinal
    <2>5. ASSUME NEW q \in Requests,
                 \/ StartupFails(q) \/ Handover(q)
                 \/ \E flaw \in DOMAIN Screening : StartupRejected(q, flaw)
                 \/ \E outcome \in {"Ready", "Refused"} : UpstreamConnected(q, outcome)
                 \/ \E l \in LeaseIds : StartupAccepted(q, l)
                 \/ AttachDeadlinePassed(q) \/ UpstreamFails(q)
                 \/ RelayCut(q) \/ RelayEnds(q) \/ Aborted(q)
          PROVE  told'[r] = told[r] \/ told'[r] \notin {"55000", "53400"}
        <3>1. \/ told' = told
              \/ \E code \in {"0A000", "3D000", "22023", "08006", "Ready", "Refused"} :
                    told' = [told EXCEPT ![q] = code]
            BY <2>5 DEF StartupFails, Handover, StartupRejected, UpstreamConnected, StartupAccepted,
                AttachDeadlinePassed, UpstreamFails, RelayCut, RelayEnds, Aborted, Reject, Leave,
                Proceed, Screening, AttachErrorCode
        <3> QED  BY <1>0, <3>1 DEF WireTypeOK
    <2>6. CASE UNCHANGED wire \/ UNCHANGED connvars
        BY <2>2, <2>6 DEF wire, connvars
    <2> QED  BY <2>2, <2>3, <2>4, <2>5, <2>6 DEF ConnectionNext, ConnectionStep
<1> QED  BY <1>2, <1>3, <1>4, <1>5 DEF WireInv

LEMMA WireStart == ConnectionInit => WireInv
<1> SUFFICES ASSUME ConnectionInit PROVE WireInv
    OBVIOUS
<1>1. SystemInit
    BY DEF ConnectionInit
<1>2. Surroundings
    BY <1>1, SystemStart DEF Surroundings
<1>3. RefusalsHold
    BY <1>1 DEF SystemInit, Init, RefusalsHold, NotAsked
<1> QED  BY <1>1, <1>2, <1>3 DEF ConnectionInit, SystemInit, WireInv, WireTypeOK, StageMatchesCall,
            HoldsSession, InRelay, ReasonIsFinal

\* connection.rs and session_relay.rs use the worker manager only as its callers
\* may: every theorem about the manager holds with the connections on top of it.
THEOREM ConnectionsAreCallers == ConnectionSpec => SystemSpec
<1>1. ConnectionInit => SystemInit
    BY DEF ConnectionInit
<1> QED  BY <1>1, ConnectionIsCaller, PTL DEF ConnectionSpec, SystemSpec

\* What a client is told when it is refused or cut off is true and stays true, and
\* its connection holds a session exactly as long as its stage says, at whatever
\* point the lease is released, expires, or the connection ends.
THEOREM ReasonsAreTrue == ConnectionSpec => []ReasonsHold
<1>1. WireInv => ReasonsHold
    BY DEF WireInv, StageMatchesCall, ReasonIsFinal, RefusalsHold, ReasonsHold
<1> QED  BY <1>1, WireStart, WireStep, PTL DEF ConnectionSpec

=============================================================================
