------------------------- MODULE WorkerEngineProofs -------------------------
(***************************************************************************)
(* What the engine guarantees for every number of leases, calls and        *)
(* databases and every configuration, against every environment: what      *)
(* belongs to whom, then that no caller is forgotten, and that the engine  *)
(* implements LeasePool.                                                   *)
(***************************************************************************)
EXTENDS EngineRefinement, FiniteSetTheorems, SequenceTheorems, TLAPS

\* The inventory's operations are expanded wherever they occur.
USE DEF Reservation, Settled, Supplied, ReturnReady, Retired, CompleteCleanup

\* GrowCount rounds a deficit up to whole batches: it never reserves a
\* negative number of databases.
LEMMA GrowCountType ==
    ASSUME NEW required \in Nat, NEW supply \in Nat
    PROVE  GrowCount(required, supply) \in Nat
<1>1. CASE GrowBatchSize = 0 \/ supply >= required
    BY <1>1 DEF GrowCount
<1>2. CASE GrowBatchSize # 0 /\ supply < required
    <2> DEFINE n == required - supply + GrowBatchSize - 1
    <2>1. GrowBatchSize \in Nat /\ GrowBatchSize > 0 /\ n \in Nat
        BY <1>2, ConfigAssumption
    <2>2. n \div GrowBatchSize \in Nat
        BY <2>1
    <2>3. \A q \in Nat : q * GrowBatchSize \in Nat
        BY <2>1
    <2> QED  BY <1>2, <2>2, <2>3 DEF GrowCount
<1> QED  BY <1>1, <1>2, ConfigAssumption

\* What the trailing grow() does to the inventory, whatever it decides.
LEMMA GrowEffect ==
    ASSUME next_database_id \in 0 .. MaxDatabaseId,
           ready' \in Seq(Nat),
           NEW STATE base, base \in SUBSET (1 .. next_database_id), NEW CONSTANT accepted,
           Grow(base, accepted)
    PROVE  /\ next_database_id' \in next_database_id .. MaxDatabaseId
           /\ creating' \subseteq base \cup (next_database_id + 1 .. next_database_id')
<1>1. Required' \in Nat
    <2>1. IsFiniteSet(WaitingLeases')
        BY LeaseAssumption, FS_Subset DEF WaitingLeases
    <2>2. Cardinality(WaitingLeases') \in Nat
        BY <2>1, FS_CardinalityType
    <2> QED  BY <2>2, ConfigAssumption DEF Required
<1>2. Cardinality(base) \in Nat
    <2>1. 1 \in Int /\ next_database_id \in Int
        BY WidthAssumption
    <2>2. IsFiniteSet(1 .. next_database_id)
        BY <2>1, FS_Interval
    <2>3. IsFiniteSet(base)
        BY <2>2, FS_Subset
    <2> QED  BY <2>3, FS_CardinalityType
<1>3. Len(ready') + Cardinality(base) \in Nat
    BY <1>2, LenProperties
<1> DEFINE count == GrowCount(Required', Len(ready') + Cardinality(base))
<1>4. count \in Nat
    BY <1>1, <1>3, GrowCountType
<1>5. /\ next_database_id + count <= MaxDatabaseId
      /\ next_database_id' = next_database_id + count
      /\ creating' = IF accepted
                     THEN base \cup (next_database_id + 1 .. next_database_id + count)
                     ELSE base
    BY DEF Grow
<1> HIDE DEF count
<1> QED  BY <1>4, <1>5, WidthAssumption

----------------------------------------------------------------------------
\* Types.

LEMMA ReplyAttachedType ==
    ASSUME TypeOK, NEW STATE r, r \in Requests, NEW STATE l, l \in LeaseIds,
           NEW STATE entry, entry \in Entries,
           NEW delivered \in BOOLEAN, ReplyAttached(r, l, entry, delivered)
    PROVE  /\ leases' \in [LeaseIds -> Entries]
           /\ answer' \in [Requests -> Answers]
           /\ leases'[l].generation = entry.generation
<1>1. ConnsAfterReply(entry, delivered) \in 0 .. MaxConns
    BY WidthAssumption DEF ConnsAfterReply, Entries
<1>2. [entry EXCEPT !.conns = ConnsAfterReply(entry, delivered)] \in Entries
    BY <1>1 DEF Entries
<1>3. leases' \in [LeaseIds -> Entries] /\ leases'[l].generation = entry.generation
    BY <1>2 DEF ReplyAttached, TypeOK, Entries
<1>4. answer' \in [Requests -> Answers]
    BY DEF ReplyAttached, TypeOK, Entries, Answers, Statuses, Answered
<1> QED  BY <1>3, <1>4

LEMMA RejectedType ==
    ASSUME TypeOK, NEW calls, NEW l \in LeaseIds
    PROVE  Rejected(calls, l, "LeaseClosed") \in [Requests -> Answers]
BY DEF TypeOK, Rejected, Answers, Statuses

LEMMA AnsweredType ==
    ASSUME TypeOK, NEW r \in Requests, NEW l \in LeaseIds, NEW status \in Statuses
    PROVE  Answered(r, l, status) \in [Requests -> Answers]
BY DEF TypeOK, Answered, Answers

LEMMA NewEntryType ==
    ASSUME TypeOK, ready # <<>>
    PROVE  /\ NewEntry \in Entries
           /\ NewEntry.generation = next_generation + 1
           /\ NewEntry.database = ready[1]
           /\ NewEntry.conns = 0
<1>1. Head(ready) \in Nat /\ Head(ready) = ready[1]
    BY HeadTailProperties DEF TypeOK
<1> QED  BY <1>1, WidthAssumption DEF TypeOK, NewEntry, NoEntry, Entries

LEMMA NoEntryType == NoEntry \in Entries
BY WidthAssumption DEF NoEntry, Entries

\* Dropping a lease from the queue leaves a queue.
LEMMA UnqueueType ==
    ASSUME NEW S, NEW queue \in Seq(S), NEW e
    PROVE  Unqueue(queue, e) \in Seq(S)
<1>1. CASE e \in Elements(queue)
    <2> DEFINE i == CHOOSE i \in DOMAIN queue : queue[i] = e
    <2>1. i \in 1 .. Len(queue)
        BY <1>1 DEF Elements
    <2>2. Len(queue) \in Nat
        BY LenProperties
    <2> HIDE DEF i
    <2>3. SubSeq(queue, 1, i - 1) \in Seq(S) /\ SubSeq(queue, i + 1, Len(queue)) \in Seq(S)
        BY <2>1, <2>2
    <2>4. SubSeq(queue, 1, i - 1) \o SubSeq(queue, i + 1, Len(queue)) \in Seq(S)
        BY <2>3
    <2> QED  BY <1>1, <2>4 DEF Unqueue, i
<1>2. CASE e \notin Elements(queue)
    BY <1>2 DEF Unqueue
<1> QED  BY <1>1, <1>2

\* try_init's order of completion is a sequence of the initial identities.
LEMMA InitialOrderType ==
    ASSUME NEW s \in InitialOrders
    PROVE  s \in Seq(Nat) /\ Len(s) = InitialSlots
<1>1. s \in [1 .. InitialSlots -> Nat]
    BY ConfigAssumption DEF InitialOrders
<1> QED  BY <1>1, IsASeq, ConfigAssumption

LEMMA TypeInit == Init => TypeOK /\ ServeOK
<1> SUFFICES ASSUME Init PROVE TypeOK /\ ServeOK
    OBVIOUS
<1>1. ready \in Seq(Nat)
    BY InitialOrderType DEF Init
<1>2. NoEntry \in Entries /\ NotAsked \in Answers
    BY NoEntryType DEF NotAsked, Answers, Statuses
<1>3. InitialSlots \in 0 .. MaxDatabaseId
    BY ConfigAssumption, WidthAssumption
<1>4. <<>> \in Seq(LeaseIds) /\ <<>> \in Seq(Requests)
    BY EmptySeq
<1> QED  BY <1>1, <1>2, <1>3, <1>4 DEF Init, TypeOK, ServeOK

\* The handlers that end in grow() keep the inventory well typed.
LEMMA GrowType ==
    ASSUME TypeOK, ready' \in Seq(Nat), NEW CONSTANT accepted, Grow(creating, accepted)
    PROVE  /\ next_database_id' \in 0 .. MaxDatabaseId
           /\ creating' \in SUBSET (1 .. next_database_id')
<1>1. creating \in SUBSET (1 .. next_database_id) /\ next_database_id \in 0 .. MaxDatabaseId
    BY DEF TypeOK
<1>2. /\ next_database_id' \in next_database_id .. MaxDatabaseId
      /\ creating' \subseteq creating \cup (next_database_id + 1 .. next_database_id')
    BY <1>1, GrowEffect
<1> QED  BY <1>1, <1>2, WidthAssumption

LEMMA RetireType ==
    ASSUME TypeOK, NEW l \in LeaseIds, NEW CONSTANT accepted, UNCHANGED ready,
           RetireLease(l, accepted)
    PROVE  /\ leases' \in [LeaseIds -> Entries]
           /\ cancelled' \in SUBSET Nat
           /\ retiring' \in SUBSET Nat
           /\ next_database_id' \in 0 .. MaxDatabaseId
           /\ creating' \in SUBSET (1 .. next_database_id')
<1>1. CASE Leased(l)
    <2>1. leases[l].generation \in Nat /\ leases[l].database \in Nat
        BY DEF TypeOK, Entries
    <2>2. ready' \in Seq(Nat)
        BY DEF TypeOK
    <2>3. Grow(creating, accepted)
        BY <1>1 DEF RetireLease
    <2>4. /\ next_database_id' \in 0 .. MaxDatabaseId
          /\ creating' \in SUBSET (1 .. next_database_id')
        BY <2>2, <2>3, GrowType
    <2> QED  BY <1>1, <2>1, <2>4, NoEntryType DEF RetireLease, TypeOK
<1>2. CASE ~Leased(l)
    BY <1>2 DEF RetireLease, TypeOK
<1> QED  BY <1>1, <1>2

LEMMA TypeStep == TypeOK /\ ServeOK /\ [Next]_vars => TypeOK' /\ ServeOK'
<1> SUFFICES ASSUME TypeOK, ServeOK, [Next]_vars PROVE TypeOK' /\ ServeOK'
    OBVIOUS
<1>1. ASSUME NEW l \in LeaseIds, NEW r \in Requests, NEW delivered \in BOOLEAN,
             NEW accepted \in BOOLEAN, AttachOrJoin(l, r, delivered, accepted)
      PROVE  TypeOK' /\ ServeOK'
    <2>0. pc = "idle" /\ Admitted(l) \in [LeaseIds -> {"None", "Open", "Closed"}]
        BY <1>1 DEF AttachOrJoin, Admitted, TypeOK
    <2>1. CASE AttachReject(l, r)
        <3>1. answer' \in [Requests -> Answers]
            BY <2>1, AnsweredType DEF AttachReject, Statuses
        <3> QED  BY <2>1, <3>1 DEF AttachReject, TypeOK, ServeOK, Leased, inventory, dispatch
    <2>2. CASE AttachJoin(l, r, delivered)
        <3>1. leases[l] \in Entries
            BY DEF TypeOK
        <3>2. leases' \in [LeaseIds -> Entries] /\ answer' \in [Requests -> Answers]
            BY <2>2, <3>1, ReplyAttachedType DEF AttachJoin
        <3> QED  BY <2>0, <2>2, <3>2 DEF AttachJoin, TypeOK, ServeOK, Leased, inventory, dispatch
    <2>3. CASE AttachQueue(l, r, accepted)
        <3>1. answer' \in [Requests -> Answers]
            BY <2>3, AnsweredType DEF AttachQueue, Statuses
        <3>2. waiters' \in Seq(LeaseIds) /\ group_waiters' \in [LeaseIds -> Seq(Requests)]
            BY <2>3 DEF AttachQueue, TypeOK
        <3>3. ready' \in Seq(Nat) /\ Grow(creating, accepted)
            BY <2>3 DEF AttachQueue, TypeOK
        <3>4. /\ next_database_id' \in 0 .. MaxDatabaseId
              /\ creating' \in SUBSET (1 .. next_database_id')
            BY <3>3, GrowType
        <3> QED  BY <2>0, <2>3, <3>1, <3>2, <3>3, <3>4
                 DEF AttachQueue, TypeOK, ServeOK, Leased, dispatch
    <2>4. CASE delivered /\ AttachAssign(l, r, accepted)
        <3>1. ready' \in Seq(Nat) /\ Grow(creating, accepted)
            BY <2>4 DEF AttachAssign, TypeOK
        <3>2. NewEntry \in Entries
            BY <2>4, NewEntryType DEF AttachAssign
        <3>3. leases' \in [LeaseIds -> Entries] /\ answer' \in [Requests -> Answers]
            BY <2>4, <3>2, ReplyAttachedType DEF AttachAssign
        <3>4. /\ next_database_id' \in 0 .. MaxDatabaseId
              /\ creating' \in SUBSET (1 .. next_database_id')
            BY <3>1, GrowType
        <3> QED  BY <2>0, <2>4, <3>1, <3>3, <3>4 DEF AttachAssign, TypeOK, ServeOK, dispatch
    <2>5. CASE ~delivered /\ AttachUnclaimed(l, r)
        <3>1. answer' \in [Requests -> Answers]
            BY <2>5, AnsweredType DEF AttachUnclaimed, Statuses
        <3>2. ready' \in Seq(Nat)
            BY <2>5, NewEntryType, SMTT(30) DEF AttachUnclaimed, TypeOK, Entries
        <3> QED  BY <2>0, <2>5, <3>1, <3>2 DEF AttachUnclaimed, TypeOK, ServeOK
    <2> QED  BY <1>1, <2>1, <2>2, <2>3, <2>4, <2>5 DEF AttachOrJoin
<1>2. CASE DispatchPop
    <2> DEFINE l == Head(waiters)
    <2>1. l \in LeaseIds /\ waiters' \in Seq(LeaseIds)
        BY <1>2 DEF DispatchPop, TypeOK
    <2>2. group_waiters' \in [LeaseIds -> Seq(Requests)] /\ group_waiters[l] \in Seq(Requests)
        BY <1>2, <2>1 DEF DispatchPop, TypeOK
    <2>3. answer' \in [Requests -> Answers]
        BY <1>2, <2>1, RejectedType DEF DispatchPop, TypeOK
    <2>4. CASE lease_records[l] = "Closed"
        BY <1>2, <2>1, <2>2, <2>3, <2>4 DEF DispatchPop, TypeOK, ServeOK, inventory
    <2>5. CASE lease_records[l] # "Closed"
        BY <1>2, <2>1, <2>2, <2>3, <2>5 DEF DispatchPop, TypeOK, ServeOK, inventory, Leased
    <2> QED  BY <2>4, <2>5
<1>3. CASE ServeOverdue
    <2>1. Head(replies) \in Requests /\ replies' \in Seq(Requests)
        BY <1>3 DEF ServeOverdue, TypeOK
    <2>2. answer' \in [Requests -> Answers]
        BY <1>3, <2>1, AnsweredType DEF ServeOverdue, ServeOK, Statuses
    <2> QED  BY <1>3, <2>1, <2>2 DEF ServeOverdue, TypeOK, ServeOK, Leased, inventory
<1>4. ASSUME NEW delivered \in BOOLEAN, ServeReply(delivered) PROVE TypeOK' /\ ServeOK'
    <2>1. Head(replies) \in Requests /\ replies' \in Seq(Requests) /\ serving \in LeaseIds
        BY <1>4 DEF ServeReply, TypeOK, ServeOK
    <2>2. CASE Leased(serving)
        <3>1. leases[serving] \in Entries
            BY <2>1 DEF TypeOK
        <3>2. ReplyAttached(Head(replies), serving, leases[serving], delivered)
            BY <1>4, <2>2 DEF ServeReply
        <3>3. /\ leases' \in [LeaseIds -> Entries]
              /\ answer' \in [Requests -> Answers]
              /\ leases'[serving].generation = leases[serving].generation
            BY <2>1, <3>1, <3>2, ReplyAttachedType
        <3> QED  BY <1>4, <2>1, <2>2, <3>3 DEF ServeReply, TypeOK, ServeOK, Leased
    <2>3. CASE ~Leased(serving)
        <3>1. ready # <<>>
            BY <1>4, <2>3 DEF ServeReply, ServeOK
        <3>2. NewEntry \in Entries /\ NewEntry.generation = next_generation + 1
            BY <3>1, NewEntryType
        <3>3. ReplyAttached(Head(replies), serving, NewEntry, delivered)
            BY <1>4, <2>3 DEF ServeReply
        <3>4. /\ leases' \in [LeaseIds -> Entries]
              /\ answer' \in [Requests -> Answers]
              /\ leases'[serving].generation = next_generation + 1
            BY <2>1, <3>2, <3>3, ReplyAttachedType
        <3>5. leases'[serving].generation # 0
            BY <3>4 DEF TypeOK
        <3>6. ready' = Tail(ready)
            BY <1>4, <2>3 DEF ServeReply
        <3>7. ready' \in Seq(Nat)
            BY <3>1, <3>6, HeadTailProperties DEF TypeOK
        <3> QED  BY <1>4, <2>1, <2>3, <3>4, <3>5, <3>7, SMTT(30) DEF ServeReply, TypeOK, ServeOK, Leased
    <2> QED  BY <2>2, <2>3
<1>5. CASE ServeDone
    <2>1. serving \in LeaseIds
        BY <1>5 DEF ServeDone, ServeOK
    <2>2. leases[serving].generation \in Nat /\ leases[serving].database \in Nat
        BY <2>1 DEF TypeOK, Entries
    <2>3. CASE ~already_assigned /\ Unclaimed(serving)
        <3>1. /\ leases' = [leases EXCEPT ![serving] = NoEntry]
              /\ cancelled' = cancelled \cup {leases[serving].generation}
              /\ ready' = <<leases[serving].database>> \o ready
            BY <1>5, <2>3 DEF ServeDone
        <3>2. ready' \in Seq(Nat)
            BY <2>2, <3>1 DEF TypeOK
        <3>3. leases' \in [LeaseIds -> Entries] /\ cancelled' \in SUBSET Nat
            BY <2>2, <3>1, NoEntryType DEF TypeOK
        <3> QED  BY <1>5, <3>2, <3>3 DEF ServeDone, TypeOK, ServeOK
    <2>4. CASE ~(~already_assigned /\ Unclaimed(serving))
        BY <1>5, <2>4 DEF ServeDone, TypeOK, ServeOK
    <2> QED  BY <2>3, <2>4
<1>6. ASSUME NEW accepted \in BOOLEAN, DispatchExit(accepted) PROVE TypeOK' /\ ServeOK'
    <2>1. ready' \in Seq(Nat) /\ Grow(creating, accepted)
        BY <1>6 DEF DispatchExit, TypeOK
    <2>2. /\ next_database_id' \in 0 .. MaxDatabaseId
          /\ creating' \in SUBSET (1 .. next_database_id')
        BY <2>1, GrowType
    <2> QED  BY <1>6, <2>1, <2>2 DEF DispatchExit, TypeOK, ServeOK
<1>7. ASSUME NEW l \in LeaseIds, NEW accepted \in BOOLEAN, ReleaseLease(l, accepted)
      PROVE  TypeOK' /\ ServeOK'
    <2>1. CASE ReleaseNothing(l)
        BY <2>1 DEF ReleaseNothing, vars, TypeOK, ServeOK, Leased, inventory, dispatch
    <2>2. CASE ReleaseOpen(l, accepted)
        <3>1. UNCHANGED ready /\ RetireLease(l, accepted)
            BY <2>2 DEF ReleaseOpen
        <3>2. /\ leases' \in [LeaseIds -> Entries]
              /\ cancelled' \in SUBSET Nat
              /\ retiring' \in SUBSET Nat
              /\ next_database_id' \in 0 .. MaxDatabaseId
              /\ creating' \in SUBSET (1 .. next_database_id')
            BY <3>1, RetireType
        <3>3. waiters' \in Seq(LeaseIds)
            BY <2>2, UnqueueType DEF ReleaseOpen, TypeOK
        <3>4. answer' \in [Requests -> Answers]
            BY <2>2, RejectedType DEF ReleaseOpen
        <3> QED  BY <1>7, <2>2, <3>2, <3>3, <3>4
                 DEF ReleaseLease, ReleaseOpen, TypeOK, ServeOK, dispatch
    <2> QED  BY <1>7, <2>1, <2>2 DEF ReleaseLease
<1>8. ASSUME NEW l \in LeaseIds, NEW g, Detach(l, g) PROVE TypeOK' /\ ServeOK'
    <2> DEFINE entry == [leases[l] EXCEPT !.conns = @ - 1]
    <2>1. CASE Leased(l) /\ leases[l].generation = g /\ leases[l].conns > 0
        <3>1. leases' = [leases EXCEPT ![l] = entry]
            BY <1>8, <2>1 DEF Detach
        <3>2. leases[l] \in Entries
            BY DEF TypeOK
        <3>3. entry \in Entries
            BY <2>1, <3>2, WidthAssumption DEF Entries
        <3> QED  BY <1>8, <3>1, <3>3 DEF Detach, TypeOK, ServeOK, inventory, dispatch
    <2>2. CASE ~(Leased(l) /\ leases[l].generation = g /\ leases[l].conns > 0)
        BY <1>8, <2>2 DEF Detach, TypeOK, ServeOK, inventory, dispatch
    <2> QED  BY <2>1, <2>2
<1>9. ASSUME NEW l \in LeaseIds, NEW g, NEW accepted \in BOOLEAN,
             LeaseMaxTimeReached(l, g, accepted)
      PROVE  TypeOK' /\ ServeOK'
    <2>1. CASE RetireLease(l, accepted)
        <3>1. /\ leases' \in [LeaseIds -> Entries]
              /\ cancelled' \in SUBSET Nat
              /\ retiring' \in SUBSET Nat
              /\ next_database_id' \in 0 .. MaxDatabaseId
              /\ creating' \in SUBSET (1 .. next_database_id')
            BY <1>9, <2>1, RetireType DEF LeaseMaxTimeReached
        <3> QED  BY <1>9, <3>1 DEF LeaseMaxTimeReached, TypeOK, ServeOK, dispatch
    <2>2. CASE UNCHANGED <<leases, cancelled, retiring, next_database_id, creating>>
        BY <1>9, <2>2 DEF LeaseMaxTimeReached, TypeOK, ServeOK, dispatch
    <2> QED  BY <1>9, <2>1, <2>2 DEF LeaseMaxTimeReached
<1>10. ASSUME NEW d \in 1 .. next_database_id, NEW ok \in BOOLEAN, CreationFinished(d, ok)
       PROVE  TypeOK' /\ ServeOK'
    <2>0. d \in Nat
        BY WidthAssumption DEF TypeOK
    <2>1. ready' \in Seq(Nat)
        <3>1. ready' = ready \/ ready' = Append(ready, d)
            BY <1>10 DEF CreationFinished
        <3>2. ready \in Seq(Nat)
            BY DEF TypeOK
        <3> QED  BY <2>0, <3>1, <3>2
    <2> QED  BY <1>10, <2>1 DEF CreationFinished, TypeOK, ServeOK
<1>11. ASSUME NEW d \in 1 .. next_database_id, NEW ok \in BOOLEAN, CleanupFinished(d, ok)
       PROVE  TypeOK' /\ ServeOK'
    BY <1>11 DEF CleanupFinished, TypeOK, ServeOK, dispatch
<1>12. CASE Shutdown
    BY <1>12 DEF Shutdown, TypeOK, ServeOK, inventory
<1>13. ASSUME NEW r \in Requests, BecomeOverdue(r) PROVE TypeOK' /\ ServeOK'
    BY <1>13 DEF BecomeOverdue, TypeOK, ServeOK, Leased, inventory, dispatch
<1>14. CASE UNCHANGED vars
    BY <1>14 DEF vars, TypeOK, ServeOK, Leased, inventory, dispatch
<1> QED
    BY <1>1, <1>2, <1>3, <1>4, <1>5, <1>6, <1>7, <1>8, <1>9, <1>10, <1>11, <1>12, <1>13, <1>14
    DEF Next

\* Every state of the engine is well typed; in particular a lease never counts
\* more than u16::MAX connections and no identity exceeds its width.
THEOREM TypeCorrect == Spec => [](TypeOK /\ ServeOK)
BY TypeInit, TypeStep, PTL DEF Spec

----------------------------------------------------------------------------
(***************************************************************************)
(* Isolation: two leases never share a database, a used database is never  *)
(* handed out again, and every database is in one place at a time.         *)
(*                                                                         *)
(* The handlers change the assignments in four ways only: a lease takes    *)
(* the head of `ready', a call joins a held lease, a held database is      *)
(* retired, and an assignment nobody received is taken back.  Each way has *)
(* a lemma here, and the step of Next is a case split over them.           *)
(***************************************************************************)

Inv ==
    /\ OnePlacePerDatabase
    /\ AssignmentsTraced
    /\ Isolation
    /\ NoDirtyReuse

\* The part of Inv that does not speak of the dispatch loop.
Assignments ==
    /\ OnePlacePerDatabase
    /\ GenerationsIdentify
    /\ RepliesTraced
    /\ Isolation
    /\ NoDirtyReuse

----------------------------------------------------------------------------
\* Queues without repetition as sets.

LEMMA TailElements ==
    ASSUME NEW S, NEW s \in Seq(S), s # <<>>, Distinct(s)
    PROVE  /\ Tail(s) \in Seq(S)
           /\ Distinct(Tail(s))
           /\ s[1] \in Elements(s)
           /\ Elements(Tail(s)) = Elements(s) \ {s[1]}
<1>1. Tail(s) \in Seq(S) /\ Len(Tail(s)) = Len(s) - 1 /\ Len(s) \in Nat /\ Len(s) > 0
    BY HeadTailProperties, LenProperties, EmptySeq
<1>2. \A i \in 1 .. Len(Tail(s)) : Tail(s)[i] = s[i + 1]
    BY HeadTailProperties
<1>3. DOMAIN s = 1 .. Len(s) /\ DOMAIN Tail(s) = 1 .. Len(Tail(s))
    BY <1>1, LenProperties
<1>4. Distinct(Tail(s))
    BY <1>1, <1>2, <1>3 DEF Distinct
<1>5. s[1] \in Elements(s)
    BY <1>1, <1>3 DEF Elements
<1>6. ASSUME NEW x \in Elements(Tail(s)) PROVE x \in Elements(s) \ {s[1]}
    BY <1>1, <1>2, <1>3, <1>6 DEF Elements, Distinct
<1>7. ASSUME NEW x \in Elements(s) \ {s[1]} PROVE x \in Elements(Tail(s))
    <2>1. PICK i \in 1 .. Len(s) : s[i] = x
        BY <1>3, <1>7 DEF Elements
    <2>2. i # 1
        BY <1>7, <2>1
    <2>3. i - 1 \in 1 .. Len(Tail(s)) /\ Tail(s)[i - 1] = x
        BY <1>1, <1>2, <2>1, <2>2
    <2> QED  BY <1>3, <2>3 DEF Elements
<1> QED  BY <1>1, <1>4, <1>5, <1>6, <1>7

LEMMA ConsElements ==
    ASSUME NEW S, NEW s \in Seq(S), NEW e \in S, Distinct(s), e \notin Elements(s)
    PROVE  /\ Distinct(<<e>> \o s)
           /\ Elements(<<e>> \o s) = Elements(s) \cup {e}
<1> DEFINE t == <<e>> \o s
<1>1. <<e>> \in Seq(S) /\ Len(<<e>>) = 1 /\ <<e>>[1] = e
    OBVIOUS
<1>2. /\ t \in Seq(S) /\ Len(t) = Len(s) + 1 /\ t[1] = e
      /\ \A i \in 2 .. Len(s) + 1 : t[i] = s[i - 1]
    BY <1>1, ConcatProperties, LenProperties
<1>3. DOMAIN s = 1 .. Len(s) /\ DOMAIN t = 1 .. Len(t) /\ Len(s) \in Nat
    BY <1>2, LenProperties
<1> HIDE DEF t
<1>4. \A i \in 1 .. Len(s) : t[i + 1] = s[i]
    BY <1>2, <1>3
<1>5. Distinct(t)
    <2> SUFFICES ASSUME NEW i \in DOMAIN t, NEW j \in DOMAIN t, t[i] = t[j] PROVE i = j
        BY DEF Distinct
    <2>1. \A k \in 1 .. Len(s) : s[k] # e
        BY <1>3 DEF Elements
    <2>2. CASE i = 1 \/ j = 1
        BY <1>2, <1>3, <2>1, <2>2
    <2>3. CASE i # 1 /\ j # 1
        <3>0. DOMAIN t = 1 .. Len(s) + 1
            BY <1>2, <1>3
        <3>1. i \in 2 .. Len(s) + 1 /\ i - 1 \in 1 .. Len(s)
            BY <1>3, <2>3, <3>0
        <3>2. j \in 2 .. Len(s) + 1 /\ j - 1 \in 1 .. Len(s)
            BY <1>3, <2>3, <3>0
        <3>3. s[i - 1] = s[j - 1]
            BY <1>2, <3>1, <3>2
        <3>4. i - 1 = j - 1
            BY <1>3, <3>1, <3>2, <3>3 DEF Distinct
        <3> QED  BY <3>1, <3>2, <3>4
    <2> QED  BY <2>2, <2>3
<1>6. Elements(t) = Elements(s) \cup {e}
    <2>1. ASSUME NEW x \in Elements(t) PROVE x \in Elements(s) \cup {e}
        <3>1. PICK i \in 1 .. Len(s) + 1 : t[i] = x
            BY <1>2, <1>3, <2>1 DEF Elements
        <3>2. CASE i = 1
            BY <1>2, <3>1, <3>2
        <3>3. CASE i # 1
            <4>1. i - 1 \in 1 .. Len(s) /\ s[i - 1] = x
                BY <1>2, <1>3, <3>1, <3>3
            <4> QED  BY <1>3, <4>1 DEF Elements
        <3> QED  BY <3>2, <3>3
    <2>2. ASSUME NEW x \in Elements(s) PROVE x \in Elements(t)
        <3>1. PICK i \in 1 .. Len(s) : s[i] = x
            BY <1>3, <2>2 DEF Elements
        <3>2. i + 1 \in 1 .. Len(t) /\ t[i + 1] = x
            BY <1>2, <1>3, <1>4, <3>1
        <3> QED  BY <1>3, <3>2 DEF Elements
    <2>3. e \in Elements(t)
        BY <1>2, <1>3 DEF Elements
    <2> QED  BY <2>1, <2>2, <2>3
<1> QED  BY <1>5, <1>6 DEF t

LEMMA AppendElements ==
    ASSUME NEW S, NEW s \in Seq(S), NEW e \in S, Distinct(s), e \notin Elements(s)
    PROVE  /\ Distinct(Append(s, e))
           /\ Elements(Append(s, e)) = Elements(s) \cup {e}
<1> DEFINE t == Append(s, e)
<1>1. /\ t \in Seq(S) /\ Len(t) = Len(s) + 1 /\ t[Len(s) + 1] = e
      /\ \A i \in 1 .. Len(s) : t[i] = s[i]
    BY AppendProperties
<1>2. DOMAIN s = 1 .. Len(s) /\ DOMAIN t = 1 .. Len(t) /\ Len(s) \in Nat
    BY <1>1, LenProperties
<1> HIDE DEF t
<1>3. Distinct(t)
    BY <1>1, <1>2 DEF Distinct, Elements
<1>4. Elements(t) = Elements(s) \cup {e}
    <2>1. ASSUME NEW x \in Elements(t) PROVE x \in Elements(s) \cup {e}
        BY <1>1, <1>2, <2>1 DEF Elements
    <2>2. ASSUME NEW x \in Elements(s) PROVE x \in Elements(t)
        BY <1>1, <1>2, <2>2 DEF Elements
    <2>3. e \in Elements(t)
        BY <1>1, <1>2 DEF Elements
    <2> QED  BY <2>1, <2>2, <2>3
<1> QED  BY <1>3, <1>4 DEF t

----------------------------------------------------------------------------
\* Shapes of a step.

\* Replies already delivered stay as they are; no other is delivered.
NoNewReply == \A q \in Requests : answer'[q] = answer[q] \/ answer'[q].status # "Attached"

\* At most r is attached by the step, to entry e of lease l.
OneNewReply(r, l, e) ==
    \A q \in Requests :
        \/ answer'[q] = answer[q]
        \/ answer'[q].status # "Attached"
        \/ /\ q = r
           /\ answer'[q].lease = l
           /\ answer'[q].database = e.database
           /\ answer'[q].generation = e.generation

\* Identities that were never used may be reserved.
OnlyNewReservations ==
    /\ next_database_id \in Nat /\ next_database_id' \in Nat
    /\ next_database_id <= next_database_id'
    /\ creating' \subseteq creating \cup (next_database_id + 1 .. next_database_id')

LEMMA TakesReady ==
    ASSUME TypeOK, TypeOK', Assignments, NEW l \in LeaseIds, NEW r, NEW e \in Entries,
           ~Leased(l), ready # <<>>,
           e.database = ready[1], e.generation = next_generation + 1,
           leases' = [leases EXCEPT ![l] = e],
           next_generation' = next_generation + 1,
           ready' = Tail(ready), UNCHANGED retiring, OnlyNewReservations,
           OneNewReply(r, l, e)
    PROVE  Assignments'
<1> DEFINE R == Elements(ready)
           T == Elements(ready')
<1>1. /\ Distinct(ready)' /\ e.database \in R /\ T = R \ {e.database}
    BY TailElements DEF TypeOK, Assignments, OnePlacePerDatabase
<1>2. /\ \A k \in LeaseIds \ {l} : leases'[k] = leases[k]
      /\ leases'[l] = e
    BY DEF TypeOK
<1>3. next_generation \in Nat /\ e.generation # 0
    BY DEF TypeOK
<1>4. R \subseteq 1 .. next_database_id
    BY DEF Assignments, OnePlacePerDatabase
<1> HIDE DEF R, T
<1>5. OnePlacePerDatabase'
    <2>1. /\ T \cup retiring' \subseteq 1 .. next_database_id'
          /\ creating' \cap T = {} /\ creating' \cap retiring' = {} /\ T \cap retiring' = {}
        BY <1>1, <1>4, SMTT(30) DEF Assignments, OnePlacePerDatabase, OnlyNewReservations, R, TypeOK
    <2>2. /\ e.database \in 1 .. next_database_id'
          /\ e.database \notin creating' \cup T \cup retiring'
        BY <1>1, <1>4 DEF Assignments, OnePlacePerDatabase, OnlyNewReservations, R
    <2>3. ASSUME NEW k \in LeaseIds \ {l}, leases[k].generation # 0
          PROVE  /\ leases[k].database \in 1 .. next_database_id'
                 /\ leases[k].database \notin creating' \cup T \cup retiring'
                 /\ leases[k].database # e.database
        BY <1>1, <2>3 DEF Assignments, OnePlacePerDatabase, OnlyNewReservations, R, Leased
    <2>4. ASSUME NEW k \in LeaseIds \ {l}, NEW j \in LeaseIds \ {k, l},
                 leases[k].generation # 0, leases[j].generation # 0
          PROVE  leases[j].database # leases[k].database
        BY <2>4 DEF Assignments, OnePlacePerDatabase, Leased
    <2> QED  BY <1>1, <1>2, <2>1, <2>2, <2>3, <2>4 DEF OnePlacePerDatabase, Leased, T
<1>6. GenerationsIdentify'
    <2>1. e.generation \in 1 .. next_generation'
        BY <1>3
    <2>2. ASSUME NEW k \in LeaseIds, leases[k].generation # 0
          PROVE  /\ leases[k].generation \in 1 .. next_generation
                 /\ leases[k].generation # e.generation
                 /\ \A j \in LeaseIds \ {k} : leases[j].generation # leases[k].generation
        BY <1>3, <2>2 DEF Assignments, GenerationsIdentify, Leased
    <2> QED  BY <1>2, <1>3, <2>1, <2>2 DEF GenerationsIdentify, Leased
<1>7. ASSUME NEW q \in Requests, answer'[q].status = "Attached"
      PROVE  \/ /\ q \in AttachedCalls
                /\ answer'[q] = answer[q]
                /\ answer[q].generation \in 1 .. next_generation
                /\ answer[q].database \in 1 .. next_database_id
                /\ answer[q].database \notin R \cup creating
             \/ /\ answer'[q].lease = l
                /\ answer'[q].database = e.database
                /\ answer'[q].generation = e.generation
    BY <1>7 DEF OneNewReply, Assignments, RepliesTraced, NoDirtyReuse, AttachedCalls, R
<1>8. RepliesTraced'
    <2> SUFFICES ASSUME NEW q \in AttachedCalls'
                 PROVE  /\ answer'[q].lease \in LeaseIds
                        /\ answer'[q].generation \in 1 .. next_generation'
                        /\ answer'[q].database \in 1 .. next_database_id'
                        /\ \A k \in LeaseIds : leases'[k].generation # 0 =>
                            /\ leases'[k].generation = answer'[q].generation
                                    <=> leases'[k].database = answer'[q].database
                            /\ leases'[k].generation = answer'[q].generation
                                    => k = answer'[q].lease
        BY DEF RepliesTraced, Leased
    <2>1. q \in Requests /\ answer'[q].status = "Attached"
        BY DEF AttachedCalls
    <2>2. CASE /\ q \in AttachedCalls
               /\ answer'[q] = answer[q]
               /\ answer[q].generation \in 1 .. next_generation
               /\ answer[q].database \in 1 .. next_database_id
               /\ answer[q].database \notin R \cup creating
        BY <1>1, <1>2, <1>3, <2>2
        DEF Assignments, RepliesTraced, OnlyNewReservations, Leased
    <2>3. CASE /\ answer'[q].lease = l
               /\ answer'[q].database = e.database
               /\ answer'[q].generation = e.generation
        <3>1. ASSUME NEW k \in LeaseIds \ {l}, leases[k].generation # 0
              PROVE  leases[k].database # e.database /\ leases[k].generation # e.generation
            BY <1>1, <1>3, <3>1
            DEF Assignments, OnePlacePerDatabase, GenerationsIdentify, Leased, R
        <3>2. /\ e.generation \in 1 .. next_generation'
              /\ e.database \in 1 .. next_database_id'
            <4>1. e.generation \in 1 .. next_generation'
                BY <1>3
            <4>2. e.database \in 1 .. next_database_id
                BY <1>1, <1>4
            <4> QED  BY <4>1, <4>2 DEF OnlyNewReservations
        <3>3. ASSUME NEW k \in LeaseIds, leases'[k].generation # 0
              PROVE  /\ leases'[k].generation = e.generation <=> leases'[k].database = e.database
                     /\ leases'[k].generation = e.generation => k = l
            BY <1>2, <3>1, <3>3
        <3> QED  BY <2>3, <3>2, <3>3
    <2> QED  BY <1>7, <2>1, <2>2, <2>3
<1>9. Isolation'
    <2> SUFFICES ASSUME NEW p \in AttachedCalls', NEW q \in AttachedCalls'
                 PROVE  /\ answer'[p].database = answer'[q].database
                                <=> answer'[p].generation = answer'[q].generation
                        /\ answer'[p].generation = answer'[q].generation
                                => answer'[p].lease = answer'[q].lease
        BY DEF Isolation
    <2>1. /\ p \in Requests /\ answer'[p].status = "Attached"
          /\ q \in Requests /\ answer'[q].status = "Attached"
        BY DEF AttachedCalls
    <2>2. p \in AttachedCalls /\ q \in AttachedCalls =>
            /\ answer[p].database = answer[q].database
                    <=> answer[p].generation = answer[q].generation
            /\ answer[p].generation = answer[q].generation => answer[p].lease = answer[q].lease
        BY DEF Assignments, Isolation
    <2> QED  BY <1>1, <1>3, <1>7, <2>1, <2>2
<1>10. NoDirtyReuse'
    <2> SUFFICES ASSUME NEW q \in AttachedCalls'
                 PROVE  answer'[q].database \notin creating' \cup T
        BY DEF NoDirtyReuse, T
    <2>1. q \in Requests /\ answer'[q].status = "Attached"
        BY DEF AttachedCalls
    <2>2. e.database \notin creating' \cup T
        BY <1>1, <1>4 DEF Assignments, OnePlacePerDatabase, OnlyNewReservations, R
    <2> QED  BY <1>1, <1>7, <2>1, <2>2 DEF OnlyNewReservations
<1> QED  BY <1>5, <1>6, <1>8, <1>9, <1>10 DEF Assignments

LEMMA KeepsAssignments ==
    ASSUME TypeOK, TypeOK', Assignments, NEW l, NEW r,
           \A k \in LeaseIds : /\ leases'[k].database = leases[k].database
                               /\ leases'[k].generation = leases[k].generation,
           next_generation <= next_generation',
           UNCHANGED ready, retiring' \subseteq retiring, OnlyNewReservations,
           NoNewReply \/ (l \in LeaseIds /\ Leased(l) /\ OneNewReply(r, l, leases[l]))
    PROVE  Assignments'
<1> DEFINE R == Elements(ready)
<1>1. R = Elements(ready')
    OBVIOUS
<1>2. next_generation \in Nat /\ next_generation' \in Nat
    BY DEF TypeOK
<1>3. /\ Distinct(ready') /\ R \cup retiring \subseteq 1 .. next_database_id
      /\ creating \subseteq 1 .. next_database_id
    BY DEF Assignments, OnePlacePerDatabase, TypeOK
<1> HIDE DEF R
<1>4. OnePlacePerDatabase'
    <2>1. /\ R \cup retiring' \subseteq 1 .. next_database_id'
          /\ creating' \cap R = {} /\ creating' \cap retiring' = {} /\ R \cap retiring' = {}
        BY <1>3 DEF Assignments, OnePlacePerDatabase, OnlyNewReservations, R
    <2>2. ASSUME NEW k \in LeaseIds, leases[k].generation # 0
          PROVE  /\ leases[k].database \in 1 .. next_database_id'
                 /\ leases[k].database \notin creating' \cup R \cup retiring'
                 /\ \A j \in LeaseIds \ {k} :
                        leases[j].generation # 0 => leases[j].database # leases[k].database
        BY <2>2 DEF Assignments, OnePlacePerDatabase, OnlyNewReservations, R, Leased
    <2> QED  BY <1>1, <1>3, <2>1, <2>2 DEF OnePlacePerDatabase, Leased
<1>5. GenerationsIdentify'
    BY <1>2 DEF Assignments, GenerationsIdentify, Leased
<1>6. ASSUME NEW q \in Requests, answer'[q].status = "Attached"
      PROVE  \/ q \in AttachedCalls /\ answer'[q] = answer[q]
             \/ /\ l \in LeaseIds /\ Leased(l)
                /\ answer'[q].lease = l
                /\ answer'[q].database = leases[l].database
                /\ answer'[q].generation = leases[l].generation
    BY <1>6 DEF NoNewReply, OneNewReply, AttachedCalls
<1>7. ASSUME NEW q \in Requests, answer'[q].status = "Attached"
      PROVE  /\ answer'[q].lease \in LeaseIds
             /\ answer'[q].generation \in 1 .. next_generation
             /\ answer'[q].database \in 1 .. next_database_id
             /\ answer'[q].database \notin creating \cup R
             /\ \A k \in LeaseIds : leases[k].generation # 0 =>
                    /\ leases[k].generation = answer'[q].generation
                            <=> leases[k].database = answer'[q].database
                    /\ leases[k].generation = answer'[q].generation => k = answer'[q].lease
    <2>1. CASE q \in AttachedCalls /\ answer'[q] = answer[q]
        BY <2>1 DEF Assignments, RepliesTraced, NoDirtyReuse, Leased, R
    <2>2. CASE /\ l \in LeaseIds /\ Leased(l)
               /\ answer'[q].lease = l
               /\ answer'[q].database = leases[l].database
               /\ answer'[q].generation = leases[l].generation
        BY <2>2 DEF Assignments, OnePlacePerDatabase, GenerationsIdentify, Leased, R
    <2> QED  BY <1>6, <1>7, <2>1, <2>2
<1>8. RepliesTraced'
    BY <1>2, <1>7 DEF RepliesTraced, AttachedCalls, OnlyNewReservations, Leased
<1>9. Isolation'
    <2> SUFFICES ASSUME NEW p \in AttachedCalls', NEW q \in AttachedCalls'
                 PROVE  /\ answer'[p].database = answer'[q].database
                                <=> answer'[p].generation = answer'[q].generation
                        /\ answer'[p].generation = answer'[q].generation
                                => answer'[p].lease = answer'[q].lease
        BY DEF Isolation
    <2>1. /\ p \in Requests /\ answer'[p].status = "Attached"
          /\ q \in Requests /\ answer'[q].status = "Attached"
        BY DEF AttachedCalls
    <2>2. p \in AttachedCalls /\ q \in AttachedCalls =>
            /\ answer[p].database = answer[q].database
                    <=> answer[p].generation = answer[q].generation
            /\ answer[p].generation = answer[q].generation => answer[p].lease = answer[q].lease
        BY DEF Assignments, Isolation
    <2>3. CASE /\ l \in LeaseIds /\ Leased(l)
               /\ answer'[p].lease = l
               /\ answer'[p].database = leases[l].database
               /\ answer'[p].generation = leases[l].generation
        BY <1>7, <2>1, <2>3 DEF Leased
    <2>4. CASE /\ l \in LeaseIds /\ Leased(l)
               /\ answer'[q].lease = l
               /\ answer'[q].database = leases[l].database
               /\ answer'[q].generation = leases[l].generation
        BY <1>7, <2>1, <2>4 DEF Leased
    <2> QED  BY <1>6, <2>1, <2>2, <2>3, <2>4
<1>10. NoDirtyReuse'
    BY <1>1, <1>7 DEF NoDirtyReuse, AttachedCalls, OnlyNewReservations
<1> QED  BY <1>4, <1>5, <1>8, <1>9, <1>10 DEF Assignments

\* A finished creation moves its database from `creating' to `ready'.
LEMMA CreatesReady ==
    ASSUME TypeOK, TypeOK', Assignments, NEW d \in creating,
           creating' = creating \ {d}, ready' = Append(ready, d),
           UNCHANGED <<leases, next_generation, next_database_id, retiring, answer>>
    PROVE  Assignments'
<1> DEFINE R == Elements(ready)
           T == Elements(ready')
<1>1. d \in Nat /\ d \in 1 .. next_database_id
    BY WidthAssumption DEF TypeOK
<1>2. ready \in Seq(Nat) /\ Distinct(ready) /\ d \notin R
    BY DEF TypeOK, Assignments, OnePlacePerDatabase
<1>3. Distinct(ready') /\ T = R \cup {d}
    BY <1>1, <1>2, AppendElements
<1> HIDE DEF R, T
<1>4. OnePlacePerDatabase'
    <2>1. /\ T \cup retiring \subseteq 1 .. next_database_id
          /\ creating' \cap T = {} /\ creating' \cap retiring = {} /\ T \cap retiring = {}
        BY <1>1, <1>3 DEF Assignments, OnePlacePerDatabase, R
    <2>2. ASSUME NEW k \in LeaseIds, leases[k].generation # 0
          PROVE  /\ leases[k].database \in 1 .. next_database_id
                 /\ leases[k].database \notin creating' \cup T \cup retiring
                 /\ \A j \in LeaseIds \ {k} :
                        leases[j].generation # 0 => leases[j].database # leases[k].database
        BY <1>3, <2>2 DEF Assignments, OnePlacePerDatabase, R, Leased
    <2> QED  BY <1>3, <2>1, <2>2 DEF OnePlacePerDatabase, Leased, T
<1>5. GenerationsIdentify' /\ RepliesTraced' /\ Isolation'
    BY DEF Assignments, GenerationsIdentify, RepliesTraced, Isolation, Leased, AttachedCalls
<1>6. NoDirtyReuse'
    BY <1>3 DEF Assignments, NoDirtyReuse, AttachedCalls, R, T
<1> QED  BY <1>4, <1>5, <1>6 DEF Assignments

\* A held database leaves its lease for `retiring'.
LEMMA Retires ==
    ASSUME TypeOK, TypeOK', Assignments, NEW l \in LeaseIds, Leased(l),
           leases' = [leases EXCEPT ![l] = NoEntry],
           retiring' = retiring \cup {leases[l].database},
           UNCHANGED <<next_generation, ready>>, OnlyNewReservations, NoNewReply
    PROVE  Assignments'
<1> DEFINE R == Elements(ready)
           d == leases[l].database
<1>1. R = Elements(ready')
    OBVIOUS
<1>2. /\ \A k \in LeaseIds \ {l} : leases'[k] = leases[k]
      /\ leases'[l].generation = 0
    BY DEF TypeOK, NoEntry
<1>3. /\ Distinct(ready') /\ R \cup retiring \subseteq 1 .. next_database_id
      /\ creating \subseteq 1 .. next_database_id
      /\ d \in 1 .. next_database_id /\ d \notin creating \cup R \cup retiring
      /\ \A k \in LeaseIds \ {l} : leases[k].generation # 0 => leases[k].database # d
    BY DEF Assignments, OnePlacePerDatabase, TypeOK, Leased
<1> HIDE DEF R, d
<1>4. OnePlacePerDatabase'
    <2>1. /\ R \cup retiring' \subseteq 1 .. next_database_id'
          /\ creating' \cap R = {} /\ creating' \cap retiring' = {} /\ R \cap retiring' = {}
        BY <1>3 DEF Assignments, OnePlacePerDatabase, OnlyNewReservations, R, d
    <2>2. ASSUME NEW k \in LeaseIds \ {l}, leases[k].generation # 0
          PROVE  /\ leases[k].database \in 1 .. next_database_id'
                 /\ leases[k].database \notin creating' \cup R \cup retiring'
                 /\ \A j \in LeaseIds \ {k} :
                        leases[j].generation # 0 => leases[j].database # leases[k].database
        BY <1>3, <2>2 DEF Assignments, OnePlacePerDatabase, OnlyNewReservations, R, d, Leased
    <2> QED  BY <1>1, <1>2, <1>3, <2>1, <2>2 DEF OnePlacePerDatabase, Leased
<1>5. GenerationsIdentify'
    BY <1>2 DEF Assignments, GenerationsIdentify, Leased
<1>6. \A q \in AttachedCalls' : q \in AttachedCalls /\ answer'[q] = answer[q]
    BY DEF NoNewReply, AttachedCalls
<1>7. RepliesTraced'
    BY <1>2, <1>6 DEF Assignments, RepliesTraced, OnlyNewReservations, Leased
<1>8. Isolation'
    BY <1>6 DEF Assignments, Isolation
<1>9. NoDirtyReuse'
    BY <1>1, <1>6 DEF Assignments, NoDirtyReuse, RepliesTraced, OnlyNewReservations, R
<1> QED  BY <1>4, <1>5, <1>7, <1>8, <1>9 DEF Assignments

\* An assignment nobody received leaves its lease for the head of `ready'.
LEMMA TakesBack ==
    ASSUME TypeOK, TypeOK', Assignments, NEW l \in LeaseIds, Leased(l),
           \A q \in AttachedCalls : answer[q].generation # leases[l].generation,
           leases' = [leases EXCEPT ![l] = NoEntry],
           ready' = <<leases[l].database>> \o ready,
           UNCHANGED <<next_generation, next_database_id, creating, retiring, answer>>
    PROVE  Assignments'
<1> DEFINE R == Elements(ready)
           T == Elements(ready')
           d == leases[l].database
<1>1. /\ \A k \in LeaseIds \ {l} : leases'[k] = leases[k]
      /\ leases'[l].generation = 0
    BY DEF TypeOK, NoEntry
<1>2. /\ ready \in Seq(Nat) /\ Distinct(ready) /\ R \cup retiring \subseteq 1 .. next_database_id
      /\ d \in Nat /\ d \in 1 .. next_database_id /\ d \notin creating \cup R \cup retiring
      /\ \A k \in LeaseIds \ {l} : leases[k].generation # 0 => leases[k].database # d
    BY DEF Assignments, OnePlacePerDatabase, TypeOK, Entries, Leased
<1>3. Distinct(ready') /\ T = R \cup {d}
    BY <1>2, ConsElements
<1> HIDE DEF R, T, d
<1>4. OnePlacePerDatabase'
    <2>1. /\ T \cup retiring \subseteq 1 .. next_database_id
          /\ creating \cap T = {} /\ creating \cap retiring = {} /\ T \cap retiring = {}
        BY <1>2, <1>3 DEF Assignments, OnePlacePerDatabase, R
    <2>2. ASSUME NEW k \in LeaseIds \ {l}, leases[k].generation # 0
          PROVE  /\ leases[k].database \in 1 .. next_database_id
                 /\ leases[k].database \notin creating \cup T \cup retiring
                 /\ \A j \in LeaseIds \ {k} :
                        leases[j].generation # 0 => leases[j].database # leases[k].database
        BY <1>2, <1>3, <2>2 DEF Assignments, OnePlacePerDatabase, R, Leased
    <2> QED  BY <1>1, <1>3, <2>1, <2>2 DEF OnePlacePerDatabase, Leased, T
<1>5. GenerationsIdentify'
    BY <1>1 DEF Assignments, GenerationsIdentify, Leased
<1>6. RepliesTraced' /\ Isolation'
    BY <1>1 DEF Assignments, RepliesTraced, Isolation, AttachedCalls, Leased
<1>7. \A q \in AttachedCalls : answer[q].database # d
    BY DEF Assignments, RepliesTraced, d
<1>8. NoDirtyReuse'
    BY <1>3, <1>7 DEF Assignments, NoDirtyReuse, AttachedCalls, R, T
<1> QED  BY <1>4, <1>5, <1>6, <1>8 DEF Assignments

----------------------------------------------------------------------------
\* Which shape a handler has.

LEMMA GrowReserves ==
    ASSUME TypeOK, ready' \in Seq(Nat), NEW CONSTANT accepted, Grow(creating, accepted)
    PROVE  OnlyNewReservations
<1>1. creating \in SUBSET (1 .. next_database_id) /\ next_database_id \in 0 .. MaxDatabaseId
    BY DEF TypeOK
<1>2. /\ next_database_id' \in next_database_id .. MaxDatabaseId
      /\ creating' \subseteq creating \cup (next_database_id + 1 .. next_database_id')
    BY <1>1, GrowEffect
<1> QED  BY <1>1, <1>2, WidthAssumption DEF OnlyNewReservations

LEMMA KeepReserves ==
    ASSUME TypeOK, UNCHANGED next_database_id, creating' \subseteq creating
    PROVE  OnlyNewReservations
BY WidthAssumption DEF TypeOK, OnlyNewReservations

LEMMA AnswerShape ==
    ASSUME TypeOK, NEW r, NEW l, NEW status, status # "Attached",
           answer' = Answered(r, l, status)
    PROVE  NoNewReply
BY DEF TypeOK, Answered, NoNewReply

LEMMA RejectShape ==
    ASSUME NEW calls, NEW l, answer' = Rejected(calls, l, "LeaseClosed")
    PROVE  NoNewReply
BY DEF Rejected, NoNewReply

\* A reply that does not arrive attaches nobody.
LEMMA UndeliveredShape ==
    ASSUME TypeOK, NEW STATE r, NEW STATE l, NEW STATE entry,
           ReplyAttached(r, l, entry, FALSE)
    PROVE  NoNewReply
BY DEF TypeOK, ReplyAttached, NoNewReply, Answered

LEMMA RetireShape ==
    ASSUME TypeOK, TypeOK', Assignments, NEW l \in LeaseIds, NEW CONSTANT accepted,
           RetireLease(l, accepted), UNCHANGED <<next_generation, ready>>, NoNewReply
    PROVE  Assignments'
<1>1. CASE Leased(l)
    <2>1. ready' \in Seq(Nat) /\ Grow(creating, accepted)
        BY <1>1 DEF TypeOK, RetireLease
    <2>2. OnlyNewReservations
        BY <2>1, GrowReserves
    <2> QED  BY <1>1, <2>2, Retires DEF RetireLease
<1>2. CASE ~Leased(l)
    <2>1. OnlyNewReservations
        BY <1>2, KeepReserves DEF RetireLease
    <2>2. next_generation <= next_generation'
        BY DEF TypeOK
    <2> QED  BY <1>2, <2>1, <2>2, KeepsAssignments DEF RetireLease
<1> QED  BY <1>1, <1>2

----------------------------------------------------------------------------
\* The step.

LEMMA AttachStep ==
    ASSUME TypeOK, TypeOK', Assignments, NEW l \in LeaseIds, NEW r \in Requests,
           NEW delivered \in BOOLEAN, NEW accepted \in BOOLEAN,
           AttachOrJoin(l, r, delivered, accepted)
    PROVE  Assignments'
<1>0. next_generation \in Nat /\ next_generation <= next_generation
    BY DEF TypeOK
<1>1. CASE AttachReject(l, r)
    <2>1. NoNewReply
        BY <1>1, AnswerShape DEF AttachReject
    <2>2. OnlyNewReservations
        BY <1>1, KeepReserves DEF AttachReject, inventory
    <2> QED  BY <1>0, <1>1, <2>1, <2>2, KeepsAssignments DEF AttachReject, inventory
<1>2. CASE AttachJoin(l, r, delivered)
    <2>1. leases[l] \in Entries
        BY DEF TypeOK
    <2>2. /\ OneNewReply(r, l, leases[l])
          /\ \A k \in LeaseIds : /\ leases'[k].database = leases[k].database
                                 /\ leases'[k].generation = leases[k].generation
        <3>1. ReplyAttached(r, l, leases[l], delivered)
            BY <1>2 DEF AttachJoin
        <3>2. /\ OneNewReply(r, l, leases[l])
              /\ \A k \in LeaseIds \ {l} : leases'[k] = leases[k]
              /\ leases'[l].database = leases[l].database
              /\ leases'[l].generation = leases[l].generation
            BY <2>1, <3>1 DEF ReplyAttached, OneNewReply, Answered, TypeOK, Entries
        <3> QED  BY <3>2
    <2>3. OnlyNewReservations
        BY <1>2, KeepReserves DEF AttachJoin, inventory
    <2>4. Leased(l) /\ UNCHANGED <<next_generation, ready, retiring>>
        BY <1>2 DEF AttachJoin, inventory
    <2> QED  BY <1>0, <2>2, <2>3, <2>4, KeepsAssignments
<1>3. CASE AttachQueue(l, r, accepted)
    <2>1. NoNewReply
        BY <1>3, AnswerShape DEF AttachQueue
    <2>2. OnlyNewReservations
        BY <1>3, GrowReserves DEF AttachQueue, TypeOK
    <2> QED  BY <1>0, <1>3, <2>1, <2>2, KeepsAssignments DEF AttachQueue
<1>4. CASE delivered /\ AttachAssign(l, r, accepted)
    <2> DEFINE e == [NewEntry EXCEPT !.conns = ConnsAfterReply(NewEntry, TRUE)]
    <2>1. /\ NewEntry \in Entries
          /\ NewEntry.generation = next_generation + 1
          /\ NewEntry.database = ready[1]
        BY <1>4, NewEntryType DEF AttachAssign
    <2>2. OneNewReply(r, l, NewEntry) /\ leases' = [leases EXCEPT ![l] = e] /\ leases'[l] = e
        <3>1. ReplyAttached(r, l, NewEntry, TRUE)
            BY <1>4 DEF AttachAssign
        <3>2. /\ OneNewReply(r, l, NewEntry)
              /\ leases'[l] = [NewEntry EXCEPT !.conns = ConnsAfterReply(NewEntry, TRUE)]
            BY <2>1, <3>1 DEF ReplyAttached, OneNewReply, Answered, TypeOK, Entries
        <3>3. leases' = [leases EXCEPT ![l] = e]
            BY <3>1 DEF ReplyAttached
        <3> QED  BY <3>2, <3>3
    <2>3. e \in Entries /\ e.generation = next_generation + 1 /\ e.database = ready[1]
        BY <2>1, <2>2 DEF TypeOK, Entries
    <2>4. OneNewReply(r, l, e)
        BY <2>1, <2>2, <2>3 DEF OneNewReply
    <2>5. OnlyNewReservations
        BY <1>4, GrowReserves DEF AttachAssign, TypeOK
    <2>6. /\ ~Leased(l) /\ ready # <<>> /\ next_generation' = next_generation + 1
          /\ ready' = Tail(ready) /\ UNCHANGED retiring
        BY <1>4 DEF AttachAssign
    <2> HIDE DEF e
    <2> QED  BY <2>2, <2>3, <2>4, <2>5, <2>6, TakesReady
<1>5. CASE ~delivered /\ AttachUnclaimed(l, r)
    <2>1. NoNewReply
        BY <1>5, AnswerShape DEF AttachUnclaimed
    <2>2. OnlyNewReservations
        BY <1>5, KeepReserves DEF AttachUnclaimed
    <2>3. ready' = ready
        <3>1. ready # <<>> /\ ready' = <<NewEntry.database>> \o Tail(ready)
            BY <1>5 DEF AttachUnclaimed
        <3>2. ready \in Seq(Nat)
            BY DEF TypeOK
        <3>3. NewEntry.database = Head(ready)
            BY DEF NewEntry
        <3> QED  BY <3>1, <3>2, <3>3
    <2>4. next_generation <= next_generation' /\ UNCHANGED <<leases, retiring>>
        BY <1>5 DEF AttachUnclaimed, TypeOK
    <2> QED  BY <2>1, <2>2, <2>3, <2>4, KeepsAssignments
<1> QED  BY <1>1, <1>2, <1>3, <1>4, <1>5 DEF AttachOrJoin

\* One answer of the dispatch loop.
LEMMA ServeReplyStep ==
    ASSUME TypeOK, TypeOK', ServeOK, Assignments, UnclaimedUnseen,
           NEW delivered \in BOOLEAN, ServeReply(delivered)
    PROVE  Assignments' /\ UnclaimedUnseen'
<1> DEFINE r == Head(replies)
<1>0. /\ serving \in LeaseIds /\ serving' = serving /\ already_assigned' = already_assigned
      /\ pc = "serve"
    BY DEF ServeReply, ServeOK
<1>1. CASE Leased(serving)
    <2> DEFINE e == leases[serving]
    <2>1. e \in Entries
        BY <1>0 DEF TypeOK
    <2>2. ReplyAttached(r, serving, e, delivered) /\ UNCHANGED <<next_generation, ready>>
        BY <1>1 DEF ServeReply
    <2>3. /\ OneNewReply(r, serving, e) /\ (~delivered => NoNewReply)
          /\ \A k \in LeaseIds : /\ leases'[k].database = leases[k].database
                                 /\ leases'[k].generation = leases[k].generation
          /\ leases'[serving].conns = ConnsAfterReply(e, delivered)
        <3>1. /\ OneNewReply(r, serving, e)
              /\ \A k \in LeaseIds \ {serving} : leases'[k] = leases[k]
              /\ leases'[serving].database = e.database
              /\ leases'[serving].generation = e.generation
              /\ leases'[serving].conns = ConnsAfterReply(e, delivered)
            BY <1>0, <2>1, <2>2 DEF ReplyAttached, OneNewReply, Answered, TypeOK, Entries
        <3>2. ~delivered => NoNewReply
            BY <2>2, UndeliveredShape
        <3> QED  BY <3>1, <3>2
    <2>4. OnlyNewReservations
        BY KeepReserves DEF ServeReply
    <2>5. next_generation <= next_generation' /\ UNCHANGED retiring
        BY <2>2 DEF TypeOK, ServeReply
    <2>6. Assignments'
        BY <1>0, <1>1, <2>2, <2>3, <2>4, <2>5, KeepsAssignments
    <2>7. leases'[serving].conns = 0 => e.conns = 0 /\ ~delivered
        BY <2>1, <2>3, WidthAssumption DEF ConnsAfterReply, Entries
    <2>8. UnclaimedUnseen'
        <3> SUFFICES ASSUME ~already_assigned, leases'[serving].conns = 0,
                            NEW q \in AttachedCalls'
                     PROVE  answer'[q].generation # leases'[serving].generation
            BY <1>0 DEF UnclaimedUnseen, Unclaimed
        <3>1. q \in AttachedCalls /\ answer'[q] = answer[q]
            BY <2>3, <2>7 DEF NoNewReply, AttachedCalls
        <3> QED  BY <1>0, <1>1, <2>3, <2>7, <3>1 DEF UnclaimedUnseen, Unclaimed
    <2> QED  BY <2>6, <2>8
<1>2. CASE ~Leased(serving)
    <2> DEFINE e == [NewEntry EXCEPT !.conns = ConnsAfterReply(NewEntry, delivered)]
    <2>1. ready # <<>>
        BY <1>0, <1>2 DEF ServeOK
    <2>2. /\ NewEntry \in Entries
          /\ NewEntry.generation = next_generation + 1
          /\ NewEntry.database = ready[1]
          /\ NewEntry.conns = 0
        BY <2>1, NewEntryType
    <2>3. /\ ReplyAttached(r, serving, NewEntry, delivered)
          /\ next_generation' = next_generation + 1 /\ ready' = Tail(ready) /\ UNCHANGED retiring
        BY <1>2 DEF ServeReply
    <2>4. /\ OneNewReply(r, serving, NewEntry) /\ (~delivered => NoNewReply)
          /\ leases' = [leases EXCEPT ![serving] = e] /\ leases'[serving] = e
          /\ leases'[serving].conns = ConnsAfterReply(NewEntry, delivered)
        <3>1. /\ OneNewReply(r, serving, NewEntry)
              /\ leases'[serving] =
                    [NewEntry EXCEPT !.conns = ConnsAfterReply(NewEntry, delivered)]
              /\ leases'[serving].conns = ConnsAfterReply(NewEntry, delivered)
            BY <1>0, <2>2, <2>3 DEF ReplyAttached, OneNewReply, Answered, TypeOK, Entries
        <3>2. leases' = [leases EXCEPT ![serving] = e]
            BY <2>3 DEF ReplyAttached
        <3>3. ~delivered => NoNewReply
            BY <2>3, UndeliveredShape
        <3> QED  BY <3>1, <3>2, <3>3
    <2>5. e \in Entries /\ e.generation = next_generation + 1 /\ e.database = ready[1]
        BY <1>0, <2>2, <2>4 DEF TypeOK, Entries
    <2>6. OneNewReply(r, serving, e)
        BY <2>2, <2>4, <2>5 DEF OneNewReply
    <2>7. OnlyNewReservations
        BY KeepReserves DEF ServeReply
    <2> HIDE DEF e
    <2>8. Assignments'
        BY <1>0, <1>2, <2>1, <2>3, <2>4, <2>5, <2>6, <2>7, TakesReady
    <2>9. UnclaimedUnseen'
        <3> SUFFICES ASSUME leases'[serving].conns = 0, NEW q \in AttachedCalls'
                     PROVE  answer'[q].generation # next_generation + 1
            BY <1>0, <2>4, <2>5 DEF UnclaimedUnseen, Unclaimed
        <3>1. ~delivered
            BY <2>2, <2>4, WidthAssumption DEF ConnsAfterReply
        <3>2. q \in AttachedCalls /\ answer'[q] = answer[q]
            BY <2>4, <3>1 DEF NoNewReply, AttachedCalls
        <3>3. answer[q].generation \in 1 .. next_generation /\ next_generation \in Nat
            BY <3>2 DEF Assignments, RepliesTraced, TypeOK
        <3> QED  BY <3>2, <3>3
    <2> QED  BY <2>8, <2>9
<1> QED  BY <1>1, <1>2

LEMMA InvStep ==
    ASSUME TypeOK, ServeOK, TypeOK', Inv, [Next]_vars
    PROVE  Inv'
<1> USE DEF inventory, dispatch
<1>0. /\ Assignments /\ UnclaimedUnseen
      /\ next_generation \in Nat /\ next_generation <= next_generation
    BY DEF Inv, AssignmentsTraced, Assignments, TypeOK
<1> SUFFICES Assignments' /\ UnclaimedUnseen'
    BY DEF Inv, AssignmentsTraced, Assignments
<1>1. ASSUME NEW l \in LeaseIds, NEW r \in Requests,
             NEW delivered \in BOOLEAN, NEW accepted \in BOOLEAN,
             AttachOrJoin(l, r, delivered, accepted)
      PROVE  Assignments' /\ UnclaimedUnseen'
    <2>1. Assignments'
        BY <1>0, <1>1, AttachStep
    <2>2. pc' # "serve"
        BY <1>1 DEF AttachOrJoin, AttachReject, AttachJoin, AttachQueue, AttachAssign,
                    AttachUnclaimed
    <2> QED  BY <2>1, <2>2 DEF UnclaimedUnseen
<1>2. CASE DispatchPop
    <2>1. NoNewReply
        BY <1>2, RejectShape DEF DispatchPop, NoNewReply
    <2>2. OnlyNewReservations /\ UNCHANGED <<leases, next_generation, ready, retiring>>
        BY <1>2, KeepReserves DEF DispatchPop
    <2>3. Assignments'
        BY <1>0, <2>1, <2>2, KeepsAssignments
    <2>4. ASSUME pc' = "serve", ~already_assigned' PROVE leases[serving'].generation = 0
        BY <1>2, <2>4 DEF DispatchPop, Leased
    <2>5. UnclaimedUnseen'
        BY <2>2, <2>4 DEF UnclaimedUnseen, Unclaimed, Leased
    <2> QED  BY <2>3, <2>5
<1>3. CASE ServeOverdue
    <2>1. NoNewReply
        BY <1>3, AnswerShape DEF ServeOverdue
    <2>2. /\ OnlyNewReservations
          /\ UNCHANGED <<leases, next_generation, ready, retiring, pc, serving, already_assigned>>
        BY <1>3, KeepReserves DEF ServeOverdue
    <2>3. Assignments'
        BY <1>0, <2>1, <2>2, KeepsAssignments
    <2>4. UnclaimedUnseen'
        BY <1>0, <2>1, <2>2 DEF UnclaimedUnseen, Unclaimed, Leased, NoNewReply, AttachedCalls
    <2> QED  BY <2>3, <2>4
<1>4. ASSUME NEW delivered \in BOOLEAN, ServeReply(delivered)
      PROVE  Assignments' /\ UnclaimedUnseen'
    BY <1>0, <1>4, ServeReplyStep
<1>5. CASE ServeDone
    <2>1. pc = "serve" /\ serving \in LeaseIds /\ pc' = "dispatch"
        BY <1>5 DEF ServeDone, ServeOK
    <2>2. UNCHANGED <<next_generation, next_database_id, creating, retiring, answer>>
        BY <1>5 DEF ServeDone
    <2>3. CASE ~already_assigned /\ Unclaimed(serving)
        <3>1. /\ Leased(serving)
              /\ \A q \in AttachedCalls : answer[q].generation # leases[serving].generation
            BY <1>0, <2>1, <2>3 DEF UnclaimedUnseen, Unclaimed
        <3>2. /\ leases' = [leases EXCEPT ![serving] = NoEntry]
              /\ ready' = <<leases[serving].database>> \o ready
            BY <1>5, <2>3 DEF ServeDone
        <3> QED  BY <1>0, <2>1, <2>2, <3>1, <3>2, TakesBack DEF UnclaimedUnseen
    <2>4. CASE ~(~already_assigned /\ Unclaimed(serving))
        <3>1. UNCHANGED <<leases, ready>>
            BY <1>5, <2>4 DEF ServeDone
        <3>2. NoNewReply /\ OnlyNewReservations
            BY <2>2, KeepReserves DEF NoNewReply
        <3> QED  BY <1>0, <2>1, <2>2, <3>1, <3>2, KeepsAssignments DEF UnclaimedUnseen
    <2> QED  BY <2>3, <2>4
<1>6. ASSUME NEW accepted \in BOOLEAN, DispatchExit(accepted)
      PROVE  Assignments' /\ UnclaimedUnseen'
    <2>1. /\ UNCHANGED <<leases, next_generation, ready, retiring, answer>>
          /\ pc' = "idle" /\ Grow(creating, accepted)
        BY <1>6 DEF DispatchExit
    <2>2. OnlyNewReservations
        BY <2>1, GrowReserves DEF TypeOK
    <2>3. NoNewReply
        BY <2>1 DEF NoNewReply
    <2> QED  BY <1>0, <2>1, <2>2, <2>3, KeepsAssignments DEF UnclaimedUnseen
<1>7. ASSUME NEW l \in LeaseIds, NEW accepted \in BOOLEAN, ReleaseLease(l, accepted)
      PROVE  Assignments' /\ UnclaimedUnseen'
    <2>1. CASE ReleaseNothing(l)
        <3>1. UNCHANGED <<leases, next_generation, next_database_id, creating, ready, retiring,
                          answer, pc>>
            BY <2>1 DEF ReleaseNothing, vars
        <3>2. NoNewReply /\ OnlyNewReservations
            BY <3>1, KeepReserves DEF NoNewReply
        <3>3. pc' # "serve"
            BY <1>7, <3>1 DEF ReleaseLease
        <3> QED  BY <1>0, <3>1, <3>2, <3>3, KeepsAssignments DEF UnclaimedUnseen
    <2>2. CASE ReleaseOpen(l, accepted)
        <3>1. NoNewReply
            BY <2>2, RejectShape DEF ReleaseOpen
        <3>2. pc' # "serve"
            BY <1>7, <2>2 DEF ReleaseLease, ReleaseOpen
        <3>3. RetireLease(l, accepted) /\ UNCHANGED <<next_generation, ready>>
            BY <2>2 DEF ReleaseOpen
        <3> QED  BY <1>0, <3>1, <3>2, <3>3, RetireShape DEF UnclaimedUnseen
    <2> QED  BY <1>7, <2>1, <2>2 DEF ReleaseLease
<1>8. ASSUME NEW l \in LeaseIds, NEW g \in 1 .. next_generation, Detach(l, g)
      PROVE  Assignments' /\ UnclaimedUnseen'
    <2>1. /\ UNCHANGED <<next_generation, next_database_id, creating, ready, retiring, answer>>
          /\ pc' # "serve"
        BY <1>8 DEF Detach
    <2>2. \A k \in LeaseIds : /\ leases'[k].database = leases[k].database
                              /\ leases'[k].generation = leases[k].generation
        <3>1. CASE leases' = [leases EXCEPT ![l].conns = @ - 1]
            BY <3>1 DEF TypeOK, Entries
        <3>2. CASE UNCHANGED leases
            BY <3>2
        <3> QED  BY <1>8, <3>1, <3>2 DEF Detach
    <2>3. NoNewReply /\ OnlyNewReservations
        BY <2>1, KeepReserves DEF NoNewReply
    <2> QED  BY <1>0, <2>1, <2>2, <2>3, KeepsAssignments DEF UnclaimedUnseen
<1>9. ASSUME NEW l \in LeaseIds, NEW g \in 1 .. next_generation, NEW accepted \in BOOLEAN,
             LeaseMaxTimeReached(l, g, accepted)
      PROVE  Assignments' /\ UnclaimedUnseen'
    <2>1. UNCHANGED <<next_generation, ready, answer>> /\ pc' # "serve"
        BY <1>9 DEF LeaseMaxTimeReached
    <2>2. NoNewReply
        BY <2>1 DEF NoNewReply
    <2>3. CASE Leased(l) /\ leases[l].generation = g
        <3>1. RetireLease(l, accepted)
            BY <1>9, <2>3 DEF LeaseMaxTimeReached
        <3> QED  BY <1>0, <2>1, <2>2, <3>1, RetireShape DEF UnclaimedUnseen
    <2>4. CASE ~(Leased(l) /\ leases[l].generation = g)
        <3>1. UNCHANGED <<leases, retiring, next_database_id, creating>>
            BY <1>9, <2>4 DEF LeaseMaxTimeReached
        <3>2. OnlyNewReservations
            BY <3>1, KeepReserves
        <3> QED  BY <1>0, <2>1, <2>2, <3>1, <3>2, KeepsAssignments DEF UnclaimedUnseen
    <2> QED  BY <2>3, <2>4
<1>10. ASSUME NEW d \in 1 .. next_database_id, NEW ok \in BOOLEAN, CreationFinished(d, ok)
       PROVE  Assignments' /\ UnclaimedUnseen'
    <2>1. /\ UNCHANGED <<leases, next_generation, next_database_id, retiring, answer>>
          /\ pc' # "serve"
        BY <1>10 DEF CreationFinished
    <2>2. NoNewReply
        BY <2>1 DEF NoNewReply
    <2>3. CASE d \in creating /\ ok
        <3>1. creating' = creating \ {d} /\ ready' = Append(ready, d)
            BY <1>10, <2>3 DEF CreationFinished
        <3> QED  BY <1>0, <2>1, <2>3, <3>1, CreatesReady DEF UnclaimedUnseen
    <2>4. CASE ~(d \in creating /\ ok)
        <3>1. creating' \subseteq creating /\ ready' = ready
            BY <1>10, <2>4 DEF CreationFinished
        <3>2. OnlyNewReservations
            BY <2>1, <3>1, KeepReserves
        <3> QED  BY <1>0, <2>1, <2>2, <3>1, <3>2, KeepsAssignments DEF UnclaimedUnseen
    <2> QED  BY <2>3, <2>4
<1>11. ASSUME NEW d \in 1 .. next_database_id, NEW ok \in BOOLEAN, CleanupFinished(d, ok)
       PROVE  Assignments' /\ UnclaimedUnseen'
    <2>1. /\ UNCHANGED <<leases, next_generation, next_database_id, creating, ready, answer>>
          /\ retiring' \subseteq retiring /\ pc' # "serve"
        BY <1>11 DEF CleanupFinished
    <2>2. NoNewReply /\ OnlyNewReservations
        BY <2>1, KeepReserves DEF NoNewReply
    <2> QED  BY <1>0, <2>1, <2>2, KeepsAssignments DEF UnclaimedUnseen
<1>12. CASE Shutdown \/ UNCHANGED vars \/ \E r \in Requests : BecomeOverdue(r)
    <2>1. /\ UNCHANGED <<leases, next_generation, next_database_id, creating, ready, retiring,
                         answer>>
          /\ pc' # "serve" \/ UNCHANGED <<pc, serving, already_assigned>>
        BY <1>12 DEF Shutdown, BecomeOverdue, vars
    <2>2. NoNewReply /\ OnlyNewReservations
        BY <2>1, KeepReserves DEF NoNewReply
    <2>3. Assignments'
        BY <1>0, <2>1, <2>2, KeepsAssignments
    <2>4. UnclaimedUnseen'
        BY <1>0, <2>1 DEF UnclaimedUnseen, Unclaimed, Leased, AttachedCalls
    <2> QED  BY <2>3, <2>4
<1> QED  BY <1>1, <1>2, <1>3, <1>4, <1>5, <1>6, <1>7, <1>8, <1>9, <1>10, <1>11, <1>12 DEF Next

LEMMA InvInit == Init => Inv
<1> SUFFICES ASSUME Init PROVE Inv
    OBVIOUS
<1>1. /\ ready \in InitialOrders /\ next_database_id = InitialSlots
      /\ creating = {} /\ retiring = {} /\ pc = "idle"
      /\ \A l \in LeaseIds : ~Leased(l)
      /\ AttachedCalls = {}
    BY DEF Init, Leased, NoEntry, AttachedCalls, NotAsked
<1>2. DOMAIN ready = 1 .. InitialSlots /\ Distinct(ready) /\ Elements(ready) \subseteq 1 .. InitialSlots
    BY <1>1 DEF InitialOrders, Distinct, Elements
<1>3. OnePlacePerDatabase
    BY <1>1, <1>2 DEF OnePlacePerDatabase
<1> QED  BY <1>1, <1>3 DEF Inv, AssignmentsTraced, GenerationsIdentify, RepliesTraced,
                           UnclaimedUnseen, Isolation, NoDirtyReuse

\* Every reachable state of the engine satisfies the inductive invariant.
THEOREM InvHolds == Spec => []Inv
<1>1. Init => Inv
    BY InvInit
<1>2. TypeOK /\ ServeOK /\ TypeOK' /\ Inv /\ [Next]_vars => Inv'
    BY InvStep
<1> QED  BY <1>1, <1>2, TypeCorrect, PTL DEF Spec

\* Every reply a client received is traced to one assignment, and what the
\* dispatch loop may take back was seen by nobody.
THEOREM RepliesAreTraced == Spec => []AssignmentsTraced
<1>1. Inv => AssignmentsTraced
    BY DEF Inv
<1> QED  BY <1>1, InvHolds, PTL

\* Clients are isolated: two attached clients share a database only when they
\* share the assignment of one lease, whatever messages reach the engine.
THEOREM LeasesAreIsolated == Spec => []Isolation
<1>1. Inv => Isolation
    BY DEF Inv
<1> QED  BY <1>1, InvHolds, PTL

\* A database a client was attached to never becomes clean supply again.
THEOREM UsedIsNeverReused == Spec => []NoDirtyReuse
<1>1. Inv => NoDirtyReuse
    BY DEF Inv
<1> QED  BY <1>1, InvHolds, PTL

\* The inventory and the leases never hold a database twice, so the
\* debug_assert!s of return_ready and retire cannot fail.
THEOREM DatabasesAreInOnePlace == Spec => []OnePlacePerDatabase
<1>1. Inv => OnePlacePerDatabase
    BY DEF Inv
<1> QED  BY <1>1, InvHolds, PTL

----------------------------------------------------------------------------
\* No caller is forgotten: the queue of leases and the groups of calls that wait
\* for them stay in step, a cancellation token lives exactly as long as the
\* assignment it belongs to, and the supply grow() builds up is bounded.  Each is
\* inductive with little help.  The queue needs to know what becomes of the lease
\* it was popped for, the tokens need the assignments above, and the supply needs
\* to count the database the dispatch loop may still hand back.

\* The lease that is being served is open, has left the queue with all its
\* calls, and had no database when it was popped.
ServedGroup ==
    pc = "serve" =>
        /\ lease_records[serving] = "Open"
        /\ group_waiters[serving] = <<>>
        /\ ~already_assigned

\* A lease that holds a database is open; the others have no entry at all.
HeldIsOpen ==
    \A l \in LeaseIds :
        IF Leased(l) THEN lease_records[l] = "Open" ELSE leases[l] = NoEntry

QueueInv == WaiterQueue /\ ServedGroup /\ HeldIsOpen

----------------------------------------------------------------------------
\* Queues without repetition, once more.

LEMMA UnqueueElements ==
    ASSUME NEW S, NEW q \in Seq(S), NEW e, Distinct(q)
    PROVE  /\ Distinct(Unqueue(q, e))
           /\ Elements(Unqueue(q, e)) = Elements(q) \ {e}
<1>1. CASE e \in Elements(q)
    <2> DEFINE i == CHOOSE i \in DOMAIN q : q[i] = e
               left == SubSeq(q, 1, i - 1)
               right == SubSeq(q, i + 1, Len(q))
               t == left \o right
    <2>0. Len(q) \in Nat /\ DOMAIN q = 1 .. Len(q) /\ \A j \in 1 .. Len(q) : q[j] \in S
        BY LenProperties
    <2>1. i \in 1 .. Len(q) /\ q[i] = e
        BY <1>1, <2>0 DEF Elements
    <2>2. Unqueue(q, e) = SubSeq(q, 1, i - 1) \o SubSeq(q, i + 1, Len(q))
        BY <1>1 DEF Unqueue
    <2> HIDE DEF i
    <2>3. /\ left \in Seq(S) /\ Len(left) = i - 1
          /\ \A j \in 1 .. i - 1 : left[j] = q[j]
        <3>1. \A j \in 1 .. i - 1 : q[j] \in S
            BY <2>0, <2>1
        <3>2. /\ left \in Seq(S)
              /\ Len(left) = IF 1 <= i - 1 THEN (i - 1) - 1 + 1 ELSE 0
              /\ \A j \in 1 .. (i - 1) - 1 + 1 : left[j] = q[1 + j - 1]
            BY <2>1, <3>1, SubSeqProperties
        <3> HIDE DEF left, right, t
        <3> QED  BY <2>0, <2>1, <3>2
    <2>4. /\ right \in Seq(S) /\ Len(right) = Len(q) - i
          /\ \A j \in 1 .. Len(q) - i : right[j] = q[i + j]
        <3>1. \A j \in i + 1 .. Len(q) : q[j] \in S
            BY <2>0, <2>1
        <3>2. /\ right \in Seq(S)
              /\ Len(right) = IF i + 1 <= Len(q) THEN Len(q) - (i + 1) + 1 ELSE 0
              /\ \A j \in 1 .. Len(q) - (i + 1) + 1 : right[j] = q[(i + 1) + j - 1]
            BY <2>0, <2>1, <3>1, SubSeqProperties
        <3> HIDE DEF left, right, t
        <3>3. /\ i + 1 <= Len(q) => Len(q) - (i + 1) + 1 = Len(q) - i
              /\ ~(i + 1 <= Len(q)) => Len(q) - i = 0
              /\ Len(q) - (i + 1) + 1 = Len(q) - i
            <4>1. \A n \in Nat : \A k \in 1 .. n :
                    /\ n - (k + 1) + 1 = n - k
                    /\ ~(k + 1 <= n) => n - k = 0
                OBVIOUS
            <4> QED  BY <2>0, <2>1, <4>1
        <3>4. Len(right) = Len(q) - i
            BY <3>2, <3>3
        <3>5. ASSUME NEW j \in 1 .. Len(q) - i PROVE right[j] = q[i + j]
            <4>1. right[j] = q[(i + 1) + j - 1]
                BY <3>2, <3>3
            <4>2. (i + 1) + j - 1 = i + j
                BY <2>0, <2>1
            <4> QED  BY <4>1, <4>2
        <3> QED  BY <3>2, <3>4, <3>5
    <2> HIDE DEF left, right
    <2>5. /\ t \in Seq(S) /\ Len(t) = Len(q) - 1
          /\ \A j \in 1 .. Len(q) - 1 : t[j] = IF j < i THEN q[j] ELSE q[j + 1]
        <3>1. /\ t \in Seq(S) /\ Len(t) = Len(left) + Len(right)
              /\ \A j \in 1 .. Len(left) + Len(right) :
                    t[j] = IF j <= Len(left) THEN left[j] ELSE right[j - Len(left)]
            BY <2>3, <2>4, ConcatProperties
        <3> HIDE DEF t
        <3>2. Len(left) + Len(right) = Len(q) - 1
            BY <2>0, <2>1, <2>3, <2>4
        <3>3. ASSUME NEW j \in 1 .. Len(q) - 1
              PROVE  t[j] = IF j < i THEN q[j] ELSE q[j + 1]
            <4>1. CASE j < i
                <5>1. j \in 1 .. i - 1 /\ j <= Len(left)
                    BY <2>0, <2>1, <2>3, <4>1
                <5>2. t[j] = left[j] /\ left[j] = q[j]
                    BY <2>3, <3>1, <3>2, <5>1
                <5> QED  BY <4>1, <5>2
            <4>2. CASE ~(j < i)
                <5>1. j - (i - 1) \in 1 .. Len(q) - i /\ ~(j <= Len(left))
                    BY <2>0, <2>1, <2>3, <4>2
                <5>2. t[j] = right[j - (i - 1)]
                    BY <2>3, <3>1, <3>2, <5>1
                <5>3. right[j - (i - 1)] = q[i + (j - (i - 1))]
                    BY <2>4, <5>1
                <5> QED  BY <2>0, <2>1, <4>2, <5>2, <5>3
            <4> QED  BY <4>1, <4>2
        <3> QED  BY <3>1, <3>2, <3>3
    <2>6. DOMAIN t = 1 .. Len(q) - 1
        BY <2>5, LenProperties
    <2> HIDE DEF t
    <2>7. Distinct(t)
        BY <2>0, <2>1, <2>5, <2>6, SMTT(30) DEF Distinct
    <2>8. ASSUME NEW x \in Elements(t) PROVE x \in Elements(q) \ {e}
        <3>1. PICK j \in 1 .. Len(q) - 1 : t[j] = x
            BY <2>6, <2>8 DEF Elements
        <3>2. \E k \in 1 .. Len(q) : k # i /\ q[k] = x
            <4>1. CASE j < i
                <5>1. j \in 1 .. Len(q) /\ j # i /\ q[j] = x
                    BY <2>0, <2>1, <2>5, <3>1, <4>1
                <5> QED  BY <5>1
            <4>2. CASE ~(j < i)
                <5>1. j + 1 \in 1 .. Len(q) /\ j + 1 # i
                    BY <2>0, <2>1, <4>2
                <5>2. q[j + 1] = x
                    BY <2>5, <3>1, <4>2
                <5> QED  BY <5>1, <5>2
            <4> QED  BY <4>1, <4>2
        <3> QED  BY <2>0, <2>1, <3>2 DEF Elements, Distinct
    <2>9. ASSUME NEW x \in Elements(q) \ {e} PROVE x \in Elements(t)
        <3>1. PICK j \in 1 .. Len(q) : q[j] = x
            BY <2>0, <2>9 DEF Elements
        <3>2. CASE j < i
            BY <2>0, <2>1, <2>5, <2>6, <3>1, <3>2 DEF Elements
        <3>3. CASE ~(j < i)
            <4>1. j # i
                BY <2>1, <2>9, <3>1
            <4>2. j - 1 \in 1 .. Len(q) - 1 /\ ~(j - 1 < i) /\ (j - 1) + 1 = j
                BY <2>0, <2>1, <3>1, <3>3, <4>1
            <4>3. t[j - 1] = q[(j - 1) + 1]
                BY <2>5, <4>2
            <4> QED  BY <2>6, <3>1, <4>2, <4>3 DEF Elements
        <3> QED  BY <3>2, <3>3
    <2> QED  BY <2>2, <2>7, <2>8, <2>9 DEF t, left, right
<1>2. CASE e \notin Elements(q)
    BY <1>2 DEF Unqueue
<1> QED  BY <1>1, <1>2

\* Nothing but the empty queue is without elements.
LEMMA NoElements ==
    ASSUME NEW S, NEW q \in Seq(S)
    PROVE  Elements(q) = {} <=> q = <<>>
<1>1. ASSUME q # <<>> PROVE q[1] \in Elements(q)
    BY <1>1, EmptySeq, LenProperties DEF Elements
<1>2. Elements(<<>>) = {}
    BY DEF Elements
<1> QED  BY <1>1, <1>2

----------------------------------------------------------------------------
\* The queue.

\* What reply_attached does: one entry and one answer change, the entry keeps
\* its database and generation, and the call waits no more.
LEMMA ReplyEffect ==
    ASSUME TypeOK, NEW STATE r, r \in Requests, NEW STATE l, l \in LeaseIds,
           NEW STATE entry, entry \in Entries,
           NEW delivered \in BOOLEAN, ReplyAttached(r, l, entry, delivered)
    PROVE  /\ \A k \in LeaseIds \ {l} : leases'[k] = leases[k]
           /\ leases'[l].database = entry.database
           /\ leases'[l].generation = entry.generation
           /\ \A q \in Requests \ {r} : answer'[q] = answer[q]
           /\ answer'[r].status \in {"Attached", "Undelivered", "FailedToAttach"}
           /\ answer'[r].status = "Attached" =>
                /\ answer'[r].lease = l
                /\ answer'[r].database = entry.database
           /\ answer'[r].status # "Attached" => answer'[r].database = 0
<1>1. /\ \A k \in LeaseIds \ {l} : leases'[k] = leases[k]
      /\ leases'[l].database = entry.database
      /\ leases'[l].generation = entry.generation
    BY DEF ReplyAttached, TypeOK, Entries
<1>2. /\ \A q \in Requests \ {r} : answer'[q] = answer[q]
      /\ \/ answer'[r].status \in {"Undelivered", "FailedToAttach"} /\ answer'[r].database = 0
         \/ /\ answer'[r].status = "Attached"
            /\ answer'[r].lease = l
            /\ answer'[r].database = entry.database
    BY DEF ReplyAttached, TypeOK, Answered
<1> QED  BY <1>1, <1>2

\* A lease is popped with the calls of its group, and is neither closed nor
\* assigned: dispatch_waiters never takes these branches.
LEMMA PopEffect ==
    ASSUME TypeOK, WaiterQueue, DispatchPop
    PROVE  /\ serving' \in LeaseIds
           /\ serving' = waiters[1] /\ serving' \in Elements(waiters)
           /\ lease_records[serving'] = "Open" /\ ~Leased(serving')
           /\ Distinct(waiters') /\ Elements(waiters') = Elements(waiters) \ {serving'}
           /\ group_waiters' = [group_waiters EXCEPT ![serving'] = <<>>]
           /\ replies' = group_waiters[serving']
           /\ ~already_assigned'
           /\ pc = "dispatch" /\ pc' = "serve"
           /\ UNCHANGED <<leases, lease_records, next_generation, inventory, answer, overdue,
                          cancelled>>
<1> DEFINE l == Head(waiters)
<1>1. waiters \in Seq(LeaseIds) /\ waiters # <<>> /\ Distinct(waiters)
    BY DEF TypeOK, DispatchPop, WaiterQueue
<1>2. l \in LeaseIds /\ l = waiters[1]
    BY <1>1, HeadTailProperties
<1>3. /\ l \in Elements(waiters) /\ Distinct(Tail(waiters))
      /\ Elements(Tail(waiters)) = Elements(waiters) \ {l}
    BY <1>1, <1>2, TailElements
<1>4. lease_records[l] = "Open" /\ ~Leased(l)
    BY <1>3 DEF WaiterQueue
<1>5. lease_records[l] # "Closed"
    BY <1>4
<1>6. /\ waiters' = Tail(waiters)
      /\ group_waiters' = [group_waiters EXCEPT ![l] = <<>>]
      /\ answer' = answer
      /\ pc = "dispatch" /\ pc' = "serve"
      /\ serving' = l
      /\ replies' = group_waiters[l]
      /\ UNCHANGED <<leases, lease_records, next_generation, inventory, overdue, cancelled>>
    BY <1>5 DEF DispatchPop
<1>7. ~already_assigned'
    BY <1>4, Zenon DEF DispatchPop
<1> HIDE DEF l
<1> QED  BY <1>2, <1>3, <1>4, <1>6, <1>7

LEMMA QueueStep ==
    ASSUME TypeOK, ServeOK, TypeOK', QueueInv, [Next]_vars
    PROVE  QueueInv'
<1> USE DEF inventory, dispatch
<1>0. /\ WaiterQueue /\ ServedGroup /\ HeldIsOpen
      /\ waiters \in Seq(LeaseIds) /\ ready \in Seq(Nat)
      /\ group_waiters \in [LeaseIds -> Seq(Requests)]
      /\ lease_records \in [LeaseIds -> {"None", "Open", "Closed"}]
      /\ leases \in [LeaseIds -> Entries] /\ NoEntry.generation = 0
    BY DEF QueueInv, TypeOK, NoEntry
\* Steps that leave the queue alone and lease nothing new.
<1>A. ASSUME UNCHANGED <<waiters, group_waiters, lease_records>>,
             \A l \in LeaseIds :
                \/ leases'[l].generation = leases[l].generation /\ Leased(l)
                \/ leases'[l] = leases[l]
                \/ leases'[l] = NoEntry,
             pc' = "idle" /\ ready' # <<>> => waiters = <<>>,
             pc' = "serve" => UNCHANGED <<pc, serving, already_assigned>>
      PROVE  QueueInv'
    <2>1. \A l \in LeaseIds : leases'[l].generation # 0 => Leased(l)
        BY <1>0, <1>A DEF Leased
    <2>2. WaiterQueue'
        BY <1>0, <1>A, <2>1 DEF WaiterQueue, Leased
    <2>3. ServedGroup'
        BY <1>0, <1>A DEF ServedGroup
    <2>4. HeldIsOpen'
        BY <1>0, <1>A, <2>1 DEF HeldIsOpen, Leased
    <2> QED  BY <2>2, <2>3, <2>4 DEF QueueInv
<1>1. ASSUME NEW l \in LeaseIds, NEW r \in Requests,
             NEW delivered \in BOOLEAN, NEW accepted \in BOOLEAN,
             AttachOrJoin(l, r, delivered, accepted)
      PROVE  QueueInv'
    <2>0. pc = "idle"
        BY <1>1 DEF AttachOrJoin
    <2>1. CASE AttachReject(l, r)
        BY <1>A, <1>0, <2>0, <2>1 DEF AttachReject, WaiterQueue
    <2>2. CASE AttachJoin(l, r, delivered)
        <3>1. leases[l] \in Entries /\ Leased(l) /\ lease_records[l] = "Open"
            BY <1>0, <2>2 DEF AttachJoin, HeldIsOpen
        <3>2. UNCHANGED lease_records
            BY <1>0, <2>2, <3>1 DEF AttachJoin, Admitted
        <3>3. /\ \A k \in LeaseIds \ {l} : leases'[k] = leases[k]
              /\ leases'[l].generation = leases[l].generation
            BY <2>2, <3>1, ReplyEffect DEF AttachJoin
        <3> QED  BY <1>0, <1>A, <2>0, <2>2, <3>1, <3>2, <3>3 DEF AttachJoin, WaiterQueue
    <2>3. CASE AttachQueue(l, r, accepted)
        <3>1. /\ ~Leased(l) /\ ready' = <<>> /\ UNCHANGED <<leases, pc>>
              /\ lease_records' = [lease_records EXCEPT ![l] = "Open"]
              /\ group_waiters' = [group_waiters EXCEPT ![l] = Append(group_waiters[l], r)]
            BY <2>3 DEF AttachQueue, Admitted
        <3>2. /\ Append(group_waiters[l], r) # <<>>
              /\ group_waiters[l] \in Seq(Requests)
            BY <1>0, AppendProperties
        <3>3. Distinct(waiters') /\ Elements(waiters') = Elements(waiters) \cup {l}
            <4>1. CASE group_waiters[l] = <<>>
                <5>1. l \notin Elements(waiters) /\ Distinct(waiters)
                    BY <1>0, <4>1 DEF WaiterQueue
                <5>2. waiters' = Append(waiters, l)
                    BY <2>3, <4>1 DEF AttachQueue
                <5> QED  BY <1>0, <5>1, <5>2, AppendElements
            <4>2. CASE group_waiters[l] # <<>>
                BY <1>0, <2>3, <4>2 DEF AttachQueue, WaiterQueue
            <4> QED  BY <4>1, <4>2
        <3>4. Elements(waiters') = {k \in LeaseIds : group_waiters'[k] # <<>>}
            BY <1>0, <3>1, <3>2, <3>3 DEF WaiterQueue
        <3>5. \A k \in Elements(waiters') : ~Leased(k)' /\ lease_records'[k] = "Open"
            BY <1>0, <3>1, <3>3 DEF WaiterQueue, Leased
        <3>6. WaiterQueue'
            BY <3>1, <3>3, <3>4, <3>5 DEF WaiterQueue
        <3>7. ServedGroup' /\ HeldIsOpen'
            BY <1>0, <2>0, <3>1 DEF ServedGroup, HeldIsOpen, Leased
        <3> QED  BY <3>6, <3>7 DEF QueueInv
    <2>4. CASE AttachAssign(l, r, accepted)
        <3>1. /\ waiters = <<>> /\ UNCHANGED <<waiters, group_waiters, pc>>
              /\ lease_records' = [lease_records EXCEPT ![l] = "Open"]
            BY <1>0, <2>0, <2>4 DEF AttachAssign, WaiterQueue, Admitted
        <3>2. NewEntry \in Entries /\ NewEntry.generation # 0
            BY <2>4, NewEntryType, SMTT(30) DEF AttachAssign, TypeOK
        <3>3. /\ \A k \in LeaseIds \ {l} : leases'[k] = leases[k]
              /\ leases'[l].generation # 0
            <4>1. PICK b \in BOOLEAN : ReplyAttached(r, l, NewEntry, b)
                BY <2>4 DEF AttachAssign
            <4> QED  BY <3>2, <4>1, ReplyEffect
        <3>4. WaiterQueue'
            <4>1. Elements(waiters) = {}
                BY <3>1 DEF Elements
            <4> QED  BY <1>0, <3>1, <4>1 DEF WaiterQueue
        <3>5. ServedGroup' /\ HeldIsOpen'
            BY <1>0, <2>0, <3>1, <3>3 DEF ServedGroup, HeldIsOpen, Leased
        <3> QED  BY <3>4, <3>5 DEF QueueInv
    <2>5. CASE AttachUnclaimed(l, r)
        <3>1. /\ waiters = <<>> /\ UNCHANGED <<waiters, group_waiters, leases>>
              /\ pc' = "dispatch"
              /\ lease_records' = [lease_records EXCEPT ![l] = "Open"]
            BY <1>0, <2>0, <2>5 DEF AttachUnclaimed, WaiterQueue, Admitted
        <3>2. WaiterQueue'
            <4>1. Elements(waiters) = {}
                BY <3>1 DEF Elements
            <4> QED  BY <1>0, <3>1, <4>1 DEF WaiterQueue
        <3>3. ServedGroup' /\ HeldIsOpen'
            BY <1>0, <3>1 DEF ServedGroup, HeldIsOpen, Leased
        <3> QED  BY <3>2, <3>3 DEF QueueInv
    <2> QED  BY <1>1, <2>1, <2>2, <2>3, <2>4, <2>5 DEF AttachOrJoin
<1>2. CASE DispatchPop
    <2>1. /\ serving' \in LeaseIds
          /\ lease_records[serving'] = "Open" /\ ~Leased(serving')
          /\ Distinct(waiters') /\ Elements(waiters') = Elements(waiters) \ {serving'}
          /\ group_waiters' = [group_waiters EXCEPT ![serving'] = <<>>]
          /\ ~already_assigned'
          /\ pc' = "serve"
          /\ UNCHANGED <<leases, lease_records>>
        BY <1>0, <1>2, PopEffect
    <2>2. WaiterQueue'
        <3>1. Elements(waiters') = {k \in LeaseIds : group_waiters'[k] # <<>>}
            BY <1>0, <2>1 DEF WaiterQueue
        <3> QED  BY <1>0, <2>1, <3>1 DEF WaiterQueue, Leased
    <2>3. ServedGroup'
        BY <1>0, <2>1 DEF ServedGroup
    <2>4. HeldIsOpen'
        BY <1>0, <2>1 DEF HeldIsOpen, Leased
    <2> QED  BY <2>2, <2>3, <2>4 DEF QueueInv
<1>3. CASE ServeOverdue
    BY <1>0, <1>A, <1>3 DEF ServeOverdue
<1>4. ASSUME NEW delivered \in BOOLEAN, ServeReply(delivered)
      PROVE  QueueInv'
    <2>1. /\ pc = "serve" /\ pc' = "serve" /\ serving \in LeaseIds
          /\ UNCHANGED <<lease_records, waiters, group_waiters, serving, already_assigned>>
          /\ Leased(serving) \/ ready # <<>>
          /\ lease_records[serving] = "Open" /\ serving \notin Elements(waiters)
        BY <1>0, <1>4 DEF ServeReply, ServeOK, ServedGroup, WaiterQueue
    <2>2. Head(replies) \in Requests
        BY <1>4, HeadTailProperties DEF ServeReply, TypeOK
    <2>3. \A k \in LeaseIds \ {serving} : leases'[k] = leases[k]
        <3>1. CASE Leased(serving)
            <4>1. leases[serving] \in Entries
                BY <1>0, <2>1
            <4> QED  BY <1>4, <2>1, <2>2, <3>1, <4>1, ReplyEffect DEF ServeReply
        <3>2. CASE ~Leased(serving)
            <4>1. NewEntry \in Entries
                BY <2>1, <3>2, NewEntryType
            <4> QED  BY <1>4, <2>1, <2>2, <3>2, <4>1, ReplyEffect DEF ServeReply
        <3> QED  BY <3>1, <3>2
    <2>3a. leases'[serving].generation # 0
        <3>1. CASE Leased(serving)
            <4>1. leases[serving] \in Entries
                BY <1>0, <2>1
            <4> QED  BY <1>4, <2>1, <2>2, <3>1, <4>1, ReplyEffect DEF ServeReply, Leased
        <3>2. CASE ~Leased(serving)
            <4>0. next_generation \in Nat
                BY DEF TypeOK
            <4>1. NewEntry \in Entries /\ NewEntry.generation # 0
                <5>1. NewEntry \in Entries /\ NewEntry.generation = next_generation + 1
                    BY <2>1, <3>2, NewEntryType
                <5> QED  BY <4>0, <5>1
            <4> QED  BY <1>4, <2>1, <2>2, <3>2, <4>1, ReplyEffect DEF ServeReply
        <3> QED  BY <3>1, <3>2
    <2>4. WaiterQueue'
        BY <1>0, <2>1, <2>3 DEF WaiterQueue, Leased
    <2>5. ServedGroup'
        BY <1>0, <2>1 DEF ServedGroup
    <2>6. HeldIsOpen'
        BY <1>0, <2>1, <2>3, <2>3a DEF HeldIsOpen, Leased
    <2> QED  BY <2>4, <2>5, <2>6 DEF QueueInv
<1>5. CASE ServeDone
    BY <1>0, <1>A, <1>5 DEF ServeDone
<1>6. ASSUME NEW accepted \in BOOLEAN, DispatchExit(accepted)
      PROVE  QueueInv'
    BY <1>0, <1>A, <1>6 DEF DispatchExit
<1>7. ASSUME NEW l \in LeaseIds, NEW accepted \in BOOLEAN, ReleaseLease(l, accepted)
      PROVE  QueueInv'
    <2>1. CASE ReleaseNothing(l)
        BY <1>0, <1>A, <1>7, <2>1 DEF ReleaseLease, ReleaseNothing, vars, WaiterQueue
    <2>2. CASE ReleaseOpen(l, accepted)
        <3>1. /\ pc = "idle" /\ pc' = "idle" /\ ready' = ready
              /\ lease_records' = [lease_records EXCEPT ![l] = "Closed"]
              /\ group_waiters' = [group_waiters EXCEPT ![l] = <<>>]
              /\ waiters' = Unqueue(waiters, l)
              /\ RetireLease(l, accepted)
            BY <1>7, <2>2 DEF ReleaseLease, ReleaseOpen
        <3>2. Distinct(waiters') /\ Elements(waiters') = Elements(waiters) \ {l}
            BY <1>0, <3>1, UnqueueElements DEF WaiterQueue
        <3>3. leases' = [leases EXCEPT ![l] = NoEntry]
            BY <1>0, <3>1 DEF RetireLease, HeldIsOpen
        <3>4. Elements(waiters') = {k \in LeaseIds : group_waiters'[k] # <<>>}
            BY <1>0, <3>1, <3>2 DEF WaiterQueue
        <3>5. \A k \in Elements(waiters') : ~Leased(k)' /\ lease_records'[k] = "Open"
            BY <1>0, <3>1, <3>2, <3>3 DEF WaiterQueue, Leased
        <3>6. ready' # <<>> => waiters' = <<>>
            <4>1. waiters = <<>> => Elements(waiters') = {}
                BY <3>2 DEF Elements
            <4>2. waiters' \in Seq(LeaseIds)
                BY DEF TypeOK
            <4> QED  BY <1>0, <3>1, <4>1, <4>2, NoElements DEF WaiterQueue
        <3>7. WaiterQueue'
            BY <3>2, <3>4, <3>5, <3>6 DEF WaiterQueue
        <3>8. ServedGroup' /\ HeldIsOpen'
            BY <1>0, <3>1, <3>3 DEF ServedGroup, HeldIsOpen, Leased
        <3> QED  BY <3>7, <3>8 DEF QueueInv
    <2> QED  BY <1>7, <2>1, <2>2 DEF ReleaseLease
<1>8. ASSUME NEW l \in LeaseIds, NEW g \in 1 .. next_generation, Detach(l, g)
      PROVE  QueueInv'
    <2>1. \A k \in LeaseIds :
            \/ leases'[k].generation = leases[k].generation /\ Leased(k)
            \/ leases'[k] = leases[k]
        BY <1>0, <1>8 DEF Detach, Entries
    <2> QED  BY <1>0, <1>A, <1>8, <2>1 DEF Detach, WaiterQueue
<1>9. ASSUME NEW l \in LeaseIds, NEW g \in 1 .. next_generation, NEW accepted \in BOOLEAN,
             LeaseMaxTimeReached(l, g, accepted)
      PROVE  QueueInv'
    <2>1. \A k \in LeaseIds : leases'[k] = leases[k] \/ leases'[k] = NoEntry
        BY <1>0, <1>9 DEF LeaseMaxTimeReached, RetireLease
    <2> QED  BY <1>0, <1>A, <1>9, <2>1 DEF LeaseMaxTimeReached, WaiterQueue
<1>10. ASSUME NEW d \in 1 .. next_database_id, NEW ok \in BOOLEAN, CreationFinished(d, ok)
       PROVE  QueueInv'
    <2>1. pc' = "idle" => ready' = ready /\ pc = "idle"
        BY <1>10 DEF CreationFinished
    <2> QED  BY <1>0, <1>A, <1>10, <2>1 DEF CreationFinished, WaiterQueue
<1>11. ASSUME NEW d \in 1 .. next_database_id, NEW ok \in BOOLEAN, CleanupFinished(d, ok)
       PROVE  QueueInv'
    BY <1>0, <1>A, <1>11 DEF CleanupFinished, WaiterQueue
<1>12. CASE Shutdown \/ UNCHANGED vars \/ \E r \in Requests : BecomeOverdue(r)
    <2>1. /\ UNCHANGED <<leases, waiters, group_waiters, lease_records, ready, serving,
                         already_assigned>>
          /\ pc' = "stopped" \/ UNCHANGED pc
        BY <1>12 DEF Shutdown, BecomeOverdue, vars
    <2> QED  BY <1>0, <1>A, <2>1 DEF WaiterQueue
<1> QED  BY <1>1, <1>2, <1>3, <1>4, <1>5, <1>6, <1>7, <1>8, <1>9, <1>10, <1>11, <1>12 DEF Next

----------------------------------------------------------------------------
\* The calls.

LEMMA CallsStep ==
    ASSUME TypeOK, ServeOK, TypeOK', QueueInv, NoLostCall, [Next]_vars
    PROVE  NoLostCall'
<1> USE DEF inventory, dispatch
<1>0. /\ WaiterQueue /\ ServedGroup
      /\ group_waiters \in [LeaseIds -> Seq(Requests)] /\ replies \in Seq(Requests)
      /\ answer \in [Requests -> Answers]
      /\ pc # "serve" => replies = <<>>
      /\ Elements(<<>>) = {} /\ Distinct(<<>>)
    BY DEF QueueInv, TypeOK, ServeOK, Elements, Distinct
\* Steps that answer only calls that do not wait.
<1>A. ASSUME UNCHANGED <<group_waiters, replies>>,
             replies = <<>> \/ UNCHANGED serving,
             \A q \in Requests :
                \/ answer'[q] = answer[q]
                \/ answer[q].status # "Waiting" /\ answer'[q].status # "Waiting"
      PROVE  NoLostCall'
    BY <1>0, <1>A DEF NoLostCall
\* One turn of the inner loop: the call at the head of the group is answered.
<1>B. ASSUME replies # <<>>, replies' = Tail(replies), UNCHANGED <<group_waiters, serving>>,
             serving \in LeaseIds,
             \A q \in Requests \ {Head(replies)} : answer'[q] = answer[q],
             answer'[Head(replies)].status # "Waiting"
      PROVE  NoLostCall'
    <2> DEFINE h == Head(replies)
    <2>1. h \in Requests /\ h = replies[1]
        BY <1>0, <1>B, HeadTailProperties
    <2>2. /\ h \in Elements(replies) /\ Distinct(replies')
          /\ Elements(replies') = Elements(replies) \ {h}
        BY <1>0, <1>B, <2>1, TailElements DEF NoLostCall
    <2>3. \A l \in LeaseIds : h \notin Elements(group_waiters[l])
        BY <2>1, <2>2 DEF NoLostCall
    <2> HIDE DEF h
    <2>4. /\ \A q \in Requests \ {h} : answer'[q] = answer[q]
          /\ answer'[h].status # "Waiting"
        BY <1>B DEF h
    <2>5. ASSUME NEW q \in Requests, NEW l \in LeaseIds, q \in Elements(group_waiters[l])
          PROVE  answer'[q].status = "Waiting" /\ answer'[q].lease = l
        BY <2>3, <2>4, <2>5 DEF NoLostCall
    <2>6. ASSUME NEW q \in Requests, q \in Elements(replies')
          PROVE  /\ answer'[q].status = "Waiting" /\ answer'[q].lease = serving
                 /\ q \notin Elements(group_waiters[serving])
        BY <2>2, <2>4, <2>6 DEF NoLostCall
    <2>7. ASSUME NEW q \in Requests, answer'[q].status = "Waiting"
          PROVE  q \in Elements(replies') \cup Elements(group_waiters[answer'[q].lease])
        BY <2>2, <2>4, <2>7 DEF NoLostCall
    <2> QED  BY <1>B, <2>2, <2>5, <2>6, <2>7 DEF NoLostCall
<1>1. ASSUME NEW l \in LeaseIds, NEW r \in Requests,
             NEW delivered \in BOOLEAN, NEW accepted \in BOOLEAN,
             AttachOrJoin(l, r, delivered, accepted)
      PROVE  NoLostCall'
    <2>0. pc = "idle" /\ replies = <<>> /\ answer[r].status = "Fresh"
        BY <1>0, <1>1 DEF AttachOrJoin, NotAsked
    <2>1. CASE AttachReject(l, r)
        BY <1>0, <1>A, <2>0, <2>1 DEF AttachReject, Answered
    <2>2. CASE AttachJoin(l, r, delivered)
        <3>1. leases[l] \in Entries
            BY DEF TypeOK
        <3>2. /\ \A q \in Requests \ {r} : answer'[q] = answer[q]
              /\ answer'[r].status # "Waiting"
            BY <2>2, <3>1, ReplyEffect DEF AttachJoin
        <3> QED  BY <1>A, <2>0, <2>2, <3>2 DEF AttachJoin
    <2>3. CASE AttachQueue(l, r, accepted)
        <3>1. /\ group_waiters' = [group_waiters EXCEPT ![l] = Append(group_waiters[l], r)]
              /\ UNCHANGED replies
              /\ answer'[r].status = "Waiting" /\ answer'[r].lease = l
              /\ \A q \in Requests \ {r} : answer'[q] = answer[q]
            BY <1>0, <2>3 DEF AttachQueue, Answered
        <3>2. \A k \in LeaseIds : r \notin Elements(group_waiters[k])
            BY <2>0 DEF NoLostCall
        <3>3. /\ Distinct(group_waiters'[l])
              /\ Elements(group_waiters'[l]) = Elements(group_waiters[l]) \cup {r}
              /\ \A k \in LeaseIds \ {l} : group_waiters'[k] = group_waiters[k]
            <4>1. Distinct(group_waiters[l]) /\ group_waiters[l] \in Seq(Requests)
                BY <1>0 DEF NoLostCall
            <4>2. group_waiters'[l] = Append(group_waiters[l], r)
                BY <1>0, <3>1
            <4>3. \A k \in LeaseIds \ {l} : group_waiters'[k] = group_waiters[k]
                BY <1>0, <3>1
            <4> QED  BY <3>2, <4>1, <4>2, <4>3, AppendElements
        <3>4. ASSUME NEW q \in Requests, NEW k \in LeaseIds, q \in Elements(group_waiters'[k])
              PROVE  answer'[q].status = "Waiting" /\ answer'[q].lease = k
            BY <3>1, <3>2, <3>3, <3>4 DEF NoLostCall
        <3>5. ASSUME NEW q \in Requests, answer'[q].status = "Waiting"
              PROVE  q \in Elements(group_waiters'[answer'[q].lease])
            <4>1. CASE q = r
                BY <3>1, <3>3, <4>1
            <4>2. CASE q # r
                <5>1. q \in Elements(group_waiters[answer[q].lease])
                    BY <1>0, <2>0, <3>1, <3>5, <4>2 DEF NoLostCall
                <5>2. answer[q].lease \in LeaseIds \/ answer[q].lease = NoLease
                    BY <1>0 DEF Answers
                <5>3. CASE answer[q].lease = l
                    BY <3>1, <3>3, <4>2, <5>1, <5>3
                <5>4. CASE answer[q].lease \in LeaseIds \ {l}
                    BY <3>1, <3>3, <4>2, <5>1, <5>4
                <5>5. CASE answer[q].lease = NoLease
                    <6>1. NoLease \notin LeaseIds
                        BY LeaseAssumption
                    <6>2. group_waiters'[NoLease] = group_waiters[NoLease]
                        BY <1>0, <3>1, <6>1
                    <6> QED  BY <3>1, <4>2, <5>1, <5>5, <6>2
                <5> QED  BY <5>2, <5>3, <5>4, <5>5
            <4> QED  BY <4>1, <4>2
        <3>6. \A k \in LeaseIds : Distinct(group_waiters'[k])
            BY <3>3 DEF NoLostCall
        <3> QED  BY <1>0, <2>0, <3>1, <3>4, <3>5, <3>6 DEF NoLostCall
    <2>4. CASE AttachAssign(l, r, accepted)
        <3>1. NewEntry \in Entries
            BY <2>4, NewEntryType DEF AttachAssign
        <3>2. PICK b \in BOOLEAN : ReplyAttached(r, l, NewEntry, b)
            BY <2>4 DEF AttachAssign
        <3>3. /\ \A q \in Requests \ {r} : answer'[q] = answer[q]
              /\ answer'[r].status # "Waiting"
            BY <3>1, <3>2, ReplyEffect
        <3> QED  BY <1>A, <2>0, <2>4, <3>3 DEF AttachAssign
    <2>5. CASE AttachUnclaimed(l, r)
        BY <1>0, <1>A, <2>0, <2>5 DEF AttachUnclaimed, Answered
    <2> QED  BY <1>1, <2>1, <2>2, <2>3, <2>4, <2>5 DEF AttachOrJoin
<1>2. CASE DispatchPop
    <2>1. /\ serving' \in LeaseIds
          /\ group_waiters' = [group_waiters EXCEPT ![serving'] = <<>>]
          /\ replies' = group_waiters[serving'] /\ replies = <<>>
          /\ UNCHANGED answer
        BY <1>0, <1>2, PopEffect
    <2>2. /\ group_waiters'[serving'] = <<>>
          /\ \A k \in LeaseIds \ {serving'} : group_waiters'[k] = group_waiters[k]
        BY <1>0, <2>1
    <2>3. (\A k \in LeaseIds : Distinct(group_waiters'[k])) /\ Distinct(replies')
        BY <1>0, <2>1, <2>2 DEF NoLostCall
    <2>4. ASSUME NEW q \in Requests, NEW k \in LeaseIds, q \in Elements(group_waiters'[k])
          PROVE  answer'[q].status = "Waiting" /\ answer'[q].lease = k
        BY <1>0, <2>1, <2>2, <2>4 DEF NoLostCall
    <2>5. ASSUME NEW q \in Requests, q \in Elements(replies')
          PROVE  /\ answer'[q].status = "Waiting" /\ answer'[q].lease = serving'
                 /\ q \notin Elements(group_waiters'[serving'])
        BY <1>0, <2>1, <2>2, <2>5 DEF NoLostCall
    <2>6. ASSUME NEW q \in Requests, answer'[q].status = "Waiting"
          PROVE  q \in Elements(replies') \cup Elements(group_waiters'[answer'[q].lease])
        <3>1. q \in Elements(group_waiters[answer[q].lease])
            BY <1>0, <2>1, <2>6 DEF NoLostCall
        <3>2. CASE answer[q].lease = serving'
            BY <2>1, <3>1, <3>2
        <3>3. CASE answer[q].lease # serving'
            <4>1. group_waiters'[answer[q].lease] = group_waiters[answer[q].lease]
                BY <1>0, <2>1, <3>3, LeaseAssumption DEF Answers
            <4> QED  BY <2>1, <3>1, <4>1
        <3> QED  BY <3>2, <3>3
    <2> QED  BY <2>3, <2>4, <2>5, <2>6 DEF NoLostCall
<1>3. CASE ServeOverdue
    <2>1. /\ pc = "serve" /\ replies # <<>> /\ replies' = Tail(replies)
          /\ UNCHANGED <<group_waiters, serving>> /\ serving \in LeaseIds
        BY <1>3 DEF ServeOverdue, ServeOK
    <2>2. Head(replies) \in Requests
        BY <1>0, <2>1, HeadTailProperties
    <2>3. /\ \A q \in Requests \ {Head(replies)} : answer'[q] = answer[q]
          /\ answer'[Head(replies)].status # "Waiting"
        BY <1>0, <1>3, <2>2 DEF ServeOverdue, Answered
    <2> QED  BY <1>B, <2>1, <2>3
<1>4. ASSUME NEW delivered \in BOOLEAN, ServeReply(delivered)
      PROVE  NoLostCall'
    <2>1. /\ pc = "serve" /\ replies # <<>> /\ replies' = Tail(replies)
          /\ UNCHANGED <<group_waiters, serving>> /\ serving \in LeaseIds
          /\ Leased(serving) \/ ready # <<>>
        BY <1>4 DEF ServeReply, ServeOK
    <2>2. Head(replies) \in Requests
        BY <1>0, <2>1, HeadTailProperties
    <2>3. /\ \A q \in Requests \ {Head(replies)} : answer'[q] = answer[q]
          /\ answer'[Head(replies)].status # "Waiting"
        <3>1. CASE Leased(serving)
            <4>1. leases[serving] \in Entries
                BY <2>1 DEF TypeOK
            <4> QED  BY <1>4, <2>1, <2>2, <3>1, <4>1, ReplyEffect DEF ServeReply
        <3>2. CASE ~Leased(serving)
            <4>1. NewEntry \in Entries
                BY <2>1, <3>2, NewEntryType
            <4> QED  BY <1>4, <2>1, <2>2, <3>2, <4>1, ReplyEffect DEF ServeReply
        <3> QED  BY <3>1, <3>2
    <2> QED  BY <1>B, <2>1, <2>3
<1>5. CASE ServeDone
    BY <1>0, <1>A, <1>5 DEF ServeDone
<1>6. ASSUME NEW accepted \in BOOLEAN, DispatchExit(accepted)
      PROVE  NoLostCall'
    BY <1>0, <1>A, <1>6 DEF DispatchExit
<1>7. ASSUME NEW l \in LeaseIds, NEW accepted \in BOOLEAN, ReleaseLease(l, accepted)
      PROVE  NoLostCall'
    <2>1. CASE ReleaseNothing(l)
        BY <1>0, <1>A, <2>1 DEF ReleaseNothing, vars
    <2>2. CASE ReleaseOpen(l, accepted)
        <3>1. /\ replies = <<>> /\ replies' = <<>>
              /\ answer' = Rejected(Elements(group_waiters[l]), l, "LeaseClosed")
              /\ group_waiters' = [group_waiters EXCEPT ![l] = <<>>]
            BY <1>0, <1>7, <2>2 DEF ReleaseLease, ReleaseOpen
        <3>2. /\ group_waiters'[l] = <<>>
              /\ \A k \in LeaseIds \ {l} : group_waiters'[k] = group_waiters[k]
            BY <1>0, <3>1
        <3>3. ASSUME NEW q \in Requests
              PROVE  IF q \in Elements(group_waiters[l])
                     THEN answer'[q].status # "Waiting"
                     ELSE answer'[q] = answer[q]
            BY <3>1 DEF Rejected
        <3>4. ASSUME NEW q \in Requests, NEW k \in LeaseIds, q \in Elements(group_waiters'[k])
              PROVE  answer'[q].status = "Waiting" /\ answer'[q].lease = k
            BY <1>0, <3>2, <3>3, <3>4 DEF NoLostCall
        <3>5. ASSUME NEW q \in Requests, answer'[q].status = "Waiting"
              PROVE  q \in Elements(group_waiters'[answer'[q].lease])
            <4>1. q \notin Elements(group_waiters[l]) /\ answer'[q] = answer[q]
                BY <3>3, <3>5
            <4>2. q \in Elements(group_waiters[answer[q].lease])
                BY <1>0, <3>1, <3>5, <4>1 DEF NoLostCall
            <4>3. group_waiters'[answer[q].lease] = group_waiters[answer[q].lease]
                BY <1>0, <3>1, <4>1, <4>2, LeaseAssumption DEF Answers
            <4> QED  BY <4>1, <4>2, <4>3
        <3>6. \A k \in LeaseIds : Distinct(group_waiters'[k])
            BY <1>0, <3>2 DEF NoLostCall
        <3> QED  BY <1>0, <3>1, <3>4, <3>5, <3>6 DEF NoLostCall
    <2> QED  BY <1>7, <2>1, <2>2 DEF ReleaseLease
<1>8. ASSUME NEW l \in LeaseIds, NEW g \in 1 .. next_generation, Detach(l, g)
      PROVE  NoLostCall'
    BY <1>A, <1>8 DEF Detach
<1>9. ASSUME NEW l \in LeaseIds, NEW g \in 1 .. next_generation, NEW accepted \in BOOLEAN,
             LeaseMaxTimeReached(l, g, accepted)
      PROVE  NoLostCall'
    BY <1>A, <1>9 DEF LeaseMaxTimeReached
<1>10. ASSUME NEW d \in 1 .. next_database_id, NEW ok \in BOOLEAN, CreationFinished(d, ok)
       PROVE  NoLostCall'
    BY <1>A, <1>10 DEF CreationFinished
<1>11. ASSUME NEW d \in 1 .. next_database_id, NEW ok \in BOOLEAN, CleanupFinished(d, ok)
       PROVE  NoLostCall'
    BY <1>A, <1>11 DEF CleanupFinished
<1>12. CASE Shutdown \/ UNCHANGED vars \/ \E r \in Requests : BecomeOverdue(r)
    BY <1>A, <1>12 DEF Shutdown, BecomeOverdue, vars
<1> QED  BY <1>1, <1>2, <1>3, <1>4, <1>5, <1>6, <1>7, <1>8, <1>9, <1>10, <1>11, <1>12 DEF Next

----------------------------------------------------------------------------
\* The cancellation tokens.

\* Only tokens that exist are cancelled.
TokensIssued == cancelled \subseteq 1 .. next_generation

TokenInv == TokensFollowLeases /\ TokensIssued

\* A lease gives up its assignment and the token is cancelled.
LEMMA TokenDropped ==
    ASSUME TypeOK, GenerationsIdentify, TokenInv, NEW STATE l, l \in LeaseIds, Leased(l),
           leases' = [leases EXCEPT ![l] = NoEntry],
           cancelled' = cancelled \cup {leases[l].generation},
           UNCHANGED next_generation, pc # "stopped"
    PROVE  TokenInv'
<1>1. /\ leases \in [LeaseIds -> Entries] /\ NoEntry.generation = 0
      /\ leases[l].generation \in 1 .. next_generation
    BY DEF TypeOK, NoEntry, GenerationsIdentify
<1>2. TokensIssued'
    BY <1>1 DEF TokenInv, TokensIssued
<1>3. ASSUME NEW g \in 1 .. next_generation
      PROVE  g \notin cancelled' <=>
                \E k \in LeaseIds : leases'[k].generation # 0 /\ leases'[k].generation = g
    <2>1. g \notin cancelled <=>
            \E k \in LeaseIds : leases[k].generation # 0 /\ leases[k].generation = g
        BY DEF TokenInv, TokensFollowLeases, Leased
    <2>2. CASE g = leases[l].generation
        BY <1>1, <2>2 DEF GenerationsIdentify, Leased
    <2>3. CASE g # leases[l].generation
        BY <1>1, <2>1, <2>3
    <2> QED  BY <2>2, <2>3
<1> QED  BY <1>2, <1>3 DEF TokenInv, TokensFollowLeases, Leased

\* A lease is assigned a database under a token of its own.
LEMMA TokenIssued ==
    ASSUME TypeOK, GenerationsIdentify, TokenInv, NEW STATE l, l \in LeaseIds, ~Leased(l),
           \A k \in LeaseIds \ {l} : leases'[k] = leases[k],
           leases'[l].generation = next_generation + 1,
           next_generation' = next_generation + 1,
           UNCHANGED cancelled, pc # "stopped"
    PROVE  TokenInv'
<1>1. next_generation \in Nat
    BY DEF TypeOK
<1>2. TokensIssued' /\ next_generation + 1 \notin cancelled
    BY <1>1 DEF TokenInv, TokensIssued
<1>3. ASSUME NEW g \in 1 .. next_generation'
      PROVE  g \notin cancelled' <=>
                \E k \in LeaseIds : leases'[k].generation # 0 /\ leases'[k].generation = g
    <2>1. CASE g = next_generation + 1
        BY <1>1, <1>2, <2>1
    <2>2. CASE g # next_generation + 1
        <3>1. g \in 1 .. next_generation
            BY <1>1, <2>2
        <3>2. g \notin cancelled <=>
                \E k \in LeaseIds : leases[k].generation # 0 /\ leases[k].generation = g
            BY <3>1 DEF TokenInv, TokensFollowLeases, Leased
        <3> QED  BY <2>2, <3>2 DEF Leased
    <2> QED  BY <2>1, <2>2
<1> QED  BY <1>2, <1>3 DEF TokenInv, TokensFollowLeases, Leased

LEMMA TokenStep ==
    ASSUME TypeOK, ServeOK, GenerationsIdentify, TokenInv, [Next]_vars
    PROVE  TokenInv'
<1> USE DEF inventory, dispatch
<1>0. /\ leases \in [LeaseIds -> Entries] /\ next_generation \in Nat
    BY DEF TypeOK
\* Steps that neither make nor end an assignment.
<1>A. ASSUME \A k \in LeaseIds : leases'[k].generation = leases[k].generation,
             UNCHANGED <<next_generation, cancelled>>, pc' # "stopped" => pc # "stopped"
      PROVE  TokenInv'
    BY <1>A DEF TokenInv, TokensFollowLeases, TokensIssued, Leased
<1>1. ASSUME NEW l \in LeaseIds, NEW r \in Requests,
             NEW delivered \in BOOLEAN, NEW accepted \in BOOLEAN,
             AttachOrJoin(l, r, delivered, accepted)
      PROVE  TokenInv'
    <2>0. pc = "idle"
        BY <1>1 DEF AttachOrJoin
    <2>1. CASE AttachReject(l, r)
        BY <1>A, <2>0, <2>1 DEF AttachReject
    <2>2. CASE AttachJoin(l, r, delivered)
        <3>1. leases[l] \in Entries
            BY <1>0
        <3>2. /\ \A k \in LeaseIds \ {l} : leases'[k] = leases[k]
              /\ leases'[l].generation = leases[l].generation
            BY <2>2, <3>1, ReplyEffect DEF AttachJoin
        <3> QED  BY <1>A, <2>0, <2>2, <3>2 DEF AttachJoin
    <2>3. CASE AttachQueue(l, r, accepted)
        BY <1>A, <2>0, <2>3 DEF AttachQueue
    <2>4. CASE AttachAssign(l, r, accepted)
        <3>1. NewEntry \in Entries /\ NewEntry.generation = next_generation + 1
            BY <2>4, NewEntryType DEF AttachAssign
        <3>2. PICK b \in BOOLEAN : ReplyAttached(r, l, NewEntry, b)
            BY <2>4 DEF AttachAssign
        <3>3. /\ \A k \in LeaseIds \ {l} : leases'[k] = leases[k]
              /\ leases'[l].generation = next_generation + 1
            BY <3>1, <3>2, ReplyEffect
        <3> QED  BY <2>0, <2>4, <3>3, TokenIssued DEF AttachAssign
    <2>5. CASE AttachUnclaimed(l, r)
        <3>1. /\ UNCHANGED leases /\ next_generation' = next_generation + 1
              /\ cancelled' = cancelled \cup {next_generation + 1}
            BY <2>5 DEF AttachUnclaimed
        <3>2. TokensIssued'
            BY <1>0, <3>1 DEF TokenInv, TokensIssued
        <3>3. ASSUME NEW g \in 1 .. next_generation + 1
              PROVE  g \notin cancelled' <=>
                        \E k \in LeaseIds : leases[k].generation # 0 /\ leases[k].generation = g
            <4>1. CASE g = next_generation + 1
                BY <1>0, <3>1, <4>1 DEF GenerationsIdentify, Leased
            <4>2. CASE g # next_generation + 1
                <5>1. g \in 1 .. next_generation
                    BY <1>0, <4>2
                <5> QED  BY <2>0, <3>1, <4>2, <5>1 DEF TokenInv, TokensFollowLeases, Leased
            <4> QED  BY <4>1, <4>2
        <3> QED  BY <3>1, <3>2, <3>3 DEF TokenInv, TokensFollowLeases, Leased
    <2> QED  BY <1>1, <2>1, <2>2, <2>3, <2>4, <2>5 DEF AttachOrJoin
<1>2. CASE DispatchPop \/ ServeOverdue \/ \E accepted \in BOOLEAN : DispatchExit(accepted)
    BY <1>A, <1>2 DEF DispatchPop, ServeOverdue, DispatchExit
<1>3. ASSUME NEW delivered \in BOOLEAN, ServeReply(delivered)
      PROVE  TokenInv'
    <2>1. /\ pc = "serve" /\ UNCHANGED <<pc, cancelled>> /\ serving \in LeaseIds
          /\ Leased(serving) \/ ready # <<>>
        BY <1>3 DEF ServeReply, ServeOK
    <2>2. Head(replies) \in Requests
        BY <1>3, HeadTailProperties DEF ServeReply, TypeOK
    <2>3. CASE Leased(serving)
        <3>1. leases[serving] \in Entries
            BY <1>0, <2>1
        <3>2. /\ \A k \in LeaseIds \ {serving} : leases'[k] = leases[k]
              /\ leases'[serving].generation = leases[serving].generation
            BY <1>3, <2>1, <2>2, <2>3, <3>1, ReplyEffect DEF ServeReply
        <3> QED  BY <1>3, <1>A, <2>1, <2>3, <3>2 DEF ServeReply
    <2>4. CASE ~Leased(serving)
        <3>1. NewEntry \in Entries /\ NewEntry.generation = next_generation + 1
            BY <2>1, <2>4, NewEntryType
        <3>2. /\ \A k \in LeaseIds \ {serving} : leases'[k] = leases[k]
              /\ leases'[serving].generation = next_generation + 1
            BY <1>3, <2>1, <2>2, <2>4, <3>1, ReplyEffect DEF ServeReply
        <3>3. next_generation' = next_generation + 1
            BY <1>3, <2>4 DEF ServeReply
        <3> QED  BY <2>1, <2>4, <3>2, <3>3, TokenIssued
    <2> QED  BY <2>3, <2>4
<1>4. CASE ServeDone
    <2>1. serving \in LeaseIds /\ pc = "serve" /\ pc' = "dispatch" /\ UNCHANGED next_generation
        BY <1>4 DEF ServeDone, ServeOK
    <2>2. CASE ~already_assigned /\ Unclaimed(serving)
        BY <1>4, <2>1, <2>2, TokenDropped DEF ServeDone, Unclaimed
    <2>3. CASE ~(~already_assigned /\ Unclaimed(serving))
        BY <1>4, <1>A, <2>1, <2>3 DEF ServeDone
    <2> QED  BY <2>2, <2>3
<1>5. ASSUME NEW l \in LeaseIds, NEW accepted \in BOOLEAN, RetireLease(l, accepted),
             pc = "idle", pc' = "idle", UNCHANGED next_generation
      PROVE  TokenInv'
    <2>1. CASE Leased(l)
        BY <1>5, <2>1, TokenDropped DEF RetireLease
    <2>2. CASE ~Leased(l)
        BY <1>5, <1>A, <2>2 DEF RetireLease
    <2> QED  BY <2>1, <2>2
<1>6. ASSUME NEW l \in LeaseIds, NEW accepted \in BOOLEAN, ReleaseLease(l, accepted)
      PROVE  TokenInv'
    BY <1>5, <1>6, <1>A DEF ReleaseLease, ReleaseOpen, ReleaseNothing, vars
<1>7. ASSUME NEW l \in LeaseIds, NEW g \in 1 .. next_generation, Detach(l, g)
      PROVE  TokenInv'
    <2>1. \A k \in LeaseIds : leases'[k].generation = leases[k].generation
        BY <1>0, <1>7 DEF Detach, Entries
    <2> QED  BY <1>7, <1>A, <2>1 DEF Detach
<1>8. ASSUME NEW l \in LeaseIds, NEW g \in 1 .. next_generation, NEW accepted \in BOOLEAN,
             LeaseMaxTimeReached(l, g, accepted)
      PROVE  TokenInv'
    <2>1. CASE Leased(l) /\ leases[l].generation = g
        BY <1>5, <1>8, <2>1 DEF LeaseMaxTimeReached
    <2>2. CASE ~(Leased(l) /\ leases[l].generation = g)
        BY <1>8, <1>A, <2>2 DEF LeaseMaxTimeReached
    <2> QED  BY <2>1, <2>2
<1>9. ASSUME NEW d \in 1 .. next_database_id, NEW ok \in BOOLEAN,
             CreationFinished(d, ok) \/ CleanupFinished(d, ok)
      PROVE  TokenInv'
    BY <1>9, <1>A DEF CreationFinished, CleanupFinished
<1>10. CASE Shutdown
    BY <1>0, <1>10 DEF Shutdown, TokenInv, TokensFollowLeases, TokensIssued
<1>11. CASE UNCHANGED vars \/ \E r \in Requests : BecomeOverdue(r)
    BY <1>11, <1>A DEF BecomeOverdue, vars
<1> QED  BY <1>1, <1>2, <1>3, <1>4, <1>6, <1>7, <1>8, <1>9, <1>10, <1>11 DEF Next

----------------------------------------------------------------------------
\* Records and supply.

RecordsFit == Cardinality(Records) <= MaxLeaseRecords

\* Recording a lease that was admitted stays within the limit.
LEMMA RecordAdded ==
    ASSUME TypeOK, RecordsFit, NEW l \in LeaseIds, NEW status, status # "None",
           Admission(l) = "Open", lease_records' = [lease_records EXCEPT ![l] = status]
    PROVE  RecordsFit'
<1>1. IsFiniteSet(Records)
    BY LeaseAssumption, FS_Subset DEF Records
<1>2. Records' = Records \cup {l}
    BY DEF Records, TypeOK
<1>3. Cardinality(Records) \in Nat /\ MaxLeaseRecords \in Nat
    BY <1>1, FS_CardinalityType, ConfigAssumption
<1>4. Cardinality(Records \cup {l}) =
        IF l \in Records THEN Cardinality(Records) ELSE Cardinality(Records) + 1
    BY <1>1, FS_AddElement
<1>5. l \notin Records => Cardinality(Records) < MaxLeaseRecords
    BY <1>3 DEF Admission, Records
<1> QED  BY <1>2, <1>3, <1>4, <1>5 DEF RecordsFit

LEMMA RecordsStep ==
    ASSUME TypeOK, RecordsFit, [Next]_vars
    PROVE  RecordsFit'
<1> USE DEF inventory, dispatch
<1>A. ASSUME UNCHANGED lease_records PROVE RecordsFit'
    BY <1>A DEF RecordsFit, Records
<1>1. ASSUME NEW l \in LeaseIds, NEW r \in Requests,
             NEW delivered \in BOOLEAN, NEW accepted \in BOOLEAN,
             AttachOrJoin(l, r, delivered, accepted)
      PROVE  RecordsFit'
    <2>1. CASE AttachReject(l, r)
        BY <1>A, <2>1 DEF AttachReject
    <2>2. CASE ~AttachReject(l, r)
        <3>1. Admission(l) = "Open" /\ lease_records' = Admitted(l)
            BY <1>1, <2>2 DEF AttachOrJoin, AttachJoin, AttachQueue, AttachAssign,
                              AttachUnclaimed
        <3> QED  BY <3>1, RecordAdded DEF Admitted
    <2> QED  BY <2>1, <2>2
<1>2. ASSUME NEW l \in LeaseIds, NEW accepted \in BOOLEAN, ReleaseLease(l, accepted)
      PROVE  RecordsFit'
    <2>1. CASE ReleaseNothing(l)
        BY <1>A, <2>1 DEF ReleaseNothing, vars
    <2>2. CASE ReleaseOpen(l, accepted)
        BY <2>2, RecordAdded DEF ReleaseOpen
    <2> QED  BY <1>2, <2>1, <2>2 DEF ReleaseLease
<1>3. CASE \/ DispatchPop \/ ServeOverdue \/ ServeDone \/ Shutdown \/ UNCHANGED vars
           \/ \E delivered \in BOOLEAN : ServeReply(delivered)
           \/ \E accepted \in BOOLEAN : DispatchExit(accepted)
           \/ \E l \in LeaseIds, g \in 1 .. next_generation : Detach(l, g)
           \/ \E l \in LeaseIds, g \in 1 .. next_generation, accepted \in BOOLEAN :
                LeaseMaxTimeReached(l, g, accepted)
           \/ \E d \in 1 .. next_database_id, ok \in BOOLEAN :
                CreationFinished(d, ok) \/ CleanupFinished(d, ok)
           \/ \E r \in Requests : BecomeOverdue(r)
    BY <1>3, <1>A DEF DispatchPop, ServeOverdue, ServeDone, Shutdown, vars, ServeReply,
        DispatchExit, Detach, LeaseMaxTimeReached, CreationFinished, CleanupFinished,
        BecomeOverdue
<1> QED  BY <1>1, <1>2, <1>3 DEF Next

\* Every waiting lease has a record.
WaitingFit == Cardinality(WaitingLeases) \in 0 .. MaxLeaseRecords

LEMMA WaitingHaveRecords ==
    ASSUME TypeOK, WaiterQueue, RecordsFit
    PROVE  WaitingFit
<1>1. WaitingLeases \subseteq Records
    <2> SUFFICES ASSUME NEW l \in WaitingLeases PROVE lease_records[l] # "None" /\ l \in LeaseIds
        BY DEF Records
    <2>1. l \in LeaseIds /\ group_waiters[l] # <<>>
        BY DEF WaitingLeases
    <2> QED  BY <2>1 DEF WaiterQueue
<1>2. IsFiniteSet(Records)
    BY LeaseAssumption, FS_Subset DEF Records
<1>3. /\ Cardinality(WaitingLeases) \in Nat /\ Cardinality(Records) \in Nat
      /\ Cardinality(WaitingLeases) <= Cardinality(Records)
    BY <1>1, <1>2, FS_Subset, FS_CardinalityType
<1> QED  BY <1>3, ConfigAssumption DEF RecordsFit, WaitingFit

\* Rounding up to a batch overshoots by less than a batch.
LEMMA GrowCountBound ==
    ASSUME NEW required \in Nat, NEW supply \in Nat
    PROVE  \/ GrowCount(required, supply) = 0
           \/ supply + GrowCount(required, supply) <= required + GrowBatchSize - 1
<1>1. CASE GrowBatchSize = 0 \/ supply >= required
    BY <1>1 DEF GrowCount
<1>2. CASE GrowBatchSize # 0 /\ supply < required
    <2> DEFINE n == required - supply + GrowBatchSize - 1
    <2>1. GrowBatchSize \in Nat /\ GrowBatchSize > 0 /\ n \in Nat
        BY <1>2, ConfigAssumption
    <2>2. GrowCount(required, supply) = (n \div GrowBatchSize) * GrowBatchSize
        BY <1>2, ConfigAssumption DEF GrowCount
    <2> HIDE DEF n
    <2>3. (n \div GrowBatchSize) * GrowBatchSize <= n /\ (n \div GrowBatchSize) * GrowBatchSize \in Nat
        BY <2>1
    <2> QED  BY <2>1, <2>2, <2>3, <1>2 DEF n
<1> QED  BY <1>1, <1>2, ConfigAssumption

SupplyLimit == Larger(InitialSlots, MaxLeaseRecords + StarvationThreshold + GrowBatchSize)

\* The database of a group that is being served may still come back.
Pledged == IF pc = "serve" /\ Leased(serving) THEN 1 ELSE 0

SupplyFits == Len(ready) + Cardinality(creating) + Pledged <= SupplyLimit

LEMMA GrowFits ==
    ASSUME TypeOK, TypeOK', WaitingFit', NEW CONSTANT accepted,
           Grow(creating, accepted), Len(ready') + Cardinality(creating) <= SupplyLimit
    PROVE  Len(ready') + Cardinality(creating') <= SupplyLimit
<1> DEFINE supply == Len(ready') + Cardinality(creating)
           count == GrowCount(Required', supply)
<1>1. IsFiniteSet(creating) /\ Cardinality(creating) \in Nat /\ next_database_id \in Nat
    <2>1. next_database_id \in Nat /\ 1 \in Int /\ next_database_id \in Int
        BY WidthAssumption DEF TypeOK
    <2>2. IsFiniteSet(1 .. next_database_id)
        BY <2>1, FS_Interval
    <2>3. IsFiniteSet(creating)
        BY <2>2, FS_Subset DEF TypeOK
    <2> QED  BY <2>1, <2>3, FS_CardinalityType
<1>2. Len(ready') \in Nat /\ supply \in Nat
    BY <1>1, LenProperties DEF TypeOK
<1>3. Cardinality(WaitingLeases') \in 0 .. MaxLeaseRecords
    BY DEF WaitingFit
<1>4. /\ Required' \in Nat
      /\ Required' + GrowBatchSize - 1 <= MaxLeaseRecords + StarvationThreshold + GrowBatchSize
    BY <1>3, ConfigAssumption DEF Required
<1>5. count \in Nat
    BY <1>2, <1>4, GrowCountType
<1>6. count = 0 \/ supply + count <= Required' + GrowBatchSize - 1
    BY <1>2, <1>4, GrowCountBound
<1>7. creating' = creating \/ creating' = creating \cup (next_database_id + 1 .. next_database_id + count)
    BY DEF Grow
<1>0. SupplyLimit \in Nat /\ MaxLeaseRecords + StarvationThreshold + GrowBatchSize <= SupplyLimit
    BY ConfigAssumption DEF SupplyLimit, Larger
<1> HIDE DEF count
<1>8. CASE creating' = creating
    BY <1>8
<1>9. CASE creating' = creating \cup (next_database_id + 1 .. next_database_id + count)
    <2> DEFINE new == next_database_id + 1 .. next_database_id + count
    <2>1. IsFiniteSet(new) /\ Cardinality(new) = count
        <3>1. next_database_id + 1 \in Int /\ next_database_id + count \in Int
            BY <1>1, <1>5
        <3>2. /\ IsFiniteSet(new)
              /\ Cardinality(new) = IF next_database_id + 1 > next_database_id + count
                                    THEN 0
                                    ELSE (next_database_id + count) - (next_database_id + 1) + 1
            BY <3>1, FS_Interval
        <3> HIDE DEF new
        <3> QED  BY <1>1, <1>5, <3>2
    <2> HIDE DEF new
    <2>2. /\ Cardinality(creating \cup new)
                = Cardinality(creating) + Cardinality(new) - Cardinality(creating \cap new)
          /\ Cardinality(creating \cap new) \in Nat
        BY <1>1, <2>1, FS_Union, FS_Intersection, FS_CardinalityType
    <2>3. Cardinality(creating') \in Nat /\ Cardinality(creating') <= Cardinality(creating) + count
        <3>1. Cardinality(creating') =
                Cardinality(creating) + count - Cardinality(creating \cap new)
            BY <1>9, <2>1, <2>2 DEF new
        <3>2. IsFiniteSet(creating \cup new)
            BY <1>1, <2>1, FS_Union
        <3>3. Cardinality(creating') \in Nat
            BY <1>9, <3>2, FS_CardinalityType DEF new
        <3> QED  BY <1>1, <1>5, <2>2, <3>1, <3>3
    <2>4. supply + count <= SupplyLimit
        <3>1. supply <= SupplyLimit
            OBVIOUS
        <3> HIDE DEF supply
        <3>2. GrowBatchSize \in Nat /\ MaxLeaseRecords + StarvationThreshold + GrowBatchSize \in Nat
            BY ConfigAssumption
        <3>3. CASE count = 0
            BY <1>0, <1>2, <3>1, <3>3
        <3>4. CASE supply + count <= Required' + GrowBatchSize - 1
            <4>1. \A a, b, c, d \in Int : a <= b /\ b <= c /\ c <= d => a <= d
                OBVIOUS
            <4>2. Required' + GrowBatchSize - 1 \in Int /\ supply + count \in Int
                BY <1>2, <1>4, <1>5, <3>2
            <4> QED  BY <1>0, <1>4, <3>2, <3>4, <4>1, <4>2
        <3> QED  BY <1>6, <3>3, <3>4
    <2> QED  BY <1>0, <1>1, <1>2, <1>5, <2>3, <2>4
<1> QED  BY <1>7, <1>8, <1>9

LEMMA SupplyStep ==
    ASSUME TypeOK, TypeOK', ServeOK, QueueInv, WaitingFit', SupplyFits, [Next]_vars
    PROVE  SupplyFits'
<1> USE DEF inventory, dispatch
<1>0. /\ Len(ready) \in Nat /\ Len(ready') \in Nat
      /\ Cardinality(creating) \in Nat /\ IsFiniteSet(creating)
      /\ Pledged \in {0, 1} /\ SupplyLimit \in Nat
    <2>1. next_database_id \in Int /\ 1 \in Int
        BY WidthAssumption DEF TypeOK
    <2>2. IsFiniteSet(1 .. next_database_id)
        BY <2>1, FS_Interval
    <2>3. IsFiniteSet(creating)
        BY <2>2, FS_Subset DEF TypeOK
    <2>4. Len(ready) \in Nat /\ Len(ready') \in Nat
        BY LenProperties DEF TypeOK
    <2>5. SupplyLimit \in Nat
        BY ConfigAssumption DEF SupplyLimit, Larger
    <2> QED  BY <2>3, <2>4, <2>5, FS_CardinalityType DEF Pledged
\* Steps that add nothing to the supply, and the trailing grow after them.
<1>A. ASSUME UNCHANGED creating, Len(ready') <= Len(ready), pc' # "serve" \/ Pledged' <= Pledged
      PROVE  SupplyFits'
    <2>1. Pledged' \in {0, 1} /\ (pc' # "serve" => Pledged' = 0)
        BY DEF Pledged
    <2> QED  BY <1>0, <1>A, <2>1 DEF SupplyFits
<1>B. ASSUME NEW CONSTANT accepted, Grow(creating, accepted), Len(ready') <= Len(ready),
             pc' # "serve"
      PROVE  SupplyFits'
    <2>1. Len(ready') + Cardinality(creating) <= SupplyLimit
        BY <1>0, <1>B DEF SupplyFits
    <2>2. Len(ready') + Cardinality(creating') <= SupplyLimit
        BY <1>B, <2>1, GrowFits
    <2>3. Pledged' = 0
        BY <1>B DEF Pledged
    <2>4. Cardinality(creating') \in Nat
        <3>1. next_database_id' \in Int /\ 1 \in Int
            BY WidthAssumption DEF TypeOK
        <3>2. IsFiniteSet(1 .. next_database_id')
            BY <3>1, FS_Interval
        <3>3. IsFiniteSet(creating')
            BY <3>2, FS_Subset DEF TypeOK
        <3> QED  BY <3>3, FS_CardinalityType
    <2> QED  BY <1>0, <2>2, <2>3, <2>4 DEF SupplyFits
<1>1. ASSUME NEW l \in LeaseIds, NEW r \in Requests,
             NEW delivered \in BOOLEAN, NEW accepted \in BOOLEAN,
             AttachOrJoin(l, r, delivered, accepted)
      PROVE  SupplyFits'
    <2>0. pc = "idle"
        BY <1>1 DEF AttachOrJoin
    <2>1. CASE AttachReject(l, r) \/ AttachJoin(l, r, delivered)
        BY <1>0, <1>A, <2>0, <2>1 DEF AttachReject, AttachJoin
    <2>2. CASE AttachQueue(l, r, accepted)
        BY <1>0, <1>B, <2>0, <2>2 DEF AttachQueue
    <2>3. CASE AttachAssign(l, r, accepted)
        <3>1. Len(Tail(ready)) = Len(ready) - 1
            BY <2>3, HeadTailProperties DEF AttachAssign, TypeOK
        <3> QED  BY <1>0, <1>B, <2>0, <2>3, <3>1 DEF AttachAssign
    <2>4. CASE AttachUnclaimed(l, r)
        <3>1. NewEntry.database \in Nat /\ ready # <<>>
            BY <2>4, NewEntryType DEF AttachUnclaimed, Entries
        <3>2. Tail(ready) \in Seq(Nat) /\ Len(Tail(ready)) = Len(ready) - 1
            BY <3>1, HeadTailProperties DEF TypeOK
        <3>3. Len(<<NewEntry.database>> \o Tail(ready)) = 1 + Len(Tail(ready))
            <4>1. <<NewEntry.database>> \in Seq(Nat) /\ Len(<<NewEntry.database>>) = 1
                BY <3>1
            <4> QED  BY <3>2, <4>1, ConcatProperties
        <3>4. /\ ready' = <<NewEntry.database>> \o Tail(ready)
              /\ pc' = "dispatch" /\ UNCHANGED creating
            BY <2>4 DEF AttachUnclaimed
        <3>5. Len(ready') <= Len(ready)
            BY <1>0, <3>2, <3>3, <3>4
        <3> QED  BY <1>A, <3>4, <3>5
    <2> QED  BY <1>1, <2>1, <2>2, <2>3, <2>4 DEF AttachOrJoin
<1>2. CASE DispatchPop
    <2>1. UNCHANGED <<creating, ready, leases>> /\ ~Leased(serving')
        BY <1>2, PopEffect DEF QueueInv
    <2>2. Pledged' = 0
        BY <2>1 DEF Pledged, Leased
    <2> QED  BY <1>0, <1>A, <2>1, <2>2
<1>3. CASE ServeOverdue
    BY <1>0, <1>A, <1>3 DEF ServeOverdue, Pledged, Leased
<1>4. ASSUME NEW delivered \in BOOLEAN, ServeReply(delivered)
      PROVE  SupplyFits'
    <2>1. /\ pc = "serve" /\ pc' = "serve" /\ serving \in LeaseIds
          /\ UNCHANGED <<creating, serving>>
          /\ Leased(serving) \/ ready # <<>>
        BY <1>4 DEF ServeReply, ServeOK
    <2>2. CASE Leased(serving)
        <3>1. Pledged = 1 /\ Pledged' \in {0, 1} /\ UNCHANGED ready
            BY <1>4, <2>1, <2>2 DEF Pledged, ServeReply
        <3> QED  BY <1>0, <1>A, <2>1, <3>1
    <2>3. CASE ~Leased(serving)
        <3>1. Pledged = 0 /\ Pledged' \in {0, 1} /\ ready' = Tail(ready)
            BY <1>4, <2>1, <2>3 DEF Pledged, ServeReply
        <3>2. Len(ready') = Len(ready) - 1
            BY <2>1, <2>3, <3>1, HeadTailProperties DEF TypeOK
        <3> QED  BY <1>0, <2>1, <3>1, <3>2, SMTT(30) DEF SupplyFits
    <2> QED  BY <2>2, <2>3
<1>5. CASE ServeDone
    <2>1. pc = "serve" /\ serving \in LeaseIds /\ pc' = "dispatch" /\ UNCHANGED creating
        BY <1>5 DEF ServeDone, ServeOK
    <2>2. CASE ~already_assigned /\ Unclaimed(serving)
        <3>1. ready' = <<leases[serving].database>> \o ready
            BY <1>5, <2>2 DEF ServeDone
        <3>2. Len(ready') = 1 + Len(ready)
            <4>1. /\ <<leases[serving].database>> \in Seq(Nat)
                  /\ Len(<<leases[serving].database>>) = 1
                BY <2>1 DEF TypeOK, Entries
            <4> QED  BY <3>1, <4>1, ConcatProperties DEF TypeOK
        <3>3. Pledged = 1 /\ Pledged' = 0
            BY <2>1, <2>2 DEF Pledged, Unclaimed
        <3> QED  BY <1>0, <2>1, <3>2, <3>3 DEF SupplyFits
    <2>3. CASE ~(~already_assigned /\ Unclaimed(serving))
        <3>1. UNCHANGED ready
            BY <1>5, <2>3 DEF ServeDone
        <3> QED  BY <1>0, <1>A, <2>1, <3>1
    <2> QED  BY <2>2, <2>3
<1>6. ASSUME NEW accepted \in BOOLEAN, DispatchExit(accepted)
      PROVE  SupplyFits'
    BY <1>0, <1>6, <1>B DEF DispatchExit
<1>7. ASSUME NEW l \in LeaseIds, NEW accepted \in BOOLEAN, RetireLease(l, accepted),
             pc' # "serve", UNCHANGED ready
      PROVE  SupplyFits'
    <2>1. CASE Leased(l)
        BY <1>0, <1>7, <1>B, <2>1 DEF RetireLease
    <2>2. CASE ~Leased(l)
        BY <1>0, <1>7, <1>A, <2>2 DEF RetireLease
    <2> QED  BY <2>1, <2>2
<1>8. ASSUME NEW l \in LeaseIds, NEW accepted \in BOOLEAN, ReleaseLease(l, accepted)
      PROVE  SupplyFits'
    <2>1. CASE ReleaseNothing(l)
        BY <1>0, <1>8, <1>A, <2>1 DEF ReleaseLease, ReleaseNothing, vars
    <2>2. CASE ReleaseOpen(l, accepted)
        BY <1>7, <1>8, <2>2 DEF ReleaseLease, ReleaseOpen
    <2> QED  BY <1>8, <2>1, <2>2 DEF ReleaseLease
<1>9. ASSUME NEW l \in LeaseIds, NEW g \in 1 .. next_generation, NEW accepted \in BOOLEAN,
             LeaseMaxTimeReached(l, g, accepted)
      PROVE  SupplyFits'
    <2>1. CASE Leased(l) /\ leases[l].generation = g
        BY <1>7, <1>9, <2>1 DEF LeaseMaxTimeReached
    <2>2. CASE ~(Leased(l) /\ leases[l].generation = g)
        BY <1>0, <1>9, <1>A, <2>2 DEF LeaseMaxTimeReached
    <2> QED  BY <2>1, <2>2
<1>10. ASSUME NEW d \in 1 .. next_database_id, NEW ok \in BOOLEAN, CreationFinished(d, ok)
       PROVE  SupplyFits'
    <2>1. pc = "idle" /\ pc' # "serve"
        BY <1>10 DEF CreationFinished
    <2>2. CASE d \in creating
        <3>1. creating' = creating \ {d} /\ (ready' = ready \/ ready' = Append(ready, d))
            BY <1>10, <2>2 DEF CreationFinished
        <3>2. Cardinality(creating') = Cardinality(creating) - 1
            BY <1>0, <2>2, <3>1, FS_RemoveElement
        <3>3. Len(ready') <= Len(ready) + 1
            <4>1. d \in Nat
                BY WidthAssumption DEF TypeOK
            <4>2. Len(Append(ready, d)) = Len(ready) + 1
                BY <4>1, AppendProperties DEF TypeOK
            <4> QED  BY <1>0, <3>1, <4>2
        <3>4. Pledged' = 0
            BY <2>1 DEF Pledged
        <3> QED  BY <1>0, <3>2, <3>3, <3>4 DEF SupplyFits
    <2>3. CASE d \notin creating
        BY <1>0, <1>10, <1>A, <2>1, <2>3 DEF CreationFinished
    <2> QED  BY <2>2, <2>3
<1>11. CASE \/ Shutdown
            \/ \E l \in LeaseIds, g \in 1 .. next_generation : Detach(l, g)
            \/ \E d \in 1 .. next_database_id, ok \in BOOLEAN : CleanupFinished(d, ok)
    BY <1>0, <1>A, <1>11 DEF Shutdown, Detach, CleanupFinished
<1>12. CASE UNCHANGED vars \/ \E r \in Requests : BecomeOverdue(r)
    BY <1>0, <1>A, <1>12 DEF BecomeOverdue, vars, Pledged, Leased
<1> QED  BY <1>1, <1>2, <1>3, <1>4, <1>5, <1>6, <1>8, <1>9, <1>10, <1>11, <1>12 DEF Next

LEMMA QueuesInit ==
    ASSUME Init
    PROVE  QueueInv /\ NoLostCall /\ TokenInv /\ RecordsFit /\ SupplyFits
<1>1. /\ leases = [l \in LeaseIds |-> NoEntry] /\ NoEntry.generation = 0
      /\ lease_records = [l \in LeaseIds |-> "None"]
      /\ waiters = <<>> /\ group_waiters = [l \in LeaseIds |-> <<>>] /\ replies = <<>>
      /\ next_generation = 0 /\ cancelled = {} /\ pc = "idle" /\ creating = {}
      /\ Elements(<<>>) = {} /\ Distinct(<<>>)
      /\ \A r \in Requests : answer[r].status = "Fresh"
    BY DEF Init, NoEntry, Elements, Distinct, NotAsked
<1>2. QueueInv
    BY <1>1 DEF QueueInv, WaiterQueue, ServedGroup, HeldIsOpen, Leased
<1>3. NoLostCall
    BY <1>1 DEF NoLostCall
<1>4. TokenInv
    BY <1>1 DEF TokenInv, TokensFollowLeases, TokensIssued
<1>5. RecordsFit
    <2>1. Records = {}
        BY <1>1 DEF Records
    <2> QED  BY <2>1, FS_EmptySet, ConfigAssumption DEF RecordsFit
<1>6. SupplyFits
    <2>1. Len(ready) = InitialSlots
        BY InitialOrderType DEF Init
    <2>2. Pledged = 0 /\ Cardinality(creating) = 0
        BY <1>1, FS_EmptySet DEF Pledged
    <2> QED  BY <2>1, <2>2, ConfigAssumption DEF SupplyFits, SupplyLimit, Larger
<1> QED  BY <1>2, <1>3, <1>4, <1>5, <1>6

----------------------------------------------------------------------------

\* The invariants of this module, with the one the tokens rest on.
THEOREM QueuesHold == Spec => [](QueueInv /\ NoLostCall /\ TokenInv /\ RecordsFit)
<1>1. Init => QueueInv /\ NoLostCall /\ TokenInv /\ RecordsFit
    BY QueuesInit
<1>2. Inv => GenerationsIdentify
    BY DEF Inv, AssignmentsTraced
<1>3. /\ TypeOK /\ ServeOK /\ TypeOK' /\ GenerationsIdentify
      /\ QueueInv /\ NoLostCall /\ TokenInv /\ RecordsFit /\ [Next]_vars
      => QueueInv' /\ NoLostCall' /\ TokenInv' /\ RecordsFit'
    BY QueueStep, CallsStep, TokenStep, RecordsStep
<1> QED  BY <1>1, <1>2, <1>3, TypeCorrect, InvHolds, PTL DEF Spec

\* Every lease with waiting calls is queued exactly once, open and without a
\* database, and between two messages nobody waits while a database is ready:
\* dispatch_waiters loses no group, and its branches for a closed and for an
\* assigned lease are never taken.
THEOREM QueueIsInStep == Spec => []WaiterQueue
<1>1. QueueInv => WaiterQueue
    BY DEF QueueInv
<1> QED  BY <1>1, QueuesHold, PTL

\* Every attach call that waits is in one group, once, and no call is in a
\* group after it was answered: nobody is forgotten or answered twice.
THEOREM NoCallIsLost == Spec => []NoLostCall
BY QueuesHold, PTL

\* Until shutdown a cancellation token is live exactly as long as its
\* assignment: a session is never cut off from a lease that keeps its database,
\* and never survives one that does not.
THEOREM TokensLiveWithLeases == Spec => []TokensFollowLeases
<1>1. TokenInv => TokensFollowLeases
    BY DEF TokenInv
<1> QED  BY <1>1, QueuesHold, PTL

\* Unused databases stay within one batch of what all records waiting at once
\* would need, or within the initial slots, whatever fails and comes back.
THEOREM SupplyIsBounded == Spec => []SupplyBounded
<1>1. TypeOK /\ QueueInv /\ RecordsFit => WaitingFit
    BY WaitingHaveRecords DEF QueueInv
<1>2. Init => SupplyFits
    BY QueuesInit
<1>3. TypeOK /\ TypeOK' /\ ServeOK /\ QueueInv /\ WaitingFit' /\ SupplyFits /\ [Next]_vars
      => SupplyFits'
    BY SupplyStep
<1>4. TypeOK /\ SupplyFits => SupplyBounded
    <2> SUFFICES ASSUME TypeOK, SupplyFits PROVE SupplyBounded
        OBVIOUS
    <2>1. next_database_id \in Int /\ 1 \in Int /\ Len(ready) \in Nat
        BY WidthAssumption, LenProperties DEF TypeOK
    <2>2. IsFiniteSet(1 .. next_database_id)
        BY <2>1, FS_Interval
    <2>3. IsFiniteSet(creating)
        BY <2>2, FS_Subset DEF TypeOK
    <2>4. Cardinality(creating) \in Nat /\ Pledged \in {0, 1} /\ SupplyLimit \in Nat
        BY <2>3, FS_CardinalityType, ConfigAssumption DEF Pledged, SupplyLimit, Larger
    <2> QED  BY <2>1, <2>4 DEF SupplyFits, SupplyBounded, SupplyLimit
<1> QED  BY <1>1, <1>2, <1>3, <1>4, TypeCorrect, QueuesHold, PTL DEF Spec

----------------------------------------------------------------------------
(***************************************************************************)
(* The lease engine implements LeasePool, for every number of leases,      *)
(* calls and databases: under the mapping of EngineRefinement its initial  *)
(* states are the pool's, and every message, with every turn of the        *)
(* dispatch loop, is one step of the pool or invisible to callers.         *)
(*                                                                         *)
(* The step needs what is shown above of a reachable state: a database     *)
(* that is ready was never seen, a lease that holds one is open, and the   *)
(* calls of a group still wait.                                            *)
(***************************************************************************)

\* Only the answer to an attached call names a database.
PlainAnswers == \A q \in Requests : answer[q].status # "Attached" => answer[q].database = 0

LEMMA PlainAnswersStep ==
    ASSUME TypeOK, ServeOK, PlainAnswers, [Next]_vars
    PROVE  PlainAnswers'
<1> USE DEF inventory, dispatch
<1>0. answer \in [Requests -> Answers] /\ leases \in [LeaseIds -> Entries]
    BY DEF TypeOK
<1>A. ASSUME UNCHANGED answer PROVE PlainAnswers'
    BY <1>A DEF PlainAnswers
<1>B. ASSUME NEW r, NEW l, NEW status, answer' = Answered(r, l, status)
      PROVE  PlainAnswers'
    BY <1>0, <1>B DEF PlainAnswers, Answered
<1>C. ASSUME NEW calls, NEW l, answer' = Rejected(calls, l, "LeaseClosed")
      PROVE  PlainAnswers'
    BY <1>C DEF PlainAnswers, Rejected
<1>D. ASSUME NEW STATE r, r \in Requests, NEW STATE l, l \in LeaseIds,
             NEW STATE entry, entry \in Entries, NEW b \in BOOLEAN,
             ReplyAttached(r, l, entry, b)
      PROVE  PlainAnswers'
    BY <1>D, ReplyEffect DEF PlainAnswers
<1>1. ASSUME NEW l \in LeaseIds, NEW r \in Requests,
             NEW delivered \in BOOLEAN, NEW accepted \in BOOLEAN,
             AttachOrJoin(l, r, delivered, accepted)
      PROVE  PlainAnswers'
    <2>1. CASE AttachReject(l, r) \/ AttachQueue(l, r, accepted) \/ AttachUnclaimed(l, r)
        BY <1>B, <2>1 DEF AttachReject, AttachQueue, AttachUnclaimed
    <2>2. CASE AttachJoin(l, r, delivered)
        <3>1. leases[l] \in Entries
            BY <1>0
        <3> QED  BY <1>D, <2>2, <3>1 DEF AttachJoin
    <2>3. CASE AttachAssign(l, r, accepted)
        <3>1. NewEntry \in Entries
            BY <2>3, NewEntryType DEF AttachAssign
        <3>2. PICK b \in BOOLEAN : ReplyAttached(r, l, NewEntry, b)
            BY <2>3 DEF AttachAssign
        <3> QED  BY <1>D, <3>1, <3>2
    <2> QED  BY <1>1, <2>1, <2>2, <2>3 DEF AttachOrJoin
<1>2. CASE DispatchPop
    BY <1>2, <1>A, <1>C DEF DispatchPop
<1>3. CASE ServeOverdue
    BY <1>3, <1>0 DEF ServeOverdue, PlainAnswers, Answered
<1>4. ASSUME NEW delivered \in BOOLEAN, ServeReply(delivered)
      PROVE  PlainAnswers'
    <2>1. serving \in LeaseIds /\ (Leased(serving) \/ ready # <<>>)
        BY <1>4 DEF ServeReply, ServeOK
    <2>2. Head(replies) \in Requests
        BY <1>4, HeadTailProperties DEF ServeReply, TypeOK
    <2>3. CASE Leased(serving)
        <3>1. leases[serving] \in Entries
            BY <1>0, <2>1
        <3> QED  BY <1>4, <1>D, <2>1, <2>2, <2>3, <3>1 DEF ServeReply
    <2>4. CASE ~Leased(serving)
        <3>1. NewEntry \in Entries
            BY <2>1, <2>4, NewEntryType
        <3> QED  BY <1>4, <1>D, <2>1, <2>2, <2>4, <3>1 DEF ServeReply
    <2> QED  BY <2>3, <2>4
<1>5. ASSUME NEW l \in LeaseIds, NEW accepted \in BOOLEAN, ReleaseLease(l, accepted)
      PROVE  PlainAnswers'
    BY <1>5, <1>A, <1>C DEF ReleaseLease, ReleaseNothing, ReleaseOpen, vars
<1>6. CASE \/ ServeDone \/ Shutdown \/ UNCHANGED vars
           \/ \E accepted \in BOOLEAN : DispatchExit(accepted)
           \/ \E l \in LeaseIds, g \in 1 .. next_generation : Detach(l, g)
           \/ \E l \in LeaseIds, g \in 1 .. next_generation, accepted \in BOOLEAN :
                LeaseMaxTimeReached(l, g, accepted)
           \/ \E d \in 1 .. next_database_id, ok \in BOOLEAN :
                CreationFinished(d, ok) \/ CleanupFinished(d, ok)
           \/ \E r \in Requests : BecomeOverdue(r)
    BY <1>6, <1>A DEF ServeDone, Shutdown, vars, DispatchExit, Detach, LeaseMaxTimeReached,
        CreationFinished, CleanupFinished, BecomeOverdue
<1> QED  BY <1>1, <1>2, <1>3, <1>4, <1>5, <1>6 DEF Next

----------------------------------------------------------------------------
\* The mapping.

\* What a caller was told, by the status of its answer.
LEMMA ToldValue ==
    ASSUME TypeOK, PlainAnswers, NEW q \in Requests
    PROVE  /\ answer[q].status \in {"Fresh", "Waiting"} => PoolTold[q] = Pool!Pending
           /\ answer[q].status = "Attached" =>
                PoolTold[q] = Pool!Attachment(answer[q].lease, answer[q].database)
           /\ answer[q].status \notin {"Fresh", "Waiting", "Attached"} =>
                PoolTold[q] = Pool!Refusal
BY DEF PoolTold, Pool!Pending, Pool!Refusal, Pool!Attachment, PlainAnswers

\* The pool counts as the engine does.
LEMMA PoolCardinality ==
    ASSUME NEW S
    PROVE  Pool!Cardinality(S) = Cardinality(S)
BY DEF Pool!Cardinality, Cardinality

LEMMA AdmissionMaps ==
    ASSUME TypeOK, NEW l \in LeaseIds, Admission(l) = "Open"
    PROVE  Pool!Admissible(l)
<1>1. Pool!Known = Records
    BY DEF Pool!Known, Records, PoolStatus, TypeOK
<1>2. lease_records[l] \in {"None", "Open", "Closed"} /\ lease_records[l] # "Closed"
    BY DEF TypeOK, Admission
<1>3. lease_records[l] = "None" => Cardinality(Records) < MaxLeaseRecords
    <2>1. Cardinality(Records) \in Nat /\ MaxLeaseRecords \in Nat
        BY LeaseAssumption, FS_Subset, FS_CardinalityType, ConfigAssumption DEF Records
    <2> QED  BY <2>1 DEF Admission
<1> QED  BY <1>1, <1>2, <1>3, PoolCardinality DEF Pool!Admissible, PoolStatus

\* These calls, which were told nothing so far, are refused; the other answers
\* look to their callers as before.
LEMMA RefusalMaps ==
    ASSUME TypeOK, TypeOK', PlainAnswers, PlainAnswers', NEW STATE calls,
           calls \subseteq Requests,
           \A q \in calls : /\ answer[q].status \in {"Fresh", "Waiting"}
                            /\ answer'[q].status \notin {"Fresh", "Waiting", "Attached"},
           \A q \in Requests \ calls :
                \/ answer'[q] = answer[q]
                \/ /\ answer[q].status \in {"Fresh", "Waiting"}
                   /\ answer'[q].status \in {"Fresh", "Waiting"}
    PROVE  Pool!Tell(calls, Pool!Refusal)
<1>1. calls \subseteq Pool!PendingCalls
    BY ToldValue DEF Pool!PendingCalls
<1>2. ASSUME NEW q \in calls PROVE PoolTold'[q] = Pool!Refusal
    <2>1. q \in Requests /\ answer'[q].status \notin {"Fresh", "Waiting", "Attached"}
        BY <1>2
    <2> QED  BY <2>1 DEF PoolTold, Pool!Refusal, PlainAnswers
<1>3. ASSUME NEW q \in Requests \ calls PROVE PoolTold'[q] = PoolTold[q]
    <2>1. CASE answer'[q] = answer[q]
        BY <1>3, <2>1 DEF PoolTold
    <2>2. CASE /\ answer[q].status \in {"Fresh", "Waiting"}
               /\ answer'[q].status \in {"Fresh", "Waiting"}
        BY <1>3, <2>2 DEF PoolTold, PlainAnswers
    <2> QED  BY <1>3, <2>1, <2>2
<1>4. PoolTold' = [q \in Requests |-> IF q \in calls THEN Pool!Refusal ELSE PoolTold[q]]
    <2>1. /\ PoolTold' = [q \in Requests |-> PoolTold'[q]]
        BY DEF PoolTold
    <2> QED  BY <1>2, <1>3, <2>1
<1> QED  BY <1>1, <1>4 DEF Pool!Tell

\* One call is attached, the others are as before.
LEMMA AttachmentMaps ==
    ASSUME TypeOK, TypeOK', PlainAnswers, NEW STATE r, r \in Requests, NEW STATE l, NEW STATE d,
           answer[r].status \in {"Fresh", "Waiting"},
           answer'[r].status = "Attached", answer'[r].lease = l, answer'[r].database = d,
           \A q \in Requests \ {r} : answer'[q] = answer[q]
    PROVE  Pool!Tell({r}, Pool!Attachment(l, d))
<1>1. {r} \subseteq Pool!PendingCalls
    BY ToldValue DEF Pool!PendingCalls
<1>2. PoolTold'[r] = Pool!Attachment(l, d)
    BY DEF PoolTold, Pool!Attachment
<1>3. \A q \in Requests \ {r} : PoolTold'[q] = PoolTold[q]
    BY DEF PoolTold
<1>4. PoolTold' = [q \in Requests |->
                    IF q \in {r} THEN Pool!Attachment(l, d) ELSE PoolTold[q]]
    <2>1. /\ PoolTold' = [q \in Requests |-> PoolTold'[q]]
        BY DEF PoolTold
    <2> QED  BY <1>2, <1>3, <2>1
<1> QED  BY <1>1, <1>4 DEF Pool!Tell

LEMMA SameStatus ==
    ASSUME UNCHANGED lease_records
    PROVE  UNCHANGED PoolStatus
BY DEF PoolStatus

LEMMA SameHolds ==
    ASSUME \A k \in LeaseIds : leases'[k].database = leases[k].database
    PROVE  UNCHANGED PoolHolds
BY DEF PoolHolds

LEMMA SameTold ==
    ASSUME UNCHANGED answer
    PROVE  UNCHANGED PoolTold
BY DEF PoolTold

\* A reply to a call of a lease that holds a database.
LEMMA JoinMaps ==
    ASSUME TypeOK, TypeOK', Inv, QueueInv, PlainAnswers, PlainAnswers',
           NEW STATE r, r \in Requests, NEW STATE l, l \in LeaseIds, Leased(l),
           answer[r].status \in {"Fresh", "Waiting"},
           NEW b \in BOOLEAN, ReplyAttached(r, l, leases[l], b), UNCHANGED lease_records
    PROVE  Pool!PoolNext
<1>1. leases[l] \in Entries
    BY DEF TypeOK
<1>2. /\ \A k \in LeaseIds \ {l} : leases'[k] = leases[k]
      /\ leases'[l].database = leases[l].database
      /\ \A q \in Requests \ {r} : answer'[q] = answer[q]
      /\ answer'[r].status \in {"Attached", "Undelivered", "FailedToAttach"}
      /\ answer'[r].status = "Attached" =>
            answer'[r].lease = l /\ answer'[r].database = leases[l].database
    BY <1>1, ReplyEffect
<1>3. UNCHANGED <<PoolStatus, PoolHolds>>
    BY <1>2, SameStatus, SameHolds
<1>4. CASE answer'[r].status = "Attached"
    <2>1. PoolHolds[l] = leases[l].database /\ PoolHolds[l] # 0
        BY DEF PoolHolds, Inv, OnePlacePerDatabase
    <2>2. PoolStatus[l] = "Open"
        BY DEF QueueInv, HeldIsOpen, PoolStatus
    <2>3. Pool!Tell({r}, Pool!Attachment(l, PoolHolds[l]))
        BY <1>2, <1>4, <2>1, AttachmentMaps
    <2>4. Pool!Join(l, r)
        BY <1>3, <2>1, <2>2, <2>3 DEF Pool!Join
    <2> QED  BY <2>4 DEF Pool!PoolNext
<1>5. CASE answer'[r].status # "Attached"
    <2>1. Pool!Tell({r}, Pool!Refusal)
        BY <1>2, <1>5, RefusalMaps
    <2>2. Pool!Refuse({r})
        BY <1>3, <2>1 DEF Pool!Refuse
    <2> QED  BY <2>2 DEF Pool!PoolNext
<1> QED  BY <1>4, <1>5

\* A reply with which a lease takes the first ready database.
LEMMA AssignMaps ==
    ASSUME TypeOK, TypeOK', Inv, QueueInv, PlainAnswers, PlainAnswers',
           NEW STATE r, r \in Requests, NEW STATE l, l \in LeaseIds, ~Leased(l), ready # <<>>,
           answer[r].status \in {"Fresh", "Waiting"}, Admission(l) = "Open",
           NEW b \in BOOLEAN, ReplyAttached(r, l, NewEntry, b),
           lease_records' = [lease_records EXCEPT ![l] = "Open"]
    PROVE  Pool!PoolNext
<1> DEFINE d == ready[1]
<1>1. NewEntry \in Entries /\ NewEntry.database = d
    BY NewEntryType
<1>2. /\ \A k \in LeaseIds \ {l} : leases'[k] = leases[k]
      /\ leases'[l].database = d
      /\ \A q \in Requests \ {r} : answer'[q] = answer[q]
      /\ answer'[r].status \in {"Attached", "Undelivered", "FailedToAttach"}
      /\ answer'[r].status = "Attached" => answer'[r].lease = l /\ answer'[r].database = d
    BY <1>1, ReplyEffect
<1>3. d \in Elements(ready) /\ d \in 1 .. next_database_id /\ d \in 1 .. MaxDatabaseId
    <2>1. d \in Elements(ready)
        BY TailElements DEF TypeOK, Inv, OnePlacePerDatabase
    <2>2. d \in 1 .. next_database_id
        BY <2>1 DEF Inv, OnePlacePerDatabase
    <2> QED  BY <2>1, <2>2, WidthAssumption DEF TypeOK
<1> HIDE DEF d
<1>4. Pool!Unused(d)
    <2>1. \A k \in LeaseIds : PoolHolds[k] # d
        BY <1>3 DEF PoolHolds, Inv, OnePlacePerDatabase, QueueInv, HeldIsOpen, NoEntry
    <2>2. ASSUME NEW q \in Requests, PoolTold[q].status = "Attached"
          PROVE  PoolTold[q].database # d
        <3>1. answer[q].status = "Attached" /\ PoolTold[q].database = answer[q].database
            BY <2>2 DEF PoolTold
        <3> QED  BY <1>3, <3>1 DEF Inv, NoDirtyReuse, AttachedCalls
    <2> QED  BY <2>1, <2>2 DEF Pool!Unused, Pool!Seen
<1>5. PoolHolds[l] = 0
    BY DEF PoolHolds, QueueInv, HeldIsOpen, NoEntry
<1>6. PoolStatus' = [PoolStatus EXCEPT ![l] = "Open"]
    BY DEF PoolStatus, TypeOK
<1>7. PoolHolds' = [PoolHolds EXCEPT ![l] = d]
    BY <1>2 DEF PoolHolds
<1>8. Pool!Admissible(l)
    BY AdmissionMaps
<1>9. Pool!Tell({r}, Pool!Attachment(l, d)) \/ Pool!Tell({r}, Pool!Refusal)
    <2>1. CASE answer'[r].status = "Attached"
        BY <1>2, <2>1, AttachmentMaps
    <2>2. CASE answer'[r].status # "Attached"
        BY <1>2, <2>2, RefusalMaps
    <2> QED  BY <2>1, <2>2
<1>10. Pool!Assign(l, d)
    BY <1>4, <1>5, <1>6, <1>7, <1>8, <1>9 DEF Pool!Assign
<1> QED  BY <1>3, <1>10 DEF Pool!PoolNext

\* A lease gives its database up.
LEMMA VacateMaps ==
    ASSUME TypeOK, NEW STATE l, l \in LeaseIds, leases' = [leases EXCEPT ![l] = NoEntry],
           UNCHANGED <<lease_records, answer>>
    PROVE  Pool!PoolNext
<1>1. PoolHolds' = [PoolHolds EXCEPT ![l] = 0]
    BY DEF PoolHolds, TypeOK, NoEntry
<1>2. Pool!Vacate(l)
    BY <1>1, SameStatus, SameTold DEF Pool!Vacate
<1> QED  BY <1>2 DEF Pool!PoolNext

LEMMA PoolStep ==
    ASSUME TypeOK, TypeOK', ServeOK, Inv, QueueInv, NoLostCall, PlainAnswers, PlainAnswers',
           [Next]_vars
    PROVE  [Pool!PoolNext]_(Pool!poolvars)
<1> USE DEF inventory, dispatch
<1>0. /\ answer \in [Requests -> Answers] /\ leases \in [LeaseIds -> Entries]
      /\ lease_records \in [LeaseIds -> {"None", "Open", "Closed"}]
    BY DEF TypeOK
\* Steps that callers do not see.
<1>A. ASSUME UNCHANGED <<lease_records, answer>>,
             \A k \in LeaseIds : leases'[k].database = leases[k].database
      PROVE  UNCHANGED Pool!poolvars
    BY <1>A, SameStatus, SameHolds, SameTold DEF Pool!poolvars
<1>1. ASSUME NEW l \in LeaseIds, NEW r \in Requests,
             NEW delivered \in BOOLEAN, NEW accepted \in BOOLEAN,
             AttachOrJoin(l, r, delivered, accepted)
      PROVE  Pool!PoolNext
    <2>0. answer[r].status = "Fresh"
        BY <1>1 DEF AttachOrJoin, NotAsked
    <2>1. CASE AttachReject(l, r)
        <3>1. /\ answer'[r].status \in {"LeaseClosed", "LeaseRecordLimitReached"}
              /\ \A q \in Requests \ {r} : answer'[q] = answer[q]
            BY <1>0, <2>1 DEF AttachReject, Answered
        <3>2. Pool!Tell({r}, Pool!Refusal)
            BY <2>0, <3>1, RefusalMaps
        <3>3. UNCHANGED <<PoolStatus, PoolHolds>>
            BY <2>1, SameStatus, SameHolds DEF AttachReject
        <3>4. Pool!Refuse({r})
            BY <3>2, <3>3 DEF Pool!Refuse
        <3> QED  BY <3>4 DEF Pool!PoolNext
    <2>2. CASE AttachJoin(l, r, delivered)
        <3>1. UNCHANGED lease_records
            BY <1>0, <2>2 DEF AttachJoin, Admitted, QueueInv, HeldIsOpen
        <3> QED  BY <2>0, <2>2, <3>1, JoinMaps DEF AttachJoin
    <2>3. CASE AttachQueue(l, r, accepted)
        <3>1. /\ answer'[r].status = "Waiting"
              /\ \A q \in Requests \ {r} : answer'[q] = answer[q]
              /\ UNCHANGED leases
              /\ lease_records' = [lease_records EXCEPT ![l] = "Open"]
              /\ Admission(l) = "Open"
            BY <1>0, <2>3 DEF AttachQueue, Answered, Admitted
        <3>2. Pool!Tell({}, Pool!Refusal)
            BY <2>0, <3>1, RefusalMaps
        <3>3. PoolStatus' = [PoolStatus EXCEPT ![l] = "Open"]
            BY <1>0, <3>1 DEF PoolStatus
        <3>4. Pool!Admit(l, {})
            BY <3>1, <3>2, <3>3, AdmissionMaps, SameHolds DEF Pool!Admit
        <3> QED  BY <3>4 DEF Pool!PoolNext
    <2>4. CASE AttachAssign(l, r, accepted)
        <3>1. PICK b \in BOOLEAN : ReplyAttached(r, l, NewEntry, b)
            BY <2>4 DEF AttachAssign
        <3>2. /\ lease_records' = [lease_records EXCEPT ![l] = "Open"] /\ Admission(l) = "Open"
              /\ ~Leased(l) /\ ready # <<>>
            BY <2>4 DEF AttachAssign, Admitted
        <3> QED  BY <2>0, <3>1, <3>2, AssignMaps
    <2>5. CASE AttachUnclaimed(l, r)
        <3>1. /\ answer'[r].status = "Undelivered"
              /\ \A q \in Requests \ {r} : answer'[q] = answer[q]
              /\ UNCHANGED leases
              /\ lease_records' = [lease_records EXCEPT ![l] = "Open"]
              /\ Admission(l) = "Open"
            BY <1>0, <2>5 DEF AttachUnclaimed, Answered, Admitted
        <3>2. Pool!Tell({r}, Pool!Refusal)
            BY <2>0, <3>1, RefusalMaps
        <3>3. PoolStatus' = [PoolStatus EXCEPT ![l] = "Open"]
            BY <1>0, <3>1 DEF PoolStatus
        <3>4. Pool!Admit(l, {r})
            BY <3>1, <3>2, <3>3, AdmissionMaps, SameHolds DEF Pool!Admit
        <3> QED  BY <3>4 DEF Pool!PoolNext
    <2> QED  BY <1>1, <2>1, <2>2, <2>3, <2>4, <2>5 DEF AttachOrJoin
<1>2. CASE DispatchPop
    <2>1. UNCHANGED <<leases, lease_records, answer>>
        BY <1>2, PopEffect DEF QueueInv
    <2> QED  BY <1>A, <2>1
<1>3. ASSUME pc = "serve", replies # <<>>
      PROVE  /\ Head(replies) \in Requests /\ answer[Head(replies)].status = "Waiting"
             /\ serving \in LeaseIds /\ lease_records[serving] = "Open"
             /\ Leased(serving) \/ ready # <<>>
    <2>1. replies \in Seq(Requests) /\ Distinct(replies)
        BY DEF TypeOK, NoLostCall
    <2>2. Head(replies) = replies[1] /\ Head(replies) \in Requests
        BY <1>3, <2>1, HeadTailProperties
    <2>3. Head(replies) \in Elements(replies)
        BY <1>3, <2>1, <2>2, TailElements
    <2> QED  BY <1>3, <2>2, <2>3 DEF NoLostCall, ServeOK, QueueInv, ServedGroup
<1>4. CASE ServeOverdue
    <2> DEFINE h == Head(replies)
    <2>1. h \in Requests /\ answer[h].status = "Waiting"
        BY <1>3, <1>4 DEF ServeOverdue
    <2>2. /\ answer'[h].status = "Dropped"
          /\ \A q \in Requests \ {h} : answer'[q] = answer[q]
          /\ UNCHANGED <<lease_records, leases>>
        BY <1>0, <1>4, <2>1 DEF ServeOverdue, Answered
    <2> HIDE DEF h
    <2>3. Pool!Tell({h}, Pool!Refusal)
        BY <2>1, <2>2, RefusalMaps
    <2>4. Pool!Refuse({h})
        BY <2>2, <2>3, SameStatus, SameHolds DEF Pool!Refuse
    <2> QED  BY <2>1, <2>4 DEF Pool!PoolNext
<1>5. ASSUME NEW delivered \in BOOLEAN, ServeReply(delivered)
      PROVE  Pool!PoolNext
    <2>1. /\ Head(replies) \in Requests /\ answer[Head(replies)].status = "Waiting"
          /\ serving \in LeaseIds /\ lease_records[serving] = "Open"
          /\ Leased(serving) \/ ready # <<>>
          /\ UNCHANGED lease_records
        BY <1>3, <1>5 DEF ServeReply
    <2>2. CASE Leased(serving)
        BY <1>5, <2>1, <2>2, JoinMaps DEF ServeReply
    <2>3. CASE ~Leased(serving)
        <3>1. Admission(serving) = "Open"
            BY <2>1 DEF Admission
        <3>2. lease_records' = [lease_records EXCEPT ![serving] = "Open"]
            BY <1>0, <2>1
        <3> QED  BY <1>5, <2>1, <2>3, <3>1, <3>2, AssignMaps DEF ServeReply
    <2> QED  BY <2>2, <2>3
<1>6. CASE ServeDone
    <2>1. serving \in LeaseIds /\ UNCHANGED <<lease_records, answer>>
        BY <1>6 DEF ServeDone, ServeOK
    <2>2. CASE ~already_assigned /\ Unclaimed(serving)
        BY <1>6, <2>1, <2>2, VacateMaps DEF ServeDone
    <2>3. CASE ~(~already_assigned /\ Unclaimed(serving))
        BY <1>6, <1>A, <2>1, <2>3 DEF ServeDone
    <2> QED  BY <2>2, <2>3
<1>7. ASSUME NEW l \in LeaseIds, NEW accepted \in BOOLEAN, ReleaseLease(l, accepted)
      PROVE  [Pool!PoolNext]_(Pool!poolvars)
    <2>1. CASE ReleaseNothing(l)
        BY <1>A, <2>1 DEF ReleaseNothing, vars
    <2>2. CASE ReleaseOpen(l, accepted)
        <3> DEFINE calls == Elements(group_waiters[l])
        <3>1. /\ Admission(l) = "Open"
              /\ lease_records' = [lease_records EXCEPT ![l] = "Closed"]
              /\ answer' = Rejected(calls, l, "LeaseClosed")
              /\ RetireLease(l, accepted)
            BY <2>2 DEF ReleaseOpen
        <3>2. calls \subseteq Requests
            <4>1. group_waiters[l] \in Seq(Requests)
                BY DEF TypeOK
            <4> QED  BY <4>1, LenProperties DEF Elements
        <3>3. \A q \in calls : answer[q].status = "Waiting"
            BY <3>2 DEF NoLostCall
        <3> HIDE DEF calls
        <3>4. /\ \A q \in calls : answer'[q].status = "LeaseClosed"
              /\ \A q \in Requests \ calls : answer'[q] = answer[q]
            BY <3>1, <3>2 DEF Rejected
        <3>5. Pool!Tell(calls, Pool!Refusal)
            BY <3>2, <3>3, <3>4, RefusalMaps
        <3>6. leases' = [leases EXCEPT ![l] = NoEntry]
            BY <1>0, <3>1 DEF RetireLease, QueueInv, HeldIsOpen
        <3>7. PoolHolds' = [PoolHolds EXCEPT ![l] = 0]
            BY <1>0, <3>6 DEF PoolHolds, NoEntry
        <3>8. PoolStatus' = [PoolStatus EXCEPT ![l] = "Closed"]
            BY <1>0, <3>1 DEF PoolStatus
        <3>9. Pool!Close(l, calls)
            BY <3>1, <3>5, <3>7, <3>8, AdmissionMaps DEF Pool!Close
        <3> QED  BY <3>2, <3>9 DEF Pool!PoolNext
    <2> QED  BY <1>7, <2>1, <2>2 DEF ReleaseLease
<1>8. ASSUME NEW l \in LeaseIds, NEW g \in 1 .. next_generation, Detach(l, g)
      PROVE  UNCHANGED Pool!poolvars
    <2>1. \A k \in LeaseIds : leases'[k].database = leases[k].database
        BY <1>0, <1>8 DEF Detach, Entries
    <2> QED  BY <1>8, <1>A, <2>1 DEF Detach
<1>9. ASSUME NEW l \in LeaseIds, NEW g \in 1 .. next_generation, NEW accepted \in BOOLEAN,
             LeaseMaxTimeReached(l, g, accepted)
      PROVE  [Pool!PoolNext]_(Pool!poolvars)
    <2>1. CASE Leased(l) /\ leases[l].generation = g
        BY <1>9, <2>1, VacateMaps DEF LeaseMaxTimeReached, RetireLease
    <2>2. CASE ~(Leased(l) /\ leases[l].generation = g)
        BY <1>9, <1>A, <2>2 DEF LeaseMaxTimeReached
    <2> QED  BY <2>1, <2>2
<1>10. CASE \/ Shutdown \/ UNCHANGED vars
            \/ \E accepted \in BOOLEAN : DispatchExit(accepted)
            \/ \E d \in 1 .. next_database_id, ok \in BOOLEAN :
                CreationFinished(d, ok) \/ CleanupFinished(d, ok)
            \/ \E r \in Requests : BecomeOverdue(r)
    BY <1>10, <1>A DEF Shutdown, vars, DispatchExit, CreationFinished, CleanupFinished,
        BecomeOverdue
<1> QED  BY <1>1, <1>2, <1>4, <1>5, <1>6, <1>7, <1>8, <1>9, <1>10 DEF Next

LEMMA PoolStart ==
    ASSUME Init
    PROVE  Pool!PoolInit /\ PlainAnswers
<1>1. PlainAnswers
    BY DEF Init, PlainAnswers, NotAsked
<1>2. PoolStatus = [l \in LeaseIds |-> "Unknown"] /\ PoolHolds = [l \in LeaseIds |-> 0]
    BY DEF Init, PoolStatus, PoolHolds, NoEntry
<1>3. PoolTold = [r \in Requests |-> Pool!Pending]
    BY DEF Init, PoolTold, NotAsked, Pool!Pending
<1> QED  BY <1>1, <1>2, <1>3 DEF Pool!PoolInit

\* The engine implements the pool, whatever messages reach it and however its
\* replies, workers and timers fare: a closed lease stays closed and is given
\* nothing, the records never outgrow their limit, an answer is final, and a
\* database that somebody was attached to is never given out again.
THEOREM EngineImplementsPool == Spec => ImplementsLeasePool
<1>1. Init => Pool!PoolInit /\ PlainAnswers
    BY PoolStart
<1>2. TypeOK /\ ServeOK /\ PlainAnswers /\ [Next]_vars => PlainAnswers'
    BY PlainAnswersStep
<1>3. /\ TypeOK /\ TypeOK' /\ ServeOK /\ Inv /\ QueueInv /\ NoLostCall
      /\ PlainAnswers /\ PlainAnswers' /\ [Next]_vars
      => [Pool!PoolNext]_(Pool!poolvars)
    BY PoolStep
<1> QED  BY <1>1, <1>2, <1>3, TypeCorrect, InvHolds, QueuesHold, PTL
         DEF Spec, ImplementsLeasePool, Pool!PoolSpec

=============================================================================
