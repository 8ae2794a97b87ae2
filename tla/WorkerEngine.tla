---------------------------- MODULE WorkerEngine ----------------------------
(***************************************************************************)
(* The lease engine of crates/pgtest-core/src/worker_engine: core.rs and   *)
(* database_inventory.rs.                                                  *)
(*                                                                         *)
(* One task owns all of this state and handles one inbox message at a      *)
(* time, without awaiting inside a handler.  Every message handler is one  *)
(* action.  The exception is the loop of dispatch_waiters, which answers   *)
(* other tasks one by one: it is unfolded into one step per queue entry    *)
(* and one per reply, because what the loop observes (whether a waiter is  *)
(* overdue, whether a receiver is still there) can change while it runs.   *)
(* `pc' holds the position in the loop, and no other message is handled    *)
(* until it is back at "idle".                                             *)
(*                                                                         *)
(* This module leaves the rest of the program open: the engine may be sent *)
(* any attach, release, detach, expiry or worker result at any time, also  *)
(* stale, repeated and unknown ones, a reply may or may not find its       *)
(* receiver, and a request to a background worker may fail.  WorkerManager *)
(* closes it with the tasks that really produce these messages.            *)
(*                                                                         *)
(* A database is identified by its DatabaseId; its name is a function of   *)
(* the creation and carries no more information.  The counters of          *)
(* EngineCounters are only observed by tests and are left out.             *)
(***************************************************************************)
EXTENDS Integers, Sequences, FiniteSets

CONSTANTS
    LeaseIds,              \* lease identities clients use
    NoLease,               \* not a lease identity
    Requests,              \* attach calls; each is made at most once
    InitialSlots,          \* config.initial_slots
    StarvationThreshold,   \* config.starvation_threshold
    GrowBatchSize,         \* config.grow_batch_size; 0 disables growth
    ClaimTimeoutEnabled,   \* config.lease_claim_timeout_ms > 0
    MaxLeaseRecords,       \* config.max_lease_records
    MaxConns,              \* u16::MAX, the largest LeaseEntry.conns
    MaxDatabaseId          \* u64::MAX, the largest DatabaseId

ASSUME LeaseAssumption ==
    IsFiniteSet(LeaseIds) /\ NoLease \notin LeaseIds

ASSUME ConfigAssumption ==
    /\ InitialSlots \in Nat
    /\ StarvationThreshold \in Nat
    /\ GrowBatchSize \in Nat
    /\ ClaimTimeoutEnabled \in BOOLEAN
    /\ MaxLeaseRecords \in Nat \ {0}

ASSUME WidthAssumption ==
    MaxConns \in Nat \ {0} /\ MaxDatabaseId \in Nat /\ InitialSlots <= MaxDatabaseId

VARIABLES
    leases,             \* lease -> LeaseEntry, NoEntry when absent
    lease_records,      \* lease -> LeaseStatus, "None" when absent
    next_generation,    \* generation of the last assignment
    waiters,            \* FIFO of leases that wait for a database
    group_waiters,      \* lease -> attach calls waiting for it
    next_database_id,   \* last reserved DatabaseId
    creating,           \* reserved, creation not finished
    ready,              \* FIFO of created, unused databases
    retiring,           \* retired, not yet dropped
    answer,             \* attach call -> what the engine replied
    overdue,            \* attach calls older than lease_claim_timeout_ms
    cancelled,          \* generations whose cancellation token is cancelled
    pc,                 \* position in dispatch_waiters
    serving,            \* lease dispatch_waiters has popped
    replies,            \* its attach calls still to be answered
    already_assigned    \* it had a database when it was popped

inventory == <<next_database_id, creating, ready, retiring>>
dispatch == <<pc, serving, replies, already_assigned>>
vars == <<leases, lease_records, next_generation, waiters, group_waiters,
          inventory, answer, overdue, cancelled, dispatch>>

Statuses == {"Fresh", "Waiting", "Attached", "Undelivered", "FailedToAttach",
             "LeaseClosed", "LeaseRecordLimitReached", "Dropped"}

NoEntry == [database |-> 0, conns |-> 0, generation |-> 0]

NotAsked == [status |-> "Fresh", lease |-> NoLease, database |-> 0, generation |-> 0]

Entries == [database : Nat, conns : 0 .. MaxConns, generation : Nat]

Answers == [status : Statuses, lease : LeaseIds \cup {NoLease},
            database : Nat, generation : Nat]

Elements(s) == {s[i] : i \in DOMAIN s}

\* Generations start at 1, so only NoEntry is of generation 0.
Leased(l) == leases[l].generation # 0

LeasedDatabases == {leases[l].database : l \in {k \in LeaseIds : Leased(k)}}

----------------------------------------------------------------------------
\* Startup: try_init has created every initial database, in any order of
\* completion, before the engine handles its first message.

InitialOrders ==
    {s \in [1 .. InitialSlots -> 1 .. InitialSlots] :
        \A i, j \in 1 .. InitialSlots : s[i] = s[j] => i = j}

Init ==
    /\ leases = [l \in LeaseIds |-> NoEntry]
    /\ lease_records = [l \in LeaseIds |-> "None"]
    /\ next_generation = 0
    /\ waiters = <<>>
    /\ group_waiters = [l \in LeaseIds |-> <<>>]
    /\ next_database_id = InitialSlots
    /\ creating = {}
    /\ ready \in InitialOrders
    /\ retiring = {}
    /\ answer = [r \in Requests |-> NotAsked]
    /\ overdue = {}
    /\ cancelled = {}
    /\ pc = "idle"
    /\ serving = NoLease
    /\ replies = <<>>
    /\ already_assigned = FALSE

----------------------------------------------------------------------------
\* DatabaseInventory: what its operations make of creating, ready and retiring.

\* reserve_creations: the next `amount' identities, which are never reused.
Reservation(amount) == next_database_id + 1 .. next_database_id + amount

\* Faulty variant: a failed creation keeps its reservation.
SettlesSuccess(d, ok) == IF ok THEN creating \ {d} ELSE creating

\* complete_creation of a reserved database: the reservation ends either way,
\* a database that was created joins the supply at the end.
Settled(d, ok) == creating \ {d}

Supplied(d, ok) == IF ok THEN Append(ready, d) ELSE ready

\* return_ready: ahead of unused supply.
ReturnReady(d, supply) == <<d>> \o supply

\* retire: recorded before cleanup is requested.
Retired(d) == retiring \cup {d}

\* Faulty variant: a failed drop is forgotten too.
ForgetsFailedCleanup(d, ok) == retiring \ {d}

\* complete_cleanup: only a database that was dropped is forgotten.
CompleteCleanup(d, ok) == IF ok THEN retiring \ {d} ELSE retiring

----------------------------------------------------------------------------
\* Growth.

IsOverdue(r) == ClaimTimeoutEnabled /\ r \in overdue

\* Leases without a database for which at least one attach call still waits.
WaitingLeases ==
    {l \in LeaseIds :
        ~Leased(l) /\ \E i \in DOMAIN group_waiters[l] : ~IsOverdue(group_waiters[l][i])}

\* Free supply grow aims for: one per waiting lease and the inclusive threshold.
Required == Cardinality(WaitingLeases) + StarvationThreshold + 1

\* Faulty variant: databases that exist or are being created do not count.
GrowsBlindly(required, supply) == IF GrowBatchSize = 0 THEN 0 ELSE GrowBatchSize

\* Faulty variant: the threshold is exclusive.
GrowsOneShort(required, supply) ==
    IF GrowBatchSize = 0 \/ supply >= required - 1 THEN 0 ELSE GrowBatchSize

\* Databases to reserve: the deficit, rounded up to whole batches.
GrowCount(required, supply) ==
    IF GrowBatchSize = 0 \/ supply >= required
    THEN 0
    ELSE ((required - supply + GrowBatchSize - 1) \div GrowBatchSize) * GrowBatchSize

\* The trailing grow() of a handler, after the handler's other assignments.
\* `base' is `creating' as the handler left it; a reservation whose request
\* the creation worker does not accept is cancelled, its identities are spent.
Grow(base, accepted) ==
    LET count == GrowCount(Required', Len(ready') + Cardinality(base))
    IN  /\ next_database_id + count <= MaxDatabaseId
        /\ next_database_id' = next_database_id + count
        /\ creating' = IF accepted
                       THEN base \cup Reservation(count)
                       ELSE base

----------------------------------------------------------------------------
\* Replies.

Answered(r, l, status) ==
    [answer EXCEPT ![r] = [status |-> status, lease |-> l, database |-> 0, generation |-> 0]]

\* Faulty variant: the calls are forgotten instead of rejected.
ForgetsCalls(calls, l, status) == answer

Rejected(calls, l, status) ==
    [r \in Requests |->
        IF r \in calls
        THEN [status |-> status, lease |-> l, database |-> 0, generation |-> 0]
        ELSE answer[r]]

\* Faulty variant: the addition is not checked.
CountsPastLimit(entry, delivered) == IF delivered THEN entry.conns + 1 ELSE entry.conns

\* reply_attached counts the connection first and takes it back when the
\* receiver is gone; at u16::MAX it answers FailedToAttach instead.
ConnsAfterReply(entry, delivered) ==
    IF entry.conns < MaxConns /\ delivered THEN entry.conns + 1 ELSE entry.conns

ReplyAttached(r, l, entry, delivered) ==
    /\ leases' = [leases EXCEPT ![l] =
                    [entry EXCEPT !.conns = ConnsAfterReply(entry, delivered)]]
    /\ answer' = IF entry.conns = MaxConns THEN Answered(r, l, "FailedToAttach")
                 ELSE IF ~delivered THEN Answered(r, l, "Undelivered")
                 ELSE [answer EXCEPT ![r] = [status     |-> "Attached",
                                             lease      |-> l,
                                             database   |-> entry.database,
                                             generation |-> entry.generation]]

\* assign_database: the head of `ready' under a fresh generation.
NewEntry ==
    [database |-> Head(ready), conns |-> 0, generation |-> next_generation + 1]

----------------------------------------------------------------------------
\* admit_lease: the status of a known lease, else room for one more record.

Records == {l \in LeaseIds : lease_records[l] # "None"}

\* Faulty variant: a known lease is taken to be open.
AdmitsClosed(l) ==
    IF lease_records[l] = "None" /\ Cardinality(Records) >= MaxLeaseRecords
    THEN "LimitReached" ELSE "Open"

Admission(l) ==
    IF lease_records[l] # "None" THEN lease_records[l]
    ELSE IF Cardinality(Records) >= MaxLeaseRecords THEN "LimitReached"
    ELSE "Open"

Admitted(l) ==
    IF Admission(l) = "Open" THEN [lease_records EXCEPT ![l] = "Open"] ELSE lease_records

----------------------------------------------------------------------------
\* retire_lease: cancel the entry's token, record the retirement, then ask
\* for the cleanup.  A failed cleanup request only leaves the record behind,
\* so nothing in the engine's state depends on it.

\* Faulty variant: the token is not cancelled.
RetireUncancelled(l, accepted) ==
    IF Leased(l)
    THEN /\ leases' = [leases EXCEPT ![l] = NoEntry]
         /\ retiring' = Retired(leases[l].database)
         /\ UNCHANGED cancelled
         /\ Grow(creating, accepted)
    ELSE UNCHANGED <<leases, cancelled, retiring, next_database_id, creating>>

\* Faulty variant: the lease keeps its entry.
RetireKeepsLease(l, accepted) ==
    IF Leased(l)
    THEN /\ cancelled' = cancelled \cup {leases[l].generation}
         /\ retiring' = Retired(leases[l].database)
         /\ UNCHANGED leases
         /\ Grow(creating, accepted)
    ELSE UNCHANGED <<leases, cancelled, retiring, next_database_id, creating>>

RetireLease(l, accepted) ==
    IF Leased(l)
    THEN /\ leases' = [leases EXCEPT ![l] = NoEntry]
         /\ cancelled' = cancelled \cup {leases[l].generation}
         /\ retiring' = Retired(leases[l].database)
         /\ Grow(creating, accepted)
    ELSE UNCHANGED <<leases, cancelled, retiring, next_database_id, creating>>

----------------------------------------------------------------------------
\* AttachOrJoin.

AttachReject(l, r) ==
    /\ Admission(l) \in {"Closed", "LimitReached"}
    /\ answer' = Answered(r, l, IF Admission(l) = "Closed"
                                THEN "LeaseClosed" ELSE "LeaseRecordLimitReached")
    /\ UNCHANGED <<leases, lease_records, next_generation, waiters, group_waiters,
                   inventory, overdue, cancelled, dispatch>>

\* The lease has a database: join it.  An undelivered reply leaves the lease
\* as it was, also when no connection is left on it.
AttachJoin(l, r, delivered) ==
    /\ Admission(l) = "Open"
    /\ Leased(l)
    /\ ReplyAttached(r, l, leases[l], delivered)
    /\ lease_records' = Admitted(l)
    /\ UNCHANGED <<next_generation, waiters, group_waiters, inventory, overdue,
                   cancelled, dispatch>>

\* No database is ready: wait, behind the leases that already do.
AttachQueue(l, r, accepted) ==
    /\ Admission(l) = "Open"
    /\ ~Leased(l)
    /\ ready = <<>>
    /\ lease_records' = Admitted(l)
    /\ waiters' = IF group_waiters[l] = <<>> THEN Append(waiters, l) ELSE waiters
    /\ group_waiters' = [group_waiters EXCEPT ![l] = Append(@, r)]
    /\ answer' = Answered(r, l, "Waiting")
    /\ UNCHANGED <<leases, next_generation, ready, retiring, overdue, cancelled, dispatch>>
    /\ Grow(creating, accepted)

\* A database is ready and the reply is delivered.
AttachAssign(l, r, accepted) ==
    /\ Admission(l) = "Open"
    /\ ~Leased(l)
    /\ ready # <<>>
    /\ lease_records' = Admitted(l)
    /\ next_generation' = next_generation + 1
    /\ ready' = Tail(ready)
    /\ ReplyAttached(r, l, NewEntry, TRUE)
    /\ UNCHANGED <<waiters, group_waiters, retiring, overdue, cancelled, dispatch>>
    /\ Grow(creating, accepted)

\* A database is ready but the caller is gone: restore_unclaimed_database
\* takes the assignment back, puts the database in front again, and
\* dispatch_waiters runs before the trailing grow.
AttachUnclaimed(l, r) ==
    /\ Admission(l) = "Open"
    /\ ~Leased(l)
    /\ ready # <<>>
    /\ lease_records' = Admitted(l)
    /\ next_generation' = next_generation + 1
    /\ cancelled' = cancelled \cup {next_generation + 1}
    /\ ready' = ReturnReady(NewEntry.database, Tail(ready))
    /\ answer' = Answered(r, l, "Undelivered")
    /\ pc' = "dispatch"
    /\ UNCHANGED <<leases, waiters, group_waiters, next_database_id, creating, retiring,
                   overdue, serving, replies, already_assigned>>

AttachOrJoin(l, r, delivered, accepted) ==
    /\ pc = "idle"
    /\ answer[r] = NotAsked
    /\ \/ AttachReject(l, r)
       \/ AttachJoin(l, r, delivered)
       \/ AttachQueue(l, r, accepted)
       \/ delivered /\ AttachAssign(l, r, accepted)
       \/ ~delivered /\ AttachUnclaimed(l, r)

----------------------------------------------------------------------------
\* dispatch_waiters.

\* Pop the next waiting lease.  A lease closed meanwhile has its calls
\* rejected; an entry without calls is skipped, which is the loop of
\* ServeReply over no reply.
DispatchPop ==
    LET l == Head(waiters)
        closed == lease_records[l] = "Closed"
    IN  /\ pc = "dispatch"
        /\ ready # <<>>
        /\ waiters # <<>>
        /\ waiters' = Tail(waiters)
        /\ group_waiters' = [group_waiters EXCEPT ![l] = <<>>]
        /\ answer' = IF closed
                     THEN Rejected(Elements(group_waiters[l]), l, "LeaseClosed")
                     ELSE answer
        /\ pc' = IF closed THEN "dispatch" ELSE "serve"
        /\ serving' = IF closed THEN NoLease ELSE l
        /\ replies' = IF closed THEN <<>> ELSE group_waiters[l]
        /\ already_assigned' = (~closed /\ Leased(l))
        /\ UNCHANGED <<leases, lease_records, next_generation, inventory, overdue, cancelled>>

\* One turn of the inner loop that skips an overdue call: its reply channel
\* is dropped without an answer.
ServeOverdue ==
    /\ pc = "serve"
    /\ replies # <<>>
    /\ IsOverdue(Head(replies))
    /\ answer' = Answered(Head(replies), serving, "Dropped")
    /\ replies' = Tail(replies)
    /\ UNCHANGED <<leases, lease_records, next_generation, waiters, group_waiters,
                   inventory, overdue, cancelled, pc, serving, already_assigned>>

\* One turn of the inner loop that answers: the first one takes a database.
ServeReply(delivered) ==
    /\ pc = "serve"
    /\ replies # <<>>
    /\ ~IsOverdue(Head(replies))
    /\ IF Leased(serving)
       THEN /\ ReplyAttached(Head(replies), serving, leases[serving], delivered)
            /\ UNCHANGED <<next_generation, ready>>
       ELSE /\ ReplyAttached(Head(replies), serving, NewEntry, delivered)
            /\ next_generation' = next_generation + 1
            /\ ready' = Tail(ready)
    /\ replies' = Tail(replies)
    /\ UNCHANGED <<lease_records, waiters, group_waiters, next_database_id, creating,
                   retiring, overdue, cancelled, pc, serving, already_assigned>>

\* Faulty variant: the connections are not looked at.
UnclaimedAnyway(l) == Leased(l)

\* After the inner loop: an assignment made here that no caller took is undone.
Unclaimed(l) == Leased(l) /\ leases[l].conns = 0

ServeDone ==
    /\ pc = "serve"
    /\ replies = <<>>
    /\ IF ~already_assigned /\ Unclaimed(serving)
       THEN /\ leases' = [leases EXCEPT ![serving] = NoEntry]
            /\ cancelled' = cancelled \cup {leases[serving].generation}
            /\ ready' = ReturnReady(leases[serving].database, ready)
       ELSE UNCHANGED <<leases, cancelled, ready>>
    /\ pc' = "dispatch"
    /\ serving' = NoLease
    /\ already_assigned' = FALSE
    /\ UNCHANGED <<lease_records, next_generation, waiters, group_waiters,
                   next_database_id, creating, retiring, answer, overdue, replies>>

\* The loop is over; every caller of dispatch_waiters goes on to grow().
DispatchExit(accepted) ==
    /\ pc = "dispatch"
    /\ ready = <<>> \/ waiters = <<>>
    /\ pc' = "idle"
    /\ UNCHANGED <<leases, lease_records, next_generation, waiters, group_waiters,
                   ready, retiring, answer, overdue, cancelled, serving, replies,
                   already_assigned>>
    /\ Grow(creating, accepted)

----------------------------------------------------------------------------
\* ReleaseLease.

\* Faulty variant: a released lease keeps its place in the queue.
StaysQueued(queue, l) == queue

\* VecDeque::retain.  A lease is queued at most once (WaiterQueue below), so
\* dropping its first occurrence drops it.
Unqueue(queue, l) ==
    IF l \in Elements(queue)
    THEN LET i == CHOOSE i \in DOMAIN queue : queue[i] = l
         IN  SubSeq(queue, 1, i - 1) \o SubSeq(queue, i + 1, Len(queue))
    ELSE queue

\* The lease is known to be closed, or there is no room to record it.
ReleaseNothing(l) ==
    /\ Admission(l) \in {"Closed", "LimitReached"}
    /\ UNCHANGED vars

\* Close the lease, reject its waiting calls, retire its database.
ReleaseOpen(l, accepted) ==
    /\ Admission(l) = "Open"
    /\ lease_records' = [lease_records EXCEPT ![l] = "Closed"]
    /\ answer' = Rejected(Elements(group_waiters[l]), l, "LeaseClosed")
    /\ group_waiters' = [group_waiters EXCEPT ![l] = <<>>]
    /\ waiters' = Unqueue(waiters, l)
    /\ UNCHANGED <<next_generation, ready, overdue, dispatch>>
    /\ RetireLease(l, accepted)

ReleaseLease(l, accepted) ==
    /\ pc = "idle"
    /\ ReleaseNothing(l) \/ ReleaseOpen(l, accepted)

----------------------------------------------------------------------------
\* Detach, LeaseMaxTimeReached, CreationFinished, CleanupFinished, Shutdown.

\* A session of generation g is gone.  Other generations are ignored.
Detach(l, g) ==
    /\ pc = "idle"
    /\ IF Leased(l) /\ leases[l].generation = g /\ leases[l].conns > 0
       THEN leases' = [leases EXCEPT ![l].conns = @ - 1]
       ELSE UNCHANGED leases
    /\ UNCHANGED <<lease_records, next_generation, waiters, group_waiters, inventory,
                   answer, overdue, cancelled, dispatch>>

\* The lifetime of generation g is over.  Other generations are ignored.
LeaseMaxTimeReached(l, g, accepted) ==
    /\ pc = "idle"
    /\ ClaimTimeoutEnabled
    /\ UNCHANGED <<lease_records, next_generation, waiters, group_waiters, ready, answer,
                   overdue, dispatch>>
    /\ IF Leased(l) /\ leases[l].generation = g
       THEN RetireLease(l, accepted)
       ELSE UNCHANGED <<leases, cancelled, retiring, next_database_id, creating>>

\* Faulty variant: the waiting leases are not served.
CreationWithoutDispatch(d, ok) ==
    /\ pc = "idle"
    /\ IF d \in creating
       THEN creating' = Settled(d, ok) /\ ready' = Supplied(d, ok)
       ELSE UNCHANGED <<creating, ready>>
    /\ UNCHANGED <<leases, lease_records, next_generation, waiters, group_waiters,
                   next_database_id, retiring, answer, overdue, cancelled, dispatch>>

\* A reservation is settled once; dispatch and grow follow.
CreationFinished(d, ok) ==
    /\ pc = "idle"
    /\ IF d \in creating
       THEN /\ creating' = Settled(d, ok)
            /\ ready' = Supplied(d, ok)
            /\ pc' = "dispatch"
       ELSE UNCHANGED <<creating, ready, pc>>
    /\ UNCHANGED <<leases, lease_records, next_generation, waiters, group_waiters,
                   next_database_id, retiring, answer, overdue, cancelled, serving,
                   replies, already_assigned>>

CleanupFinished(d, ok) ==
    /\ pc = "idle"
    /\ retiring' = CompleteCleanup(d, ok)
    /\ UNCHANGED <<leases, lease_records, next_generation, waiters, group_waiters,
                   next_database_id, creating, ready, answer, overdue, cancelled, dispatch>>

\* The root token is cancelled, and with it the token of every generation.
Shutdown ==
    /\ pc = "idle"
    /\ pc' = "stopped"
    /\ cancelled' = 1 .. next_generation
    /\ UNCHANGED <<leases, lease_records, next_generation, waiters, group_waiters,
                   inventory, answer, overdue, serving, replies, already_assigned>>

\* Time passes: a call's age exceeds lease_claim_timeout_ms.  It is measured
\* from the call, so a message can be overdue before the engine handles it.
BecomeOverdue(r) ==
    /\ ClaimTimeoutEnabled
    /\ pc # "stopped"
    /\ r \notin overdue
    /\ overdue' = overdue \cup {r}
    /\ UNCHANGED <<leases, lease_records, next_generation, waiters, group_waiters,
                   inventory, answer, cancelled, dispatch>>

----------------------------------------------------------------------------

Next ==
    \/ \E l \in LeaseIds, r \in Requests, delivered, accepted \in BOOLEAN :
            AttachOrJoin(l, r, delivered, accepted)
    \/ DispatchPop
    \/ ServeOverdue
    \/ \E delivered \in BOOLEAN : ServeReply(delivered)
    \/ ServeDone
    \/ \E accepted \in BOOLEAN : DispatchExit(accepted)
    \/ \E l \in LeaseIds, accepted \in BOOLEAN : ReleaseLease(l, accepted)
    \/ \E l \in LeaseIds, g \in 1 .. next_generation : Detach(l, g)
    \/ \E l \in LeaseIds, g \in 1 .. next_generation, accepted \in BOOLEAN :
            LeaseMaxTimeReached(l, g, accepted)
    \/ \E d \in 1 .. next_database_id, ok \in BOOLEAN : CreationFinished(d, ok)
    \/ \E d \in 1 .. next_database_id, ok \in BOOLEAN : CleanupFinished(d, ok)
    \/ Shutdown
    \/ \E r \in Requests : BecomeOverdue(r)

Spec == Init /\ [][Next]_vars

----------------------------------------------------------------------------
\* Properties.

TypeOK ==
    /\ leases \in [LeaseIds -> Entries]
    /\ lease_records \in [LeaseIds -> {"None", "Open", "Closed"}]
    /\ next_generation \in Nat
    /\ waiters \in Seq(LeaseIds)
    /\ group_waiters \in [LeaseIds -> Seq(Requests)]
    /\ next_database_id \in 0 .. MaxDatabaseId
    /\ creating \in SUBSET (1 .. next_database_id)
    /\ ready \in Seq(Nat)
    /\ retiring \in SUBSET Nat
    /\ answer \in [Requests -> Answers]
    /\ overdue \in SUBSET Requests
    /\ cancelled \in SUBSET Nat
    /\ pc \in {"idle", "dispatch", "serve", "stopped"}
    /\ serving \in LeaseIds \cup {NoLease}
    /\ replies \in Seq(Requests)
    /\ already_assigned \in BOOLEAN

\* While a group is served its lease is known, and as long as it has no
\* database one is ready for it; otherwise no group is being served.
ServeOK ==
    /\ pc = "serve" => serving \in LeaseIds /\ (Leased(serving) \/ ready # <<>>)
    /\ pc # "serve" => serving = NoLease /\ replies = <<>>

Distinct(s) == \A i, j \in DOMAIN s : s[i] = s[j] => i = j

\* Every database is in at most one place: reserved, ready, retiring or held
\* by one lease.  This is what the debug_assert!s of return_ready and retire
\* claim of a database being handed back, whatever stale, repeated or unknown
\* worker results and timer events arrive.
OnePlacePerDatabase ==
    /\ Elements(ready) \cup retiring \subseteq 1 .. next_database_id
    /\ Distinct(ready)
    /\ creating \cap Elements(ready) = {}
    /\ creating \cap retiring = {}
    /\ Elements(ready) \cap retiring = {}
    /\ \A l \in LeaseIds : Leased(l) =>
            /\ leases[l].database \in 1 .. next_database_id
            /\ leases[l].database \notin creating \cup Elements(ready) \cup retiring
            /\ \A k \in LeaseIds \ {l} :
                    Leased(k) => leases[k].database # leases[l].database

AttachedCalls == {r \in Requests : answer[r].status = "Attached"}

\* A client that was attached has had the only lease of its database: two
\* delivered replies name the same database exactly when they are of the same
\* generation, and then they are of the same lease.  So neither an expired
\* lease that reconnects nor another lease ever sees a database somebody used.
Isolation ==
    \A r, s \in AttachedCalls :
        /\ answer[r].database = answer[s].database <=> answer[r].generation = answer[s].generation
        /\ answer[r].generation = answer[s].generation => answer[r].lease = answer[s].lease

\* A database a client was attached to is never handed back as clean supply:
\* restore_unclaimed_database only returns what no caller received.
NoDirtyReuse ==
    \A r \in AttachedCalls : answer[r].database \notin creating \cup Elements(ready)

\* Generations identify assignments: held ones are issued and pairwise
\* different.
GenerationsIdentify ==
    \A l \in LeaseIds : Leased(l) =>
        /\ leases[l].generation \in 1 .. next_generation
        /\ \A k \in LeaseIds \ {l} : leases[k].generation # leases[l].generation

\* Every delivered reply names an assignment that was made; a lease that holds
\* the same database, or the same generation, is the lease of that reply and
\* holds both.
RepliesTraced ==
    \A r \in AttachedCalls :
        /\ answer[r].lease \in LeaseIds
        /\ answer[r].generation \in 1 .. next_generation
        /\ answer[r].database \in 1 .. next_database_id
        /\ \A l \in LeaseIds : Leased(l) =>
            /\ leases[l].generation = answer[r].generation
                    <=> leases[l].database = answer[r].database
            /\ leases[l].generation = answer[r].generation => l = answer[r].lease

\* An assignment dispatch_waiters just made and may take back was seen by nobody.
UnclaimedUnseen ==
    pc = "serve" /\ ~already_assigned /\ Unclaimed(serving) =>
        \A r \in AttachedCalls : answer[r].generation # leases[serving].generation

\* The strengthening that makes Isolation, NoDirtyReuse and OnePlacePerDatabase
\* inductive together.
AssignmentsTraced == GenerationsIdentify /\ RepliesTraced /\ UnclaimedUnseen

\* A cancellation token is live exactly as long as its generation holds a
\* lease: whoever retires or restores a database cuts the sessions on it, and
\* nobody else's.
TokensFollowLeases ==
    pc # "stopped" =>
        \A g \in 1 .. next_generation :
            g \notin cancelled <=> \E l \in LeaseIds : Leased(l) /\ leases[l].generation = g

\* A lease waits in the queue exactly once when calls wait for it, and not
\* otherwise: a group that lost its place would never be served.  It is open and
\* has no database, so dispatch_waiters never finds the lease it serves assigned
\* or closed.  And between messages nobody waits while a database is ready.
WaiterQueue ==
    /\ Distinct(waiters)
    /\ Elements(waiters) = {l \in LeaseIds : group_waiters[l] # <<>>}
    /\ \A l \in Elements(waiters) : ~Leased(l) /\ lease_records[l] = "Open"
    /\ pc = "idle" /\ ready # <<>> => waiters = <<>>

\* The calls that wait are those of the groups and of the group being served,
\* each once, and each under its own lease: no call is lost or answered twice.
NoLostCall ==
    /\ \A l \in LeaseIds : Distinct(group_waiters[l])
    /\ Distinct(replies)
    /\ \A r \in Requests :
        /\ \A l \in LeaseIds :
                r \in Elements(group_waiters[l]) =>
                    answer[r].status = "Waiting" /\ answer[r].lease = l
        /\ r \in Elements(replies) =>
                /\ answer[r].status = "Waiting" /\ answer[r].lease = serving
                /\ r \notin Elements(group_waiters[serving])
        /\ answer[r].status = "Waiting" =>
                r \in Elements(replies) \cup Elements(group_waiters[answer[r].lease])

Larger(m, n) == IF m > n THEN m ELSE n

\* Unused databases never exceed what the leases of every record waiting at
\* once would need, rounded up to a batch, however creation results, failures,
\* expiries and restored databases interleave.
SupplyBounded ==
    Len(ready) + Cardinality(creating)
        <= Larger(InitialSlots, MaxLeaseRecords + StarvationThreshold + GrowBatchSize)
=============================================================================
