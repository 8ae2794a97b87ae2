----------------------------- MODULE DdlBatches -----------------------------
(***************************************************************************)
(* Batches of CREATE and DROP DATABASE over the two connection pools:      *)
(* create_ddl_databases and drop_ddl_databases of manager.rs, run_bounded  *)
(* of creation.rs and the PostgresClient methods of postgres_manager.rs    *)
(* that callers reach them through.                                        *)
(*                                                                         *)
(* Every operation of a create batch checks out a connection of its own; a *)
(* drop batch pipelines all its statements through one.  A create batch is *)
(* a request to the creation worker.  The cleanup worker drops databases   *)
(* one by one, each in a task of its own: to the pool that is a drop batch *)
(* of one.  Larger ones are the library's, which nothing in the program    *)
(* but its tests calls.                                                    *)
(*                                                                         *)
(* A pool hands its connections to waiting tasks in the order they asked.  *)
(* An operation that is not polled makes no progress, so what a batch does *)
(* when one ends (return the connection, report, start the next) is one    *)
(* step.                                                                   *)
(***************************************************************************)
EXTENDS Integers, Sequences, SequencesExt

CONSTANTS
    CreateBatches, DropBatches,
    MaxAmount,          \* bound: operations of a batch
    CreationPool,       \* size of create_pool, also creation_concurrency
    CleanupPool,        \* size of cleanup_pool
    PipelineDepth,      \* CLEANUP_PIPELINE_DEPTH
    MaxFailures         \* bound: statements and acquisitions that fail

ASSUME BatchAssumption ==
    /\ CreateBatches \cap DropBatches = {}
    /\ MaxAmount \in Nat \ {0} /\ MaxFailures \in Nat
    /\ CreationPool \in Nat \ {0} /\ CleanupPool \in Nat \ {0} /\ PipelineDepth \in Nat \ {0}

VARIABLES
    state,      \* batch -> "Idle", "Running", "Done" or "Cancelled"
    amount,     \* batch -> operations asked for
    started,    \* batch -> operations started, always the first ones
    running,    \* batch -> operations started and not ended
    queue,      \* pool -> tickets waiting for a connection
    held,       \* pool -> tickets that have one
    reports,    \* batch -> results passed to on_result, in order
    failures

vars == <<state, amount, started, running, queue, held, reports, failures>>

Batches == CreateBatches \cup DropBatches
Operations(b) == 0 .. amount[b] - 1
Indices == 0 .. MaxAmount - 1
Pools == {"creation", "cleanup"}
Size(p) == IF p = "creation" THEN CreationPool ELSE CleanupPool

\* Who asks for a connection: an operation of a create batch, a drop batch.
Ticket(b, i) == [batch |-> b, operation |-> i]
TicketsOf(b) == {Ticket(b, i) : i \in Operations(b)}

\* The tickets of q that are not in gone, in their order.
Without(q, gone) ==
    LET kept == {i \in DOMAIN q : q[i] \notin gone}
        Place(i) == Cardinality({j \in kept : j <= i})
    IN  [k \in 1 .. Cardinality(kept) |-> q[CHOOSE i \in kept : Place(i) = k]]

Smaller(a, b) == IF a < b THEN a ELSE b

\* Faulty variant: the window is one too large.
WindowTooLarge(b, n) == Smaller(n, IF b \in CreateBatches THEN CreationPool + 1 ELSE PipelineDepth)

\* How many of the n operations of a batch are pending at once.
Window(b, n) == Smaller(n, IF b \in CreateBatches THEN CreationPool ELSE PipelineDepth)

Init ==
    /\ state = [b \in Batches |-> "Idle"]
    /\ amount = [b \in Batches |-> 0]
    /\ started = [b \in Batches |-> 0]
    /\ running = [b \in Batches |-> {}]
    /\ queue = [p \in Pools |-> <<>>]
    /\ held = [p \in Pools |-> {}]
    /\ reports = [b \in Batches |-> <<>>]
    /\ failures = 0

----------------------------------------------------------------------------

\* The first n operations of b ask for their connections, in order.
FirstTickets(b, n) == [k \in 1 .. n |-> Ticket(b, k - 1)]

\* An empty batch is over without touching a pool.
SubmitEmpty(b) ==
    /\ state[b] = "Idle"
    /\ state' = [state EXCEPT ![b] = "Done"]
    /\ UNCHANGED <<amount, started, running, queue, held, reports, failures>>

SubmitCreates(b, n) ==
    /\ state[b] = "Idle"
    /\ state' = [state EXCEPT ![b] = "Running"]
    /\ amount' = [amount EXCEPT ![b] = n]
    /\ started' = [started EXCEPT ![b] = Window(b, n)]
    /\ running' = [running EXCEPT ![b] = 0 .. Window(b, n) - 1]
    /\ queue' = [queue EXCEPT !["creation"] = @ \o FirstTickets(b, Window(b, n))]
    /\ UNCHANGED <<held, reports, failures>>

\* A drop batch starts nothing before it has its connection.
SubmitDrops(b, n) ==
    /\ state[b] = "Idle"
    /\ state' = [state EXCEPT ![b] = "Running"]
    /\ amount' = [amount EXCEPT ![b] = n]
    /\ queue' = [queue EXCEPT !["cleanup"] = Append(@, Ticket(b, 0))]
    /\ UNCHANGED <<started, running, held, reports, failures>>

\* drop_ddl_database, in the cleanup worker's task for the one name of its request.
SubmitDrop(b) == SubmitDrops(b, 1)

\* The pool has a connection, old or new, for the first that waits.
Connected(p) ==
    /\ queue[p] # <<>>
    /\ Cardinality(held[p]) < Size(p)
    /\ held' = [held EXCEPT ![p] = @ \cup {Head(queue[p])}]
    /\ queue' = [queue EXCEPT ![p] = Tail(@)]
    /\ LET b == Head(queue[p]).batch
       IN  IF b \in DropBatches
           THEN /\ started' = [started EXCEPT ![b] = Window(b, amount[b])]
                /\ running' = [running EXCEPT ![b] = 0 .. Window(b, amount[b]) - 1]
           ELSE UNCHANGED <<started, running>>
    /\ UNCHANGED <<state, amount, reports, failures>>

\* Faulty variant: the operation that takes its place has the same index.
EndAndRepeat(b, i, ok) ==
    LET rest == running[b] \ {i}
        next == IF started[b] < amount[b] THEN {i} ELSE {}
    IN  /\ running' = [running EXCEPT ![b] = rest \cup next]
        /\ started' = [started EXCEPT ![b] = @ + Cardinality(next)]
        /\ reports' = [reports EXCEPT ![b] = Append(@, [operation |-> i, ok |-> ok])]
        /\ state' = IF rest \cup next = {} THEN [state EXCEPT ![b] = "Done"] ELSE state
        /\ UNCHANGED amount

\* An operation ends: its result is reported and the next one takes its place.
End(b, i, ok) ==
    LET rest == running[b] \ {i}
        next == IF started[b] < amount[b] THEN {started[b]} ELSE {}
    IN  /\ running' = [running EXCEPT ![b] = rest \cup next]
        /\ started' = [started EXCEPT ![b] = @ + Cardinality(next)]
        /\ reports' = [reports EXCEPT ![b] = Append(@, [operation |-> i, ok |-> ok])]
        /\ state' = IF rest \cup next = {} THEN [state EXCEPT ![b] = "Done"] ELSE state
        /\ UNCHANGED amount

\* Faulty variant: it is started and never polled.
NeverPolled(b) == <<>>

\* What End started waits for its own connection.
NextTicket(b) == IF started[b] < started'[b] THEN <<Ticket(b, started[b])>> ELSE <<>>

CreateEnds(b, i, ok) ==
    /\ End(b, i, ok)
    /\ held' = [held EXCEPT !["creation"] = @ \ {Ticket(b, i)}]
    /\ queue' = [queue EXCEPT !["creation"] = @ \o NextTicket(b)]

CreateExecuted(b, i) ==
    /\ Ticket(b, i) \in held["creation"]
    /\ CreateEnds(b, i, TRUE)
    /\ UNCHANGED failures

CreateFails(b, i) ==
    /\ failures < MaxFailures
    /\ failures' = failures + 1
    /\ Ticket(b, i) \in held["creation"]
    /\ CreateEnds(b, i, FALSE)

\* No connection within the timeout, or it cannot be opened.
CreateUnconnected(b, i) ==
    /\ failures < MaxFailures
    /\ failures' = failures + 1
    /\ Contains(queue["creation"], Ticket(b, i))
    /\ End(b, i, FALSE)
    /\ queue' = [queue EXCEPT !["creation"] = Without(@, {Ticket(b, i)}) \o NextTicket(b)]
    /\ UNCHANGED held

\* The last statement of the pipeline gives the connection back.
DropEnds(b, i, ok) ==
    /\ Ticket(b, 0) \in held["cleanup"]
    /\ i \in running[b]
    /\ End(b, i, ok)
    /\ held' = IF state'[b] = "Done" THEN [held EXCEPT !["cleanup"] = @ \ {Ticket(b, 0)}] ELSE held
    /\ UNCHANGED queue

DropExecuted(b, i) == DropEnds(b, i, TRUE) /\ UNCHANGED failures

DropFails(b, i) ==
    /\ failures < MaxFailures
    /\ failures' = failures + 1
    /\ DropEnds(b, i, FALSE)

\* Nothing was submitted: the adapter reports every name as failed, in order.
DropUnconnected(b) ==
    /\ failures < MaxFailures
    /\ failures' = failures + 1
    /\ Contains(queue["cleanup"], Ticket(b, 0))
    /\ queue' = [queue EXCEPT !["cleanup"] = Without(@, {Ticket(b, 0)})]
    /\ reports' = [reports EXCEPT ![b] =
                     [k \in 1 .. amount[b] |-> [operation |-> k - 1, ok |-> FALSE]]]
    /\ state' = [state EXCEPT ![b] = "Done"]
    /\ UNCHANGED <<amount, started, running, held>>

\* Faulty variant: the waiting tickets of the batch are forgotten.
CancelLeavingTickets(b) ==
    /\ state[b] = "Running"
    /\ state' = [state EXCEPT ![b] = "Cancelled"]
    /\ running' = [running EXCEPT ![b] = {}]
    /\ held' = [p \in Pools |-> held[p] \ TicketsOf(b)]
    /\ UNCHANGED <<amount, started, queue, reports, failures>>

\* Shutdown drops the future of a create batch or of a cleanup: it leaves the
\* queue and returns its connections; no result is reported from here on.
Cancel(b) ==
    /\ state[b] = "Running"
    /\ state' = [state EXCEPT ![b] = "Cancelled"]
    /\ running' = [running EXCEPT ![b] = {}]
    /\ queue' = [p \in Pools |-> Without(queue[p], TicketsOf(b))]
    /\ held' = [p \in Pools |-> held[p] \ TicketsOf(b)]
    /\ UNCHANGED <<amount, started, reports, failures>>

----------------------------------------------------------------------------

OperationEnds(b, i) ==
    IF b \in CreateBatches
    THEN CreateExecuted(b, i) \/ CreateFails(b, i) \/ CreateUnconnected(b, i)
    ELSE DropExecuted(b, i) \/ DropFails(b, i)

Next ==
    \/ \E b \in Batches : SubmitEmpty(b)
    \/ \E b \in CreateBatches, n \in 1 .. MaxAmount : SubmitCreates(b, n)
    \/ \E b \in DropBatches : SubmitDrop(b)
    \/ \E b \in DropBatches, n \in 2 .. MaxAmount : SubmitDrops(b, n)
    \/ \E p \in Pools : Connected(p)
    \/ \E b \in Batches : \E i \in running[b] : OperationEnds(b, i)
    \/ \E b \in DropBatches : DropUnconnected(b)
    \/ \E b \in Batches : Cancel(b)

Spec == Init /\ [][Next]_vars

\* A pool with a free connection hands it out, and a statement ends.
FairSpec ==
    /\ Spec
    /\ \A p \in Pools : WF_vars(Connected(p))
    /\ \A b \in Batches, i \in Indices : WF_vars(OperationEnds(b, i))

----------------------------------------------------------------------------
\* Properties.

Reported(b) == {reports[b][k].operation : k \in DOMAIN reports[b]}

\* Every operation is reported at most once and never while it is running;
\* when the batch is over each has been reported.  The creation worker maps
\* indices to reserved identities and the inventory settles each only once.
EachReportedOnce ==
    \A b \in Batches :
        /\ Cardinality(Reported(b)) = Len(reports[b])
        /\ Reported(b) \cap running[b] = {}
        /\ state[b] = "Done" => Reported(b) = Operations(b)

\* No batch exceeds its window, and a running one uses all of it while there
\* is work left.
WindowIsKept ==
    \A b \in Batches :
        LET limit == IF b \in CreateBatches THEN CreationPool ELSE PipelineDepth
        IN  /\ Cardinality(running[b]) <= limit
            /\ state[b] = "Running" /\ running[b] # {} =>
                  Cardinality(running[b]) = limit \/ started[b] = amount[b]

\* Connections are neither exceeded nor leaked: whoever has one or waits for
\* one is an operation that is running, or a drop batch that is, once.
ConnectionsAreAccounted ==
    \A p \in Pools :
        LET waiting == ToSet(queue[p])
            wanted == IF p = "creation"
                      THEN UNION {{Ticket(b, i) : i \in running[b]} : b \in CreateBatches}
                      ELSE {Ticket(b, 0) : b \in {x \in DropBatches : state[x] = "Running"}}
        IN  /\ Cardinality(held[p]) <= Size(p)
            /\ Cardinality(waiting) = Len(queue[p])
            /\ waiting \cap held[p] = {}
            /\ waiting \cup held[p] = wanted

\* Every batch ends, however many share the pool and whatever fails.
BatchEnds == \A b \in Batches : state[b] = "Running" ~> state[b] \in {"Done", "Cancelled"}
=============================================================================
