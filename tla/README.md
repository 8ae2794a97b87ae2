# PgTest: a TLA+ development

PgTest hands out PostgreSQL databases to tests. A client connects to
`template/lease-id`; the first connection of a lease gets a database cloned from
the template, later ones join it, and when the lease is released or expires the
database is dropped. The promise is isolation: a test never sees a database
another test has used. The code that keeps it is one task with a message loop,
surrounded by callers with deadlines, timers and background workers, all of which
can be late, repeated or gone.

These modules model that core, the part that creates, names and finds databases in
PostgreSQL, the connections clients make, the control panel through which leases are
released, the handshake with PostgreSQL, and the servers that start and stop all of
it. TLC checks them on small instances. TLAPS proves every safety property of the
passing runs for every instance: those of the engine, that it implements its abstract
specification, that the program around it uses it as specified, and what that means
for callers, connections, shutdown, batches, names, startup, the control panel, the
handshake and the servers.

## The system

| Component | State | Operations | Interacts with |
|---|---|---|---|
| Lease engine (`pgtest-core/worker_engine/core.rs`) | leases, lease records, generation, waiting leases and their calls, cancellation tokens | attach or join, release, detach, lifetime reached, creation and cleanup results, shutdown; inside them dispatch, grow, retire, restore | inbox messages in; one-shot replies, timers, worker requests out |
| Inventory (`database_inventory.rs`) | identities issued, being created, ready, retiring | reserve, cancel, complete, take, return, retire | called by the engine |
| Manager (`worker_manager.rs`) | engine handle, task tracker, shutdown token | attach, release, shutdown | sends to the inbox, awaits replies |
| Engine I/O (`worker_io.rs`) | channels, sessions | reply, session drop, delayed message, worker requests | carries a session through the reply channel; its drop sends Detach |
| Workers (`database_creation_worker.rs`, `database_cleanup_worker.rs`) | request channel, running jobs | run a job per request | PostgreSQL; results to the inbox |
| Startup (`startup.rs`) | none | sweep, initial databases, start tasks | PostgreSQL |
| PostgreSQL manager (`pgtest-database-operations`) | connection pools, template name | create, drop, sweep, name | PostgreSQL |
| Listeners (`pgtest-wire/wire_listener.rs`, `unix_listener.rs`) | accept tasks, their sessions, the socket file | bind, accept, spawn, join, stop | one connection task per client |
| Connections (`connection.rs`, `session_relay.rs`) | a task's progress, its lease session | startup, attach, upstream handshake, handover, relay | attach; PostgreSQL; the cancellation token |
| Upstream (`postgres_upstream.rs`) | buffer and cursor | connect, startup message, frames, authentication, burst | PostgreSQL |
| Control panel (`control_panel/`) | prepared statements, portals, error state | simple query, Parse, Bind, Execute, Describe, Close, Sync | release |
| Server and CLI (`apps/`) | options, listeners, the engine's owners | accept options, start, bind, stop on a signal | all |

What is hard here: callers vanish or time out while an answer is on its way; an
unread answer must give its connection back; messages of an earlier assignment of
a lease arrive during a later one; a released lease may be waiting, held or being
served; a creation can fail with somebody waiting for it; growth runs after every
handler; shutdown waits for tasks while the engine still starts new ones; a process
that dies leaves databases, and statements PostgreSQL goes on with, which the next
one has to find by name; batches share a pool and end in any order; a connection can
lose its lease at any point of its startup; pipelined messages follow one that failed;
PostgreSQL's answers are cut anywhere; sessions that relay for ever own the engine
that is to be stopped. The `hazards` of `PROJECT.json` list these at their lines.

What makes each part correct: the engine isolates leases, serves everybody who
waits and forgets no call; the inventory holds a database in one place and loses
none; attach ends, release is final; sessions and connection counts agree; worker
results and supply agree with PostgreSQL; shutdown ends and leaves nothing running;
batches report every operation once and leak no connection; names denote the
databases created, and a restart sweeps what was left; a client is told why it was
refused, and is cut off when its assignment ends; the control panel releases what the
client meant; the handshake does not depend on how bytes arrive; a server that is
told to stop ends, as the engine's last owner.

## Modules

`WorkerEngine` models the engine and its inventory with an open environment: any
attach, release, detach, expiry or worker result may arrive at any time, also
stale, repeated and unknown ones, a reply may miss its receiver, a worker request
may be refused. Its variables are the fields of `WorkerEngine` and
`DatabaseInventory`, with the same names. An absent lease is `NoEntry`; the token
of an entry is its generation, and `cancelled` is the set of cancelled ones.
`answer` records what each attach call was told. A handler is one action, with the
`grow` it ends in. Only `dispatch_waiters` is unfolded: it answers other tasks one
by one, and whether a call is overdue or its receiver gone can change meanwhile.
`pc`, `serving`, `replies` and `already_assigned` are the local state of that loop
(`DispatchPop`, `ServeOverdue`, `ServeReply`, `ServeDone`, `DispatchExit`).

`WorkerManager` extends it with the tasks that really send these messages: the
inbox as a FIFO, attach callers with deadlines, aborted callers, sessions and
their Detach on drop, release callers, lifetime timers, creation and cleanup jobs
against the set `pg` of databases that exist, and the steps of shutdown. Every
engine step is an action of `WorkerEngine` with its parameters taken from the
message and from the state of the channel it replies to, so each step of the
system is a step of the open engine or leaves it alone. `late`, `orphans` and `failures`, the
statements that failed with the database each was about, are history variables that
properties speak of.

`DatabaseName` has the pure part of names: truncation at a character boundary, the
generated name, PostgreSQL's `LIKE` and the pattern of the sweep. A name is a
sequence of bytes.

`StartupSweep` extends it with processes that come and go around one PostgreSQL
server: validation of the template, listing and dropping leftovers in batches, the
initial databases, a running server that creates and drops, and a crash at any
point. The variables of the process are lost with it; `pg` and `abandoned`, the
statements PostgreSQL goes on with, are not. `swept`, `used`, `made`, `mine` and
`late` are history variables.

`DdlBatches` models what one job of `WorkerManager` and one statement of
`StartupSweep` leave out: the window of `run_bounded`, the queue in front of a pool,
connections held, and what shutdown drops. A create batch is one request to the
creation worker. The cleanup worker runs every request in a task of its own, which is a
drop batch of one (`SubmitDrop`); the pipelined batches of `drop_ddl_databases`
(`SubmitDrops`) are the library's, and only tests call them. `Cancel` is shutdown
dropping either kind of task. A task that stops waiting leaves the queue where it stands
(`Without`); the others keep their order.

`LeasePool` is the abstract specification of the engine: leases that are unknown,
open or closed, the database each holds, and what each call was told; no queue,
inventory, generation, token or worker. `EngineRefinement` maps the engine to it: a
lease record, the database of a lease entry, and the answers delivered, where an
answer that was dropped or could not be delivered counts as a refusal. The property
`ImplementsLeasePool` is its specification under that mapping: a closed lease stays
closed and is given nothing, records never exceed their limit, a call is told one
thing only, an attachment is to what its lease holds at that moment, and a database
that anybody saw is never handed out again.

`Connection` extends `WorkerManager` with the tasks of `handle_connection`. A
connection makes one attach call, so a connection is a member of `Requests`; every
step that attaches or drops a session is the manager's action together with the
task's. `told` is the last thing the client was sent. Startup messages are reduced to
what can be wrong with them, in the order it is looked at.

`LeaseText` has the pure part of what clients write: valid lease identifiers, the
connection string, and the grammar of control statements over sequences of symbols, in
which a keyword or a run of letters is one symbol and quotes, slashes and NUL are
their own. `ControlPanel` extends it with one control connection. `meant` records what
the client's messages define as if none failed; `owed` counts the ReadyForQuery
messages the client waits for. pgwire's message loop and portal store are external.

`UpstreamStartup` models `postgres_upstream::connect` on a stream of frames that is
read in chunks of any size and may be cut off anywhere, or whose read fails
(`ReadFails`); bytes are counted. A frame has the five bytes of its header even if its
length says less, or is negative.

`Server` models both servers, with their accept tasks and the socket file. `path` is
the file at the socket's path, `recorded` the one the listener takes for its own, and
`Interferes` another program. Removal can fail (`RemoveFails`), and `warned` says that
this was logged. A session is only an owner of the engine here. What
`WorkerManager` takes for granted when shutdown begins, that no connection is left
that could call the engine, is `StopsCleanly`.

`MCWorkerEngine`, `MCWorkerManager` and `MCConnection` add symmetry for TLC;
`MCStartupSweep` has the names, `MCControlPanel` the texts and messages,
`MCUpstreamStartup` the answers of PostgreSQL.

The theorems are in eight modules. `WorkerEngineProofs` (with the refinement),
`SystemProofs` and `SessionProofs` extend one another, as the modules they are about
do; `StartupSweepProofs`, `DdlBatchesProofs`, `ControlPanelProofs`,
`UpstreamStartupProofs` and `ServerProofs` stand alone.

Definitions marked *Faulty variant* are what a plausible mistake would make of the
definition that follows them. No specification uses them; each property of a
passing run is shown to fail when one of them takes the place of the definition it
varies (`mutants` in `PROJECT.json`).

### Abstractions

* In the engine's modules a database is its `DatabaseId`, a lease its identifier.
  Logging and `EngineCounters` are left out. Names are modelled where they matter,
  in `StartupSweep`; quoting is left out, a quoted name denotes the name.
* A random identifier of 32 letters is taken to be new. One server process uses a
  template at a time: a second one would sweep the databases of the first.
* A statement ends well, fails, or fails after PostgreSQL executed it. Dropping a
  batch returns its connections at once; that the next user waits for the statement
  still running on one is part of how long its own statement takes.
* Time is not counted. A deadline or lifetime may pass at any moment after it was
  set; a call's age (`overdue`) and its caller's own deadline pass independently,
  as they do in the code, which reads two clocks.
* A worker's request channel and its spawned tasks are one set of jobs: the tasks
  run concurrently. A batch is one job per database, since results are reported
  one by one.
* A release caller that is aborted looks like one that timed out: its reply is lost.
* `attach` compares the database name with the template before it sends anything;
  that rejection touches no state and is one of the ways `Connection` refuses a
  startup message.
* Panics (`expect`) are not modelled as steps. `ServeOK`, part of the theorem
  `TypeCorrect`, shows the one in dispatch cannot happen; the exhaustion of `DatabaseId` is the bound
  `MaxDatabaseId`, which blocks growth where the code would panic.
* Builds that profile channels (`hotpath`) put a proxy task behind the reply
  channel; the models are of the ordinary build.
* A `select!` that looks at a token first and then finds another branch ready is one
  step: a token cancelled in between is one cancelled just after. In `Server` accept
  and spawn are two steps, because the request to stop may come between them.
* `symlink_metadata` is taken to fail only where there is no file (a failure for another
  reason, such as a directory that became unreadable, would leave the socket without a
  warning), and clients that connect between bind and the first accept to connect after
  it.

## Runs

| Run | Instance | Shows |
|---|---|---|
| `engine` | 3 leases but 2 records, 3 calls, 1 initial database, 3 identities, 2 connections per lease | bookkeeping, isolation, no lost call, and the refinement of `LeasePool`, against every environment |
| `connections` | 2 leases but 1 record, 2 connections, 1 release, 2 databases, expiry and deadlines | connection counts, live sessions, final release, the reasons clients are given |
| `cut_off` | 1 lease, 2 connections, 1 release, 1 database, expiry | connections end with their assignment |
| `growth` | 2 leases, 2 calls, empty pool, growth, 1 failing creation, no deadlines | supply is backed, covers demand and is bounded; every call is answered |
| `shutdown` | 1 lease, 1 call, 1 release, expiry, growth, 1 failure | the inventory and PostgreSQL agree, leases expire, a retired database is dropped unless its own `DROP` fails, shutdown returns and is quiet |
| `startup` | 2 processes, 2 initial databases each, 1 more, sweep batches of 2, 1 failure, template at the length limit | leftovers are swept, own databases and template survive, startup is complete and ends |
| `batches` | 2 create batches and a drop batch of up to 3, pools of 2 and 1, pipeline of 2, 1 failure | one report per operation, windows, connections, every batch ends |
| `control_panel` | 2 statement names, 1 portal, all texts of up to 3 symbols as literals and connection strings | pipelines, replies, portals, exact reading, releases that clients can reach |
| `upstream` | every kind of first frame, every pair of later ones, every truncation and chunking | one outcome per byte stream; the handshake returns |
| `server` | all options, 2 clients, 2 files of others | the server ends and leaves nothing behind |
| `lease_closed_wording` | 1 lease, 1 call | a divergence, see below |
| `truncated_leftovers` | 2 processes, template twice the limit | a divergence, see below |

Bounds. Two leases are enough to mix up databases, and three calls give a lease
two sharers and a rival, or one client the connection limit of two, or a lease
that expires and reconnects while another waits. Identities and generations are
only compared for equality and grow by one assignment, so more of them repeat the
same situations; in the `WorkerManager` runs raising `MaxDatabaseId` further adds
no state, so that bound never blocks a step there. In the `engine` run it does
block growth: the environment may refuse requests for ever, and each refusal
spends identities. `MaxFailures` bounds failing statements. `u16::MAX` and
`u64::MAX` are constants, so the connection limit is reached.

Names have seven bytes instead of 63 and identifiers one instead of 32; only sums of
these lengths matter, and the theorems about names hold for every length. The short
template contains an underscore, which `LIKE` reads as a wildcard, and databases of
somebody else are there that match it and that do not. The long one has a character
of two bytes across the limit. Two processes give one that leaves something and one
that finds it; `abandoned` statements of the first end at any moment of the second.
A batch of three in a window of two has one operation to start later, and two
batches compete for two connections. The drop batch has its pool to itself; that drops
which compete leak nothing either is `NoConnectionLeaks`, for any number of them. The long template is that of
`truncated_leftovers`; that its names denote their databases is the theorem
`GeneratedNamesFit`.

In `connections` the second lease has no room for its record, so every refusal
happens, and the two connections can share an assignment or have two of one lease. Two
leases waiting at once, with a creation that fails, are what growth has to count
right. In `control_panel` two statement names let a failed Parse leave an older statement in
place; lease identifiers have at most three bytes instead of 256, one symbol takes
two. In `shutdown` the one failure may be a creation's or a drop's, and
only the drop's excuses its database. In `upstream` the limits `MaxAuthLength`, `MaxLength` and `MaxUsize` are small
numbers in the order of the real ones, so that each is reached. In `server` two
clients are two sessions of one listener or one of each.

Deadlock is not checked: the engine stops when it is told to, and a system whose
finitely many calls, processes or batches are over rests. That everything that should happen does is
what the liveness runs are for.

Fairness (`FairSpec`): weak fairness of the engine task, of an attach caller that
can return or whose deadline passed, of each timer, of each job, of each worker's
exit and of the steps of shutdown. A Tokio task that is ready is polled, a sleep
ends, and a statement ends (it succeeds, fails or is interrupted). No fairness
makes a client attach, disconnect or release, an operator stop the server, or a
statement fail or succeed. Deadlines count as fair only where they are enabled. In
`StartupSweep` the startup task and its statements are weakly fair, starts, crashes
and abandoned statements are not; in `DdlBatches` a pool hands out a free connection
and each operation that has one ends. In `Connection` the engine and a connection
task that was woken, by a reply or by its token, are weakly fair; clients and
PostgreSQL owe nothing. In `UpstreamStartup` the task is weakly fair and bytes that
were sent arrive. In `Server` the main task, the accept tasks and the drop of the
socket file are, and a session ends once it is aborted; without that a session may
stay for ever, and no signal has to come.

### What the violation runs show

* `lease_closed_wording`: `attach` reports a session that is already cancelled as
  `LeaseClosed`, "the lease has been released". If the lease expired between the
  reply and its reading, it has not been: its record is open and the ID can
  reconnect, as the README says of expired leases.
* `truncated_leftovers`: a template name of more than 25 bytes is truncated and gets
  a random discriminator in generated names, but the sweep looks for the full name.
  What such a server leaves behind is never found, although the core README says it
  remains for the next startup's sweep.

What `LeftoversAreSwept` does not exclude: a `CREATE DATABASE` of a dead process that
PostgreSQL finishes after the sweep has listed (`late`) stays until the next start.
The name is put into the pattern unescaped: `TemplateSurvives` is proved for templates
without percent sign and backslash, `LeftoversAreSwept` for templates without backslash.

Three more, without runs. `dispatch_waiters` drops an overdue call's reply channel, and
a caller that has not yet noticed its deadline reads that as an engine that is gone:
"the worker engine is unavailable" instead of the timeout. The comment above
`BoundUnixListener` says that it never unlinks a replacement file on drop; in `Server`
the file is compared in `ReadPath` and removed in `RemoveFile`, and a replacement made
in between is removed. The core README says that "the cleanup worker buffers requests
and dispatches them every 100 ms" in batches, and that "closing the request channel
flushes buffered work immediately" (`crates/pgtest-core/README.md:17-23`); the worker
has no buffer and no tick, it spawns a task with one `drop_database` per request
(`database_cleanup_worker.rs:54-63`), and `drop_databases`, which would take a batch,
has no caller outside tests. The models follow the code.

## Theorems

All hold for every value of the constants that satisfies the assumptions of the
module concerned: any finite set of leases, any set of calls, releases and clients, any
pool sizes, thresholds, amounts and bounds. In the order in which they rest on each
other:

**The engine alone** (`WorkerEngineProofs`; `LeaseAssumption`, `ConfigAssumption`,
`WidthAssumption`), against every environment.

* `TypeCorrect`: `Spec => [](TypeOK /\ ServeOK)`. `ServeOK` is needed with the
  types: while a group is served its lease is known and, if it has no database
  yet, one is ready; otherwise `assign_database` could take the head of nothing.
* `LeasesAreIsolated`, `UsedIsNeverReused`, `DatabasesAreInOnePlace`,
  `RepliesAreTraced`: `Isolation`, `NoDirtyReuse`, `OnePlacePerDatabase` and
  `AssignmentsTraced`. None is inductive alone. Isolation speaks of replies, and a
  step that breaks it hands out a database an earlier reply named; excluding that
  needs `NoDirtyReuse`, which needs to know that a database taken back was seen by
  nobody (`UnclaimedUnseen`), which needs every reply traced to the assignment its
  generation names (`RepliesTraced`, `GenerationsIdentify`), which needs a
  database to be in one place. `Inv` is their conjunction. The handlers change
  assignments in few ways: take the head of `ready`, join, retire, take back, or
  nothing. Each way has a lemma (`TakesReady`, `KeepsAssignments`, `Retires`,
  `TakesBack`, `CreatesReady`), and `InvStep` is a case split of `Next` over them.

**Its queue, tokens, supply and abstract specification** (`WorkerEngineProofs`).

* `QueueIsInStep`: `WaiterQueue`, by `QueueInv`, which adds what the dispatch loop
  knows of the lease it popped (`ServedGroup`) and that a lease holding a database
  is open (`HeldIsOpen`). `NoCallIsLost`: `NoLostCall`, which is inductive with it.
* `TokensLiveWithLeases`: `TokensFollowLeases`, with `TokensIssued`: without it a new
  generation might already be cancelled.
* `SupplyIsBounded`: `SupplyBounded`. What `grow` looks at is not what the bound
  counts: the database of a group that is being served may still come back, so
  `SupplyFits` counts it, and a waiting lease has a record, so there are at most
  `MaxLeaseRecords` of them.
* `EngineImplementsPool`: `Spec => ImplementsLeasePool`, the refinement. Initial states
  map to initial states, and each handler to a pool step or to none; that an answer is
  final rests on `NoLostCall`, that a record fits on `RecordsFit`, and that an attached
  call is told its lease's database on `Inv`.

**The engine in the program** (`SystemProofs`; `EnvironmentAssumption`).

* `SystemImplementsEngine`: `SystemSpec => Spec`. Everything above therefore holds in
  the program. A handler is only a step of the open engine if the message it takes
  names something that was issued (`OnlyIssued`), and a session can only be dropped by
  a caller that got one (`HoldersAttached`); `Surroundings` joins these to the engine's
  own invariant.
* `InventoryIsTrue`: `InventoryMatchesPostgres`, with what jobs and the reports in the
  inbox say of PostgreSQL (`JobsMatchPostgres`): between a statement and the message
  about it the inventory is behind.
* `ShutdownIsComplete`: `StoppedIsQuiet`, by the order of the phases
  (`ShutdownInOrder`).
* `ReservationsHaveWorkers`: `ReservationsAreBacked`, by `BackedInv`: the reservations
  are the jobs and the reports together, and a database is reported once
  (`ReportedOnce`), else one of two reports would settle a reservation still worked on.

**What callers and clients rely on** (`SessionProofs`).

* `ReleaseIsFinalForAll`: `ReleaseIsFinal`, by `ReleasesClose` and `LateCallsRefused`:
  a confirmed release has closed its lease, and a call that was made later, wherever
  its message is, cannot be queued or attached.
* `ConnectionsAreCounted`: `ConnsMatchSessions`, with every Detach in the inbox traced to
  a session that was handed out (`DetachesTraced`). The cardinalities are compared
  through lemmas on the positions a kind of message has in the inbox.
* `LiveSessionsAreSafe`, `DemandIsCovered`: `LiveSessionsKeepTheirDatabase` and
  `SupplyCoversDemand`, from the invariants above.
* `ConnectionsAreCallers`: `ConnectionSpec => SystemSpec`. The connection tasks are
  callers like any others, so all of the above holds with them.
* `ReasonsAreTrue`: `ReasonsHold`, by `WireInv`: a refusal stays true (`RefusalsHold`),
  a stage says where the attach call is (`StageMatchesCall`), and what was told rests
  on an answer that is final (`ReasonIsFinal`).

**Names and startup** (`StartupSweepProofs`; `NameAssumption`: the limit leaves room for
identifier, discriminator and two underscores; `SweepAssumption`: nobody else's database
has a name made with one of our random identifiers).

* `GeneratedNamesFit`: a generated name is never longer than PostgreSQL's limit.
  The cut exists because the set of boundaries is bounded and contains 0 (`CutExists`,
  by well-foundedness of the naturals); the length of a prefix follows
  (`PrefixLength`), then that of the name (`GeneratedName`).
* `GeneratedNamesDiffer`: for one template, equal names have equal identifiers, also
  across discriminators: all prefixes of a template have the same length.
* `OwnDatabasesAreKept`: `OwnDatabasesExist`, by `SweepInv`. A statement of a dead
  process may drop something at any moment, so what a process creates has to be apart
  from everything that is listed, being dropped or left to be dropped
  (`ApartFromDoomed`). A new name is, because all of that has names made with other
  identifiers or is not ours (`NamesAreTraced`), by the two theorems above.
* `StartupsAreComplete`: the action property `StartupIsComplete`. As long as nothing
  failed, what try_init has and what is being created are together as many as it
  asked for (`StartupIsCounted`).
* `TemplatesSurvive`: `TemplateSurvives`, for a `PlainTemplate`: one without percent
  sign and backslash, which `LIKE` would read as something else. Whatever the pattern
  finds is then longer than the template (`PatternFindsLonger`), so no list of a sweep
  holds it, and neither do the statements a dead process left (`TemplateSpared`).
* `LeftoversGo`: `LeftoversAreSwept`, for a template that is `NamedInFull`: not
  truncated, and without backslash. The pattern finds every name made from it
  (`PatternFindsOwn`, percent signs included: they match themselves). `SweepCovers` says
  that what exists of earlier processes stays on the list, among the drops under way,
  or in `late`. The hypothesis is not there for convenience: without it the run
  `truncated_leftovers` violates the property.

**Batches** (`DdlBatchesProofs`; `BatchAssumption`).

* `OperationsAreReportedOnce`, `WindowsAreKept`, `NoConnectionLeaks`: `EachReportedOnce`,
  `WindowIsKept`, `ConnectionsAreAccounted`. They are inductive only together
  (`BatchesInv`). What was started is reported or running (`Numbered`); that a drop
  batch does not start again needs that it waits or has its connection, and that one
  that waits has nothing running (`DropsWaitOrWork`). `CancelKeeps` covers both kinds of
  task shutdown drops. `WithoutRemoves` is the lemma
  about a queue that somebody leaves.

**Control panel, handshake and server** (`ControlPanelProofs`, with `TextAssumption` and
`PanelAssumption`, which say that texts are sequences of symbols and a parameter is a
text or absent; `UpstreamStartupProofs`, with `WidthsAssumption` and
`AnswersAssumption`, which say the same of frames and their lengths; `ServerProofs`,
`OthersAssumption`).

* `PipelinesStayInStep`, `RepliesStayInStep`, `BoundPortalsAreExecutable`:
  `PipelineInStep`, `RepliesInStep`, `PortalsAreExecutable`, with `ReleasesWait`: the
  task waits for the engine exactly while a release is under way.
* `FieldsAreReadExactly`: `MisreadFields = {}`, the half of `TextsAreReadExactly` about
  connection strings.
* `TextsReadAsWritten`: `TextsAreReadExactly`. `QuotedIsRead`: the quotation of any text
  is a literal up to its last quote and stands for that text; by induction from the end,
  the grammar and the replacement of doubled quotes meet at the same places.
  `LiteralIsQuoted`: what is read as a literal is the quotation of what it stands for,
  since a quote alone would have ended it early. White space has to be excluded: the
  grammar allows it around a literal, so that `ws 'a'` is accepted and is not quoted.
* `ReleasesCanBeReached`: `ReleasesAreReachable`, by `ReleasedLeaseIsValid`: a release
  is only asked for a lease that passed `LeaseId::new`, wherever it came from
  (`StatementsAreKnown`, `UnquoteIsText`), and behind a template and a slash such a text
  is read as it is (`FieldOfLease`).
* `ChunksNeverShow`: `ChunksAreInvisible`, by `ReaderInv`: the cursor is at the start of
  a frame, all frames before it were sent, accepted and did not end the burst. Which
  frame starts at a byte is unique because starts grow (`StartsGrow`); that an answer
  cut off ends as premature, and one refused for the right reason, is by cases on what
  the reader knows of the current frame.
* `ServerStopsCleanly`: `StopsCleanly`, by `ServerInv`: how far the accept tasks can be
  at each stage (`StagesInOrder`), who will remove the socket or has tried to (`SocketIsOwned`), and
  that no session outlives its accept loop (`SessionsAreJoined`).

### Data defined by recursion

What `LIKE` matches, where a literal ends, what it stands for, and where frames start are
recursive functions. TLA+ defines such a function as one that satisfies its equation, so
each use begins with a lemma that there is one (`LikeDefined`, `LiteralDefined`,
`UnquoteDefined`, `QuotedDefined`, `SpacesDefined`, `StartsDefined`). The induction
principles of the library are for predicates, which these provers cannot instantiate;
`IntervalInduction` and `BackwardInduction` say the same of sets, by the
well-foundedness of the naturals, and the lemmas collect the positions for which the
claim holds in a set. `JumpRecursion` is the one existence lemma behind all functions
that look ahead by more than one position.

### Only model-checked

* All liveness (`AttachEnds`, `LeasesExpire`, `RetiredIsDropped`, `ShutdownCompletes`,
  `ReleasedConnectionsClose`, `StartupEnds`, `BatchEnds`, `ConnectReturns`,
  `ServeEnds`): out of this prover's reach, as is everything with ENABLED.
* Nothing is proved of the sweep for templates its theorems exclude; the run
  `truncated_leftovers` has one of them.

## Not modelled

* The bytes a relay copies: `copy_bidirectional` is Tokio's, and nothing in PgTest
  looks at them. `upstream_stream.rs` forwards reads and writes.
* pgwire itself (startup negotiation, message decoding, the portal store): external,
  modelled as far as the control panel depends on it.
* Shared strings, logging, profiling (`sql_profile.rs`), version output, row encoding.
* How long a lifetime is: the timer's `as u32` (`core.rs:396`) needs a clock.

## Plan

Every invariant and action property of the passing runs has its theorem. What is left:

1. Templates with a backslash or a percent sign, as a run: `LIKE` takes the byte behind a
   backslash for itself, so generated names, which have both, are as a rule not found.
2. A clock, for the cast of the lifetime to `u32` (`core.rs:396`).
3. Liveness, should the prover learn it: `AttachEnds` first.
