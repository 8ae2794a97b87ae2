---------------------------- MODULE WorkerManager ---------------------------
(***************************************************************************)
(* The engine with the tasks around it: worker_manager.rs and its          *)
(* worker_io.rs, database_creation_worker.rs and database_cleanup_worker.rs *)
(* in crates/pgtest-core/src.                                              *)
(*                                                                         *)
(* Callers of attach and release, dropped sessions, lifetime timers and    *)
(* the two database workers talk to the engine only through its inbox, an  *)
(* unbounded FIFO channel.  A caller of attach holds the receiver of a     *)
(* one-shot channel: the engine's reply is delivered exactly when that     *)
(* receiver still exists, and a delivered reply owns a LeaseSession whose  *)
(* Drop sends Detach, read or not.                                         *)
(*                                                                         *)
(* A worker's request channel and the tasks it spawns per request are one  *)
(* set of jobs: the tasks run concurrently, so the order of the channel    *)
(* has no effect.  Time is not counted: a deadline that has a timer may    *)
(* pass at any moment after it was set.                                    *)
(***************************************************************************)
EXTENDS WorkerEngine

CONSTANTS
    Releases,       \* release calls; each is made at most once
    MaxFailures,    \* bound: CREATE and DROP DATABASE statements that fail
    ShutdownAllowed \* bound: whether the operator ever stops the server

ASSUME EnvironmentAssumption == MaxFailures \in Nat /\ ShutdownAllowed \in BOOLEAN

VARIABLES
    inbox,          \* the engine's unbounded channel
    call,           \* attach call -> where the caller is
    result,         \* attach call -> what attach returned
    release,        \* release call -> its lease and where the caller is
    timers,         \* armed LeaseMaxTimeReached timers
    creations,      \* databases the creation worker was asked for
    cleanups,       \* databases the cleanup worker was asked to drop
    workers,        \* background workers whose request channel is open
    pg,             \* databases that exist in PostgreSQL
    orphans,        \* created, but reported as failed or not at all
    failures,       \* statements that failed so far, each with its database
    phase,          \* progress of WorkerEngineManager::shutdown
    late            \* attach calls made after a release of their lease was acknowledged

callers == <<call, result, release, late>>
jobs == <<creations, cleanups, workers, pg, orphans, failures>>
allvars == <<vars, inbox, callers, timers, jobs, phase>>

Messages ==
    [type : {"AttachOrJoin"}, lease : LeaseIds, call : Requests]
        \cup [type : {"ReleaseLease"}, lease : LeaseIds, call : Releases]
        \cup [type : {"Detach", "LeaseMaxTimeReached"}, lease : LeaseIds, generation : Nat]
        \cup [type : {"CreationFinished", "CleanupFinished"}, database : Nat, ok : BOOLEAN]
        \cup [type : {"Shutdown"}]

NoRelease == [lease |-> NoLease, status |-> "Idle"]

SystemInit ==
    /\ Init
    /\ inbox = <<>>
    /\ call = [r \in Requests |-> "Idle"]
    /\ result = [r \in Requests |-> "None"]
    /\ release = [x \in Releases |-> NoRelease]
    /\ timers = {}
    /\ creations = {}
    /\ cleanups = {}
    /\ workers = {"creation", "cleanup"}
    /\ pg = 1 .. InitialSlots
    /\ orphans = {}
    /\ failures = {}
    /\ phase = "Running"
    /\ late = {}

----------------------------------------------------------------------------
\* The engine task.

\* Faulty variant: retirement is recorded but cleanup is not requested.
EngineIOWithoutCleanup(l) ==
    /\ timers' = IF ClaimTimeoutEnabled
                 THEN timers \cup {[lease |-> l, generation |-> g] :
                                    g \in next_generation + 1 .. next_generation'}
                 ELSE timers
    /\ creations' = creations \cup (creating' \cap (next_database_id + 1 .. next_database_id'))
    /\ UNCHANGED <<cleanups, workers, pg, orphans, failures>>

\* What a handler's calls on engine_io leave behind: a timer per assignment,
\* a job per accepted reservation, a job per accepted retirement.
EngineIO(l) ==
    /\ timers' = IF ClaimTimeoutEnabled
                 THEN timers \cup {[lease |-> l, generation |-> g] :
                                    g \in next_generation + 1 .. next_generation'}
                 ELSE timers
    /\ creations' = creations \cup (creating' \cap (next_database_id + 1 .. next_database_id'))
    /\ cleanups' = IF "cleanup" \in workers
                   THEN cleanups \cup (retiring' \ retiring) ELSE cleanups
    /\ UNCHANGED <<workers, pg, orphans, failures>>

CreationAccepted == "creation" \in workers

\* A reply finds its receiver until the caller returned or was dropped.
ReceiverOpen(r) == call[r] \in {"Waiting", "Elapsed"}

\* The next message is of this type; it is consumed by the step.
Receive(type) ==
    /\ inbox # <<>>
    /\ Head(inbox).type = type
    /\ inbox' = Tail(inbox)

HandleAttachOrJoin ==
    /\ Receive("AttachOrJoin")
    /\ LET m == Head(inbox)
       IN  /\ AttachOrJoin(m.lease, m.call, ReceiverOpen(m.call), CreationAccepted)
           /\ EngineIO(m.lease)
    /\ UNCHANGED <<callers, phase>>

\* The reply of a release is lost when its caller has given up.
ReleaseReply(l) == IF Admission(l) = "LimitReached" THEN "ReplyLimit" ELSE "ReplyOk"

HandleReleaseLease ==
    /\ Receive("ReleaseLease")
    /\ LET m == Head(inbox)
       IN  /\ ReleaseLease(m.lease, CreationAccepted)
           /\ release' = IF release[m.call].status = "Waiting"
                         THEN [release EXCEPT ![m.call].status = ReleaseReply(m.lease)]
                         ELSE release
           /\ EngineIO(m.lease)
    /\ UNCHANGED <<call, result, late, phase>>

HandleDetach ==
    /\ Receive("Detach")
    /\ Detach(Head(inbox).lease, Head(inbox).generation)
    /\ UNCHANGED <<callers, timers, jobs, phase>>

HandleLeaseMaxTimeReached ==
    /\ Receive("LeaseMaxTimeReached")
    /\ LeaseMaxTimeReached(Head(inbox).lease, Head(inbox).generation, CreationAccepted)
    /\ EngineIO(Head(inbox).lease)
    /\ UNCHANGED <<callers, phase>>

HandleCreationFinished ==
    /\ Receive("CreationFinished")
    /\ CreationFinished(Head(inbox).database, Head(inbox).ok)
    /\ UNCHANGED <<callers, timers, jobs, phase>>

HandleCleanupFinished ==
    /\ Receive("CleanupFinished")
    /\ CleanupFinished(Head(inbox).database, Head(inbox).ok)
    /\ UNCHANGED <<callers, timers, jobs, phase>>

HandleShutdown ==
    /\ Receive("Shutdown")
    /\ Shutdown
    /\ UNCHANGED <<callers, timers, jobs, phase>>

\* The steps of dispatch_waiters, between two messages.
DispatchWaiters ==
    /\ \/ DispatchPop
       \/ ServeOverdue
       \/ replies # <<>> /\ ServeReply(ReceiverOpen(Head(replies)))
       \/ ServeDone
       \/ DispatchExit(CreationAccepted)
    /\ EngineIO(serving)
    /\ UNCHANGED <<inbox, callers, phase>>

EngineStep ==
    \/ HandleAttachOrJoin
    \/ HandleReleaseLease
    \/ HandleDetach
    \/ HandleLeaseMaxTimeReached
    \/ HandleCreationFinished
    \/ HandleCleanupFinished
    \/ HandleShutdown
    \/ DispatchWaiters

----------------------------------------------------------------------------
\* Callers of WorkerEngineManager::attach.

\* A send to an engine that is gone fails, and every sender ignores that.
Send(m) == inbox' = IF phase = "Stopped" THEN inbox ELSE Append(inbox, m)

SendDetach(r) ==
    Send([type |-> "Detach", lease |-> answer[r].lease, generation |-> answer[r].generation])

Acknowledged(l) == \E x \in Releases : release[x] = [lease |-> l, status |-> "Ok"]

AttachSend(r, l) ==
    /\ phase = "Running"
    /\ call[r] = "Idle"
    /\ call' = [call EXCEPT ![r] = "Waiting"]
    /\ Send([type |-> "AttachOrJoin", lease |-> l, call |-> r])
    /\ late' = IF Acknowledged(l) THEN late \cup {r} ELSE late
    /\ UNCHANGED <<vars, result, release, timers, jobs, phase>>

\* What attach returns for the reply it reads; a dropped channel reads as an
\* engine that is gone, a session whose token is cancelled as a closed lease.
AttachResult(a) ==
    CASE a.status = "Attached" -> IF a.generation \in cancelled THEN "LeaseClosed" ELSE "Ok"
      [] a.status = "FailedToAttach" -> "Failed"
      [] a.status = "Dropped" -> "EngineUnavailable"
      [] OTHER -> a.status

AttachReturn(r) ==
    /\ call[r] = "Waiting"
    /\ answer[r].status \notin {"Fresh", "Waiting"}
    /\ result' = [result EXCEPT ![r] = AttachResult(answer[r])]
    /\ call' = [call EXCEPT ![r] = IF AttachResult(answer[r]) = "Ok" THEN "Holding" ELSE "Done"]
    /\ IF answer[r].status = "Attached" /\ AttachResult(answer[r]) # "Ok"
       THEN SendDetach(r) ELSE UNCHANGED inbox
    /\ UNCHANGED <<vars, release, late, timers, jobs, phase>>

\* The deadline passes first: the timer is only looked at when no reply is there.
AttachElapsed(r) ==
    /\ ClaimTimeoutEnabled
    /\ call[r] = "Waiting"
    /\ answer[r].status \in {"Fresh", "Waiting"}
    /\ call' = [call EXCEPT ![r] = "Elapsed"]
    /\ UNCHANGED <<vars, inbox, result, release, late, timers, jobs, phase>>

\* Faulty variant: an unread reply does not unregister its connection.
DropReceiverSilently(r, outcome) ==
    /\ call' = [call EXCEPT ![r] = "Done"]
    /\ result' = [result EXCEPT ![r] = outcome]
    /\ UNCHANGED <<vars, inbox, release, late, timers, jobs, phase>>

\* The receiver is dropped, and with it a reply that arrived meanwhile.
DropReceiver(r, outcome) ==
    /\ call' = [call EXCEPT ![r] = "Done"]
    /\ result' = [result EXCEPT ![r] = outcome]
    /\ IF answer[r].status = "Attached" THEN SendDetach(r) ELSE UNCHANGED inbox
    /\ UNCHANGED <<vars, release, late, timers, jobs, phase>>

AttachTimedOut(r) == call[r] = "Elapsed" /\ DropReceiver(r, "TimedOut")

\* The listener aborts the connection task that waits for the lease.
AttachAborted(r) == call[r] = "Waiting" /\ DropReceiver(r, "Aborted")

\* Drop of a LeaseSession: the connection ended, or its token was cancelled.
SessionDrop(r) ==
    /\ call[r] = "Holding"
    /\ call' = [call EXCEPT ![r] = "Done"]
    /\ SendDetach(r)
    /\ UNCHANGED <<vars, result, release, late, timers, jobs, phase>>

\* A call's age is measured from the call on; nobody asks once it is answered.
CallBecomesOverdue(r) ==
    /\ call[r] # "Idle"
    /\ answer[r].status \in {"Fresh", "Waiting"}
    /\ BecomeOverdue(r)
    /\ UNCHANGED <<inbox, callers, timers, jobs, phase>>

----------------------------------------------------------------------------
\* Callers of WorkerEngineManager::release.

ReleaseSend(x, l) ==
    /\ phase = "Running"
    /\ release[x] = NoRelease
    /\ release' = [release EXCEPT ![x] = [lease |-> l, status |-> "Waiting"]]
    /\ Send([type |-> "ReleaseLease", lease |-> l, call |-> x])
    /\ UNCHANGED <<vars, call, result, late, timers, jobs, phase>>

ReleaseReturn(x) ==
    /\ release[x].status \in {"ReplyOk", "ReplyLimit"}
    /\ release' = [release EXCEPT ![x].status = IF @ = "ReplyOk" THEN "Ok" ELSE "Limit"]
    /\ UNCHANGED <<vars, inbox, call, result, late, timers, jobs, phase>>

\* No acknowledgement within five seconds; the release itself still stands.
ReleaseTimedOut(x) ==
    /\ release[x].status = "Waiting"
    /\ release' = [release EXCEPT ![x].status = "TimedOut"]
    /\ UNCHANGED <<vars, inbox, call, result, late, timers, jobs, phase>>

----------------------------------------------------------------------------
\* Timers and database workers.

Stopping == phase # "Running"

\* Faulty variant: the timer carries the previous generation.
TimerFiresStale(t) ==
    /\ t \in timers
    /\ timers' = timers \ {t}
    /\ Send([type |-> "LeaseMaxTimeReached", lease |-> t.lease,
             generation |-> t.generation - 1])
    /\ UNCHANGED <<vars, callers, jobs, phase>>

\* The sleep ends.  Both branches of the timer's select may be ready, so a
\* cancelled timer can still fire.
TimerFires(t) ==
    /\ t \in timers
    /\ timers' = timers \ {t}
    /\ Send([type |-> "LeaseMaxTimeReached", lease |-> t.lease, generation |-> t.generation])
    /\ UNCHANGED <<vars, callers, jobs, phase>>

TimerCancelled(t) ==
    /\ t \in timers
    /\ t.generation \in cancelled \/ Stopping
    /\ timers' = timers \ {t}
    /\ UNCHANGED <<vars, inbox, callers, jobs, phase>>

\* A job that passed its last look at the shutdown token may still report
\* after the token is cancelled; its message then precedes Shutdown all the
\* same, and the engine cannot tell it from one sent just before.
Finished(type, d, ok) == Send([type |-> type, database |-> d, ok |-> ok])

DatabaseCreated(d) ==
    /\ d \in creations /\ ~Stopping
    /\ creations' = creations \ {d}
    /\ pg' = pg \cup {d}
    /\ Finished("CreationFinished", d, TRUE)
    /\ UNCHANGED <<vars, callers, timers, cleanups, workers, orphans, failures, phase>>

\* The statement fails, or its connection does after the server executed it.
CreationFailed(d, executed) ==
    /\ d \in creations /\ ~Stopping
    /\ Cardinality(failures) < MaxFailures
    /\ failures' = failures \cup {<<"CREATE", d>>}
    /\ creations' = creations \ {d}
    /\ pg' = IF executed THEN pg \cup {d} ELSE pg
    /\ orphans' = IF executed THEN orphans \cup {d} ELSE orphans
    /\ Finished("CreationFinished", d, FALSE)
    /\ UNCHANGED <<vars, callers, timers, cleanups, workers, phase>>

DatabaseDropped(d) ==
    /\ d \in cleanups /\ ~Stopping
    /\ cleanups' = cleanups \ {d}
    /\ pg' = pg \ {d}
    /\ Finished("CleanupFinished", d, TRUE)
    /\ UNCHANGED <<vars, callers, timers, creations, workers, orphans, failures, phase>>

CleanupFailed(d, executed) ==
    /\ d \in cleanups /\ ~Stopping
    /\ Cardinality(failures) < MaxFailures
    /\ failures' = failures \cup {<<"DROP", d>>}
    /\ cleanups' = cleanups \ {d}
    /\ pg' = IF executed THEN pg \ {d} ELSE pg
    /\ Finished("CleanupFinished", d, FALSE)
    /\ UNCHANGED <<vars, callers, timers, creations, workers, orphans, phase>>

----------------------------------------------------------------------------
\* WorkerEngineManager::shutdown.  It takes the manager by value, so no attach
\* or release call is under way; sessions may still be held.

BeginShutdown ==
    /\ ShutdownAllowed
    /\ phase = "Running"
    /\ \A r \in Requests : ~ReceiverOpen(r)
    /\ \A x \in Releases : release[x].status \notin {"Waiting", "ReplyOk", "ReplyLimit"}
    /\ phase' = "Stopping"
    /\ UNCHANGED <<vars, inbox, callers, timers, jobs>>

\* Faulty variant: the cleanup worker does not watch the shutdown token.
CleanupWorkerStays(w) ==
    /\ Stopping
    /\ w \in workers \ {"cleanup"}
    /\ workers' = workers \ {w}
    /\ UNCHANGED <<vars, inbox, callers, timers, creations, cleanups, pg, orphans,
                   failures, phase>>

\* A worker leaves its loop, its request channel closes.
WorkerExits(w) ==
    /\ Stopping
    /\ w \in workers
    /\ workers' = workers \ {w}
    /\ UNCHANGED <<vars, inbox, callers, timers, creations, cleanups, pg, orphans,
                   failures, phase>>

\* A task ends without a message; its statement may have been executed.
CreationInterrupted(d, executed) ==
    /\ Stopping
    /\ d \in creations
    /\ creations' = creations \ {d}
    /\ pg' = IF executed THEN pg \cup {d} ELSE pg
    /\ UNCHANGED <<vars, inbox, callers, timers, cleanups, workers, orphans, failures, phase>>

CleanupInterrupted(d, executed) ==
    /\ Stopping
    /\ d \in cleanups
    /\ cleanups' = cleanups \ {d}
    /\ pg' = IF executed THEN pg \ {d} ELSE pg
    /\ UNCHANGED <<vars, inbox, callers, timers, creations, workers, orphans, failures, phase>>

\* Faulty variant: the jobs and workers are not tracked.
TimersOnly == timers = {}

TrackerEmpty == timers = {} /\ creations = {} /\ cleanups = {} /\ workers = {}

\* tracker.wait() returns; the engine is told to stop.
SendShutdown ==
    /\ phase = "Stopping"
    /\ TrackerEmpty
    /\ phase' = "Drained"
    /\ Send([type |-> "Shutdown"])
    /\ UNCHANGED <<vars, callers, timers, jobs>>

\* The engine task is joined; what is left in its inbox goes with it.
JoinEngine ==
    /\ phase = "Drained"
    /\ pc = "stopped"
    /\ phase' = "Stopped"
    /\ inbox' = <<>>
    /\ UNCHANGED <<vars, callers, timers, jobs>>

----------------------------------------------------------------------------

CallerStep ==
    \/ \E r \in Requests, l \in LeaseIds : AttachSend(r, l)
    \/ \E r \in Requests :
        \/ AttachReturn(r)
        \/ AttachElapsed(r)
        \/ AttachTimedOut(r)
        \/ AttachAborted(r)
        \/ SessionDrop(r)
        \/ CallBecomesOverdue(r)
    \/ \E x \in Releases, l \in LeaseIds : ReleaseSend(x, l)
    \/ \E x \in Releases : ReleaseReturn(x) \/ ReleaseTimedOut(x)

TaskStep ==
    \/ \E t \in timers : TimerFires(t) \/ TimerCancelled(t)
    \/ \E d \in creations :
        \/ DatabaseCreated(d)
        \/ \E executed \in BOOLEAN : CreationFailed(d, executed) \/ CreationInterrupted(d, executed)
    \/ \E d \in cleanups :
        \/ DatabaseDropped(d)
        \/ \E executed \in BOOLEAN : CleanupFailed(d, executed) \/ CleanupInterrupted(d, executed)

ShutdownStep ==
    \/ BeginShutdown
    \/ \E w \in workers : WorkerExits(w)
    \/ SendShutdown
    \/ JoinEngine

SystemNext == EngineStep \/ CallerStep \/ TaskStep \/ ShutdownStep

SystemSpec == SystemInit /\ [][SystemNext]_allvars

----------------------------------------------------------------------------
\* Fairness: the runtime polls every task that can make progress, and sleeps
\* and SQL statements end.  Nothing makes a client attach, disconnect or
\* release, an operator shut the server down, or a statement fail.

AllTimers == [lease : LeaseIds, generation : 1 .. Cardinality(Requests)]

CreationEnds(d) ==
    DatabaseCreated(d)
        \/ \E executed \in BOOLEAN : CreationFailed(d, executed) \/ CreationInterrupted(d, executed)

CleanupEnds(d) ==
    DatabaseDropped(d)
        \/ \E executed \in BOOLEAN : CleanupFailed(d, executed) \/ CleanupInterrupted(d, executed)

Fairness ==
    /\ WF_allvars(EngineStep)
    /\ \A r \in Requests :
        WF_allvars(AttachReturn(r)) /\ WF_allvars(AttachElapsed(r)) /\ WF_allvars(AttachTimedOut(r))
    /\ \A t \in AllTimers : WF_allvars(TimerFires(t) \/ TimerCancelled(t))
    /\ \A d \in 1 .. MaxDatabaseId : WF_allvars(CreationEnds(d)) /\ WF_allvars(CleanupEnds(d))
    /\ \A w \in {"creation", "cleanup"} : WF_allvars(WorkerExits(w))
    /\ WF_allvars(SendShutdown) /\ WF_allvars(JoinEngine)

FairSpec == SystemSpec /\ Fairness

----------------------------------------------------------------------------
\* Properties.

\* Replies that own a session: unread, or read and held.
SessionsOf(g) ==
    {r \in AttachedCalls : answer[r].generation = g /\ call[r] \in {"Waiting", "Elapsed", "Holding"}}

InboxPositions(type) == {i \in DOMAIN inbox : inbox[i].type = type}

DetachesOf(g) == {i \in InboxPositions("Detach") : inbox[i].generation = g}

\* LeaseEntry.conns counts exactly the sessions that exist and the Detach
\* messages under way: no lost reply, unread reply, deadline or abort counts a
\* connection twice or never, so Detach never meets zero connections.
ConnsMatchSessions ==
    pc # "stopped" =>
        \A l \in LeaseIds : Leased(l) =>
            leases[l].conns = Cardinality(SessionsOf(leases[l].generation))
                                + Cardinality(DetachesOf(leases[l].generation))

\* A session whose token is not cancelled has its database to itself: the
\* lease still holds it, counts the session, and PostgreSQL still has it.
LiveSessionsKeepTheirDatabase ==
    pc # "stopped" =>
        \A r \in AttachedCalls :
            call[r] = "Holding" /\ answer[r].generation \notin cancelled =>
                /\ leases[answer[r].lease].generation = answer[r].generation
                /\ leases[answer[r].lease].database = answer[r].database
                /\ leases[answer[r].lease].conns > 0
                /\ answer[r].database \in pg

\* What the engine hands out, or keeps for handing out, exists; and every
\* database in PostgreSQL is known to the engine, so it is reused or dropped.
\* The exception is one whose creation was reported as failed after the server
\* had executed it.
InventoryMatchesPostgres ==
    /\ Elements(ready) \cup LeasedDatabases \subseteq pg
    /\ pg \subseteq creating \cup Elements(ready) \cup LeasedDatabases \cup retiring \cup orphans

\* While the server runs, every reservation that grow counts as supply has a
\* worker on it or its result in the inbox.
ReservationsAreBacked ==
    phase = "Running" =>
        creating = creations \cup {inbox[i].database : i \in InboxPositions("CreationFinished")}

\* While the server runs and growth is enabled, leases that wait between two
\* messages have a database each under way, on top of the threshold.
SupplyCoversDemand ==
    phase = "Running" /\ pc = "idle" /\ GrowBatchSize > 0 /\ WaitingLeases # {} =>
        Len(ready) + Cardinality(creating) >= Required

\* Success of release acknowledges closure: every session of the lease is
\* cancelled, and a call made after the acknowledgement is never attached.
ReleaseIsFinal ==
    \A r \in AttachedCalls :
        /\ r \notin late
        /\ Acknowledged(answer[r].lease) => answer[r].generation \in cancelled

\* When shutdown returns, every client's session is cancelled and no CREATE or
\* DROP DATABASE is under way or can still be requested.
StoppedIsQuiet ==
    phase = "Stopped" =>
        /\ creations \cup cleanups = {} /\ workers = {}
        /\ \A r \in AttachedCalls : answer[r].generation \in cancelled

\* "the lease has been released": what AttachError::LeaseClosed tells a caller.
LeaseClosedMeansReleased ==
    \A r \in Requests : result[r] = "LeaseClosed" => lease_records[answer[r].lease] = "Closed"

\* Every attach call ends.
AttachEnds == \A r \in Requests : call[r] = "Waiting" ~> call[r] \notin {"Waiting", "Elapsed"}

\* A lease nobody releases does not outlive its timer.
LeasesExpire ==
    \A g \in 1 .. Cardinality(Requests) : next_generation >= g ~> g \in cancelled

\* A retired database is dropped, unless its own DROP DATABASE fails or the
\* server stops; no other statement's failure costs it its cleanup.
RetiredIsDropped ==
    \A d \in 1 .. MaxDatabaseId :
        d \in retiring ~> d \notin pg \/ <<"DROP", d>> \in failures \/ phase # "Running"

\* Shutdown completes, whatever the engine, the timers and the workers do.
ShutdownCompletes == phase = "Stopping" ~> phase = "Stopped"
=============================================================================
