----------------------------- MODULE Connection -----------------------------
(***************************************************************************)
(* Client connections: crates/pgtest-wire/src/connection.rs and            *)
(* session_relay.rs, on top of the worker manager they attach to.          *)
(*                                                                         *)
(* A connection makes at most one attach call, so connections and attach   *)
(* calls are the same set.  The connection's task goes from the startup    *)
(* message through attach, the upstream connection and the handover of     *)
(* PostgreSQL's first answer to the relay; the lease can be released or    *)
(* expire at each of these points.  Its manager runs throughout.           *)
(*                                                                         *)
(* A connection to the database `pgtest' is ControlPanel's; it is where    *)
(* the release calls come from.                                            *)
(***************************************************************************)
EXTENDS WorkerManager

VARIABLES
    conn,       \* connection -> where its task is: "Idle", "Attaching", "Connecting",
                \* with PostgreSQL's answer "Ready" or "Refused", "Relaying", "Closed"
    told        \* connection -> the last thing the client was sent: a SQLSTATE,
                \* or PostgreSQL's own first answer

wire == <<conn, told>>
connvars == <<allvars, wire>>

ConnectionInit ==
    /\ SystemInit
    /\ conn = [r \in Requests |-> "Idle"]
    /\ told = [r \in Requests |-> "Nothing"]

\* reject_connection, and the end of the task.
Reject(r, code) ==
    /\ conn' = [conn EXCEPT ![r] = "Closed"]
    /\ told' = [told EXCEPT ![r] = code]

Leave(r) == conn' = [conn EXCEPT ![r] = "Closed"] /\ UNCHANGED told

Proceed(r, stage) == conn' = [conn EXCEPT ![r] = stage] /\ UNCHANGED told

----------------------------------------------------------------------------
\* Startup.

\* No startup message within the time limit, or the client is gone.
StartupFails(r) ==
    /\ conn[r] = "Idle"
    /\ Leave(r)
    /\ UNCHANGED allvars

\* What is wrong with a startup message, in the order it is looked at.
Screening ==
    [replication |-> "0A000", no_database |-> "3D000", malformed_field |-> "22023",
     template_mismatch |-> "3D000"]

StartupRejected(r, flaw) ==
    /\ conn[r] = "Idle"
    /\ Reject(r, Screening[flaw])
    /\ UNCHANGED allvars

StartupAccepted(r, l) ==
    /\ conn[r] = "Idle"
    /\ AttachSend(r, l)
    /\ Proceed(r, "Attaching")

----------------------------------------------------------------------------
\* Attach.

\* Faulty variant: every refusal is reported as a closed lease.
RefusedIsClosed(error) == IF error = "LeaseRecordLimitReached" THEN "53400" ELSE "55000"

AttachErrorCode(error) ==
    CASE error = "LeaseRecordLimitReached" -> "53400"
      [] error = "LeaseClosed" -> "55000"
      [] OTHER -> "08006"

Attached(r) ==
    /\ AttachReturn(r)
    /\ IF result'[r] = "Ok" THEN Proceed(r, "Connecting") ELSE Reject(r, AttachErrorCode(result'[r]))

AttachDeadlinePassed(r) ==
    /\ AttachTimedOut(r)
    /\ Reject(r, AttachErrorCode("TimedOut"))

----------------------------------------------------------------------------
\* The upstream connection, and the relay.

Cancelled(r) == answer[r].generation \in cancelled

\* The select looks at the token before the upstream connection.  A token
\* cancelled between that look and the end of the handshake is one cancelled
\* just after it.
CancelledWhileConnecting(r) ==
    /\ conn[r] = "Connecting"
    /\ Cancelled(r)
    /\ SessionDrop(r)
    /\ Reject(r, "55000")

UpstreamFails(r) ==
    /\ conn[r] = "Connecting"
    /\ ~Cancelled(r)
    /\ SessionDrop(r)
    /\ Reject(r, "08006")

\* PostgreSQL answers: ready, which needs the database, or with an error.
UpstreamConnected(r, outcome) ==
    /\ conn[r] = "Connecting"
    /\ ~Cancelled(r)
    /\ outcome = "Ready" => answer[r].database \in pg
    /\ Proceed(r, outcome)
    /\ UNCHANGED allvars

\* The relay starts with PostgreSQL's answer.  It too looks at the token first.
Handover(r) ==
    /\ conn[r] \in {"Ready", "Refused"}
    /\ ~Cancelled(r)
    /\ conn' = [conn EXCEPT ![r] = "Relaying"]
    /\ told' = [told EXCEPT ![r] = conn[r]]
    /\ UNCHANGED allvars

InRelay(r) == conn[r] \in {"Ready", "Refused", "Relaying"}

HoldsSession(r) == conn[r] = "Connecting" \/ InRelay(r)

\* Faulty variant: the relay watches the token only once the answer is handed over.
CutLate(r) ==
    /\ conn[r] = "Relaying"
    /\ Cancelled(r)
    /\ SessionDrop(r)
    /\ Leave(r)

\* The lease is released or expires: both streams are closed without a word.
RelayCut(r) ==
    /\ InRelay(r)
    /\ Cancelled(r)
    /\ SessionDrop(r)
    /\ Leave(r)

\* The client or PostgreSQL ends the session, or a stream fails.
RelayEnds(r) ==
    /\ InRelay(r)
    /\ SessionDrop(r)
    /\ Leave(r)

\* The listener aborts the task, wherever it is.
Aborted(r) ==
    /\ \/ conn[r] = "Attaching" /\ AttachAborted(r)
       \/ HoldsSession(r) /\ SessionDrop(r)
    /\ Leave(r)

----------------------------------------------------------------------------

ConnectionStep ==
    \E r \in Requests :
        \/ StartupFails(r)
        \/ \E flaw \in DOMAIN Screening : StartupRejected(r, flaw)
        \/ \E l \in LeaseIds : StartupAccepted(r, l)
        \/ Attached(r)
        \/ AttachDeadlinePassed(r)
        \/ CancelledWhileConnecting(r)
        \/ UpstreamFails(r)
        \/ \E outcome \in {"Ready", "Refused"} : UpstreamConnected(r, outcome)
        \/ Handover(r)
        \/ RelayCut(r)
        \/ RelayEnds(r)
        \/ Aborted(r)

ManagerStep ==
    \/ EngineStep
    \/ TaskStep
    \/ \E r \in Requests : AttachElapsed(r) \/ CallBecomesOverdue(r)
    \/ \E x \in Releases, l \in LeaseIds : ReleaseSend(x, l)
    \/ \E x \in Releases : ReleaseReturn(x) \/ ReleaseTimedOut(x)

ConnectionNext == ConnectionStep \/ (ManagerStep /\ UNCHANGED wire)

\* The runtime polls the engine and every connection task that was woken.
\* Nothing makes a client or PostgreSQL answer.
ConnectionFairness ==
    /\ WF_connvars(EngineStep /\ UNCHANGED wire)
    /\ \A r \in Requests :
        WF_connvars(Attached(r)) /\ WF_connvars(CancelledWhileConnecting(r)) /\ WF_connvars(RelayCut(r))

ConnectionSpec == ConnectionInit /\ [][ConnectionNext]_connvars /\ ConnectionFairness

----------------------------------------------------------------------------
\* Properties.

ClosedLeases == {l \in LeaseIds : lease_records[l] = "Closed"}

\* The stage of a connection says what it holds, and what its client was told
\* stays true: 55000 names a lease that was released or an assignment that
\* ended, 53400 a lease the records never had room for.
ReasonsHold ==
    \A r \in Requests :
        /\ call[r] = "Holding" <=> HoldsSession(r)
        /\ told[r] = "55000" =>
                answer[r].generation \in cancelled \/ answer[r].lease \in ClosedLeases
        /\ told[r] = "53400" =>
                answer[r].lease \notin Records /\ Cardinality(Records) = MaxLeaseRecords

\* "Release closes active connections for that lease": whatever a connection
\* is doing when its assignment ends, waiting for PostgreSQL included, it is
\* closed, without the help of its client or of PostgreSQL.
ReleasedConnectionsClose ==
    \A r \in Requests :
        HoldsSession(r) /\ Cancelled(r) ~> conn[r] = "Closed"
=============================================================================
