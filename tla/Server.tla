------------------------------- MODULE Server -------------------------------
(***************************************************************************)
(* The two servers and their listeners: the command line's `serve'         *)
(* (apps/cli/src), the server configured by the environment                *)
(* (apps/server/src/main.rs), the accept loops of wire_listener.rs and the *)
(* socket file of unix_listener.rs.                                        *)
(*                                                                         *)
(* What a session does is Connection's and ControlPanel's; here it only    *)
(* holds a reference to the engine until it ends.  The engine's shutdown   *)
(* is WorkerManager's, which takes for granted that no session is left     *)
(* that could still call it: that is shown here.                           *)
(***************************************************************************)

CONSTANTS
    Clients,    \* client connections
    Others,     \* files that others may put at the path of the socket,
    Sockets     \* and those of them that are sockets

ASSUME OthersAssumption == Sockets \subseteq Others /\ Others \cap {"own", "none"} = {}

VARIABLES
    options,    \* the arguments or environment variables
    stage,      \* where the server is
    signals,    \* signals caught and not consumed
    engine,     \* "unstarted", "running", "stopped"
    task,       \* listener -> its accept task: "none", "accepting", "draining",
                \* for the Unix socket "closing" and "unlinking", "ended"
    stop,       \* listeners told to stop
    client,     \* client -> "away", "pending", "accepted", "running", "finished"
    at,         \* client -> the listener it connects to
    path,       \* the file at the path of the Unix socket
    recorded,   \* the file the listener takes for its own
    warned      \* whether "unable to remove Unix socket" was logged

sessions == <<client, at>>
files == <<path, recorded, warned>>
vars == <<options, stage, signals, engine, task, stop, sessions, files>>

Listeners == {"tcp", "unix"}

----------------------------------------------------------------------------
\* Options.  A number is absent, zero or positive; `limits' is true when no name
\* is empty and the upstream port, the pools and the record limit are positive.

Numbers == {"none", "zero", "positive"}

Options ==
    [server: {"cli", "environment"}, listen_addr: BOOLEAN, listen_port: Numbers,
     unix_socket_dir: {"none", "missing", "present"}, unix_socket_port: Numbers, limits: BOOLEAN]

\* The guards of the command line's parser, and validate().
CommandLineAccepted ==
    /\ options.limits
    /\ options.unix_socket_port # "zero"
    /\ options.listen_addr \/ options.unix_socket_dir # "none"
    /\ options.listen_port # "none" => options.listen_addr
    /\ options.unix_socket_port # "none" => options.unix_socket_dir # "none"
    /\ options.unix_socket_dir # "missing"

\* ServerConfig, PostgresConfig and WorkerEngineConfig: the address has a default,
\* and only the port of the socket has to be positive.
EnvironmentAccepted == options.unix_socket_port # "zero"

CommandLine == options.server = "cli"
Accepted == IF CommandLine THEN CommandLineAccepted ELSE EnvironmentAccepted
Wanted(l) ==
    IF l = "tcp" THEN options.listen_addr \/ ~CommandLine ELSE options.unix_socket_dir # "none"

Init ==
    /\ options \in Options
    /\ stage = "arguments"
    /\ signals = {}
    /\ engine = "unstarted"
    /\ task = [l \in Listeners |-> "none"]
    /\ stop = {}
    /\ client = [c \in Clients |-> "away"]
    /\ at \in [Clients -> Listeners]
    /\ path \in Others \cup {"none"}
    /\ recorded = "none"
    /\ warned = FALSE

Goto(s) == stage' = s

Binding(l) == IF l = "tcp" THEN "binding tcp" ELSE "binding unix"
Stopping(l) == IF l = "tcp" THEN "stopping tcp" ELSE "stopping unix"

----------------------------------------------------------------------------
\* The server's main task.

Arguments ==
    /\ stage = "arguments"
    /\ Goto(IF Accepted THEN "starting" ELSE "ended")
    /\ UNCHANGED <<options, signals, engine, task, stop, sessions, files>>

EngineStarts ==
    /\ stage = "starting"
    /\ engine' = "running"
    /\ Goto("binding tcp")
    /\ UNCHANGED <<options, signals, task, stop, sessions, files>>

\* Startup failed, or a signal came first.
EngineDoesNotStart ==
    /\ stage = "starting"
    /\ Goto("ended")
    /\ UNCHANGED <<options, signals, engine, task, stop, sessions, files>>

AfterBinding(l) == IF l = "tcp" THEN "binding unix" ELSE "waiting"

NotWanted(l) ==
    /\ stage = Binding(l)
    /\ ~Wanted(l)
    /\ Goto(AfterBinding(l))
    /\ UNCHANGED <<options, signals, engine, task, stop, sessions, files>>

\* The command line stops what runs; the other server returns.
BindFails(l) ==
    /\ stage = Binding(l)
    /\ Wanted(l)
    /\ Goto(IF CommandLine THEN "stopping tcp" ELSE "ended")
    /\ UNCHANGED <<options, signals, engine, task, stop, sessions, files>>

BindTcp ==
    /\ stage = "binding tcp"
    /\ Wanted("tcp")
    /\ task' = [task EXCEPT !["tcp"] = "accepting"]
    /\ Goto("binding unix")
    /\ UNCHANGED <<options, signals, engine, stop, sessions, files>>

\* Bind creates the file; it fails if there is one.
BindUnix ==
    /\ stage = "binding unix"
    /\ options.unix_socket_dir = "present"
    /\ path = "none"
    /\ path' = "own"
    /\ Goto("reading unix")
    /\ UNCHANGED <<options, signals, engine, task, stop, sessions, recorded, warned>>

\* symlink_metadata after bind.
ReadSocket ==
    /\ stage = "reading unix"
    /\ IF path = "none"
          THEN Goto(IF CommandLine THEN "stopping tcp" ELSE "ended") /\ UNCHANGED <<task, recorded>>
          ELSE /\ recorded' = path
               /\ task' = [task EXCEPT !["unix"] = "accepting"]
               /\ Goto("waiting")
    /\ UNCHANGED <<options, signals, engine, stop, sessions, path, warned>>

SignalReceived ==
    /\ stage = "waiting"
    /\ signals # {}
    /\ \E s \in signals : signals' = signals \ {s}
    /\ Goto(IF CommandLine THEN "stopping tcp" ELSE "stopping unix")
    /\ UNCHANGED <<options, engine, task, stop, sessions, files>>

\* shutdown(): the accept task is told to stop, and waited for.
StopListener(l) ==
    /\ stage = Stopping(l)
    /\ stop' = stop \cup {l}
    /\ stage' = IF task[l] \notin {"none", "ended"} THEN stage
                ELSE IF l = "tcp" THEN "stopping unix"
                ELSE IF CommandLine THEN "unwrapping" ELSE "ended"
    /\ UNCHANGED <<options, signals, engine, task, sessions, files>>

\* Who else has a reference to the engine.
Holders ==
    {l \in Listeners : task[l] \notin {"none", "ended"}}
        \cup {c \in Clients : client[c] = "running"}

\* Arc::try_unwrap, and shutdown() of the engine if it was the last reference.
Unwrap ==
    /\ stage = "unwrapping"
    /\ engine' = IF Holders = {} THEN "stopped" ELSE engine
    /\ Goto("ended")
    /\ UNCHANGED <<options, signals, task, stop, sessions, files>>

\* The command line catches both signals from the start on; the other server
\* catches only an interrupt, once it waits.  A signal that is not caught kills.
Catches(s) ==
    IF CommandLine THEN stage # "arguments"
    ELSE s = "interrupt" /\ stage \in {"waiting", "stopping unix"}

Signal(s) ==
    /\ stage \notin {"ended", "killed"}
    /\ IF Catches(s)
          THEN signals' = signals \cup {s} /\ UNCHANGED stage
          ELSE Goto("killed") /\ UNCHANGED signals
    /\ UNCHANGED <<options, engine, task, stop, sessions, files>>

----------------------------------------------------------------------------
\* The accept tasks.

Lives == stage \notin {"ended", "killed"}

Connects(c) ==
    /\ client[c] = "away"
    /\ Lives /\ task[at[c]] \in {"accepting", "draining"}
    /\ at[c] = "unix" => path = "own"
    /\ client' = [client EXCEPT ![c] = "pending"]
    /\ UNCHANGED <<options, stage, signals, engine, task, stop, at, files>>

\* The loop is at its select: what it looks at first is the request to stop.
Selects(l) ==
    /\ Lives /\ task[l] = "accepting"
    /\ \A c \in Clients : at[c] = l => client[c] # "accepted"

Accepts(c) ==
    /\ Selects(at[c]) /\ at[c] \notin stop
    /\ client[c] = "pending"
    /\ at[c] = "unix" => \A d \in Clients : at[d] = "unix" => client[d] # "finished"
    /\ \E outcome \in {"accepted", "away"} : client' = [client EXCEPT ![c] = outcome]
    /\ UNCHANGED <<options, stage, signals, engine, task, stop, at, files>>

\* The session joins the set with a reference to the engine of its own.
Spawns(c) ==
    /\ Lives /\ client[c] = "accepted"
    /\ client' = [client EXCEPT ![c] = "running"]
    /\ UNCHANGED <<options, stage, signals, engine, task, stop, at, files>>

\* The session's task ends; aborted, it ends where it waits next.
SessionEnds(c) ==
    /\ Lives /\ client[c] = "running"
    /\ client' = [client EXCEPT ![c] = "finished"]
    /\ UNCHANGED <<options, stage, signals, engine, task, stop, at, files>>

Joins(c) ==
    /\ client[c] = "finished"
    /\ \/ /\ Selects(at[c]) /\ at[c] \notin stop
          /\ at[c] = "tcp" => \A d \in Clients : at[d] = "tcp" => client[d] # "pending"
       \/ Lives /\ task[at[c]] = "draining"
    /\ client' = [client EXCEPT ![c] = "away"]
    /\ UNCHANGED <<options, stage, signals, engine, task, stop, at, files>>

\* Faulty variant: the loop breaks once its sessions are over.
StopsWhenIdle(l) ==
    /\ Selects(l) /\ l \in stop
    /\ \A c \in Clients : at[c] = l => client[c] # "running"
    /\ task' = [task EXCEPT ![l] = "draining"]
    /\ UNCHANGED <<options, stage, signals, engine, stop, sessions, files>>

\* The request to stop breaks the loop; the sessions are aborted.
Stops(l) ==
    /\ Selects(l) /\ l \in stop
    /\ task' = [task EXCEPT ![l] = "draining"]
    /\ UNCHANGED <<options, stage, signals, engine, stop, sessions, files>>

\* Faulty variant: sessions that still run are aborted and not joined.
DrainedAtOnce(l) ==
    /\ Lives /\ task[l] = "draining"
    /\ task' = [task EXCEPT ![l] = IF l = "tcp" THEN "ended" ELSE "closing"]
    /\ UNCHANGED <<options, stage, signals, engine, stop, sessions, files>>

\* The end of JoinSet::shutdown: every session is aborted and joined.  The listener
\* is closed next, and with it the connections it has not accepted.
Drained(l) ==
    /\ Lives /\ task[l] = "draining"
    /\ \A c \in Clients : at[c] = l => client[c] \in {"away", "pending"}
    /\ task' = [task EXCEPT ![l] = IF l = "tcp" THEN "ended" ELSE "closing"]
    /\ client' = [c \in Clients |-> IF at[c] = l THEN "away" ELSE client[c]]
    /\ UNCHANGED <<options, stage, signals, engine, stop, at, files>>

----------------------------------------------------------------------------
\* The socket file.

\* Drop of SocketFile: the file is looked at, and removed if it is the listener's.
ReadPath ==
    /\ Lives /\ task["unix"] = "closing"
    /\ task' = [task EXCEPT !["unix"] =
                    IF path = recorded /\ path \in {"own"} \cup Sockets THEN "unlinking" ELSE "ended"]
    /\ UNCHANGED <<options, stage, signals, engine, stop, sessions, files>>

RemoveFile ==
    /\ Lives /\ task["unix"] = "unlinking"
    /\ path # "none"
    /\ path' = "none"
    /\ task' = [task EXCEPT !["unix"] = "ended"]
    /\ UNCHANGED <<options, stage, signals, engine, stop, sessions, recorded, warned>>

\* The file is gone already, or the directory does not allow its removal: what is
\* there stays.
RemoveFails ==
    /\ Lives /\ task["unix"] = "unlinking"
    /\ warned' = TRUE
    /\ task' = [task EXCEPT !["unix"] = "ended"]
    /\ UNCHANGED <<options, stage, signals, engine, stop, sessions, path, recorded>>

\* Someone else removes or replaces the file.
Interferes(f) ==
    /\ Lives /\ path # f
    /\ path' = f
    /\ UNCHANGED <<options, stage, signals, engine, task, stop, sessions, recorded, warned>>

----------------------------------------------------------------------------
MainStep ==
    \/ Arguments \/ EngineStarts \/ EngineDoesNotStart
    \/ \E l \in Listeners : NotWanted(l) \/ BindFails(l) \/ StopListener(l)
    \/ BindTcp \/ BindUnix \/ ReadSocket \/ SignalReceived \/ Unwrap

LoopStep(l) ==
    \/ Stops(l) \/ Drained(l)
    \/ \E c \in Clients : at[c] = l /\ (Accepts(c) \/ Spawns(c) \/ Joins(c))

SocketStep == ReadPath \/ RemoveFile \/ RemoveFails

EnvironmentStep ==
    \/ \E s \in {"interrupt", "terminate"} : Signal(s)
    \/ \E c \in Clients : Connects(c)
    \/ \E f \in Others \cup {"none"} : Interferes(f)

Next ==
    \/ MainStep \/ SocketStep \/ EnvironmentStep
    \/ \E l \in Listeners : LoopStep(l)
    \/ \E c \in Clients : SessionEnds(c)

\* The server's tasks are scheduled; an aborted session ends.  Signals, clients
\* and other programs owe nothing, and a session that is not aborted may stay.
Fairness ==
    /\ WF_vars(MainStep)
    /\ \A l \in Listeners : WF_vars(LoopStep(l))
    /\ WF_vars(SocketStep)
    /\ \A c \in Clients : WF_vars(task[at[c]] = "draining" /\ SessionEnds(c))

Spec == Init /\ [][Next]_vars /\ Fairness

----------------------------------------------------------------------------
(* When the server has ended by itself its socket is not left at the path, *)
(* which would make the next start fail to bind, unless its removal failed *)
(* and the log says so.  When the command line has ended after its engine  *)
(* started, nobody else has a reference to the engine and it was shut      *)
(* down: "listeners retained the database engine after shutdown" is never  *)
(* reported, whichever listener failed to start and whatever sessions      *)
(* came, ran and were accepted in between.                                 *)
StopsCleanly ==
    stage = "ended" =>
        /\ path = "own" => warned
        /\ CommandLine /\ engine # "unstarted" => Holders = {} /\ engine = "stopped"

(* A server that caught a signal ends: neither a session that would stay   *)
(* forever nor clients that keep connecting hold up the shutdown of its    *)
(* listeners, and a start or bind that is under way does not lose it.      *)
ServeEnds == signals # {} ~> stage \in {"ended", "killed"}
=============================================================================
