---------------------------- MODULE ServerProofs ----------------------------
(***************************************************************************)
(* A server that ends by itself leaves nothing behind, for every number of *)
(* clients, every configuration and whatever others do to the file at the  *)
(* path of its socket.                                                     *)
(*                                                                         *)
(* StopsCleanly speaks of the last state only.  What carries it there is   *)
(* how far the accept tasks can be at each stage of the main task, who     *)
(* still owns the file, and that a session never outlives the loop that    *)
(* has to join it.                                                         *)
(***************************************************************************)
EXTENDS Server, TLAPS

Gone == {"none", "ended"}

ServerTypeOK ==
    /\ stage \in {"arguments", "starting", "binding tcp", "binding unix", "reading unix", "waiting",
                  "stopping tcp", "stopping unix", "unwrapping", "ended", "killed"}
    /\ engine \in {"unstarted", "running", "stopped"}
    /\ task \in [Listeners -> {"none", "accepting", "draining", "closing", "unlinking", "ended"}]
    /\ client \in [Clients -> {"away", "pending", "accepted", "running", "finished"}]
    /\ at \in [Clients -> Listeners]

\* The main task waits for an accept task before it goes on.
StagesInOrder ==
    /\ stage \in {"arguments", "starting"} => engine = "unstarted"
    /\ stage \in {"arguments", "starting", "binding tcp"} => task["tcp"] = "none"
    /\ stage \in {"arguments", "starting", "binding tcp", "binding unix", "reading unix"} =>
            task["unix"] = "none"
    /\ stage = "stopping unix" /\ CommandLine => task["tcp"] \in Gone
    /\ stage = "unwrapping" => CommandLine /\ task["tcp"] \in Gone /\ task["unix"] \in Gone

\* The socket has someone who will remove it, or that was tried.
SocketIsOwned ==
    path = "own" =>
        \/ stage \in {"reading unix", "killed"}
        \/ recorded = "own" /\ task["unix"] \notin Gone
        \/ warned

\* A session exists only as long as the accept loop it belongs to.
SessionsAreJoined ==
    \A c \in Clients :
        /\ client[c] = "accepted" => task[at[c]] = "accepting"
        /\ client[c] = "running" => task[at[c]] \in {"accepting", "draining"}

ServerInv ==
    /\ ServerTypeOK
    /\ StagesInOrder
    /\ SocketIsOwned
    /\ SessionsAreJoined
    /\ StopsCleanly
----------------------------------------------------------------------------

LEMMA ServerStart == Init => ServerInv
BY OthersAssumption DEF Init, ServerInv, ServerTypeOK, StagesInOrder, SocketIsOwned, SessionsAreJoined,
    StopsCleanly, Listeners, Gone

\* What Unwrap finds: with both accept tasks gone there is no session either.
LEMMA NobodyHolds ==
    ASSUME ServerTypeOK, SessionsAreJoined, task["tcp"] \in Gone, task["unix"] \in Gone
    PROVE  Holders = {}
BY DEF ServerTypeOK, SessionsAreJoined, Holders, Listeners, Gone

\* The main task's steps touch no session, and the accept tasks only to start one.
LEMMA MainStepKeeps ==
    ASSUME ServerInv, MainStep
    PROVE  ServerInv'
<1> USE DEF sessions, files, Goto, Listeners, Gone
<1>0. ServerTypeOK /\ StagesInOrder /\ SocketIsOwned /\ SessionsAreJoined /\ StopsCleanly
    BY DEF ServerInv
<1>1. CASE Arguments
    BY <1>0, <1>1 DEF Arguments, ServerInv, ServerTypeOK, StagesInOrder, SocketIsOwned,
        SessionsAreJoined, StopsCleanly, CommandLine
<1>2. CASE EngineStarts \/ EngineDoesNotStart
    BY <1>0, <1>2 DEF EngineStarts, EngineDoesNotStart, ServerInv, ServerTypeOK, StagesInOrder,
        SocketIsOwned, SessionsAreJoined, StopsCleanly, CommandLine
<1>3. ASSUME NEW l \in Listeners, NotWanted(l) \/ BindFails(l)
      PROVE  ServerInv'
    <2>1. CASE NotWanted(l)
        BY <1>0, <2>1 DEF NotWanted, Binding, AfterBinding, ServerInv, ServerTypeOK,
            StagesInOrder, SocketIsOwned, SessionsAreJoined, StopsCleanly, CommandLine
    <2>2. CASE BindFails(l)
        BY <1>0, <2>2 DEF BindFails, Binding, AfterBinding, ServerInv, ServerTypeOK,
            StagesInOrder, SocketIsOwned, SessionsAreJoined, StopsCleanly, CommandLine
    <2> QED
        BY <1>3, <2>1, <2>2
<1>4. ASSUME NEW l \in Listeners, StopListener(l)
      PROVE  ServerInv'
    BY <1>0, <1>4 DEF StopListener, Stopping, ServerInv, ServerTypeOK,
        StagesInOrder, SocketIsOwned, SessionsAreJoined, StopsCleanly, CommandLine
<1>5. CASE BindTcp
    BY <1>0, <1>5 DEF BindTcp, ServerInv, ServerTypeOK, StagesInOrder, SocketIsOwned,
        SessionsAreJoined, StopsCleanly, CommandLine
<1>6. CASE BindUnix
    BY <1>0, <1>6 DEF BindUnix, ServerInv, ServerTypeOK, StagesInOrder, SocketIsOwned,
        SessionsAreJoined, StopsCleanly, CommandLine
<1>7. CASE ReadSocket
    <2>1. CASE path = "none"
        <3>1. /\ stage = "reading unix" /\ stage' = IF CommandLine THEN "stopping tcp" ELSE "ended"
              /\ UNCHANGED <<options, engine, task, client, at, path>> /\ path # "own"
            BY <1>7, <2>1 DEF ReadSocket
        <3>2. CommandLine' <=> CommandLine
            BY <3>1 DEF CommandLine
        <3>3. ServerTypeOK' /\ SocketIsOwned' /\ SessionsAreJoined'
            BY <1>0, <3>1 DEF ServerTypeOK, SocketIsOwned, SessionsAreJoined
        <3>4. StagesInOrder' /\ StopsCleanly'
            BY <1>0, <3>1, <3>2 DEF StagesInOrder, StopsCleanly
        <3> QED  BY <3>3, <3>4 DEF ServerInv
    <2>2. CASE path # "none"
        <3>1. /\ stage = "reading unix" /\ stage' = "waiting"
              /\ task' = [task EXCEPT !["unix"] = "accepting"] /\ task["unix"] = "none"
              /\ recorded' = path /\ UNCHANGED <<options, engine, client, at, path, warned>>
            BY <1>0, <1>7, <2>2 DEF ReadSocket, StagesInOrder
        <3>2. task' \in [Listeners -> {"none", "accepting", "draining", "closing", "unlinking", "ended"}]
                /\ task'["unix"] = "accepting" /\ task'["tcp"] = task["tcp"]
            BY <1>0, <3>1 DEF ServerTypeOK
        <3>3. SessionsAreJoined'
            BY <1>0, <3>1, <3>2 DEF ServerTypeOK, SessionsAreJoined
        <3> QED  BY <1>0, <3>1, <3>2, <3>3 DEF ServerInv, ServerTypeOK, StagesInOrder, SocketIsOwned,
                    StopsCleanly
    <2> QED  BY <2>1, <2>2
<1>8. CASE SignalReceived
    BY <1>0, <1>8 DEF SignalReceived, ServerInv, ServerTypeOK, StagesInOrder, SocketIsOwned,
        SessionsAreJoined, StopsCleanly, CommandLine
<1>9. CASE Unwrap
    <2>1. task["tcp"] \in Gone /\ task["unix"] \in Gone /\ Holders = {}
        BY <1>0, <1>9, NobodyHolds DEF Unwrap, StagesInOrder
    <2>2. Holders' = Holders
        BY <1>9 DEF Unwrap, Holders
    <2> QED  BY <1>0, <1>9, <2>1, <2>2 DEF Unwrap, ServerInv, ServerTypeOK, StagesInOrder,
                SocketIsOwned, SessionsAreJoined, StopsCleanly, CommandLine
<1> QED  BY <1>1, <1>2, <1>3, <1>4, <1>5, <1>6, <1>7, <1>8, <1>9 DEF MainStep

\* The accept tasks, their sessions and the socket file, while the server lives.
LEMMA TaskStepKeeps ==
    ASSUME ServerInv, SocketStep \/ EnvironmentStep \/ (\E l \in Listeners : LoopStep(l))
                        \/ (\E c \in Clients : SessionEnds(c))
    PROVE  ServerInv'
<1> USE DEF sessions, files, Goto, Listeners, Gone, Lives
<1>0. ServerTypeOK /\ StagesInOrder /\ SocketIsOwned /\ SessionsAreJoined /\ StopsCleanly
    BY DEF ServerInv
\* A client that moves on leaves all the rest as it was.
<1>1. ASSUME NEW c \in Clients, NEW s \in {"away", "pending", "accepted", "running", "finished"},
             client' = [client EXCEPT ![c] = s], Lives,
             s = "accepted" => task[at[c]] = "accepting",
             s = "running" => task[at[c]] \in {"accepting", "draining"},
             UNCHANGED <<options, stage, signals, engine, task, stop, at, files>>
      PROVE  ServerInv'
    <2>1. \A d \in Clients : client'[d] = IF d = c THEN s ELSE client[d]
        BY <1>0, <1>1 DEF ServerTypeOK
    <2>2. SessionsAreJoined'
        BY <1>0, <1>1, <2>1 DEF SessionsAreJoined
    <2> QED  BY <1>0, <1>1, <2>2 DEF ServerInv, ServerTypeOK, StagesInOrder, SocketIsOwned, StopsCleanly,
                CommandLine
<1>2. ASSUME NEW c \in Clients, \/ Connects(c) \/ Accepts(c) \/ Spawns(c) \/ SessionEnds(c) \/ Joins(c)
      PROVE  ServerInv'
    BY <1>0, <1>1, <1>2 DEF Connects, Accepts, Selects, Spawns, SessionEnds, Joins, SessionsAreJoined
<1>3. ASSUME NEW l \in Listeners, Stops(l)
      PROVE  ServerInv'
    BY <1>0, <1>3 DEF Stops, Selects, ServerInv, ServerTypeOK, StagesInOrder, SocketIsOwned,
        SessionsAreJoined, StopsCleanly, CommandLine
<1>4. ASSUME NEW l \in Listeners, Drained(l)
      PROVE  ServerInv'
    BY <1>0, <1>4 DEF Drained, ServerInv, ServerTypeOK, StagesInOrder, SocketIsOwned,
        SessionsAreJoined, StopsCleanly, CommandLine
<1>5. CASE ReadPath
    BY <1>0, <1>5 DEF ReadPath, ServerInv, ServerTypeOK, StagesInOrder, SocketIsOwned,
        SessionsAreJoined, StopsCleanly, CommandLine
<1>6. CASE RemoveFile \/ RemoveFails
    <2>1. /\ task["unix"] = "unlinking" /\ task' = [task EXCEPT !["unix"] = "ended"]
          /\ UNCHANGED <<options, stage, engine, client, at>> /\ Lives
          /\ path' = "own" => warned'
        BY <1>6 DEF RemoveFile, RemoveFails
    <2>2. /\ task' \in [Listeners -> {"none", "accepting", "draining", "closing", "unlinking", "ended"}]
          /\ task'["unix"] = "ended" /\ task'["tcp"] = task["tcp"]
        BY <1>0, <2>1 DEF ServerTypeOK
    <2>3. SessionsAreJoined'
        BY <1>0, <2>1, <2>2 DEF ServerTypeOK, SessionsAreJoined
    <2> QED  BY <1>0, <2>1, <2>2, <2>3 DEF ServerInv, ServerTypeOK, StagesInOrder, SocketIsOwned,
                StopsCleanly, CommandLine
<1>7. ASSUME NEW f \in Others \cup {"none"}, Interferes(f)
      PROVE  ServerInv'
    BY <1>0, <1>7, OthersAssumption DEF Interferes, ServerInv, ServerTypeOK, StagesInOrder, SocketIsOwned,
        SessionsAreJoined, StopsCleanly, CommandLine
<1>8. ASSUME NEW s \in {"interrupt", "terminate"}, Signal(s)
      PROVE  ServerInv'
    BY <1>0, <1>8 DEF Signal, ServerInv, ServerTypeOK, StagesInOrder, SocketIsOwned,
        SessionsAreJoined, StopsCleanly, CommandLine
<1> QED  BY <1>2, <1>3, <1>4, <1>5, <1>6, <1>7, <1>8 DEF SocketStep, EnvironmentStep, LoopStep

LEMMA ServerStep == ServerInv /\ [Next]_vars => ServerInv'
<1> SUFFICES ASSUME ServerInv, [Next]_vars  PROVE  ServerInv'
    OBVIOUS
<1>1. CASE UNCHANGED vars
    BY <1>1 DEF vars, sessions, files, ServerInv, ServerTypeOK, StagesInOrder, SocketIsOwned,
        SessionsAreJoined, StopsCleanly, CommandLine, Holders
<1>2. CASE Next
    BY <1>2, MainStepKeeps, TaskStepKeeps DEF Next
<1> QED  BY <1>1, <1>2

\* The servers of apps/cli and apps/server end as they should: whichever listener
\* failed to start, whatever came in between, and whoever removed or replaced the
\* socket, the server's own socket is not left at its path without a warning, and
\* the command line has unwrapped the last reference to the engine and shut it
\* down.
THEOREM ServerStopsCleanly == Spec => []StopsCleanly
<1>1. ServerInv => StopsCleanly
    BY DEF ServerInv
<1> QED  BY <1>1, ServerStart, ServerStep, PTL DEF Spec

=============================================================================
