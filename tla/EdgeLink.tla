------------------------------ MODULE EdgeLink ------------------------------
(***************************************************************************)
(* The link between one robot and the platform: the runtime of the         *)
(* cloud-edge simulator (client.ts) with its sockets and timers, the       *)
(* network, and the edge gateway of the platform (websocket.ts) with its   *)
(* peers and its task chain, and the orderly stop of the platform.         *)
(*                                                                         *)
(* The gateway keeps one peer set and one task chain per robot and robots  *)
(* share only its closing flag, so one robot is enough.  The service is    *)
(* external: a task takes time and then settles, a task that fails like    *)
(* one that succeeds.  Pings and errors are not on the wire, the simulator *)
(* ignores them; of the frames to the platform only the hellos are, the    *)
(* others leave the connection alone.                                      *)
(*                                                                         *)
(* Sockets are slots; a slot is used again once both of its ends are       *)
(* closed.  Bounds: MaxInFlight, MaxTasks, MaxCuts.                        *)
(***************************************************************************)
EXTENDS SimulatorMessages

CONSTANTS
    Sockets, NoSocket,
    RobotId,
    Commands,      \* the commands the service may send
    MaxInFlight,   \* bound on the commands on their way on a socket
    MaxTasks,      \* bound on the frames waiting in the chain
    MaxCuts        \* bound on the connections the network cuts

ASSUME SocketAssumption == NoSocket \notin Sockets
ASSUME CommandAssumption ==
    \A command \in Commands :
        command.sequence \in Nat /\ command.type \in {"GO_TO_POSE", "CANCEL_MISSION"}
ASSUME BoundAssumption == MaxInFlight \in Nat \ {0} /\ MaxTasks \in Nat \ {0}
                            /\ MaxCuts \in Nat

VARIABLES
    \* client.ts
    simulator,               \* its state
    socket,                  \* the socket it believes to be its own
    telemetryTimer, reconnectTimer, scenarioReconnectTimer,   \* is the timer set?
    stopped,
    \* the network
    link,                    \* both ends of each socket and what is on the wire
    cuts,
    \* websocket.ts
    peers,                   \* connectionsByRobot
    tasks,                   \* processingByRobot: the chain of the tasks that have not started
    running,                 \* is a task running?
    told,                    \* the last of hello and disconnect handed to the service
    \* server.ts
    sweeping,                \* is a freshness sweep active while the platform stops?
    shutdown,                \* how far stop() has come
    awaited                  \* tasks closeAll saw and still waits for

edgeVars == <<simulator, socket, telemetryTimer, reconnectTimer, scenarioReconnectTimer, stopped>>
gatewayVars == <<peers, tasks, running, told>>
stopVars == <<sweeping, shutdown, awaited>>
edgeTimers == <<telemetryTimer, reconnectTimer, scenarioReconnectTimer>>
vars == <<edgeVars, link, cuts, gatewayVars, stopVars>>

EdgeEnds == {"CONNECTING", "OPEN", "CLOSING", "ERRORED", "CLOSED"}
CloudEnds == {"NONE", "OPEN", "CLOSING", "CLOSED"}
Frames == {"edge.hello"}
Tasks == Frames \union {"disconnect"}

Connection(edge, cloud) == [edge |-> edge, cloud |-> cloud, cut |-> FALSE,
                            up |-> <<>>, down |-> <<>>]

closing == shutdown \in {"sockets", "done"}

Init ==
    /\ \E scenario \in SimulatorScenarios :
           simulator = createInitialSimulatorState(RobotId, scenario, 0)
    /\ socket = NoSocket
    /\ telemetryTimer = FALSE
    /\ reconnectTimer = TRUE   \* the first connect() is like one whose delay is over
    /\ scenarioReconnectTimer = FALSE
    /\ stopped = FALSE
    /\ link = [s \in Sockets |-> Connection("CLOSED", "NONE")]
    /\ cuts = 0
    /\ peers = {}
    /\ tasks = <<>>
    /\ running = FALSE
    /\ told = "nothing"
    /\ sweeping = FALSE
    /\ shutdown = "no"
    /\ awaited = 0

(***************************************************************************)
(* The simulator: client.ts.                                               *)
(***************************************************************************)

\* Only hellos are kept: acknowledgements, telemetry and handshakes leave the connection alone.
\* No step sends two.
Hellos(frames) ==
    IF \E i \in DOMAIN frames : frames[i].type = "edge.hello" THEN <<"edge.hello">> ELSE <<>>

IsOpen(links, s) == s # NoSocket /\ links[s].edge = "OPEN"

\* A frame is dropped unless the simulator's current socket is open.
sendMessage(links, frames) ==
    IF IsOpen(links, socket) THEN [links EXCEPT ![socket].up = @ \o Hellos(frames)] ELSE links

\* Starting telemetry sends a first heartbeat at once, unless the timer runs already.
applyStep(links, step) ==
    LET starts == "start_telemetry" \in step.actions
        heartbeat == IF starts /\ ~telemetryTimer
                     THEN createTelemetryMessage(step.state, 0, 0).outbound ELSE <<>> IN
    /\ simulator' = step.state
    /\ link' = sendMessage(links, step.outbound \o heartbeat)
    /\ telemetryTimer' = (starts \/ (telemetryTimer /\ "stop_telemetry" \notin step.actions))
    /\ scenarioReconnectTimer' =
           (scenarioReconnectTimer \/ "disconnect_for_reconnect" \in step.actions)

CanReuse(s) == link[s].edge = "CLOSED" /\ link[s].cloud \in {"NONE", "CLOSED"}

\* The reconnect timer.  Node fires the close event of a socket, if at all, right after its error
\* event, the timer a configured delay later (a second by default).
\* Mutant: the timer is not forgotten when it fires.
connectAgain(s) ==
    /\ reconnectTimer
    /\ CanReuse(s)
    /\ \A t \in Sockets : link[t].edge # "ERRORED"
    /\ socket' = s
    /\ link' = [link EXCEPT ![s] = Connection("CONNECTING", "NONE")]
    /\ UNCHANGED <<simulator, edgeTimers, stopped, cuts, gatewayVars, stopVars>>

connect(s) ==
    /\ reconnectTimer
    /\ CanReuse(s)
    /\ \A t \in Sockets : link[t].edge # "ERRORED"
    /\ reconnectTimer' = FALSE
    /\ socket' = s
    /\ link' = [link EXCEPT ![s] = Connection("CONNECTING", "NONE")]
    /\ UNCHANGED <<simulator, telemetryTimer, scenarioReconnectTimer, stopped, cuts,
                   gatewayVars, stopVars>>

OpenEvent(s) ==
    /\ link[s].edge = "CONNECTING" /\ link[s].cloud # "NONE" /\ ~link[s].cut
    /\ applyStep([link EXCEPT ![s].edge = "OPEN"], openStep(simulator, 0, 0))
    /\ UNCHANGED <<socket, reconnectTimer, stopped, cuts, gatewayVars, stopVars>>

\* A socket that is closing delivers no more messages.
MessageEvent(s) ==
    /\ link[s].edge = "OPEN" /\ link[s].down # <<>>
    /\ applyStep([link EXCEPT ![s].down = Tail(@)],
                 handlePlatformMessage(simulator, [type |-> "platform.command",
                                                   payload |-> Head(link[s].down)], 0))
    /\ UNCHANGED <<socket, reconnectTimer, stopped, cuts, gatewayVars, stopVars>>

\* Mutant: telemetry goes on without a socket.
socketLostButForTelemetry(s, end) ==
    /\ socket' = NoSocket
    /\ reconnectTimer' = ~stopped
    /\ link' = [link EXCEPT ![s].edge = end]
    /\ UNCHANGED <<simulator, telemetryTimer, scenarioReconnectTimer, stopped, cuts,
                   gatewayVars, stopVars>>

\* The error and close handlers: they do not ask whether s is still the current socket.
socketLost(s, end) ==
    /\ telemetryTimer' = FALSE
    /\ socket' = NoSocket
    /\ reconnectTimer' = ~stopped
    /\ link' = [link EXCEPT ![s].edge = end]
    /\ UNCHANGED <<simulator, scenarioReconnectTimer, stopped, cuts, gatewayVars, stopVars>>

\* Mutant: the error handler leaves it to a close event to reconnect.
ErrorEventBeforeClose(s) ==
    /\ link[s].edge \in {"CONNECTING", "OPEN", "CLOSING"} /\ link[s].cut
    /\ link' = [link EXCEPT ![s].edge = "ERRORED"]
    /\ UNCHANGED <<edgeVars, cuts, gatewayVars, stopVars>>

ErrorEvent(s) ==
    /\ link[s].edge \in {"CONNECTING", "OPEN", "CLOSING"} /\ link[s].cut
    /\ socketLost(s, "ERRORED")

CloseEvent(s) ==
    /\ \/ link[s].edge = "OPEN" /\ link[s].down = <<>>
             /\ (link[s].cut \/ link[s].cloud \in {"CLOSING", "CLOSED"})
       \/ link[s].edge = "CLOSING" /\ (link[s].cut \/ link[s].cloud = "CLOSED")
       \/ link[s].edge = "ERRORED"
    /\ socketLost(s, "CLOSED")

\* The runtime's test drops a connection with an error and no close event.
ErrorWithoutClose(s) ==
    /\ link[s].edge = "ERRORED"
    /\ link' = [link EXCEPT ![s].edge = "CLOSED"]
    /\ UNCHANGED <<edgeVars, cuts, gatewayVars, stopVars>>

\* It closes whatever socket is current when it fires.
ScenarioReconnectTimer ==
    /\ scenarioReconnectTimer
    /\ scenarioReconnectTimer' = FALSE
    /\ link' = IF IsOpen(link, socket) THEN [link EXCEPT ![socket].edge = "CLOSING"] ELSE link
    /\ UNCHANGED <<simulator, socket, telemetryTimer, reconnectTimer, stopped, cuts,
                   gatewayVars, stopVars>>

\* Closing a socket that is still connecting breaks it off.
StopSimulator ==
    /\ ~stopped
    /\ stopped' = TRUE
    /\ telemetryTimer' = FALSE
    /\ reconnectTimer' = FALSE
    /\ scenarioReconnectTimer' = FALSE
    /\ link' = IF socket = NoSocket THEN link
               ELSE [link EXCEPT ![socket].cut = @ \/ link[socket].edge = "CONNECTING",
                                 ![socket].edge = "CLOSING"]
    /\ UNCHANGED <<simulator, socket, cuts, gatewayVars, stopVars>>

(***************************************************************************)
(* The network.                                                            *)
(***************************************************************************)

\* The connection breaks; each end gets what was already under way to it, or part of it, and
\* notices in its own time.
Cut(s) ==
    /\ cuts < MaxCuts
    /\ ~link[s].cut /\ (link[s].edge # "CLOSED" \/ link[s].cloud = "OPEN")
    /\ \E m \in 0..Len(link[s].up), n \in 0..Len(link[s].down) :
           link' = [link EXCEPT ![s].cut = TRUE, ![s].up = SubSeq(@, 1, m),
                                ![s].down = SubSeq(@, 1, n)]
    /\ cuts' = cuts + 1
    /\ UNCHANGED <<edgeVars, gatewayVars, stopVars>>

(***************************************************************************)
(* The gateway: websocket.ts.                                              *)
(***************************************************************************)

\* Mutant: a closing gateway still accepts work.
alwaysEnqueued(chain, task) == Append(chain, task)

\* A closing gateway drops new work.
enqueueRobotTask(chain, task) == IF closing THEN chain ELSE Append(chain, task)

\* A peer that is not open any more gets nothing.
sendToPeers(links, receivers, message) ==
    [s \in Sockets |-> IF s \in receivers /\ links[s].cloud = "OPEN"
                       THEN [links[s] EXCEPT !.down = Append(@, message)] ELSE links[s]]

\* Every connected peer gets a message, unless the gateway is closing.
sendPlatformMessage(message) ==
    link' = IF closing THEN link ELSE sendToPeers(link, peers, message)

HandleUpgrade(s) ==
    /\ link[s].edge = "CONNECTING" /\ link[s].cloud = "NONE" /\ ~link[s].cut
    /\ \/ /\ closing   \* 503
          /\ link' = [link EXCEPT ![s].cut = TRUE]
          /\ peers' = peers
       \/ /\ ~closing
          /\ link' = [link EXCEPT ![s].cloud = "OPEN"]
          /\ peers' = peers \union {s}
    /\ UNCHANGED <<edgeVars, cuts, tasks, running, told, stopVars>>

ReceiveFrame(s) ==
    /\ link[s].cloud \in {"OPEN", "CLOSING"} /\ link[s].up # <<>>
    /\ Len(tasks) < MaxTasks
    /\ link' = [link EXCEPT ![s].up = Tail(@)]
    /\ tasks' = enqueueRobotTask(tasks, Head(link[s].up))
    /\ UNCHANGED <<edgeVars, cuts, peers, running, told, stopVars>>

\* Mutant: every peer that leaves is a disconnect of the robot.
removeAnyPeer(s) ==
    /\ peers' = peers \ {s}
    /\ tasks' = IF s \in peers
                THEN enqueueRobotTask(tasks, "disconnect") ELSE tasks

\* The close hook runs once per peer.  Only the last peer's leaving is a disconnect.
removePeer(s) ==
    /\ peers' = peers \ {s}
    /\ tasks' = IF peers = {s}
                THEN enqueueRobotTask(tasks, "disconnect") ELSE tasks

PeerClosed(s) ==
    /\ link[s].cloud \in {"OPEN", "CLOSING"} /\ link[s].up = <<>>
    /\ link[s].cut \/ link[s].edge \in {"CLOSING", "ERRORED", "CLOSED"}
    /\ removePeer(s)
    /\ link' = [link EXCEPT ![s].cloud = "CLOSED"]
    /\ UNCHANGED <<edgeVars, cuts, running, told, stopVars>>

\* The service sends a command to whoever is connected.
SendCommand(command) ==
    /\ peers # {} /\ ~closing
    /\ \A s \in peers : Len(link[s].down) < MaxInFlight
    /\ sendPlatformMessage(command)
    /\ UNCHANGED <<edgeVars, cuts, gatewayVars, stopVars>>

StartTask ==
    /\ ~running /\ tasks # <<>>
    /\ running' = TRUE
    /\ tasks' = Tail(tasks)
    /\ told' = IF Head(tasks) = "edge.hello" THEN "connected" ELSE "disconnected"
    /\ UNCHANGED <<edgeVars, link, cuts, peers, stopVars>>

\* Mutant: tasks that closeAll does not wait for are counted too.
FinishAnyTask ==
    /\ running
    /\ running' = FALSE
    /\ awaited' = awaited - 1
    /\ UNCHANGED <<edgeVars, link, cuts, peers, tasks, told, sweeping, shutdown>>

\* Succeeds or fails: the next task of the chain runs either way.
FinishTask ==
    /\ running
    /\ running' = FALSE
    /\ awaited' = IF awaited > 0 THEN awaited - 1 ELSE 0
    /\ UNCHANGED <<edgeVars, link, cuts, peers, tasks, told, sweeping, shutdown>>

(***************************************************************************)
(* The freshness sweep and the orderly stop: server.ts.                    *)
(***************************************************************************)

\* The interval is cleared; a sweep may be active.
StopPlatform ==
    /\ shutdown = "no"
    /\ shutdown' = "sweep"
    /\ sweeping' \in BOOLEAN
    /\ UNCHANGED <<edgeVars, link, cuts, gatewayVars, awaited>>

SweepEnds ==
    /\ sweeping
    /\ sweeping' = FALSE
    /\ UNCHANGED <<edgeVars, link, cuts, gatewayVars, shutdown, awaited>>

\* Mutant: closeAll also waits for a disconnect of the peers it closes, which enqueueRobotTask
\* drops.
closeAllForDisconnects ==
    /\ shutdown = "sweep" /\ ~sweeping
    /\ shutdown' = "sockets"
    /\ awaited' = Len(tasks) + (IF running THEN 1 ELSE 0) + (IF peers # {} THEN 1 ELSE 0)
    /\ peers' = {}
    /\ link' = [s \in Sockets |-> IF s \in peers THEN [link[s] EXCEPT !.cloud = "CLOSING"]
                                  ELSE link[s]]
    /\ UNCHANGED <<edgeVars, cuts, tasks, running, told, sweeping>>

\* The hooks of the peers it closes find the closing flag set: no disconnect is queued.
closeAll ==
    /\ shutdown = "sweep" /\ ~sweeping
    /\ shutdown' = "sockets"
    /\ awaited' = Len(tasks) + IF running THEN 1 ELSE 0
    /\ peers' = {}
    /\ link' = [s \in Sockets |-> IF s \in peers THEN [link[s] EXCEPT !.cloud = "CLOSING"]
                                  ELSE link[s]]
    /\ UNCHANGED <<edgeVars, cuts, tasks, running, told, sweeping>>

CloseRepository ==
    /\ shutdown = "sockets" /\ awaited = 0
    /\ shutdown' = "done"
    /\ UNCHANGED <<edgeVars, link, cuts, gatewayVars, sweeping, awaited>>

-----------------------------------------------------------------------------
EdgeEvent(s) == OpenEvent(s) \/ MessageEvent(s) \/ ErrorEvent(s) \/ CloseEvent(s)
                    \/ ErrorWithoutClose(s)
PeerEvent(s) == HandleUpgrade(s) \/ ReceiveFrame(s) \/ PeerClosed(s)
RunChain == StartTask \/ FinishTask
Stop == SweepEnds \/ closeAll \/ CloseRepository

Next ==
    \/ \E s \in Sockets : connect(s) \/ EdgeEvent(s) \/ PeerEvent(s) \/ Cut(s)
    \/ ScenarioReconnectTimer \/ StopSimulator
    \/ \E command \in Commands : SendCommand(command)
    \/ RunChain \/ StopPlatform \/ Stop

\* Timers fire, each end of a socket delivers what is on the wire and reports its end, handlers
\* settle.  No one has to stop, send a command or lose a connection.
Fairness ==
    /\ \A s \in Sockets : WF_vars(EdgeEvent(s)) /\ WF_vars(PeerEvent(s))
    /\ WF_vars(\E s \in Sockets : connect(s))
    /\ WF_vars(ScenarioReconnectTimer)
    /\ WF_vars(RunChain)
    /\ WF_vars(Stop)

Spec == Init /\ [][Next]_vars /\ Fairness
-----------------------------------------------------------------------------
(***************************************************************************)
(* Properties.                                                             *)
(***************************************************************************)

TypeOK ==
    /\ simulator.robotId = RobotId /\ simulator.scenario \in SimulatorScenarios
    /\ socket \in Sockets \union {NoSocket}
    /\ telemetryTimer \in BOOLEAN /\ reconnectTimer \in BOOLEAN
    /\ scenarioReconnectTimer \in BOOLEAN /\ stopped \in BOOLEAN
    /\ link \in [Sockets -> [edge : EdgeEnds, cloud : CloudEnds, cut : BOOLEAN,
                             up : Seq(Frames), down : Seq(Commands)]]
    /\ cuts \in 0..MaxCuts
    /\ peers \subseteq Sockets
    /\ tasks \in Seq(Tasks)
    /\ running \in BOOLEAN /\ sweeping \in BOOLEAN
    /\ told \in {"nothing", "connected", "disconnected"}
    /\ shutdown \in {"no", "sweep", "sockets", "done"}
    /\ awaited \in Nat

\* The simulator never runs two connections: whatever order errors, closes, the scenario's timer
\* and the reconnect timer come in, a socket that is connecting, open or closing is the current
\* one, and while there is one no other connection is scheduled.  With two, every command would
\* be carried out and acknowledged twice.
OneConnection ==
    \A s \in Sockets : link[s].edge \in {"CONNECTING", "OPEN", "CLOSING"} =>
        socket = s /\ ~reconnectTimer

\* Heartbeats belong to a connection: the timer is set only while there is a current socket, in
\* the normal scenario it is set on every open one, and after stop() no timer is left to bring
\* the simulator back.
HeartbeatsFollowConnection ==
    /\ telemetryTimer => socket # NoSocket
    /\ simulator.scenario = "normal" /\ IsOpen(link, socket) => telemetryTimer
    /\ stopped => ~telemetryTimer /\ ~reconnectTimer /\ ~scenarioReconnectTimer

\* When the chain is idle the service has been told the truth, however connections overlapped
\* and frames of the old and the new one mixed: a robot without a peer was not left connected,
\* and one whose open socket has nothing more on the way was not left disconnected.
ServiceKnowsTheRobot ==
    tasks = <<>> /\ ~running /\ ~closing =>
        /\ peers = {} => told # "connected"
        /\ (\E s \in peers : link[s].edge = "OPEN" /\ ~link[s].cut /\ link[s].up = <<>>)
               => told = "connected"

\* Once stop() has closed the repository no edge task and no sweep is left to use it.
NothingAfterTheRepository == shutdown = "done" => tasks = <<>> /\ ~running /\ ~sweeping

Connected == socket # NoSocket /\ IsOpen(link, socket)

\* A simulator that loses its connection gets it back, unless it or the platform is stopped.
Reconnects == []<>(Connected \/ stopped \/ shutdown # "no")

\* stop() of the platform ends: the sweep, the peers' handlers and the chain never wait on each
\* other, and what comes in meanwhile does not hold it up.
ShutdownEnds == shutdown # "no" ~> shutdown = "done"
=============================================================================
