--------------------------- MODULE FleetPlatform ---------------------------
(***************************************************************************)
(* The calls of service.ts running against each other: operator requests,  *)
(* the robot's edge messages one after the other, the freshness sweep and  *)
(* the demo controls, composed with the reducers (FleetDomain) and a       *)
(* simulated edge (SimulatorMessages).                                     *)
(*                                                                         *)
(* A call is a list of steps.  Each is one repository transaction or one   *)
(* send, and between two of them any other call may run and time may pass; *)
(* the call goes on with the time it was stamped with.  A read whose       *)
(* answer cannot change before it is used is part of the step that uses    *)
(* it.  One creation, one cancellation, one demo control, one sweep and    *)
(* one frame of the chain are under way at a time.                         *)
(*                                                                         *)
(* A transaction may fail, before its effect or after it, and its call     *)
(* ends there: an operator gets an error, a frame is dropped with the edge *)
(* still connected.                                                        *)
(*                                                                         *)
(* The connection is a pair of queues: inbox holds frames sent and not yet *)
(* taken up, down the commands on their way.  A drop loses the end of each *)
(* and queues the disconnect; overlapping connections are the subject of   *)
(* EdgeLink.  There is one robot, the seeded one.  The demo's reset and    *)
(* its incident, a reset and a creation, are left to MissionRequests.      *)
(* Bounds: MaxFaults, MaxHeartbeats, MaxTime and the sets of ids.          *)
(***************************************************************************)
EXTENDS FleetDomain, Sequences, FiniteSets

CONSTANTS
    Robot1,          \* config.demoRobotId
    Scenario,        \* of the simulator
    MaxHeartbeats,   \* bound on the telemetry the edge sends
    MaxFaults        \* bound on dropped connections, process crashes, failed calls and
                     \* demo controls

Edge == INSTANCE SimulatorMessages WITH Absent <- None

\* One robot; the ids that are generated, of messages and of edge sessions, are numbers; the
\* clock can leave the time it starts at.
ASSUME PlatformAssumption ==
    /\ RobotIds = {Robot1}
    /\ AckIds = Nat /\ EventIds = Nat /\ SessionIds = Nat
    /\ Scenario \in Edge!SimulatorScenarios
    /\ TelemetryDegradedAfter < MaxTime
    /\ MaxHeartbeats \in Nat /\ MaxFaults \in Nat

VARIABLES
    calls,       \* what is left of the call in each slot
    sweptAt,     \* when the last sweep ended
    inbox,       \* frames of the robot's chain
    down,        \* commands on their way to the edge
    connected,
    edge,        \* the simulator's state
    faults,
    missed,      \* commands failed calls left unsent, undelivered or with the answer unread, since
                 \* the pending commands were last read
    overtaken    \* since the creation under way looked at freshness, has a step that puts the
                 \* robot online by itself, or an evaluation as of an earlier time, taken effect?

domainVars == <<missions, robots, commands, idempotencyRecords, nextSequenceByRobot,
                processedEventIds, processedAckIds, processedReconnectSessionIds, now>>
linkVars == <<inbox, down, connected, edge, faults, missed>>
platformVars == <<domainVars, calls, sweptAt, linkVars, overtaken>>

Slots == {"create", "cancel", "demo", "chain"}
Steps == {"evaluate", "dispatch", "send", "readPending", "sendPending", "beginReconnect",
          "handshake"}

\* about is what the call keeps from one step to the next: a request and its time, a message, a
\* command or a time.
Call(todo, about) == [todo |-> todo, about |-> about]
Idle == Call(<<>>, None)

IsAt(slot, step) == calls[slot].todo # <<>> /\ Head(calls[slot].todo) = step
\* The call is done after its last step and forgets what it was about.
Continue(slot, todo, about) ==
    calls' = [calls EXCEPT ![slot] = IF todo = <<>> THEN Idle ELSE Call(todo, about)]
Rest(slot) == Tail(calls[slot].todo)
StepDone(slot) == Continue(slot, Rest(slot), calls[slot].about)

DemoRobot(time) == [NoRobot EXCEPT !.connectionState = "ONLINE", !.battery = "OK",
                                   !.lastTelemetryObservedAt = time,
                                   !.lastTelemetryReceivedAt = time]
\* Late enough for a demo robot that has been silent for a while: time 0 means never.
StartTime == TelemetryDegradedAfter + 1

PlatformInit ==
    /\ now = StartTime
    /\ missions = [m \in MissionIds |-> NoMission]
    /\ robots = [r \in RobotIds |-> IF r = Robot1 THEN DemoRobot(now) ELSE NoRobot]
    /\ commands = [c \in CommandIds |-> NoCommand]
    /\ idempotencyRecords = [k \in IdempotencyKeys |-> NoRecord]
    /\ nextSequenceByRobot = [r \in RobotIds |-> 0]
    /\ processedEventIds = {} /\ processedAckIds = {} /\ processedReconnectSessionIds = {}
    /\ calls = [slot \in Slots |-> Idle] /\ sweptAt = StartTime
    /\ inbox = <<>> /\ down = <<>> /\ connected = FALSE
    /\ edge = Edge!createInitialSimulatorState(Robot1, Scenario, None)
    /\ faults = 0
    /\ missed = {}
    /\ overtaken = FALSE

(***************************************************************************)
(* Sending.                                                                *)
(***************************************************************************)

Envelope(c) == [commandId |-> c, missionId |-> commands[c].missionId,
                robotId |-> commands[c].robotId, type |-> commands[c].type,
                sequence |-> commands[c].sequence]

\* Mutant: the command waits for a connection.
queueCommand(c) == down' = Append(down, Envelope(c))

\* Without a peer the command is dropped.
sendCommand(c) == down' = IF connected THEN Append(down, Envelope(c)) ELSE down

Send(slot) ==
    /\ IsAt(slot, "send")
    /\ sendCommand(calls[slot].about)
    /\ StepDone(slot)
    /\ UNCHANGED <<domainVars, sweptAt, inbox, connected, edge, faults, missed, overtaken>>

(***************************************************************************)
(* Requests and the freshness sweep.                                       *)
(***************************************************************************)

\* A request is stamped with the time it came in, some time before its first transaction.
RequestTimes == StartTime..now

\* A freshness that has not changed is not written.
LookAtFreshness(time) ==
    \/ evaluateTelemetryFreshness(Robot1, time)
    \/ /\ freshConnection(robots[Robot1], time) = robots[Robot1].connectionState
       /\ UNCHANGED domainVars

\* A step that may put the robot online whatever the creation under way saw of it.
Overtakes == overtaken' = (overtaken \/ IsAt("create", "dispatch"))

\* Mutant: a request does not look at the robot's freshness.
createMissionUnchecked(in) ==
    /\ calls.create = Idle
    /\ \E time \in RequestTimes :
           Continue("create", <<"dispatch">>, [request |-> in, now |-> time])
    /\ UNCHANGED <<domainVars, sweptAt, linkVars, overtaken>>

\* The request evaluates the robot's freshness first.  One that its key answers does nothing
\* more: a key that answers does so for good.
createMission(in) ==
    /\ calls.create = Idle
    /\ \E time \in RequestTimes :
           /\ LookAtFreshness(time)
           /\ IF AnsweredByKey(in.idempotencyKey, dispatchSignature(in)) THEN UNCHANGED calls
              ELSE Continue("create", <<"dispatch">>, [request |-> in, now |-> time])
    /\ overtaken' = FALSE
    /\ UNCHANGED <<sweptAt, linkVars>>

\* Or the replay, where a cancellation has taken the key since.
DispatchOrReplay(in, time) ==
    IF AnsweredByKey(in.idempotencyKey, dispatchSignature(in)) THEN UNCHANGED domainVars
    ELSE dispatchMissionCommand(in, time)

\* Mutant: the command waits for the robot's next hello.
DispatchUnsent ==
    /\ IsAt("create", "dispatch")
    /\ DispatchOrReplay(calls.create.about.request, calls.create.about.now)
    /\ Continue("create", <<>>, None)
    /\ overtaken' = FALSE
    /\ UNCHANGED <<sweptAt, linkVars>>

\* Only an accepted command is sent.
Dispatch ==
    LET in == calls.create.about.request IN
    /\ IsAt("create", "dispatch")
    /\ DispatchOrReplay(in, calls.create.about.now)
    /\ IF commands' # commands THEN Continue("create", <<"send">>, in.commandId)
       ELSE Continue("create", <<>>, None)
    /\ overtaken' = FALSE
    /\ UNCHANGED <<sweptAt, linkVars>>

\* A refused cancellation changes nothing and sends nothing.
cancelMission(in) ==
    /\ calls.cancel = Idle
    /\ \E time \in RequestTimes : requestMissionCancellation(in, time)
    /\ Continue("cancel", <<"send">>, in.commandId)
    /\ UNCHANGED <<sweptAt, linkVars, overtaken>>

\* An evaluation as of a time before the creation's may find fresh what that one found stale.
EvaluateAt(time) ==
    /\ LookAtFreshness(time)
    /\ overtaken' = (\/ overtaken
                     \/ IsAt("create", "dispatch") /\ time < calls.create.about.now)
    /\ UNCHANGED linkVars

\* One sweep, as of the time its interval fired: after the sweep before it had ended.
Sweep ==
    /\ \E time \in sweptAt..now : EvaluateAt(time)
    /\ sweptAt' = now
    /\ UNCHANGED calls

(***************************************************************************)
(* Edge messages: handleEdgeMessage and handleEdgeDisconnected.            *)
(***************************************************************************)

NextFrame(type) == calls.chain = Idle /\ inbox # <<>> /\ Head(inbox).type = type

\* A frame is taken up with the first step of its call.
TakeUp(type, reducer, rest, about) ==
    /\ NextFrame(type)
    /\ reducer
    /\ inbox' = Tail(inbox)
    /\ Continue("chain", rest, about)
    /\ UNCHANGED <<sweptAt, down, connected, edge, faults, missed>>

Handle(type, reducer, rest, about) == TakeUp(type, reducer, rest, about) /\ Overtakes

Frame == Head(inbox).payload
\* Mutant: a hello does not bring the pending commands.
HandleHelloOnly == Handle("edge.hello", handleEdgeConnected(Frame), <<>>, None)
HandleHello == Handle("edge.hello", handleEdgeConnected(Frame), <<"readPending">>, None)
HandleAck == Handle("edge.command_ack", applyCommandAck(Frame), <<>>, None)
HandleTelemetry == Handle("edge.telemetry", ingestRobotTelemetry(Frame), <<>>, None)
HandleDisconnect ==
    TakeUp("disconnect", beginReconnect(Robot1), <<>>, None) /\ UNCHANGED overtaken

\* The handshake begins a reconnect first unless it read that one is under way.
ReadRobot ==
    /\ TakeUp("edge.reconnect_handshake", UNCHANGED domainVars,
              IF robots[Robot1].connectionState = "RECONNECTING" THEN <<"handshake">>
              ELSE <<"beginReconnect", "handshake">>,
              Frame)
    /\ UNCHANGED overtaken

Apply(slot, step, reducer) ==
    /\ IsAt(slot, step)
    /\ reducer
    /\ StepDone(slot)
    /\ UNCHANGED <<sweptAt, linkVars>>

BeginReconnect(slot) ==
    /\ Apply(slot, "beginReconnect", beginReconnect(Robot1))
    /\ UNCHANGED overtaken
HandleHandshake(slot) ==
    /\ Apply(slot, "handshake", processReconnectHandshake(calls[slot].about))
    /\ Overtakes

pendingCommands ==
    {c \in CommandIds : /\ CommandExists(c)
                        /\ missions[commands[c].missionId].lifecycleState = "DISPATCHED"}

\* All of them, in the order the repository reads a robot's commands in.
BySequence(order) ==
    /\ \A c \in pendingCommands : \E i \in DOMAIN order : order[i] = c
    /\ \A i, j \in DOMAIN order :
           i < j => commands[order[i]].sequence < commands[order[j]].sequence

\* deliverPendingCommands reads the state once and sends what was pending then.
ReadPending ==
    /\ IsAt("chain", "readPending")
    /\ IF pendingCommands = {} THEN Continue("chain", <<>>, None)
       ELSE \E order \in [1..Cardinality(pendingCommands) -> pendingCommands] :
                /\ BySequence(order)
                /\ Continue("chain", <<"sendPending">>, order)
    /\ missed' = {}
    /\ UNCHANGED <<domainVars, sweptAt, inbox, down, connected, edge, faults, overtaken>>

\* The loop does not wait between two sends.
SendPending ==
    /\ IsAt("chain", "sendPending")
    /\ down' = IF connected
               THEN down \o [i \in DOMAIN calls.chain.about |-> Envelope(calls.chain.about[i])]
               ELSE down
    /\ StepDone("chain")
    /\ UNCHANGED <<domainVars, sweptAt, inbox, connected, edge, faults, missed, overtaken>>

(***************************************************************************)
(* Failing transactions.                                                   *)
(***************************************************************************)

\* A call ends without having done its next step: the transaction of that step failed, or the
\* answer of the one before it was lost with the commit done.  The loop of SendPending does not
\* wait for anything that could fail.
Throws(slot) ==
    /\ calls[slot] # Idle /\ ~IsAt(slot, "sendPending")
    /\ faults < MaxFaults /\ faults' = faults + 1
    /\ missed' = missed \union (CASE IsAt(slot, "send") -> {calls[slot].about}
                                   [] IsAt(slot, "readPending") -> pendingCommands
                                   [] OTHER -> {})
    /\ overtaken' = (overtaken /\ slot # "create")
    /\ Continue(slot, <<>>, None)
    /\ UNCHANGED <<domainVars, sweptAt, inbox, down, connected, edge>>

\* A frame's first transaction fails: the task's error is caught and the edge stays connected.
LoseFrame ==
    /\ calls.chain = Idle /\ inbox # <<>>
    /\ faults < MaxFaults /\ faults' = faults + 1
    /\ inbox' = Tail(inbox)
    /\ missed' = missed \union (CASE Head(inbox).type = "edge.hello" -> pendingCommands
                                   [] Head(inbox).type = "edge.command_ack" -> {Frame.commandId}
                                   [] OTHER -> {})
    /\ UNCHANGED <<domainVars, calls, sweptAt, down, connected, edge, overtaken>>

(***************************************************************************)
(* Demo controls, beside whatever else is under way.                       *)
(***************************************************************************)

\* Each demo handshake has a session of its own, unlike the edge's.
DemoSession == MaxFaults + 1 + faults
Demo == calls.demo = Idle /\ faults < MaxFaults /\ faults' = faults + 1
demoUnchanged == <<sweptAt, inbox, down, connected, edge, missed>>
demoWrite(robot) ==
    /\ Demo
    /\ robots' = [robots EXCEPT ![Robot1] = robot]
    /\ UNCHANGED <<missions, issueVars, inboxVars, now, demoUnchanged>>

\* Writes a robot that fell silent, and evaluates it in a transaction of its own.
disconnectDemoRobot ==
    \E time \in RequestTimes :
        /\ demoWrite([robots[Robot1] EXCEPT !.connectionState = "ONLINE",
                          !.lastTelemetryObservedAt = time - TelemetryDegradedAfter,
                          !.lastTelemetryReceivedAt = time - TelemetryDegradedAfter])
        /\ Continue("demo", <<"evaluate">>, [now |-> time])
        /\ Overtakes

\* What lowBatteryDemo writes; the mission it then creates is a createMission.
lowBatteryDemo ==
    /\ demoWrite([robots[Robot1] EXCEPT !.battery = "LOW"])
    /\ UNCHANGED <<calls, overtaken>>

\* The handshake the platform makes up tells what it read before.
reconnectDemoRobot ==
    LET m == robots[Robot1].activeMissionId
        c == missions[m].currentCommandId IN
    /\ Demo
    /\ MissionExists(m) /\ CommandExists(c)
    /\ \E time \in RequestTimes :
           Continue("demo", <<"beginReconnect", "handshake">>,
                    [edgeSessionId |-> DemoSession, robotId |-> Robot1, reportedMissionId |-> m,
                     reportedLifecycle |-> missions[m].lifecycleState,
                     lastAcknowledgedCommandId |-> c,
                     lastSeenCommandSequence |-> commands[c].sequence,
                     connectedAt |-> time, lastTelemetryObservedAt |-> time])
    /\ UNCHANGED <<domainVars, demoUnchanged, overtaken>>

\* What disconnectDemoRobot does last.
EvaluateDemoRobot ==
    /\ IsAt("demo", "evaluate")
    /\ EvaluateAt(calls.demo.about.now)
    /\ StepDone("demo")
    /\ UNCHANGED sweptAt

DemoControl == disconnectDemoRobot \/ lowBatteryDemo \/ reconnectDemoRobot

(***************************************************************************)
(* The edge, the network, time.                                            *)
(***************************************************************************)

\* An edge generates a new id for each message.  One that no message has that was applied or is
\* on its way will do: of the numbers up to their count, one is free.
Queued(type) == {inbox[i].payload : i \in {j \in DOMAIN inbox : inbox[j].type = type}}
AckIdsInUse == processedAckIds \union {ack.ackId : ack \in Queued("edge.command_ack")}
EventIdsInUse == processedEventIds \union {event.eventId : event \in Queued("edge.telemetry")}
NextId(used) == CHOOSE id \in 0..Cardinality(used) : id \notin used

EdgeSends(step) ==
    /\ edge' = step.state
    /\ inbox' = inbox \o step.outbound

\* A connection follows a fault, so the number of faults tells sessions apart.
EdgeConnects ==
    /\ ~connected
    /\ connected' = TRUE
    /\ EdgeSends(Edge!openStep(edge, faults, now))
    /\ UNCHANGED <<domainVars, calls, sweptAt, down, faults, missed, overtaken>>

EdgeReceives ==
    /\ down # <<>>
    /\ down' = Tail(down)
    /\ EdgeSends(Edge!handleCommand(edge, Head(down), NextId(AckIdsInUse)))
    /\ UNCHANGED <<domainVars, calls, sweptAt, connected, faults, missed, overtaken>>

\* At any time the edge is connected.
EdgeTelemetry ==
    LET id == NextId(EventIdsInUse) IN
    /\ connected /\ id < MaxHeartbeats
    /\ EdgeSends(Edge!createTelemetryMessage(edge, id, now))
    /\ UNCHANGED <<domainVars, calls, sweptAt, down, connected, faults, missed, overtaken>>

\* Frames of earlier connections, those before the last disconnect, have arrived.
Arrived == {n \in 0..Len(inbox) : \A i \in DOMAIN inbox : inbox[i].type = "disconnect" => i <= n}

Drop ==
    /\ connected /\ faults < MaxFaults
    /\ connected' = FALSE
    /\ \E n \in Arrived :
           inbox' = Append(SubSeq(inbox, 1, n), [type |-> "disconnect", payload |-> None])
    /\ down' = <<>>
    /\ faults' = faults + 1
    /\ UNCHANGED <<domainVars, calls, sweptAt, edge, missed, overtaken>>

\* The process dies and starts again; the database keeps the state.
Crash ==
    /\ faults < MaxFaults
    /\ calls' = [slot \in Slots |-> Idle]
    /\ sweptAt' = now
    /\ inbox' = <<>> /\ down' = <<>> /\ connected' = FALSE
    /\ faults' = faults + 1
    /\ overtaken' = FALSE
    /\ UNCHANGED <<domainVars, edge, missed>>

TimePasses == Tick /\ UNCHANGED <<calls, sweptAt, linkVars, overtaken>>

RunChain == HandleHello \/ ReadPending \/ SendPending \/ HandleAck \/ HandleTelemetry
            \/ ReadRobot \/ BeginReconnect("chain") \/ HandleHandshake("chain") \/ HandleDisconnect
RunRequests == Dispatch \/ Send("create") \/ Send("cancel")
RunDemo == EvaluateDemoRobot \/ BeginReconnect("demo") \/ HandleHandshake("demo")

PlatformNext ==
    \/ \E in \in DispatchInputs : createMission(in)
    \/ \E in \in CancelInputs : cancelMission(in)
    \/ RunRequests \/ RunDemo \/ RunChain \/ Sweep
    \/ EdgeConnects \/ EdgeReceives \/ EdgeTelemetry
    \/ DemoControl \/ Drop \/ Crash \/ LoseFrame \/ TimePasses
    \/ \E slot \in Slots : Throws(slot)

\* What is under way goes on: a request, the chain, or the edge, which connects again and takes
\* what arrives.  One condition for all three is enough, since each of their steps uses something
\* up.  No operator has to ask for anything, no heartbeat has to be sent and no sweep to run.
PlatformFairness ==
    WF_platformVars(RunRequests \/ RunChain \/ EdgeConnects \/ EdgeReceives)

PlatformSpec == PlatformInit /\ [][PlatformNext]_platformVars /\ PlatformFairness
-----------------------------------------------------------------------------
(***************************************************************************)
(* Properties.                                                             *)
(***************************************************************************)

PlatformTypeOK ==
    /\ TypeOK
    /\ \A slot \in Slots : calls[slot].todo \in Seq(Steps)
    /\ edge.currentMissionId \in MaybeMission
    /\ faults \in 0..MaxFaults /\ connected \in BOOLEAN /\ overtaken \in BOOLEAN
    /\ missed \subseteq CommandIds
    /\ ~connected => down = <<>>

Quiet ==
    /\ connected /\ inbox = <<>> /\ down = <<>>
    /\ calls.create = Idle /\ calls.cancel = Idle /\ calls.chain = Idle

\* Only a failed call forgets a dispatch.  Whatever dropped or crashed between its commit, its
\* send and its acknowledgement, once the edge is connected and nothing is under way no mission
\* waits, but for a command that a failed call left behind, and that one only until the next
\* hello has the pending commands read.
QuietMeansAnswered ==
    Quiet => \A m \in MissionIds : missions[m].lifecycleState = "DISPATCHED" =>
                                         missions[m].currentCommandId \in missed

\* The cloud never believes that the robot has seen a command it has not: what edge messages
\* carry late, twice or after a reconnect is at most what the edge has seen by now, and that was
\* issued.  The handshakes the demo makes up are another matter.
CloudKnowsNoMoreThanTheEdge ==
    /\ \/ robots[Robot1].lastSeenCommandSequence <= edge.lastSeenCommandSequence
       \/ \E session \in processedReconnectSessionIds : session > MaxFaults
    /\ edge.lastSeenCommandSequence > 0 =>
           edge.lastSeenCommandSequence < nextSequenceByRobot[Robot1]

\* A motion command is dispatched only to a robot whose telemetry is fresh as of the time of the
\* request, unless between the request's look at it and its dispatch an edge message, a demo
\* control or an evaluation as of an earlier time took effect: each of them puts the robot online
\* by itself, and the dispatch does not look again.
FreshUnlessOvertaken ==
    [][\A m \in MissionIds :
           /\ missions'[m].lifecycleState = "DISPATCHED"
           /\ missions'[m].currentCommandId # missions[m].currentCommandId
           /\ commands'[missions'[m].currentCommandId].type \in MotionCommandTypes
           => \/ freshConnection(robots[Robot1], calls.create.about.now) = "ONLINE"
              \/ overtaken]_platformVars

\* A dispatched mission is answered in the end, or the call that was to send its command, to
\* redeliver it or to take its answer failed.
DispatchesAreAnswered ==
    \A m \in MissionIds :
        missions[m].lifecycleState = "DISPATCHED"
            ~> \/ missions[m].lifecycleState # "DISPATCHED"
               \/ missions[m].currentCommandId \in missed
=============================================================================
