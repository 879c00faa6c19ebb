------------------------- MODULE SimulatorMessages -------------------------
(***************************************************************************)
(* The pure half of apps/cloud-edge-simulator: messages.ts, functions from *)
(* the simulator's state and a message to a step, that is the next state,  *)
(* the frames to send and what the runtime is to do.  No variables: the    *)
(* specifications that run a simulator use these operators.  With them the *)
(* handler of client.ts for a socket that opened, a step of the same kind. *)
(*                                                                         *)
(* Left out: the pose, which no one but telemetry reads, the battery and   *)
(* the health, constants of a simulator, texts and versions.  A generated  *)
(* id and the time are arguments; absent ids are Absent.                   *)
(***************************************************************************)
EXTENDS Integers, Sequences

CONSTANT Absent   \* no mission, no command

SimulatorScenarios == {"normal", "stale-telemetry", "reconnect"}
SimulatorActions == {"start_telemetry", "stop_telemetry", "disconnect_for_reconnect"}

\* Mutant: the later command wins, although sequences may arrive out of order.
latestSequence(a, b) == b
laterSequence(a, b) == IF a >= b THEN a ELSE b

createInitialSimulatorState(robotId, scenario, session) ==
    [robotId |-> robotId, scenario |-> scenario, edgeSessionId |-> session,
     lastSeenCommandSequence |-> 0, lastAcknowledgedCommandId |-> Absent,
     currentMissionId |-> Absent, reportedMissionLifecycleState |-> "RUNNING",
     reconnectHandshakeSent |-> FALSE]

SimulatorStep(state, outbound, actions) ==
    [state |-> state, outbound |-> outbound, actions |-> actions]

createHelloMessage(state) ==
    [type |-> "edge.hello",
     payload |-> [robotId |-> state.robotId,
                  lastSeenCommandSequence |-> state.lastSeenCommandSequence]]

createTelemetryMessage(state, id, time) ==
    SimulatorStep(state,
         <<[type |-> "edge.telemetry",
            payload |-> [eventId |-> id, robotId |-> state.robotId,
                         connectionState |-> "ONLINE", healthy |-> TRUE, battery |-> "OK",
                         currentMissionId |-> state.currentMissionId,
                         lastAcknowledgedCommandId |-> state.lastAcknowledgedCommandId,
                         lastSeenCommandSequence |-> state.lastSeenCommandSequence,
                         observedAt |-> time, receivedAt |-> time]]>>,
         {})

\* Starts a new edge session; a simulator with nothing to report sends no handshake.
createReconnectHandshakeMessage(state, session, time) ==
    LET next == [state EXCEPT !.edgeSessionId = session, !.reconnectHandshakeSent = TRUE] IN
    IF Absent \in {state.currentMissionId, state.lastAcknowledgedCommandId}
    THEN SimulatorStep(next, <<>>, {})
    ELSE SimulatorStep(next,
              <<[type |-> "edge.reconnect_handshake",
                 payload |-> [edgeSessionId |-> session, robotId |-> state.robotId,
                              reportedMissionId |-> state.currentMissionId,
                              reportedLifecycle |-> state.reportedMissionLifecycleState,
                              lastAcknowledgedCommandId |-> state.lastAcknowledgedCommandId,
                              lastSeenCommandSequence |-> state.lastSeenCommandSequence,
                              connectedAt |-> time, lastTelemetryObservedAt |-> time]]>>,
              {"start_telemetry"})

shouldStartTelemetryOnOpen(state) ==
    state.scenario = "normal" \/ state.currentMissionId = Absent

\* What the open handler does: hello, and with it a handshake or perhaps telemetry.
openStep(state, session, time) ==
    LET reports == /\ state.scenario = "reconnect"
                   /\ ~state.reconnectHandshakeSent
                   /\ state.currentMissionId # Absent
        handshake == createReconnectHandshakeMessage(state, session, time) IN
    IF reports
    THEN SimulatorStep(handshake.state,
                       <<createHelloMessage(state)>> \o handshake.outbound,
                       handshake.actions)
    ELSE SimulatorStep(state, <<createHelloMessage(state)>>,
                       IF shouldStartTelemetryOnOpen(state) THEN {"start_telemetry"} ELSE {})

\* The acknowledgement speaks of this command's sequence, not of the highest one seen.
createCommandAck(command, id, status) ==
    [type |-> "edge.command_ack",
     payload |-> [ackId |-> id, commandId |-> command.commandId, robotId |-> command.robotId,
                  status |-> status, lastSeenCommandSequence |-> command.sequence]]

noteSeenCommand(state, command) ==
    [state EXCEPT !.lastSeenCommandSequence = laterSequence(@, command.sequence)]

\* A cancellation stops whatever mission is running, whichever it names.
applyAcceptedCommand(state, command) ==
    LET seen == [noteSeenCommand(state, command) EXCEPT
                     !.lastAcknowledgedCommandId = command.commandId] IN
    IF command.type = "CANCEL_MISSION"
    THEN [seen EXCEPT !.currentMissionId = Absent,
                      !.reportedMissionLifecycleState = "CANCELLED"]
    ELSE [seen EXCEPT !.currentMissionId = command.missionId,
                      !.reportedMissionLifecycleState = "RUNNING",
                      !.reconnectHandshakeSent = FALSE]

actionsForGoToPose(state) ==
    CASE state.scenario = "stale-telemetry" -> {"stop_telemetry"}
      [] state.scenario = "reconnect" /\ ~state.reconnectHandshakeSent ->
             {"stop_telemetry", "disconnect_for_reconnect"}
      [] OTHER -> {"start_telemetry"}

\* A valid command is applied when it arrives: nothing looks at its expiry, at the sequence of
\* the commands before it, or at whether it was applied already.
handleCommand(state, command, id) ==
    IF command.robotId # state.robotId
    THEN SimulatorStep(state, <<createCommandAck(command, id, "REJECTED")>>, {})
    ELSE IF command.type \notin {"GO_TO_POSE", "CANCEL_MISSION"}
    THEN SimulatorStep(noteSeenCommand(state, command),
              <<createCommandAck(command, id, "REJECTED")>>, {})
    ELSE LET next == applyAcceptedCommand(state, command) IN
         SimulatorStep(next, <<createCommandAck(command, id, "ACCEPTED")>>,
              IF command.type = "CANCEL_MISSION" THEN {"start_telemetry"}
              ELSE actionsForGoToPose(next))

\* Pings and errors change nothing and are not answered.
handlePlatformMessage(state, message, id) ==
    IF message.type = "platform.command" THEN handleCommand(state, message.payload, id)
    ELSE SimulatorStep(state, <<>>, {})
=============================================================================
