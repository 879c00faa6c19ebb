--------------------------- MODULE EdgeLinkProofs ---------------------------
(***************************************************************************)
(* EdgeLink proved for every set of sockets and commands and every bound:  *)
(* its type invariant and its four safety invariants.                      *)
(*                                                                         *)
(* Each invariant rests on one that is inductive and says more.  Those of  *)
(* the simulator rest on OneSocket, which says which ends the current      *)
(* socket may have; what the service was told rests on the last word, the  *)
(* last event of the chain of the robot's tasks; that nothing comes after  *)
(* the repository rests on a count of the tasks that closeAll waits for.   *)
(***************************************************************************)
EXTENDS EdgeLink, TLAPS

-----------------------------------------------------------------------------
(***************************************************************************)
(* The simulator's steps.                                                  *)
(***************************************************************************)

Identity == {"robotId", "scenario"}

\* b is a state of the simulator whose state was a.
SameSimulator(a, b) ==
    /\ Identity \subseteq DOMAIN b
    /\ b.robotId = a.robotId /\ b.scenario = a.scenario

LEMMA HandshakeKeepsSimulator ==
    ASSUME NEW state, NEW session, NEW time, Identity \subseteq DOMAIN state
    PROVE  SameSimulator(state, createReconnectHandshakeMessage(state, session, time).state)
<1> DEFINE next == [state EXCEPT !.edgeSessionId = session, !.reconnectHandshakeSent = TRUE]
<1>1. SameSimulator(state, next)
  BY DEF SameSimulator, Identity
<1>2. createReconnectHandshakeMessage(state, session, time).state = next
  BY DEF createReconnectHandshakeMessage, SimulatorStep
<1> QED
  BY <1>1, <1>2

LEMMA OpenStepKeepsSimulator ==
    ASSUME NEW state, NEW session, NEW time, Identity \subseteq DOMAIN state
    PROVE  SameSimulator(state, openStep(state, session, time).state)
<1> DEFINE handshake == createReconnectHandshakeMessage(state, session, time)
<1>1. openStep(state, session, time).state \in {handshake.state, state}
  BY DEF openStep, SimulatorStep
<1>2. SameSimulator(state, handshake.state)
  BY HandshakeKeepsSimulator
<1>3. SameSimulator(state, state)
  BY DEF SameSimulator
<1> HIDE DEF handshake
<1> QED
  BY <1>1, <1>2, <1>3

LEMMA SequenceOfMore ==
    ASSUME NEW S, NEW T, NEW s \in Seq(S), S \subseteq T
    PROVE  s \in Seq(T)
<1> QED
  OBVIOUS

LEMMA FirstOfBoth ==
    ASSUME NEW S, NEW a \in Seq(S), Len(a) > 0, NEW b \in Seq(S)
    PROVE  a \o b \in Seq(S) /\ Len(a \o b) > 0 /\ (a \o b)[1] = a[1]
<1> QED
  OBVIOUS

\* No frame or one.
Few(frames) == frames = <<>> \/ \E frame : frames = <<frame>>

LEMMA FewAreASequence ==
    ASSUME NEW frames, Few(frames)
    PROVE  \E S : frames \in Seq(S)
<1>1. CASE frames = <<>>
  <2>1. frames \in Seq({})
    BY <1>1
  <2> QED  BY <2>1
<1>2. CASE \E frame : frames = <<frame>>
  <2>1. PICK frame : frames = <<frame>>
    BY <1>2
  <2>2. frames \in Seq({frame})
    BY <2>1
  <2> QED  BY <2>2
<1> QED
  BY <1>1, <1>2 DEF Few

\* The open handler's first frame is the hello.
LEMMA OpenStepSaysHello ==
    ASSUME NEW state, NEW session, NEW time, NEW more, Few(more)
    PROVE  Hellos(openStep(state, session, time).outbound \o more) = <<"edge.hello">>
<1> DEFINE sent == openStep(state, session, time).outbound
           hello == createHelloMessage(state)
           rest == createReconnectHandshakeMessage(state, session, time).outbound
<1>1. Few(rest)
  BY DEF createReconnectHandshakeMessage, SimulatorStep, Few
<1>2. sent = <<hello>> \o rest \/ sent = <<hello>>
  BY DEF openStep, SimulatorStep
<1>3. hello.type = "edge.hello"
  BY DEF createHelloMessage
<1> HIDE DEF hello, rest, sent
<1>4. PICK R : rest \in Seq(R)
  BY <1>1, FewAreASequence
<1>5. PICK M : more \in Seq(M)
  BY FewAreASequence
<1> DEFINE S == {hello} \union R \union M
<1>6. rest \in Seq(S) /\ more \in Seq(S)
  BY <1>4, <1>5, SequenceOfMore
<1> DEFINE one == <<hello>>
<1>7. one \in Seq(S) /\ Len(one) > 0 /\ one[1] = hello
  OBVIOUS
<1> HIDE DEF S, one
<1>8. sent \in Seq(S) /\ Len(sent) > 0 /\ sent[1] = hello
  <2>1. sent = one \o rest \/ sent = one
    BY <1>2 DEF one
  <2>2. one \o rest \in Seq(S) /\ Len(one \o rest) > 0 /\ (one \o rest)[1] = hello
    BY <1>6, <1>7, FirstOfBoth
  <2> QED
    BY <2>1, <2>2, <1>7
<1>9. sent \o more \in Seq(S) /\ Len(sent \o more) > 0 /\ (sent \o more)[1] = hello
  BY <1>6, <1>8, FirstOfBoth
<1>10. 1 \in DOMAIN (sent \o more)
  BY <1>9
<1> QED
  BY <1>3, <1>9, <1>10 DEF Hellos, sent

LEMMA CommandKeepsSimulator ==
    ASSUME NEW state, NEW command, NEW id, Identity \subseteq DOMAIN state
    PROVE  SameSimulator(state, handleCommand(state, command, id).state)
<1> DEFINE noted == noteSeenCommand(state, command)
           seen == [noted EXCEPT !.lastAcknowledgedCommandId = command.commandId]
           applied == applyAcceptedCommand(state, command)
<1>1. SameSimulator(state, state)
  BY DEF SameSimulator
<1>2. SameSimulator(state, noted)
  BY DEF SameSimulator, Identity, noteSeenCommand
<1>3. SameSimulator(state, applied)
  <2>1. SameSimulator(state, seen)
    <3> HIDE DEF noted
    <3> QED  BY <1>2 DEF SameSimulator, Identity
  <2>2. applied = [seen EXCEPT !.currentMissionId = Absent,
                               !.reportedMissionLifecycleState = "CANCELLED"]
        \/ applied = [seen EXCEPT !.currentMissionId = command.missionId,
                                  !.reportedMissionLifecycleState = "RUNNING",
                                  !.reconnectHandshakeSent = FALSE]
    BY DEF applyAcceptedCommand
  <2> HIDE DEF seen, applied
  <2> QED
    BY <2>1, <2>2 DEF SameSimulator, Identity
<1>4. handleCommand(state, command, id).state \in {state, noted, applied}
  BY DEF handleCommand, SimulatorStep
<1> HIDE DEF noted, applied
<1> QED
  BY <1>1, <1>2, <1>3, <1>4

LEMMA MessageKeepsSimulator ==
    ASSUME NEW state, NEW command, Identity \subseteq DOMAIN state
    PROVE  SameSimulator(state,
               handlePlatformMessage(state, [type |-> "platform.command",
                                             payload |-> command], 0).state)
<1> QED
  BY CommandKeepsSimulator DEF handlePlatformMessage

\* In the normal scenario opening starts telemetry and no command stops it.
LEMMA NormalOpens ==
    ASSUME NEW state, NEW session, NEW time, state.scenario = "normal"
    PROVE  "start_telemetry" \in openStep(state, session, time).actions
<1> QED
  BY DEF openStep, shouldStartTelemetryOnOpen, SimulatorStep

LEMMA NormalCommands ==
    ASSUME NEW state, NEW command, Identity \subseteq DOMAIN state, state.scenario = "normal"
    PROVE  "stop_telemetry" \notin
               handlePlatformMessage(state, [type |-> "platform.command",
                                             payload |-> command], 0).actions
<1> DEFINE applied == applyAcceptedCommand(state, command)
<1>1. applied.scenario = "normal"
  <2> DEFINE noted == noteSeenCommand(state, command)
             seen == [noted EXCEPT !.lastAcknowledgedCommandId = command.commandId]
  <2>1. Identity \subseteq DOMAIN noted /\ noted.scenario = "normal"
    BY DEF Identity, noteSeenCommand
  <2>2. Identity \subseteq DOMAIN seen /\ seen.scenario = "normal"
    <3> HIDE DEF noted
    <3> QED  BY <2>1 DEF Identity
  <2>3. applied = [seen EXCEPT !.currentMissionId = Absent,
                               !.reportedMissionLifecycleState = "CANCELLED"]
        \/ applied = [seen EXCEPT !.currentMissionId = command.missionId,
                                  !.reportedMissionLifecycleState = "RUNNING",
                                  !.reconnectHandshakeSent = FALSE]
    BY DEF applyAcceptedCommand
  <2> HIDE DEF seen, applied
  <2> QED
    BY <2>2, <2>3 DEF Identity
<1>2. actionsForGoToPose(applied) = {"start_telemetry"}
  <2> HIDE DEF applied
  <2> QED  BY <1>1 DEF actionsForGoToPose
<1>3. handleCommand(state, command, 0).actions
          \in {{}, {"start_telemetry"}, actionsForGoToPose(applied)}
  BY DEF handleCommand, SimulatorStep
<1> HIDE DEF applied
<1> QED
  BY <1>2, <1>3 DEF handlePlatformMessage

-----------------------------------------------------------------------------
(***************************************************************************)
(* What an action leaves of a socket.                                      *)
(***************************************************************************)

ConnectionType == [edge : EdgeEnds, cloud : CloudEnds, cut : BOOLEAN,
                   up : Seq(Frames), down : Seq(Commands)]

LEMMA HellosAreFrames ==
    ASSUME NEW frames
    PROVE  Hellos(frames) \in {<<>>, <<"edge.hello">>} /\ Hellos(frames) \in Seq(Frames)
<1>1. Hellos(frames) \in {<<>>, <<"edge.hello">>}
  BY DEF Hellos
<1>2. <<>> \in Seq(Frames) /\ <<"edge.hello">> \in Seq(Frames)
  BY DEF Frames
<1> QED
  BY <1>1, <1>2

\* Sending adds at most hellos, and only to the current socket.
LEMMA SendKeeps ==
    ASSUME NEW links \in [Sockets -> ConnectionType], NEW frames
    PROVE  LET sent == sendMessage(links, frames) IN
           /\ sent \in [Sockets -> ConnectionType]
           /\ \A s \in Sockets :
                  /\ sent[s].edge = links[s].edge /\ sent[s].cloud = links[s].cloud
                  /\ sent[s].cut = links[s].cut
                  /\ \/ sent[s].up = links[s].up
                     \/ sent[s].up = links[s].up \o Hellos(frames)
                  /\ socket = s /\ links[s].edge = "OPEN" /\ s # NoSocket
                         => sent[s].up = links[s].up \o Hellos(frames)
<1> DEFINE sent == sendMessage(links, frames)
           hellos == Hellos(frames)
<1>1. hellos \in Seq(Frames)
  BY HellosAreFrames
<1>2. ASSUME NEW s \in Sockets
      PROVE  links[s].up \o hellos \in Seq(Frames)
  <2>1. links[s].up \in Seq(Frames)
    BY DEF ConnectionType
  <2> QED
    BY <1>1, <2>1
<1>3. sent = IF IsOpen(links, socket) THEN [links EXCEPT ![socket].up = @ \o hellos] ELSE links
  BY DEF sendMessage
<1> HIDE DEF sent, hellos
<1>4. CASE IsOpen(links, socket) /\ socket \in Sockets
  <2> DEFINE longer == links[socket].up \o hellos
  <2>1. sent = [links EXCEPT ![socket] = [links[socket] EXCEPT !.up = longer]]
    BY <1>3, <1>4
  <2>2. longer \in Seq(Frames)
    BY <1>2, <1>4
  <2>3. links[socket] \in ConnectionType
    BY <1>4
  <2> HIDE DEF longer
  <2>4. [links[socket] EXCEPT !.up = longer] \in ConnectionType
    BY <2>2, <2>3 DEF ConnectionType
  <2>5. sent \in [Sockets -> ConnectionType]
    BY <2>1, <2>4
  <2>6. ASSUME NEW s \in Sockets
        PROVE  /\ sent[s].edge = links[s].edge /\ sent[s].cloud = links[s].cloud
               /\ sent[s].cut = links[s].cut
               /\ sent[s].up = IF s = socket THEN longer ELSE links[s].up
    BY <1>4, <2>1, <2>3 DEF ConnectionType
  <2> QED
    BY <2>5, <2>6 DEF longer, sent, hellos
<1>5. CASE IsOpen(links, socket) /\ socket \notin Sockets
  BY <1>3, <1>5 DEF sent, hellos
<1>6. CASE ~IsOpen(links, socket)
  BY <1>3, <1>6 DEF IsOpen, sent, hellos
<1> QED
  BY <1>4, <1>5, <1>6

LEMMA AppendedHello ==
    ASSUME NEW up \in Seq(Frames), NEW frames
    PROVE  up \o Hellos(frames) \in {up, Append(up, "edge.hello")}
<1>1. CASE Hellos(frames) = <<>>
  BY <1>1
<1>2. CASE Hellos(frames) = <<"edge.hello">>
  BY <1>2
<1> QED
  BY <1>1, <1>2, HellosAreFrames

\* What each end of the sockets keeps of links when the simulator applies a step to them.
LEMMA AppliedStep ==
    ASSUME NEW links \in [Sockets -> ConnectionType], NEW step, applyStep(links, step)
    PROVE  /\ link' \in [Sockets -> ConnectionType]
           /\ \A s \in Sockets :
                  /\ link'[s].edge = links[s].edge /\ link'[s].cloud = links[s].cloud
                  /\ link'[s].cut = links[s].cut
                  /\ link'[s].up \in {links[s].up, Append(links[s].up, "edge.hello")}
<1> DEFINE starts == "start_telemetry" \in step.actions
           heartbeat == IF starts /\ ~telemetryTimer
                        THEN createTelemetryMessage(step.state, 0, 0).outbound ELSE <<>>
           frames == step.outbound \o heartbeat
<1>1. link' = sendMessage(links, frames)
  BY DEF applyStep
<1> HIDE DEF frames
<1>2. ASSUME NEW s \in Sockets
      PROVE  links[s].up \o Hellos(frames) \in {links[s].up, Append(links[s].up, "edge.hello")}
  <2>1. links[s].up \in Seq(Frames)
    BY DEF ConnectionType
  <2> QED
    BY <2>1, AppendedHello
<1> QED
  BY <1>1, <1>2, SendKeeps

SimulatorKnown == Identity \subseteq DOMAIN simulator

LEMMA OpenedLinks ==
    ASSUME TypeOK, NEW s \in Sockets, NEW edge \in EdgeEnds
    PROVE  LET links == [link EXCEPT ![s].edge = edge] IN
           /\ links \in [Sockets -> ConnectionType]
           /\ \A t \in Sockets :
                  /\ links[t].edge = IF t = s THEN edge ELSE link[t].edge
                  /\ links[t].cloud = link[t].cloud /\ links[t].cut = link[t].cut
                  /\ links[t].up = link[t].up /\ links[t].down = link[t].down
<1> QED
  BY DEF TypeOK, ConnectionType

LEMMA OpenEventDoes ==
    ASSUME TypeOK, SimulatorKnown, NEW s \in Sockets, OpenEvent(s)
    PROVE  /\ SameSimulator(simulator, simulator')
           /\ link' \in [Sockets -> ConnectionType]
           /\ \A t \in Sockets :
                  /\ link'[t].edge = IF t = s THEN "OPEN" ELSE link[t].edge
                  /\ link'[t].cloud = link[t].cloud /\ link'[t].cut = link[t].cut
                  /\ link'[t].up \in {link[t].up, Append(link[t].up, "edge.hello")}
           /\ s = socket /\ s # NoSocket => link'[s].up = Append(link[s].up, "edge.hello")
           /\ simulator.scenario = "normal" => telemetryTimer'
<1> DEFINE links == [link EXCEPT ![s].edge = "OPEN"]
           step == openStep(simulator, 0, 0)
<1>1. applyStep(links, step)
  BY DEF OpenEvent
<1>2. /\ links \in [Sockets -> ConnectionType]
      /\ \A t \in Sockets :
             /\ links[t].edge = IF t = s THEN "OPEN" ELSE link[t].edge
             /\ links[t].cloud = link[t].cloud /\ links[t].cut = link[t].cut
             /\ links[t].up = link[t].up
  BY OpenedLinks DEF EdgeEnds
<1>3. SameSimulator(simulator, simulator')
  BY <1>1, OpenStepKeepsSimulator DEF applyStep, SimulatorKnown
<1>4. simulator.scenario = "normal" => telemetryTimer'
  BY <1>1, NormalOpens DEF applyStep
<1>5. ASSUME s = socket, s # NoSocket
      PROVE  link'[s].up = Append(link[s].up, "edge.hello")
  <2> DEFINE heartbeat == IF "start_telemetry" \in step.actions /\ ~telemetryTimer
                          THEN createTelemetryMessage(step.state, 0, 0).outbound ELSE <<>>
             frames == step.outbound \o heartbeat
  <2>1. Few(heartbeat)
    BY DEF createTelemetryMessage, SimulatorStep, Few
  <2>2. link' = sendMessage(links, frames)
    BY <1>1 DEF applyStep
  <2>3. Hellos(frames) = <<"edge.hello">>
    <3> HIDE DEF heartbeat
    <3> QED  BY <2>1, OpenStepSaysHello
  <2> HIDE DEF frames, links
  <2>4. links[s].edge = "OPEN" /\ links \in [Sockets -> ConnectionType]
        /\ links[s].up = link[s].up
    BY <1>2 DEF links
  <2>5. sendMessage(links, frames)[s].up = links[s].up \o Hellos(frames)
    BY <1>5, <2>4, SendKeeps
  <2>6. links[s].up \in Seq(Frames)
    BY <2>4 DEF ConnectionType
  <2>7. links[s].up \o <<"edge.hello">> = Append(links[s].up, "edge.hello")
    BY <2>6
  <2> QED
    BY <2>2, <2>3, <2>4, <2>5, <2>7
<1> HIDE DEF links, step
<1>6. /\ link' \in [Sockets -> ConnectionType]
      /\ \A t \in Sockets :
             /\ link'[t].edge = links[t].edge /\ link'[t].cloud = links[t].cloud
             /\ link'[t].cut = links[t].cut
             /\ link'[t].up \in {links[t].up, Append(links[t].up, "edge.hello")}
  BY <1>1, <1>2, AppliedStep
<1> QED
  BY <1>2, <1>3, <1>4, <1>5, <1>6

LEMMA MessageEventDoes ==
    ASSUME TypeOK, SimulatorKnown, NEW s \in Sockets, MessageEvent(s)
    PROVE  /\ SameSimulator(simulator, simulator')
           /\ link' \in [Sockets -> ConnectionType]
           /\ \A t \in Sockets :
                  /\ link'[t].edge = link[t].edge
                  /\ link'[t].cloud = link[t].cloud /\ link'[t].cut = link[t].cut
                  /\ link'[t].up \in {link[t].up, Append(link[t].up, "edge.hello")}
           /\ simulator.scenario = "normal" /\ telemetryTimer => telemetryTimer'
<1> DEFINE links == [link EXCEPT ![s].down = Tail(@)]
           step == handlePlatformMessage(simulator, [type |-> "platform.command",
                                                     payload |-> Head(link[s].down)], 0)
<1>1. applyStep(links, step)
  BY DEF MessageEvent
<1>2. /\ links \in [Sockets -> ConnectionType]
      /\ \A t \in Sockets :
             /\ links[t].edge = link[t].edge
             /\ links[t].cloud = link[t].cloud /\ links[t].cut = link[t].cut
             /\ links[t].up = link[t].up
  <2>1. link \in [Sockets -> ConnectionType]
    BY DEF TypeOK, ConnectionType
  <2>2. Tail(link[s].down) \in Seq(Commands)
    BY <2>1 DEF MessageEvent, ConnectionType
  <2> QED
    BY <2>1, <2>2 DEF ConnectionType
<1>3. SameSimulator(simulator, simulator')
  BY <1>1, MessageKeepsSimulator DEF applyStep, SimulatorKnown
<1>4. simulator.scenario = "normal" /\ telemetryTimer => telemetryTimer'
  BY <1>1, NormalCommands DEF applyStep, SimulatorKnown
<1> HIDE DEF links, step
<1>5. /\ link' \in [Sockets -> ConnectionType]
      /\ \A t \in Sockets :
             /\ link'[t].edge = links[t].edge /\ link'[t].cloud = links[t].cloud
             /\ link'[t].cut = links[t].cut
             /\ link'[t].up \in {links[t].up, Append(links[t].up, "edge.hello")}
  BY <1>1, <1>2, AppliedStep
<1> QED
  BY <1>2, <1>3, <1>4, <1>5

-----------------------------------------------------------------------------
(***************************************************************************)
(* Types.                                                                  *)
(***************************************************************************)

\* TypeOK in groups, the simulator's identity with them.
SimulatorType == SimulatorKnown /\ simulator.robotId = RobotId
                     /\ simulator.scenario \in SimulatorScenarios
TimerType ==
    /\ socket \in Sockets \union {NoSocket}
    /\ telemetryTimer \in BOOLEAN /\ reconnectTimer \in BOOLEAN
    /\ scenarioReconnectTimer \in BOOLEAN /\ stopped \in BOOLEAN
LinkType == link \in [Sockets -> ConnectionType]
CutType == cuts \in 0..MaxCuts
GatewayType ==
    /\ peers \subseteq Sockets
    /\ tasks \in Seq(Tasks)
    /\ running \in BOOLEAN
    /\ told \in {"nothing", "connected", "disconnected"}
StopType ==
    /\ sweeping \in BOOLEAN
    /\ shutdown \in {"no", "sweep", "sockets", "done"}
    /\ awaited \in Nat

TypeInv == SimulatorType /\ TimerType /\ LinkType /\ CutType /\ GatewayType /\ StopType

LEMMA TypesGrouped == TypeInv <=> TypeOK /\ SimulatorKnown
<1> QED
  BY DEF TypeInv, TypeOK, SimulatorType, TimerType, LinkType, CutType, GatewayType, StopType,
         ConnectionType

LEMMA TypesInitially == Init => TypeInv
<1> SUFFICES ASSUME Init  PROVE TypeInv
  OBVIOUS
<1>1. SimulatorType
  BY DEF Init, SimulatorType, SimulatorKnown, Identity, createInitialSimulatorState
<1>2. LinkType
  <2>1. Connection("CLOSED", "NONE") \in ConnectionType
    BY DEF Connection, ConnectionType, EdgeEnds, CloudEnds
  <2> QED
    BY <2>1 DEF Init, LinkType
<1>3. TimerType
  BY DEF Init, TimerType
<1>4. CutType
  <2>1. cuts = 0
    BY DEF Init
  <2> QED
    BY <2>1, BoundAssumption DEF CutType
<1>5. GatewayType
  <2>1. peers = {} /\ tasks = <<>> /\ running = FALSE /\ told = "nothing"
    BY DEF Init
  <2>2. tasks \in Seq(Tasks)
    BY <2>1
  <2> QED
    BY <2>1, <2>2 DEF GatewayType
<1>6. StopType
  <2>1. sweeping = FALSE /\ shutdown = "no" /\ awaited = 0
    BY DEF Init
  <2> QED
    BY <2>1 DEF StopType
<1> QED
  BY <1>1, <1>2, <1>3, <1>4, <1>5, <1>6 DEF TypeInv

\* The simulator's own actions.
LEMMA TypesOfSimulator ==
    ASSUME TypeInv, NEW s \in Sockets, connect(s) \/ EdgeEvent(s)
    PROVE  TypeInv'
<1> USE DEF TypeInv
<1>1. CASE connect(s)
  <2>1. Connection("CONNECTING", "NONE") \in ConnectionType
    BY DEF Connection, ConnectionType, EdgeEnds, CloudEnds
  <2>2. LinkType'
    BY <1>1, <2>1 DEF connect, LinkType
  <2>3. TimerType'
    BY <1>1 DEF connect, TimerType
  <2> QED
    BY <1>1, <2>2, <2>3
       DEF connect, SimulatorType, SimulatorKnown, CutType, GatewayType, StopType,
           gatewayVars, stopVars
<1>2. CASE OpenEvent(s) \/ MessageEvent(s)
  <2>1. SameSimulator(simulator, simulator') /\ LinkType'
    BY <1>2, OpenEventDoes, MessageEventDoes, TypesGrouped DEF LinkType
  <2>2. SimulatorType'
    BY <2>1 DEF SimulatorType, SimulatorKnown, SameSimulator
  <2>3. TimerType'
    <3>1. telemetryTimer' \in BOOLEAN /\ scenarioReconnectTimer' \in BOOLEAN
      BY <1>2 DEF OpenEvent, MessageEvent, applyStep, TimerType
    <3> QED
      BY <1>2, <3>1 DEF OpenEvent, MessageEvent, TimerType
  <2> QED
    BY <1>2, <2>1, <2>2, <2>3
       DEF OpenEvent, MessageEvent, CutType, GatewayType, StopType, gatewayVars, stopVars
<1>3. CASE ErrorEvent(s) \/ CloseEvent(s) \/ ErrorWithoutClose(s)
  <2>1. PICK edge \in EdgeEnds : link' = [link EXCEPT ![s].edge = edge]
    BY <1>3 DEF ErrorEvent, CloseEvent, ErrorWithoutClose, socketLost, EdgeEnds
  <2>2. LinkType'
    BY <2>1, OpenedLinks, TypesGrouped DEF LinkType
  <2>3. TimerType'
    BY <1>3 DEF ErrorEvent, CloseEvent, ErrorWithoutClose, socketLost, TimerType, edgeVars
  <2> QED
    BY <1>3, <2>2, <2>3
       DEF ErrorEvent, CloseEvent, ErrorWithoutClose, socketLost, SimulatorType, SimulatorKnown,
           CutType, GatewayType, StopType, edgeVars, gatewayVars, stopVars
<1> QED
  BY <1>1, <1>2, <1>3 DEF EdgeEvent

LEMMA TypesOfSimulatorTimers ==
    ASSUME TypeInv, ScenarioReconnectTimer \/ StopSimulator
    PROVE  TypeInv'
<1> USE DEF TypeInv
<1>1. LinkType'
  <2>1. link' = link \/ (socket \in Sockets /\ \E cut \in BOOLEAN :
            link' = [link EXCEPT ![socket] = [link[socket] EXCEPT !.cut = cut,
                                                                  !.edge = "CLOSING"]])
    <3>1. CASE ScenarioReconnectTimer /\ IsOpen(link, socket)
      <4>1. socket \in Sockets
        BY <3>1 DEF IsOpen, TimerType
      <4>2. link[socket] = [link[socket] EXCEPT !.cut = link[socket].cut]
            /\ link[socket].cut \in BOOLEAN
        BY <4>1 DEF LinkType, ConnectionType
      <4>3. link' = [link EXCEPT ![socket] = [link[socket] EXCEPT !.cut = link[socket].cut,
                                                                  !.edge = "CLOSING"]]
        BY <3>1, <4>1, <4>2 DEF ScenarioReconnectTimer, LinkType, ConnectionType
      <4> QED
        BY <4>1, <4>2, <4>3
    <3>2. CASE StopSimulator /\ socket # NoSocket
      <4>1. socket \in Sockets
        BY <3>2 DEF TimerType
      <4> DEFINE cut == link[socket].cut \/ link[socket].edge = "CONNECTING"
      <4>2. cut \in BOOLEAN
        OBVIOUS
      <4>3. link' = [link EXCEPT ![socket] = [link[socket] EXCEPT !.cut = cut,
                                                                  !.edge = "CLOSING"]]
        BY <3>2, <4>1 DEF StopSimulator, LinkType, ConnectionType
      <4> QED
        BY <4>1, <4>2, <4>3
    <3> QED
      BY <3>1, <3>2 DEF ScenarioReconnectTimer, StopSimulator
  <2>2. CASE link' = link
    BY <2>2 DEF LinkType
  <2>3. CASE socket \in Sockets /\ \E cut \in BOOLEAN :
            link' = [link EXCEPT ![socket] = [link[socket] EXCEPT !.cut = cut,
                                                                  !.edge = "CLOSING"]]
    BY <2>3 DEF LinkType, ConnectionType, EdgeEnds
  <2> QED
    BY <2>1, <2>2, <2>3
<1>2. TimerType'
  BY DEF ScenarioReconnectTimer, StopSimulator, TimerType
<1> QED
  BY <1>1, <1>2
     DEF ScenarioReconnectTimer, StopSimulator, SimulatorType, SimulatorKnown, CutType,
         GatewayType, StopType, gatewayVars, stopVars

\* The network and the gateway.
LEMMA TypesOfNetwork ==
    ASSUME TypeInv, NEW s \in Sockets, Cut(s) \/ PeerEvent(s)
    PROVE  TypeInv'
<1> USE DEF TypeInv
<1>1. CASE Cut(s)
  <2>1. PICK m \in 0..Len(link[s].up), n \in 0..Len(link[s].down) :
            link' = [link EXCEPT ![s].cut = TRUE, ![s].up = SubSeq(@, 1, m),
                                 ![s].down = SubSeq(@, 1, n)]
    BY <1>1 DEF Cut
  <2>2. SubSeq(link[s].up, 1, m) \in Seq(Frames) /\ SubSeq(link[s].down, 1, n) \in Seq(Commands)
    <3>1. link[s].up \in Seq(Frames) /\ link[s].down \in Seq(Commands)
      BY DEF LinkType, ConnectionType
    <3> QED
      BY <3>1
  <2> DEFINE up == SubSeq(link[s].up, 1, m)
             down == SubSeq(link[s].down, 1, n)
  <2>3. link' = [link EXCEPT ![s] = [link[s] EXCEPT !.cut = TRUE, !.up = up, !.down = down]]
    BY <2>1 DEF LinkType, ConnectionType
  <2> HIDE DEF up, down
  <2>4. LinkType'
    BY <2>2, <2>3 DEF LinkType, ConnectionType, up, down
  <2>5. CutType'
    <3>1. cuts < MaxCuts /\ cuts' = cuts + 1
      BY <1>1 DEF Cut
    <3> QED
      BY <3>1, BoundAssumption DEF CutType
  <2> QED
    BY <1>1, <2>4, <2>5
       DEF Cut, SimulatorType, SimulatorKnown, TimerType, GatewayType, StopType,
           edgeVars, gatewayVars, stopVars
<1>2. CASE HandleUpgrade(s)
  <2>1. LinkType'
    BY <1>2 DEF HandleUpgrade, LinkType, ConnectionType, CloudEnds
  <2>2. GatewayType'
    BY <1>2 DEF HandleUpgrade, GatewayType
  <2> QED
    BY <1>2, <2>1, <2>2
       DEF HandleUpgrade, SimulatorType, SimulatorKnown, TimerType, CutType, StopType,
           edgeVars, stopVars
<1>3. CASE ReceiveFrame(s)
  <2>1. link[s].up \in Seq(Frames) /\ link[s].up # <<>>
    BY <1>3 DEF ReceiveFrame, LinkType, ConnectionType
  <2>2. Tail(link[s].up) \in Seq(Frames) /\ Head(link[s].up) \in Frames
    BY <2>1
  <2> DEFINE tail == Tail(link[s].up)
  <2>3. link' = [link EXCEPT ![s] = [link[s] EXCEPT !.up = tail]]
    BY <1>3 DEF ReceiveFrame, LinkType, ConnectionType
  <2> HIDE DEF tail
  <2>4. LinkType'
    BY <2>2, <2>3 DEF LinkType, ConnectionType, tail
  <2>5. tasks' \in Seq(Tasks)
    BY <1>3, <2>2 DEF ReceiveFrame, enqueueRobotTask, GatewayType, Tasks
  <2>6. GatewayType'
    BY <1>3, <2>5 DEF ReceiveFrame, GatewayType
  <2> QED
    BY <1>3, <2>4, <2>6
       DEF ReceiveFrame, SimulatorType, SimulatorKnown, TimerType, CutType, StopType,
           edgeVars, stopVars
<1>4. CASE PeerClosed(s)
  <2>1. LinkType'
    BY <1>4 DEF PeerClosed, LinkType, ConnectionType, CloudEnds
  <2>2. tasks' \in Seq(Tasks)
    BY <1>4 DEF PeerClosed, removePeer, enqueueRobotTask, GatewayType, Tasks
  <2>3. GatewayType'
    BY <1>4, <2>2 DEF PeerClosed, removePeer, GatewayType
  <2> QED
    BY <1>4, <2>1, <2>3
       DEF PeerClosed, SimulatorType, SimulatorKnown, TimerType, CutType, StopType,
           edgeVars, stopVars
<1> QED
  BY <1>1, <1>2, <1>3, <1>4 DEF PeerEvent

\* A message the gateway sends changes nothing but what is on its way to the peers.
LEMMA SentToPeers ==
    ASSUME TypeInv, NEW command \in Commands, sendPlatformMessage(command)
    PROVE  /\ LinkType'
           /\ \A s \in Sockets :
                  /\ link'[s].edge = link[s].edge /\ link'[s].cloud = link[s].cloud
                  /\ link'[s].cut = link[s].cut /\ link'[s].up = link[s].up
<1>1. CASE closing
  BY <1>1 DEF sendPlatformMessage, TypeInv, LinkType
<1>2. CASE ~closing
  <2> DEFINE extended(s) == [link[s] EXCEPT !.down = Append(link[s].down, command)]
  <2>1. link' = [s \in Sockets |-> IF s \in peers /\ link[s].cloud = "OPEN"
                                   THEN extended(s) ELSE link[s]]
    BY <1>2 DEF sendPlatformMessage, sendToPeers
  <2>2. ASSUME NEW s \in Sockets
        PROVE  /\ link[s] \in ConnectionType
               /\ extended(s) \in ConnectionType
               /\ extended(s).edge = link[s].edge /\ extended(s).cloud = link[s].cloud
               /\ extended(s).cut = link[s].cut /\ extended(s).up = link[s].up
    <3>1. link[s] \in ConnectionType
      BY DEF TypeInv, LinkType
    <3>2. Append(link[s].down, command) \in Seq(Commands)
      <4>1. link[s].down \in Seq(Commands)
        BY <3>1 DEF ConnectionType
      <4> QED
        BY <4>1
    <3> QED
      BY <3>1, <3>2 DEF ConnectionType
  <2> HIDE DEF extended
  <2> QED
    BY <2>1, <2>2 DEF LinkType
<1> QED
  BY <1>1, <1>2

LEMMA TypesOfPlatform ==
    ASSUME TypeInv,
           (\E command \in Commands : SendCommand(command)) \/ RunChain \/ StopPlatform \/ Stop
    PROVE  TypeInv'
<1> USE DEF TypeInv
<1>1. CASE \E command \in Commands : SendCommand(command)
  <2>1. PICK command \in Commands : SendCommand(command)
    BY <1>1
  <2>2. LinkType'
    BY <2>1, SentToPeers DEF SendCommand
  <2> QED
    BY <2>1, <2>2
       DEF SendCommand, SimulatorType, SimulatorKnown, TimerType, CutType, GatewayType, StopType,
           edgeVars, gatewayVars, stopVars
<1>2. CASE StartTask
  <2>1. tasks' \in Seq(Tasks)
    BY <1>2 DEF StartTask, GatewayType
  <2>2. GatewayType'
    BY <1>2, <2>1 DEF StartTask, GatewayType
  <2> QED
    BY <1>2, <2>2
       DEF StartTask, SimulatorType, SimulatorKnown, TimerType, LinkType, CutType, StopType,
           edgeVars, stopVars
<1>3. CASE FinishTask
  <2>1. awaited' \in Nat
    BY <1>3 DEF FinishTask, StopType
  <2>2. GatewayType' /\ StopType'
    BY <1>3, <2>1 DEF FinishTask, GatewayType, StopType
  <2> QED
    BY <1>3, <2>2
       DEF FinishTask, SimulatorType, SimulatorKnown, TimerType, LinkType, CutType, edgeVars
<1>4. CASE StopPlatform \/ SweepEnds \/ CloseRepository
  <2>1. StopType'
    BY <1>4 DEF StopPlatform, SweepEnds, CloseRepository, StopType
  <2> QED
    BY <1>4, <2>1
       DEF StopPlatform, SweepEnds, CloseRepository, SimulatorType, SimulatorKnown, TimerType,
           LinkType, CutType, GatewayType, edgeVars, gatewayVars
<1>5. CASE closeAll
  <2>1. LinkType'
    <3>1. ASSUME NEW s \in Sockets
          PROVE  link[s] \in ConnectionType
                 /\ [link[s] EXCEPT !.cloud = "CLOSING"] \in ConnectionType
      BY DEF LinkType, ConnectionType, CloudEnds
    <3> QED
      BY <1>5, <3>1 DEF closeAll, LinkType
  <2>2. awaited' \in Nat
    <3>1. Len(tasks) \in Nat
      BY DEF GatewayType
    <3> QED
      BY <1>5, <3>1 DEF closeAll
  <2>3. GatewayType' /\ StopType'
    BY <1>5, <2>2 DEF closeAll, GatewayType, StopType
  <2> QED
    BY <1>5, <2>1, <2>3
       DEF closeAll, SimulatorType, SimulatorKnown, TimerType, CutType, edgeVars
<1> QED
  BY <1>1, <1>2, <1>3, <1>4, <1>5 DEF RunChain, Stop

LEMMA TypesStep == TypeInv /\ [Next]_vars => TypeInv'
<1> SUFFICES ASSUME TypeInv, [Next]_vars  PROVE TypeInv'
  OBVIOUS
<1>1. CASE UNCHANGED vars
  BY <1>1 DEF vars, TypeInv, SimulatorType, SimulatorKnown, TimerType, LinkType, CutType,
              GatewayType, StopType, edgeVars, gatewayVars, stopVars
<1> QED
  BY <1>1, TypesOfSimulator, TypesOfSimulatorTimers, TypesOfNetwork, TypesOfPlatform DEF Next

\* Every variable keeps its type, and the simulator keeps its robot and its scenario.
THEOREM LinkTypesHold == Spec => []TypeInv
<1> QED
  BY TypesInitially, TypesStep, PTL DEF Spec

\* The link's type invariant: whatever frames, errors, closes and timers come in which order, the
\* runtime (client.ts), the gateway (websocket.ts) and the stop (server.ts) stay in their types.
THEOREM LinkTypeCorrect == Spec => []TypeOK
<1>1. TypeInv => TypeOK
  BY TypesGrouped
<1> QED
  BY <1>1, LinkTypesHold, PTL

-----------------------------------------------------------------------------
(***************************************************************************)
(* The simulator has one connection.                                       *)
(***************************************************************************)

LiveEnds == {"CONNECTING", "OPEN", "CLOSING"}

\* The socket the simulator believes to be its own is the one with a live end.  While it has one
\* no socket waits for a close event after an error: the event of an older socket would take the
\* current one away, since the handlers do not ask whose it is.
OneSocket ==
    /\ \A s \in Sockets : link[s].edge \in LiveEnds => socket = s
    /\ socket # NoSocket =>
           /\ socket \in Sockets /\ link[socket].edge \in LiveEnds
           /\ ~reconnectTimer
           /\ \A s \in Sockets : link[s].edge # "ERRORED"

LEMMA OneSocketInitially == Init => OneSocket
<1> QED
  BY DEF Init, OneSocket, Connection, LiveEnds

LEMMA OneSocketOfSimulator ==
    ASSUME TypeInv, OneSocket, NEW s \in Sockets, connect(s) \/ EdgeEvent(s)
    PROVE  OneSocket'
<1>0. link \in [Sockets -> ConnectionType]
  BY DEF TypeInv, LinkType
<1>1. CASE connect(s)
  <2>1. socket = NoSocket /\ reconnectTimer' = FALSE /\ socket' = s
        /\ \A t \in Sockets : link[t].edge # "ERRORED"
    BY <1>1 DEF connect, OneSocket
  <2>2. \A t \in Sockets : link'[t].edge = IF t = s THEN "CONNECTING" ELSE link[t].edge
    BY <1>0, <1>1 DEF connect, Connection
  <2>3. \A t \in Sockets : link[t].edge \notin LiveEnds
    BY <2>1, SocketAssumption DEF OneSocket
  <2> QED
    BY <2>1, <2>2, <2>3 DEF OneSocket, LiveEnds
<1>2. CASE OpenEvent(s)
  <2>1. \A t \in Sockets : link'[t].edge = IF t = s THEN "OPEN" ELSE link[t].edge
    BY <1>2, OpenEventDoes, TypesGrouped
  <2>2. socket' = socket /\ reconnectTimer' = reconnectTimer /\ link[s].edge = "CONNECTING"
    BY <1>2 DEF OpenEvent
  <2> QED
    BY <2>1, <2>2 DEF OneSocket, LiveEnds
<1>3. CASE MessageEvent(s)
  <2>1. \A t \in Sockets : link'[t].edge = link[t].edge
    BY <1>3, MessageEventDoes, TypesGrouped
  <2>2. socket' = socket /\ reconnectTimer' = reconnectTimer
    BY <1>3 DEF MessageEvent
  <2> QED
    BY <2>1, <2>2 DEF OneSocket
<1>4. CASE ErrorEvent(s) \/ CloseEvent(s)
  <2>1. PICK edge \in {"ERRORED", "CLOSED"} :
            \A t \in Sockets : link'[t].edge = IF t = s THEN edge ELSE link[t].edge
    BY <1>0, <1>4 DEF ErrorEvent, CloseEvent, socketLost, ConnectionType
  <2>2. socket' = NoSocket
    BY <1>4 DEF ErrorEvent, CloseEvent, socketLost
  <2>3. link[s].edge \in LiveEnds \union {"ERRORED"}
    BY <1>4 DEF ErrorEvent, CloseEvent, LiveEnds
  <2>4. \A t \in Sockets : t # s => link[t].edge \notin LiveEnds
    BY <2>3, SocketAssumption DEF OneSocket
  <2> QED
    BY <2>1, <2>2, <2>4 DEF OneSocket, LiveEnds
<1>5. CASE ErrorWithoutClose(s)
  <2>1. \A t \in Sockets : link'[t].edge = IF t = s THEN "CLOSED" ELSE link[t].edge
    BY <1>0, <1>5 DEF ErrorWithoutClose, ConnectionType
  <2>2. socket' = socket /\ reconnectTimer' = reconnectTimer /\ link[s].edge = "ERRORED"
    BY <1>5 DEF ErrorWithoutClose, edgeVars
  <2> QED
    BY <2>1, <2>2 DEF OneSocket, LiveEnds
<1> QED
  BY <1>1, <1>2, <1>3, <1>4, <1>5 DEF EdgeEvent

LEMMA OneSocketOfTimers ==
    ASSUME TypeInv, OneSocket, ScenarioReconnectTimer \/ StopSimulator
    PROVE  OneSocket'
<1>0. link \in [Sockets -> ConnectionType]
  BY DEF TypeInv, LinkType
<1>1. \A t \in Sockets : link'[t].edge = link[t].edge \/ (t = socket /\ link'[t].edge = "CLOSING")
  BY <1>0 DEF ScenarioReconnectTimer, StopSimulator, IsOpen, ConnectionType
<1>2. socket' = socket /\ (reconnectTimer' => reconnectTimer)
  BY DEF ScenarioReconnectTimer, StopSimulator
<1> QED
  BY <1>1, <1>2, SocketAssumption DEF OneSocket, LiveEnds

\* The network and the platform do not move the simulator's ends.
LEMMA PlatformLeavesEdges ==
    ASSUME TypeInv,
           \/ \E s \in Sockets : Cut(s) \/ PeerEvent(s)
           \/ \E command \in Commands : SendCommand(command)
           \/ RunChain \/ StopPlatform \/ Stop
    PROVE  UNCHANGED edgeVars /\ \A t \in Sockets : link'[t].edge = link[t].edge
<1>0. link \in [Sockets -> ConnectionType]
  BY DEF TypeInv, LinkType
<1>1. ASSUME NEW s \in Sockets, Cut(s) \/ PeerEvent(s)
      PROVE  UNCHANGED edgeVars /\ \A t \in Sockets : link'[t].edge = link[t].edge
  <2>1. CASE Cut(s)
    <3>1. PICK m \in 0..Len(link[s].up), n \in 0..Len(link[s].down) :
              link' = [link EXCEPT ![s].cut = TRUE, ![s].up = SubSeq(@, 1, m),
                                   ![s].down = SubSeq(@, 1, n)]
      BY <2>1 DEF Cut
    <3> DEFINE up == SubSeq(link[s].up, 1, m)
               down == SubSeq(link[s].down, 1, n)
    <3>2. link' = [link EXCEPT ![s] = [link[s] EXCEPT !.cut = TRUE, !.up = up, !.down = down]]
      BY <1>0, <3>1 DEF ConnectionType
    <3>3. UNCHANGED edgeVars
      BY <2>1 DEF Cut
    <3> HIDE DEF up, down
    <3> QED
      BY <1>0, <3>2, <3>3 DEF ConnectionType
  <2>2. CASE HandleUpgrade(s)
    BY <1>0, <2>2 DEF HandleUpgrade, ConnectionType
  <2>3. CASE ReceiveFrame(s)
    <3> DEFINE tail == Tail(link[s].up)
    <3>1. link' = [link EXCEPT ![s] = [link[s] EXCEPT !.up = tail]] /\ UNCHANGED edgeVars
      BY <1>0, <2>3 DEF ReceiveFrame, ConnectionType
    <3> HIDE DEF tail
    <3> QED
      BY <1>0, <3>1 DEF ConnectionType
  <2>4. CASE PeerClosed(s)
    BY <1>0, <2>4 DEF PeerClosed, ConnectionType
  <2> QED
    BY <1>1, <2>1, <2>2, <2>3, <2>4 DEF PeerEvent
<1>2. ASSUME NEW command \in Commands, SendCommand(command)
      PROVE  UNCHANGED edgeVars /\ \A t \in Sockets : link'[t].edge = link[t].edge
  BY <1>2, SentToPeers DEF SendCommand
<1>3. CASE RunChain \/ StopPlatform \/ SweepEnds \/ CloseRepository
  BY <1>3 DEF RunChain, StartTask, FinishTask, StopPlatform, SweepEnds, CloseRepository
<1>4. CASE closeAll
  BY <1>0, <1>4 DEF closeAll, ConnectionType
<1> QED
  BY <1>1, <1>2, <1>3, <1>4 DEF Stop

LEMMA OneSocketStep == TypeInv /\ OneSocket /\ [Next]_vars => OneSocket'
<1> SUFFICES ASSUME TypeInv, OneSocket, [Next]_vars  PROVE OneSocket'
  OBVIOUS
<1>1. ASSUME UNCHANGED edgeVars, \A t \in Sockets : link'[t].edge = link[t].edge
      PROVE  OneSocket'
  BY <1>1 DEF OneSocket, edgeVars
<1>2. CASE UNCHANGED vars
  BY <1>1, <1>2 DEF vars
<1> QED
  BY <1>1, <1>2, OneSocketOfSimulator, OneSocketOfTimers, PlatformLeavesEdges DEF Next

\* The runtime's socket, its live end and its reconnect timer (client.ts) agree at all times.
THEOREM CurrentSocketIsTheOnlyOne == Spec => []OneSocket
<1> QED
  BY OneSocketInitially, OneSocketStep, LinkTypesHold, PTL DEF Spec

\* client.ts never runs two connections at once, although its close and error handlers do not ask
\* which socket they are called for.
THEOREM OneConnectionAtATime == Spec => []OneConnection
<1>1. OneSocket => OneConnection
  BY SocketAssumption DEF OneSocket, OneConnection, LiveEnds
<1> QED
  BY <1>1, CurrentSocketIsTheOnlyOne, PTL

-----------------------------------------------------------------------------
(***************************************************************************)
(* Heartbeats follow the connection.                                       *)
(***************************************************************************)

\* A simulator that was stopped has no socket left that could open or receive.
StoppedIsQuiet == stopped => \A s \in Sockets : link[s].edge \notin {"CONNECTING", "OPEN"}

HeartbeatInv == HeartbeatsFollowConnection /\ StoppedIsQuiet

LEMMA HeartbeatsInitially == Init => HeartbeatInv
<1> QED
  BY DEF Init, HeartbeatInv, HeartbeatsFollowConnection, StoppedIsQuiet, IsOpen, Connection

LEMMA HeartbeatsOfSimulator ==
    ASSUME TypeInv, OneSocket, HeartbeatInv, NEW s \in Sockets, connect(s) \/ EdgeEvent(s)
    PROVE  HeartbeatInv'
<1> USE DEF HeartbeatInv, HeartbeatsFollowConnection, StoppedIsQuiet
<1>0. link \in [Sockets -> ConnectionType]
  BY DEF TypeInv, LinkType
<1>1. CASE connect(s)
  <2>1. ~stopped /\ socket' = s /\ reconnectTimer' = FALSE
        /\ UNCHANGED <<simulator, telemetryTimer, scenarioReconnectTimer, stopped>>
    BY <1>1 DEF connect
  <2>2. link'[s].edge = "CONNECTING"
    BY <1>0, <1>1 DEF connect, Connection
  <2> QED
    BY <2>1, <2>2, SocketAssumption DEF IsOpen
<1>2. CASE OpenEvent(s)
  <2>1. /\ \A t \in Sockets : link'[t].edge = IF t = s THEN "OPEN" ELSE link[t].edge
        /\ SameSimulator(simulator, simulator')
        /\ simulator.scenario = "normal" => telemetryTimer'
    BY <1>2, OpenEventDoes, TypesGrouped
  <2>2. UNCHANGED <<socket, reconnectTimer, stopped>> /\ link[s].edge = "CONNECTING"
    BY <1>2 DEF OpenEvent
  <2>3. ~stopped
    BY <2>2
  <2>4. socket # NoSocket
    BY <2>2, SocketAssumption DEF OneSocket, LiveEnds
  <2> QED
    BY <2>1, <2>2, <2>3, <2>4 DEF SameSimulator
<1>3. CASE MessageEvent(s)
  <2>1. /\ \A t \in Sockets : link'[t].edge = link[t].edge
        /\ SameSimulator(simulator, simulator')
        /\ simulator.scenario = "normal" /\ telemetryTimer => telemetryTimer'
    BY <1>3, MessageEventDoes, TypesGrouped
  <2>2. UNCHANGED <<socket, reconnectTimer, stopped>> /\ link[s].edge = "OPEN"
    BY <1>3 DEF MessageEvent
  <2>3. ~stopped
    BY <2>2
  <2>4. socket # NoSocket /\ IsOpen(link, socket)
    BY <2>2, SocketAssumption DEF OneSocket, LiveEnds, IsOpen
  <2> QED
    BY <2>1, <2>2, <2>3, <2>4 DEF SameSimulator
<1>4. CASE ErrorEvent(s) \/ CloseEvent(s)
  <2>1. PICK edge \in {"ERRORED", "CLOSED"} :
            \A t \in Sockets : link'[t].edge = IF t = s THEN edge ELSE link[t].edge
    BY <1>0, <1>4 DEF ErrorEvent, CloseEvent, socketLost, ConnectionType
  <2>2. /\ socket' = NoSocket /\ telemetryTimer' = FALSE /\ reconnectTimer' = ~stopped
        /\ UNCHANGED <<simulator, scenarioReconnectTimer, stopped>>
    BY <1>4 DEF ErrorEvent, CloseEvent, socketLost
  <2> QED
    BY <2>1, <2>2 DEF IsOpen
<1>5. CASE ErrorWithoutClose(s)
  <2>1. \A t \in Sockets : link'[t].edge = IF t = s THEN "CLOSED" ELSE link[t].edge
    BY <1>0, <1>5 DEF ErrorWithoutClose, ConnectionType
  <2>2. UNCHANGED edgeVars
    BY <1>5 DEF ErrorWithoutClose
  <2> QED
    BY <2>1, <2>2, SocketAssumption DEF IsOpen, edgeVars, OneSocket
<1> QED
  BY <1>1, <1>2, <1>3, <1>4, <1>5 DEF EdgeEvent

LEMMA HeartbeatsOfTimers ==
    ASSUME TypeInv, OneSocket, HeartbeatInv, ScenarioReconnectTimer \/ StopSimulator
    PROVE  HeartbeatInv'
<1> USE DEF HeartbeatInv, HeartbeatsFollowConnection, StoppedIsQuiet
<1>0. link \in [Sockets -> ConnectionType]
  BY DEF TypeInv, LinkType
<1>1. CASE ScenarioReconnectTimer
  <2>1. \A t \in Sockets : link'[t].edge = link[t].edge
                               \/ (t = socket /\ link'[t].edge = "CLOSING")
    BY <1>0, <1>1 DEF ScenarioReconnectTimer, IsOpen, ConnectionType
  <2>2. /\ scenarioReconnectTimer' = FALSE
        /\ UNCHANGED <<simulator, socket, telemetryTimer, reconnectTimer, stopped>>
    BY <1>1 DEF ScenarioReconnectTimer
  <2> QED
    BY <2>1, <2>2 DEF IsOpen, OneSocket
<1>2. CASE StopSimulator
  <2>1. \A t \in Sockets : link'[t].edge = IF t = socket THEN "CLOSING" ELSE link[t].edge
    BY <1>0, <1>2, SocketAssumption DEF StopSimulator, ConnectionType
  <2>2. /\ ~telemetryTimer' /\ ~reconnectTimer' /\ ~scenarioReconnectTimer'
        /\ UNCHANGED <<simulator, socket>>
    BY <1>2 DEF StopSimulator
  <2>3. socket \in Sockets \/ socket = NoSocket
    BY DEF OneSocket
  <2> QED
    BY <2>1, <2>2, <2>3 DEF IsOpen, OneSocket, LiveEnds
<1> QED
  BY <1>1, <1>2

LEMMA HeartbeatsStep == TypeInv /\ OneSocket /\ HeartbeatInv /\ [Next]_vars => HeartbeatInv'
<1> SUFFICES ASSUME TypeInv, OneSocket, HeartbeatInv, [Next]_vars  PROVE HeartbeatInv'
  OBVIOUS
<1>1. ASSUME UNCHANGED edgeVars, \A t \in Sockets : link'[t].edge = link[t].edge
      PROVE  HeartbeatInv'
  BY <1>1 DEF HeartbeatInv, HeartbeatsFollowConnection, StoppedIsQuiet, edgeVars, IsOpen,
              OneSocket
<1>2. CASE UNCHANGED vars
  BY <1>1, <1>2 DEF vars
<1> QED
  BY <1>1, <1>2, HeartbeatsOfSimulator, HeartbeatsOfTimers, PlatformLeavesEdges DEF Next

\* client.ts never heartbeats without a socket, in the normal scenario always does on an open one,
\* and nothing brings a stopped simulator back.
THEOREM HeartbeatsBelongToConnections == Spec => []HeartbeatsFollowConnection
<1>1. HeartbeatInv => HeartbeatsFollowConnection
  BY DEF HeartbeatInv
<1>2. Spec => []HeartbeatInv
  BY HeartbeatsInitially, HeartbeatsStep, LinkTypesHold, CurrentSocketIsTheOnlyOne, PTL DEF Spec
<1> QED
  BY <1>1, <1>2, PTL

-----------------------------------------------------------------------------
(***************************************************************************)
(* What the service was told.                                              *)
(***************************************************************************)

\* The last event of the chain: the last task that waits, or what the service was told if none
\* does.
LastIsHello == IF tasks = <<>> THEN told = "connected" ELSE tasks[Len(tasks)] = "edge.hello"

\* Until the gateway closes, the peers are the sockets open at its end.
PeersAreOpen ==
    ~closing => \A s \in Sockets : /\ s \in peers <=> link[s].cloud = "OPEN"
                                   /\ link[s].cloud # "CLOSING"

\* Without peers the last event is not a hello, and a connected peer whose frames were all
\* received made it one: no later event but another hello can come before that peer leaves.
LastWord ==
    ~closing =>
        /\ peers = {} => ~LastIsHello
        /\ \A s \in peers : link[s].edge = "OPEN" /\ ~link[s].cut /\ link[s].up = <<>>
               => LastIsHello

ChainInv == PeersAreOpen /\ LastWord

LEMMA ChainInitially == Init => ChainInv
<1> QED
  BY DEF Init, ChainInv, PeersAreOpen, LastWord, LastIsHello, Connection

\* The last element of a longer and of a shorter chain.
LEMMA LastOfAppended ==
    ASSUME NEW S, NEW chain \in Seq(S), NEW task \in S
    PROVE  LET longer == Append(chain, task) IN longer # <<>> /\ longer[Len(longer)] = task
<1> QED
  OBVIOUS

LEMMA LastOfTail ==
    ASSUME NEW S, NEW chain \in Seq(S), chain # <<>>
    PROVE  IF Tail(chain) = <<>> THEN chain[Len(chain)] = Head(chain)
           ELSE Tail(chain)[Len(Tail(chain))] = chain[Len(chain)]
<1>1. Len(chain) \in Nat /\ Len(chain) > 0
  OBVIOUS
<1>2. /\ Tail(chain) \in Seq(S) /\ Len(Tail(chain)) = Len(chain) - 1
      /\ \A i \in 1..(Len(chain) - 1) : Tail(chain)[i] = chain[i + 1]
  OBVIOUS
<1> DEFINE tail == Tail(chain)
<1> HIDE DEF tail
<1>3. CASE tail = <<>>
  <2>1. Len(tail) = 0
    BY <1>3
  <2>2. Len(chain) = 1
    <3>1. Len(tail) = Len(chain) - 1
      BY <1>2 DEF tail
    <3> QED
      BY <1>1, <2>1, <3>1
  <2> QED
    BY <1>3, <2>2 DEF tail
<1>4. CASE tail # <<>>
  <2>1. Len(tail) > 0
    BY <1>2, <1>4 DEF tail
  <2>2. tail[Len(chain) - 1] = chain[Len(chain)]
    BY <1>1, <1>2, <2>1 DEF tail
  <2> QED
    BY <1>2, <1>4, <2>2 DEF tail
<1> QED
  BY <1>3, <1>4

\* An event that leaves the chain alone and makes no end OPEN keeps ChainInv; new frames on the
\* way only help.
LEMMA ChainUndisturbed ==
    ASSUME TypeInv, ChainInv, UNCHANGED <<peers, tasks, told, shutdown>>,
           \A s \in Sockets :
               /\ link'[s].cloud = link[s].cloud
               /\ s \in peers /\ link'[s].edge = "OPEN" /\ ~link'[s].cut /\ link'[s].up = <<>>
                      => link[s].edge = "OPEN" /\ ~link[s].cut /\ link[s].up = <<>>
    PROVE  ChainInv'
<1> QED
  BY DEF TypeInv, GatewayType, ChainInv, PeersAreOpen, LastWord, LastIsHello, closing

LEMMA ChainOfSimulator ==
    ASSUME TypeInv, OneSocket, ChainInv, NEW s \in Sockets, connect(s) \/ EdgeEvent(s)
    PROVE  ChainInv'
<1>0. link \in [Sockets -> ConnectionType]
  BY DEF TypeInv, LinkType
<1>1. CASE connect(s)
  <2>1. UNCHANGED <<peers, tasks, told, shutdown>> /\ link[s].cloud \in {"NONE", "CLOSED"}
    BY <1>1 DEF connect, CanReuse, gatewayVars, stopVars
  <2>2. /\ link'[s].cloud = "NONE" /\ link'[s].edge = "CONNECTING"
        /\ \A t \in Sockets : t # s => link'[t] = link[t]
    BY <1>0, <1>1 DEF connect, Connection
  <2>3. PeersAreOpen'
    BY <2>1, <2>2 DEF ChainInv, PeersAreOpen, closing
  <2>4. LastWord'
    <3>1. \A t \in peers' : link'[t].edge = "OPEN" => t # s /\ link'[t] = link[t]
      BY <2>1, <2>2 DEF TypeInv, GatewayType
    <3>2. LastIsHello' = LastIsHello /\ closing' = closing
      BY <2>1 DEF LastIsHello, closing
    <3> QED
      BY <2>1, <3>1, <3>2 DEF ChainInv, LastWord
  <2> QED
    BY <2>3, <2>4 DEF ChainInv
<1>2. CASE OpenEvent(s)
  <2>1. UNCHANGED <<peers, tasks, told, shutdown, socket>> /\ link[s].edge = "CONNECTING"
    BY <1>2 DEF OpenEvent, gatewayVars, stopVars
  <2>2. s = socket /\ s # NoSocket
    BY <2>1, SocketAssumption DEF OneSocket, LiveEnds
  <2>3. /\ link'[s].up = Append(link[s].up, "edge.hello")
        /\ \A t \in Sockets :
               /\ link'[t].edge = IF t = s THEN "OPEN" ELSE link[t].edge
               /\ link'[t].cloud = link[t].cloud /\ link'[t].cut = link[t].cut
               /\ link'[t].up \in {link[t].up, Append(link[t].up, "edge.hello")}
    BY <1>2, <2>2, OpenEventDoes, TypesGrouped
  <2>4. \A t \in Sockets : link[t].up \in Seq(Frames)
    BY <1>0 DEF ConnectionType
  <2>5. \A t \in Sockets : Append(link[t].up, "edge.hello") # <<>>
    BY <2>4
  <2> QED
    BY <2>1, <2>3, <2>5, ChainUndisturbed
<1>3. CASE MessageEvent(s)
  <2>1. UNCHANGED <<peers, tasks, told, shutdown>>
    BY <1>3 DEF MessageEvent, gatewayVars, stopVars
  <2>2. \A t \in Sockets :
            /\ link'[t].edge = link[t].edge
            /\ link'[t].cloud = link[t].cloud /\ link'[t].cut = link[t].cut
            /\ link'[t].up \in {link[t].up, Append(link[t].up, "edge.hello")}
    BY <1>3, MessageEventDoes, TypesGrouped
  <2>3. \A t \in Sockets : link[t].up \in Seq(Frames)
    BY <1>0 DEF ConnectionType
  <2>4. \A t \in Sockets : Append(link[t].up, "edge.hello") # <<>>
    BY <2>3
  <2> QED
    BY <2>1, <2>2, <2>4, ChainUndisturbed
<1>4. CASE ErrorEvent(s) \/ CloseEvent(s) \/ ErrorWithoutClose(s)
  <2>1. UNCHANGED <<peers, tasks, told, shutdown>>
    BY <1>4 DEF ErrorEvent, CloseEvent, ErrorWithoutClose, socketLost, gatewayVars, stopVars
  <2>2. PICK edge \in {"ERRORED", "CLOSED"} : link' = [link EXCEPT ![s].edge = edge]
    BY <1>4 DEF ErrorEvent, CloseEvent, ErrorWithoutClose, socketLost
  <2>3. \A t \in Sockets : /\ link'[t].edge = IF t = s THEN edge ELSE link[t].edge
                           /\ link'[t].cloud = link[t].cloud /\ link'[t].cut = link[t].cut
                           /\ link'[t].up = link[t].up
    BY <1>0, <2>2 DEF ConnectionType
  <2> QED
    BY <2>1, <2>3, ChainUndisturbed
<1> QED
  BY <1>1, <1>2, <1>3, <1>4 DEF EdgeEvent

LEMMA ChainOfTimers ==
    ASSUME TypeInv, ChainInv, ScenarioReconnectTimer \/ StopSimulator
    PROVE  ChainInv'
<1>0. link \in [Sockets -> ConnectionType]
  BY DEF TypeInv, LinkType
<1>1. UNCHANGED <<peers, tasks, told, shutdown>>
  BY DEF ScenarioReconnectTimer, StopSimulator, gatewayVars, stopVars
<1>2. \A t \in Sockets :
          /\ link'[t].cloud = link[t].cloud /\ link'[t].up = link[t].up
          /\ \/ link'[t].edge = link[t].edge /\ link'[t].cut = link[t].cut
             \/ link'[t].edge = "CLOSING"
  <2>1. CASE ScenarioReconnectTimer
    BY <1>0, <2>1 DEF ScenarioReconnectTimer, ConnectionType
  <2>2. CASE StopSimulator
    BY <1>0, <2>2 DEF StopSimulator, ConnectionType
  <2> QED
    BY <2>1, <2>2
<1> QED
  BY <1>1, <1>2, ChainUndisturbed

\* The network and the gateway's handlers.
LEMMA ChainOfNetwork ==
    ASSUME TypeInv, ChainInv, NEW s \in Sockets, Cut(s) \/ PeerEvent(s)
    PROVE  ChainInv'
<1>0. link \in [Sockets -> ConnectionType] /\ tasks \in Seq(Tasks) /\ peers \subseteq Sockets
  BY DEF TypeInv, LinkType, GatewayType
<1>1. CASE Cut(s)
  <2>1. UNCHANGED <<peers, tasks, told, shutdown>>
    BY <1>1 DEF Cut, gatewayVars, stopVars
  <2>2. PICK m \in 0..Len(link[s].up), n \in 0..Len(link[s].down) :
            link' = [link EXCEPT ![s].cut = TRUE, ![s].up = SubSeq(@, 1, m),
                                 ![s].down = SubSeq(@, 1, n)]
    BY <1>1 DEF Cut
  <2> DEFINE up == SubSeq(link[s].up, 1, m)
             down == SubSeq(link[s].down, 1, n)
  <2>3. link' = [link EXCEPT ![s] = [link[s] EXCEPT !.cut = TRUE, !.up = up, !.down = down]]
    BY <1>0, <2>2 DEF ConnectionType
  <2> HIDE DEF up, down
  <2>4. /\ link'[s].cut /\ link'[s].cloud = link[s].cloud
        /\ \A t \in Sockets : t # s => link'[t] = link[t]
    BY <1>0, <2>3 DEF ConnectionType
  <2> QED
    BY <2>1, <2>4, ChainUndisturbed
<1>2. CASE HandleUpgrade(s)
  <2>1. CASE closing
    BY <1>2, <2>1 DEF HandleUpgrade, ChainInv, PeersAreOpen, LastWord, closing, stopVars
  <2>2. CASE ~closing
    <3>1. /\ peers' = peers \union {s} /\ UNCHANGED <<tasks, told, shutdown>>
          /\ link[s].edge = "CONNECTING" /\ link' = [link EXCEPT ![s].cloud = "OPEN"]
      BY <1>2, <2>2 DEF HandleUpgrade, stopVars
    <3>2. /\ link'[s].cloud = "OPEN" /\ link'[s].edge = "CONNECTING"
          /\ \A t \in Sockets : t # s => link'[t] = link[t]
      BY <1>0, <3>1 DEF ConnectionType
    <3>3. LastIsHello' = LastIsHello /\ closing' = closing
      BY <3>1 DEF LastIsHello, closing
    <3> QED
      BY <1>0, <3>1, <3>2, <3>3 DEF ChainInv, PeersAreOpen, LastWord
  <2> QED
    BY <2>1, <2>2
<1>3. CASE ReceiveFrame(s)
  <2>1. CASE closing
    BY <1>3, <2>1 DEF ReceiveFrame, ChainInv, PeersAreOpen, LastWord, closing, stopVars
  <2>2. CASE ~closing
    <3>1. link[s].up \in Seq(Frames) /\ link[s].up # <<>>
      BY <1>0, <1>3 DEF ReceiveFrame, ConnectionType
    <3>2. Head(link[s].up) = "edge.hello"
      BY <3>1 DEF Frames
    <3>3. tasks' = Append(tasks, "edge.hello") /\ UNCHANGED <<peers, told, shutdown>>
      BY <1>3, <2>2, <3>2 DEF ReceiveFrame, enqueueRobotTask, stopVars
    <3>4. tasks' # <<>> /\ tasks'[Len(tasks')] = "edge.hello"
      <4>1. "edge.hello" \in Tasks
        BY DEF Tasks, Frames
      <4> QED
        BY <1>0, <3>3, <4>1, LastOfAppended
    <3>5. s \in peers
      BY <1>3, <2>2 DEF ReceiveFrame, ChainInv, PeersAreOpen
    <3>6. \A t \in Sockets : link'[t].cloud = link[t].cloud
      <4> DEFINE tail == Tail(link[s].up)
      <4>1. link' = [link EXCEPT ![s] = [link[s] EXCEPT !.up = tail]]
        BY <1>0, <1>3 DEF ReceiveFrame, ConnectionType
      <4> HIDE DEF tail
      <4> QED
        BY <1>0, <4>1 DEF ConnectionType
    <3>7. LastIsHello'
      BY <3>4 DEF LastIsHello
    <3>8. PeersAreOpen'
      BY <3>3, <3>6 DEF ChainInv, PeersAreOpen, closing
    <3>9. LastWord'
      BY <3>3, <3>5, <3>7 DEF LastWord
    <3> QED
      BY <3>8, <3>9 DEF ChainInv
  <2> QED
    BY <2>1, <2>2
<1>4. CASE PeerClosed(s)
  <2>1. CASE closing
    BY <1>4, <2>1 DEF PeerClosed, ChainInv, PeersAreOpen, LastWord, closing, stopVars
  <2>2. CASE ~closing
    <3>1. peers' = peers \ {s} /\ UNCHANGED <<told, shutdown>>
      BY <1>4 DEF PeerClosed, removePeer, stopVars
    <3>2. /\ link'[s].cloud = "CLOSED"
          /\ \A t \in Sockets : t # s => link'[t] = link[t]
      BY <1>0, <1>4 DEF PeerClosed, ConnectionType
    <3>3. s \in peers
      BY <1>4, <2>2 DEF PeerClosed, ChainInv, PeersAreOpen
    <3>4. PeersAreOpen'
      BY <1>0, <3>1, <3>2 DEF ChainInv, PeersAreOpen, closing
    <3>5. CASE peers = {s}
      <4>1. tasks' = Append(tasks, "disconnect")
        BY <1>4, <2>2, <3>5 DEF PeerClosed, removePeer, enqueueRobotTask
      <4>2. tasks' # <<>> /\ tasks'[Len(tasks')] = "disconnect"
        <5>1. "disconnect" \in Tasks
          BY DEF Tasks
        <5> QED
          BY <1>0, <4>1, <5>1, LastOfAppended
      <4>3. ~LastIsHello' /\ peers' = {}
        BY <3>1, <3>5, <4>2 DEF LastIsHello
      <4> QED
        BY <3>4, <4>3 DEF ChainInv, LastWord
    <3>6. CASE peers # {s}
      <4>1. tasks' = tasks /\ peers' # {}
        BY <1>4, <3>1, <3>3, <3>6 DEF PeerClosed, removePeer
      <4>2. LastIsHello' = LastIsHello /\ closing' = closing
        BY <3>1, <4>1 DEF LastIsHello, closing
      <4>3. \A t \in peers' : t \in peers /\ link'[t] = link[t]
        BY <1>0, <3>1, <3>2
      <4> QED
        BY <3>4, <4>1, <4>2, <4>3 DEF ChainInv, LastWord
    <3> QED
      BY <3>5, <3>6
  <2> QED
    BY <2>1, <2>2
<1> QED
  BY <1>1, <1>2, <1>3, <1>4 DEF PeerEvent

LEMMA ChainOfPlatform ==
    ASSUME TypeInv, ChainInv,
           (\E command \in Commands : SendCommand(command)) \/ RunChain \/ StopPlatform \/ Stop
    PROVE  ChainInv'
<1>1. CASE \E command \in Commands : SendCommand(command)
  <2>1. UNCHANGED <<peers, tasks, told, shutdown>>
    BY <1>1 DEF SendCommand, gatewayVars, stopVars
  <2>2. \A t \in Sockets : /\ link'[t].edge = link[t].edge /\ link'[t].cloud = link[t].cloud
                           /\ link'[t].cut = link[t].cut /\ link'[t].up = link[t].up
    BY <1>1, SentToPeers DEF SendCommand
  <2> QED
    BY <2>1, <2>2, ChainUndisturbed
<1>2. CASE StartTask
  <2>1. /\ tasks \in Seq(Tasks) /\ tasks # <<>> /\ tasks' = Tail(tasks)
        /\ told' = IF Head(tasks) = "edge.hello" THEN "connected" ELSE "disconnected"
        /\ UNCHANGED <<link, peers, shutdown>>
    BY <1>2 DEF StartTask, TypeInv, GatewayType, stopVars
  <2>2. LastIsHello' = LastIsHello
    <3>1. CASE tasks' = <<>>
      BY <2>1, <3>1, LastOfTail DEF LastIsHello
    <3>2. CASE tasks' # <<>>
      BY <2>1, <3>2, LastOfTail DEF LastIsHello
    <3> QED
      BY <3>1, <3>2
  <2> QED
    BY <2>1, <2>2 DEF ChainInv, PeersAreOpen, LastWord, closing
<1>3. CASE FinishTask \/ SweepEnds
  BY <1>3 DEF FinishTask, SweepEnds, ChainInv, PeersAreOpen, LastWord, LastIsHello, closing,
              gatewayVars
<1>4. CASE StopPlatform
  BY <1>4 DEF StopPlatform, ChainInv, PeersAreOpen, LastWord, LastIsHello, closing, gatewayVars
<1>5. CASE closeAll \/ CloseRepository
  BY <1>5 DEF closeAll, CloseRepository, ChainInv, PeersAreOpen, LastWord, closing
<1> QED
  BY <1>1, <1>2, <1>3, <1>4, <1>5 DEF RunChain, Stop

LEMMA ChainStep == TypeInv /\ OneSocket /\ ChainInv /\ [Next]_vars => ChainInv'
<1> SUFFICES ASSUME TypeInv, OneSocket, ChainInv, [Next]_vars  PROVE ChainInv'
  OBVIOUS
<1>1. CASE UNCHANGED vars
  BY <1>1 DEF vars, gatewayVars, stopVars, ChainInv, PeersAreOpen, LastWord, LastIsHello, closing
<1> QED
  BY <1>1, ChainOfSimulator, ChainOfTimers, ChainOfNetwork, ChainOfPlatform DEF Next

\* The last event of the chain says whether the robot is connected, as long as the gateway
\* (websocket.ts) takes work, however old and new connections overlap.
THEOREM LastWordIsTrue == Spec => []ChainInv
<1> QED
  BY ChainInitially, ChainStep, LinkTypesHold, CurrentSocketIsTheOnlyOne, PTL DEF Spec

\* An idle chain of websocket.ts has told the service the truth: no robot without a peer is left
\* connected and none with an open, silent socket is left disconnected.
THEOREM ServiceIsToldTheTruth == Spec => []ServiceKnowsTheRobot
<1>1. TypeInv /\ ChainInv => ServiceKnowsTheRobot
  BY DEF TypeInv, GatewayType, ChainInv, LastWord, LastIsHello, ServiceKnowsTheRobot
<1> QED
  BY <1>1, LinkTypesHold, LastWordIsTrue, PTL

-----------------------------------------------------------------------------
(***************************************************************************)
(* The orderly stop.                                                       *)
(***************************************************************************)

\* The tasks of the chain that have not settled.
Unsettled == Len(tasks) + IF running THEN 1 ELSE 0

\* A closing gateway takes no new task, so those closeAll counted are all there are, and no sweep
\* is active any more.
StopInv ==
    /\ closing => ~sweeping /\ awaited = Unsettled
    /\ shutdown = "done" => awaited = 0

LEMMA StopStep == TypeInv /\ StopInv /\ [Next]_vars => StopInv'
<1> SUFFICES ASSUME TypeInv, StopInv, [Next]_vars  PROVE StopInv'
  OBVIOUS
<1>0. tasks \in Seq(Tasks) /\ running \in BOOLEAN /\ awaited \in Nat
  BY DEF TypeInv, GatewayType, StopType
<1>1. ASSUME UNCHANGED <<tasks, running, sweeping, shutdown, awaited>>
      PROVE  StopInv'
  BY <1>1 DEF StopInv, Unsettled, closing
<1>2. ASSUME NEW s \in Sockets, connect(s) \/ EdgeEvent(s) \/ Cut(s) \/ HandleUpgrade(s)
      PROVE  StopInv'
  BY <1>1, <1>2 DEF connect, EdgeEvent, OpenEvent, MessageEvent, ErrorEvent, CloseEvent,
                    ErrorWithoutClose, socketLost, Cut, HandleUpgrade, gatewayVars, stopVars
<1>3. ASSUME NEW s \in Sockets, ReceiveFrame(s) \/ PeerClosed(s)
      PROVE  StopInv'
  <2>1. UNCHANGED <<running, sweeping, shutdown, awaited>>
    BY <1>3 DEF ReceiveFrame, PeerClosed, stopVars
  <2>2. closing => tasks' = tasks
    BY <1>3 DEF ReceiveFrame, PeerClosed, removePeer, enqueueRobotTask
  <2>3. closing' = closing
    BY <2>1 DEF closing
  <2> QED
    BY <2>1, <2>2, <2>3 DEF StopInv, Unsettled
<1>4. CASE ScenarioReconnectTimer \/ StopSimulator
  BY <1>1, <1>4 DEF ScenarioReconnectTimer, StopSimulator, gatewayVars, stopVars
<1>5. CASE \E command \in Commands : SendCommand(command)
  BY <1>1, <1>5 DEF SendCommand, gatewayVars, stopVars
<1>6. CASE StartTask
  <2>1. UNCHANGED <<sweeping, shutdown, awaited>> /\ running' /\ ~running
    BY <1>6 DEF StartTask, stopVars
  <2>2. Len(tasks') = Len(tasks) - 1
    BY <1>0, <1>6 DEF StartTask
  <2>3. Unsettled' = Unsettled
    BY <1>0, <2>1, <2>2 DEF Unsettled
  <2> QED
    BY <2>1, <2>3 DEF StopInv, closing
<1>7. CASE FinishTask
  <2>1. UNCHANGED <<tasks, sweeping, shutdown>> /\ running /\ ~running'
    BY <1>7 DEF FinishTask
  <2>2. Unsettled = Len(tasks) + 1 /\ Unsettled' = Len(tasks)
    BY <1>0, <2>1 DEF Unsettled
  <2>3. awaited' = IF awaited > 0 THEN awaited - 1 ELSE 0
    BY <1>7 DEF FinishTask
  <2>4. Len(tasks) \in Nat
    BY <1>0
  <2>5. awaited = Unsettled => awaited' = Unsettled'
    BY <2>2, <2>3, <2>4
  <2>6. awaited = 0 => awaited' = 0
    BY <2>3
  <2> QED
    BY <2>1, <2>5, <2>6 DEF StopInv, closing
<1>8. CASE StopPlatform
  BY <1>8 DEF StopPlatform, StopInv, closing
<1>9. CASE SweepEnds
  BY <1>9 DEF SweepEnds, StopInv, closing, Unsettled, gatewayVars
<1>10. CASE closeAll
  BY <1>10 DEF closeAll, StopInv, closing, Unsettled
<1>11. CASE CloseRepository
  BY <1>11 DEF CloseRepository, StopInv, closing, Unsettled, gatewayVars
<1>12. CASE UNCHANGED vars
  BY <1>1, <1>12 DEF vars, gatewayVars, stopVars
<1> QED
  BY <1>2, <1>3, <1>4, <1>5, <1>6, <1>7, <1>8, <1>9, <1>10, <1>11, <1>12
     DEF Next, PeerEvent, RunChain, Stop

\* server.ts closes the repository only when neither a task of the edge gateway nor a freshness
\* sweep is left that could use it, and none starts afterwards.
THEOREM RepositoryClosesLast == Spec => []NothingAfterTheRepository
<1>1. Init => StopInv
  BY DEF Init, StopInv, closing
<1>2. Spec => []StopInv
  BY <1>1, StopStep, LinkTypesHold, PTL DEF Spec
<1>3. TypeInv /\ StopInv => NothingAfterTheRepository
  <2> SUFFICES ASSUME TypeInv, StopInv, shutdown = "done"
               PROVE  tasks = <<>> /\ ~running /\ ~sweeping
    BY DEF NothingAfterTheRepository
  <2>1. ~sweeping /\ Unsettled = 0
    BY DEF StopInv, closing
  <2>2. tasks \in Seq(Tasks) /\ Len(tasks) \in Nat
    BY DEF TypeInv, GatewayType
  <2>3. ~running
    BY <2>1, <2>2 DEF Unsettled
  <2>4. Len(tasks) = 0
    BY <2>1, <2>2, <2>3 DEF Unsettled
  <2> QED
    BY <2>1, <2>2, <2>3, <2>4
<1> QED
  BY <1>2, <1>3, LinkTypesHold, PTL

=============================================================================
