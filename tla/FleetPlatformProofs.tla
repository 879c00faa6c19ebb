-------------------------- MODULE FleetPlatformProofs --------------------------
(***************************************************************************)
(* Theorems about FleetPlatform, for every value of its constants.         *)
(*                                                                         *)
(* Every step of the platform is a step of a reducer on a typed input, a   *)
(* write of a demo control, or leaves the domain's state alone, so the     *)
(* inductive invariant of FleetDomain holds here too, with messages an     *)
(* edge made up on the way instead of declared ones.  PlatformInv adds     *)
(* what is under way: the calls, the frames and the commands sent.  The    *)
(* safety properties follow from it and one more invariant each.           *)
(***************************************************************************)
EXTENDS FleetPlatform, FleetDomainSafety, FiniteSetTheorems

(***************************************************************************)
(* The invariant.                                                          *)
(***************************************************************************)

Issued == {c \in CommandIds : CommandExists(c)}
Envelopes == {Envelope(c) : c \in Issued}

SeenUpTo(messages, n) == {message \in messages : message.lastSeenCommandSequence <= n}
EdgeAck == [ackId : Nat, commandId : CommandIds, robotId : {Robot1},
            status : CommandAckStatuses, lastSeenCommandSequence : Nat]
\* The frames of an edge that has seen the commands up to n.
Frames(n) == [type : {"edge.hello"}, payload : SeenUpTo(Hello, n)]
             \union [type : {"edge.command_ack"}, payload : SeenUpTo(EdgeAck, n)]
             \union [type : {"edge.telemetry"}, payload : SeenUpTo(Telemetry, n)]
             \union [type : {"edge.reconnect_handshake"}, payload : SeenUpTo(Handshake, n)]
             \union [type : {"disconnect"}, payload : {None}]

EdgeState == [robotId : {Robot1}, scenario : Edge!SimulatorScenarios,
              edgeSessionId : Nat \union {None}, lastSeenCommandSequence : Nat,
              lastAcknowledgedCommandId : MaybeCommand, currentMissionId : MaybeMission,
              reportedMissionLifecycleState : {"RUNNING", "CANCELLED"},
              reconnectHandshakeSent : BOOLEAN]

DispatchLeft == <<"dispatch">>
EvaluateLeft == <<"evaluate">>
SendLeft == <<"send">>
ReadPendingLeft == <<"readPending">>
SendPendingLeft == <<"sendPending">>
HandshakeLeft == <<"handshake">>
ReconnectLeft == <<"beginReconnect", "handshake">>

\* What may be under way in each slot.
SendsCommand(call) == \E c \in Issued : call = Call(SendLeft, c)
Reconnects(call, handshakes) ==
    \E handshake \in handshakes :
        call \in {Call(ReconnectLeft, handshake), Call(HandshakeLeft, handshake)}
DemoHandshakes == {handshake \in Handshake : handshake.edgeSessionId > MaxFaults}
\* A request with the time it came in; the time a demo control came in.
Asked(in, time) == [request |-> in, now |-> time]
AsOf(time) == [now |-> time]
Evaluates(call) == \E time \in Nat : call = Call(EvaluateLeft, AsOf(time))
CreateCall(call) == \/ call = Idle \/ SendsCommand(call)
                    \/ \E in \in DispatchInputs, time \in Nat :
                           call = Call(DispatchLeft, Asked(in, time))
DemoCall(call) == call = Idle \/ Evaluates(call) \/ Reconnects(call, DemoHandshakes)
CancelCall(call) == call = Idle \/ SendsCommand(call)
ChainCall(call) == \/ call \in {Idle, Call(ReadPendingLeft, None)}
                   \/ \E order \in Seq(Issued) : call = Call(SendPendingLeft, order)
                   \/ Reconnects(call, SeenUpTo(Handshake, edge.lastSeenCommandSequence))

CallsTable == calls = [slot \in Slots |-> calls[slot]]
CallsInv == /\ CallsTable
            /\ CreateCall(calls["create"])
            /\ CancelCall(calls["cancel"])
            /\ DemoCall(calls["demo"])
            /\ ChainCall(calls["chain"])

LinkInv == /\ inbox \in Seq(Frames(edge.lastSeenCommandSequence))
           /\ down \in Seq(Envelopes)
           /\ edge \in EdgeState
           /\ faults \in 0..MaxFaults
           /\ ~connected => down = <<>>

\* Generated ids are counted off, which needs their number to be finite.
Counted == /\ IsFiniteSet(Issued)
           /\ IsFiniteSet(processedAckIds) /\ IsFiniteSet(processedEventIds)

FlagsInv == /\ connected \in BOOLEAN /\ overtaken \in BOOLEAN
            /\ sweptAt \in Nat /\ missed \subseteq CommandIds

PlatformInv == IInv /\ StartTime <= now /\ Counted /\ CallsInv /\ LinkInv /\ FlagsInv

\* Commands a connected robot has seen were issued.
SeenWasIssued == edge.lastSeenCommandSequence > 0 =>
                     edge.lastSeenCommandSequence < nextSequenceByRobot[Robot1]
CloudInv == \/ robots[Robot1].lastSeenCommandSequence <= edge.lastSeenCommandSequence
            \/ \E session \in processedReconnectSessionIds : session > MaxFaults

\* A robot that is online when the request dispatches was found fresh as of the request's time,
\* or something overtook the request.
LookedInv == /\ IsAt("create", "dispatch") /\ ~overtaken
             /\ robots[Robot1].connectionState = "ONLINE"
             => freshConnection(robots[Robot1], calls["create"].about.now) = "ONLINE"

\* What will bring the answer to command c, as far as the platform is concerned.
HelloWaits == \E i \in DOMAIN inbox : inbox[i].type = "edge.hello"
AckWaits(c) == \E i \in DOMAIN inbox : /\ inbox[i].type = "edge.command_ack"
                                       /\ inbox[i].payload.commandId = c
GoesDown(c) == \E i \in DOMAIN down : down[i].commandId = c
IsSent(c) == \/ IsAt("create", "send") /\ calls["create"].about = c
             \/ IsAt("chain", "readPending")
             \/ /\ IsAt("chain", "sendPending")
                /\ \E i \in DOMAIN calls["chain"].about : calls["chain"].about[i] = c
Answering(c) == ~connected \/ IsSent(c) \/ HelloWaits \/ GoesDown(c) \/ AckWaits(c)
AnswerInv ==
    \A m \in MissionIds : missions[m].lifecycleState = "DISPATCHED" =>
        /\ missions[m].lastAcknowledgedCommandSequence = 0
        /\ \/ Answering(missions[m].currentCommandId)
           \/ missions[m].currentCommandId \in missed

(***************************************************************************)
(* Lists, queues and calls.                                                *)
(***************************************************************************)

LEMMA StepLists ==
    /\ Head(DispatchLeft) = "dispatch" /\ Tail(DispatchLeft) = <<>>
    /\ Head(EvaluateLeft) = "evaluate" /\ Tail(EvaluateLeft) = <<>>
    /\ Head(SendLeft) = "send" /\ Tail(SendLeft) = <<>>
    /\ Head(ReadPendingLeft) = "readPending" /\ Tail(ReadPendingLeft) = <<>>
    /\ Head(SendPendingLeft) = "sendPending" /\ Tail(SendPendingLeft) = <<>>
    /\ Head(HandshakeLeft) = "handshake" /\ Tail(HandshakeLeft) = <<>>
    /\ Head(ReconnectLeft) = "beginReconnect" /\ Tail(ReconnectLeft) = HandshakeLeft
BY DEF DispatchLeft, EvaluateLeft, SendLeft, ReadPendingLeft, SendPendingLeft, HandshakeLeft,
   ReconnectLeft

LEMMA ListsAreSteps ==
    /\ DispatchLeft \in Seq(Steps) /\ SendLeft \in Seq(Steps) /\ ReadPendingLeft \in Seq(Steps)
    /\ SendPendingLeft \in Seq(Steps) /\ HandshakeLeft \in Seq(Steps)
    /\ ReconnectLeft \in Seq(Steps) /\ EvaluateLeft \in Seq(Steps) /\ <<>> \in Seq(Steps)
BY DEF DispatchLeft, EvaluateLeft, SendLeft, ReadPendingLeft, SendPendingLeft, HandshakeLeft,
   ReconnectLeft, Steps

LEMMA SomethingLeft ==
    /\ DispatchLeft # <<>> /\ SendLeft # <<>> /\ ReadPendingLeft # <<>>
    /\ SendPendingLeft # <<>> /\ HandshakeLeft # <<>> /\ ReconnectLeft # <<>>
    /\ EvaluateLeft # <<>>
BY DEF DispatchLeft, EvaluateLeft, SendLeft, ReadPendingLeft, SendPendingLeft, HandshakeLeft,
   ReconnectLeft

LEMMA TheSlots == /\ Slots = {"create", "cancel", "demo", "chain"}
                  /\ "create" \in Slots /\ "cancel" \in Slots
                  /\ "demo" \in Slots /\ "chain" \in Slots
BY DEF Slots

\* What Continue does, slot by slot.
LEMMA Continued ==
    ASSUME CallsTable, NEW slot \in Slots, NEW todo, NEW about, Continue(slot, todo, about)
    PROVE  /\ CallsTable'
           /\ calls'[slot] = IF todo = <<>> THEN Idle ELSE Call(todo, about)
           /\ \A other \in Slots : other # slot => calls'[other] = calls[other]
BY DEF CallsTable, Continue

LEMMA StepDoneFrom ==
    ASSUME CallsTable, NEW slot \in Slots, NEW todo, NEW about,
           calls[slot] = Call(todo, about), StepDone(slot)
    PROVE  /\ CallsTable'
           /\ calls'[slot] = IF Tail(todo) = <<>> THEN Idle ELSE Call(Tail(todo), about)
           /\ \A other \in Slots : other # slot => calls'[other] = calls[other]
<1>1. calls[slot].todo = todo /\ calls[slot].about = about
  BY DEF Call
<1>2. Continue(slot, Tail(todo), about)
  BY <1>1 DEF StepDone, Rest
<1> QED
  BY <1>2, Continued

LEMMA StepAt ==
    ASSUME NEW slot \in Slots, NEW step, NEW todo, NEW about, calls[slot] = Call(todo, about)
    PROVE  /\ calls[slot].about = about
           /\ IsAt(slot, step) <=> todo # <<>> /\ Head(todo) = step
BY DEF IsAt, Call

LEMMA NothingAtIdle ==
    ASSUME NEW slot \in Slots, calls[slot] = Idle
    PROVE  \A step : ~IsAt(slot, step)
BY DEF IsAt, Idle, Call

\* The step a slot is at tells the call that is under way.
LEMMA CreateAt ==
    ASSUME CallsInv
    PROVE  /\ IsAt("create", "dispatch") =>
                  \E in \in DispatchInputs, time \in Nat :
                      calls["create"] = Call(DispatchLeft, Asked(in, time))
           /\ IsAt("create", "send") => SendsCommand(calls["create"])
<1>1. CASE calls["create"] = Idle
  BY <1>1, NothingAtIdle, TheSlots
<1>2. ASSUME NEW c \in Issued, calls["create"] = Call(SendLeft, c)
      PROVE  \A step : IsAt("create", step) <=> step = "send"
  BY <1>2, StepAt, TheSlots, StepLists, SomethingLeft
<1>3. ASSUME NEW in \in DispatchInputs, NEW time \in Nat,
             calls["create"] = Call(DispatchLeft, Asked(in, time))
      PROVE  \A step : IsAt("create", step) <=> step = "dispatch"
  BY <1>3, StepAt, TheSlots, StepLists, SomethingLeft
<1> QED
  BY <1>1, <1>2, <1>3 DEF CallsInv, CreateCall, SendsCommand

\* What the request is and when it came in.
LEMMA AskedAt ==
    ASSUME NEW in, NEW time, calls["create"] = Call(DispatchLeft, Asked(in, time))
    PROVE  /\ calls["create"].about.request = in /\ calls["create"].about.now = time
           /\ IsAt("create", "dispatch")
<1>1. calls["create"].about = Asked(in, time)
  BY StepAt, TheSlots
<1>2. IsAt("create", "dispatch")
  BY StepAt, TheSlots, StepLists, SomethingLeft
<1> QED
  BY <1>1, <1>2 DEF Asked

LEMMA DemoAt ==
    ASSUME CallsInv
    PROVE  /\ ~IsAt("demo", "send")
           /\ IsAt("demo", "evaluate") => Evaluates(calls["demo"])
           /\ IsAt("demo", "beginReconnect") =>
                  \E handshake \in DemoHandshakes : calls["demo"] = Call(ReconnectLeft, handshake)
           /\ IsAt("demo", "handshake") =>
                  \E handshake \in DemoHandshakes : calls["demo"] = Call(HandshakeLeft, handshake)
<1>1. CASE calls["demo"] = Idle
  BY <1>1, NothingAtIdle, TheSlots
<1>2. ASSUME NEW time \in Nat, calls["demo"] = Call(EvaluateLeft, AsOf(time))
      PROVE  \A step : IsAt("demo", step) <=> step = "evaluate"
  BY <1>2, StepAt, TheSlots, StepLists, SomethingLeft
<1>3. ASSUME NEW handshake \in DemoHandshakes, calls["demo"] = Call(ReconnectLeft, handshake)
      PROVE  \A step : IsAt("demo", step) <=> step = "beginReconnect"
  BY <1>3, StepAt, TheSlots, StepLists, SomethingLeft
<1>4. ASSUME NEW handshake \in DemoHandshakes, calls["demo"] = Call(HandshakeLeft, handshake)
      PROVE  \A step : IsAt("demo", step) <=> step = "handshake"
  BY <1>4, StepAt, TheSlots, StepLists, SomethingLeft
<1> QED
  BY <1>1, <1>2, <1>3, <1>4 DEF CallsInv, DemoCall, Evaluates, Reconnects

LEMMA ChainAt ==
    ASSUME CallsInv
    PROVE  LET handshakes == SeenUpTo(Handshake, edge.lastSeenCommandSequence) IN
           /\ ~IsAt("chain", "send") /\ ~IsAt("chain", "evaluate")
           /\ IsAt("chain", "readPending") => calls["chain"] = Call(ReadPendingLeft, None)
           /\ IsAt("chain", "sendPending") =>
                  \E order \in Seq(Issued) : calls["chain"] = Call(SendPendingLeft, order)
           /\ IsAt("chain", "beginReconnect") =>
                  \E handshake \in handshakes : calls["chain"] = Call(ReconnectLeft, handshake)
           /\ IsAt("chain", "handshake") =>
                  \E handshake \in handshakes : calls["chain"] = Call(HandshakeLeft, handshake)
<1> DEFINE handshakes == SeenUpTo(Handshake, edge.lastSeenCommandSequence)
<1>1. CASE calls["chain"] = Idle
  BY <1>1, NothingAtIdle, TheSlots
<1>2. CASE calls["chain"] = Call(ReadPendingLeft, None)
  BY <1>2, StepAt, TheSlots, StepLists, SomethingLeft
<1>3. ASSUME NEW order \in Seq(Issued), calls["chain"] = Call(SendPendingLeft, order)
      PROVE  \A step : IsAt("chain", step) <=> step = "sendPending"
  BY <1>3, StepAt, TheSlots, StepLists, SomethingLeft
<1>4. ASSUME NEW handshake \in handshakes, calls["chain"] = Call(ReconnectLeft, handshake)
      PROVE  \A step : IsAt("chain", step) <=> step = "beginReconnect"
  BY <1>4, StepAt, TheSlots, StepLists, SomethingLeft
<1>5. ASSUME NEW handshake \in handshakes, calls["chain"] = Call(HandshakeLeft, handshake)
      PROVE  \A step : IsAt("chain", step) <=> step = "handshake"
  BY <1>5, StepAt, TheSlots, StepLists, SomethingLeft
<1> QED
  BY <1>1, <1>2, <1>3, <1>4, <1>5 DEF CallsInv, ChainCall, Reconnects

LEMMA CancelAt ==
    ASSUME CallsInv
    PROVE  IsAt("cancel", "send") => SendsCommand(calls["cancel"])
BY NothingAtIdle, TheSlots DEF CallsInv, CancelCall

\* A frame is what its type says.
LEMMA FramePayloads ==
    ASSUME NEW n, NEW frame \in Frames(n)
    PROVE  /\ frame.type = "edge.hello" => frame.payload \in SeenUpTo(Hello, n)
           /\ frame.type = "edge.command_ack" => frame.payload \in SeenUpTo(EdgeAck, n)
           /\ frame.type = "edge.telemetry" => frame.payload \in SeenUpTo(Telemetry, n)
           /\ frame.type = "edge.reconnect_handshake" => frame.payload \in SeenUpTo(Handshake, n)
BY DEF Frames

LEMMA FramesGrow ==
    ASSUME NEW n \in Nat, NEW k \in Nat, n <= k
    PROVE  /\ Frames(n) \subseteq Frames(k)
           /\ SeenUpTo(Handshake, n) \subseteq SeenUpTo(Handshake, k)
<1>1. SeenUpTo(Hello, n) \subseteq SeenUpTo(Hello, k)
  BY DEF SeenUpTo, Hello
<1>2. SeenUpTo(EdgeAck, n) \subseteq SeenUpTo(EdgeAck, k)
  BY DEF SeenUpTo, EdgeAck
<1>3. SeenUpTo(Telemetry, n) \subseteq SeenUpTo(Telemetry, k)
  BY DEF SeenUpTo, Telemetry
<1>4. SeenUpTo(Handshake, n) \subseteq SeenUpTo(Handshake, k)
  BY DEF SeenUpTo, Handshake
<1> QED
  BY <1>1, <1>2, <1>3, <1>4 DEF Frames

LEMMA SeqGrows ==
    ASSUME NEW S, NEW T, S \subseteq T, NEW seq \in Seq(S)
    PROVE  seq \in Seq(T)
OBVIOUS

\* What is appended comes last.
LEMMA Appended ==
    ASSUME NEW S, NEW seq \in Seq(S), NEW x \in S
    PROVE  Len(seq) + 1 \in DOMAIN (seq \o <<x>>) /\ (seq \o <<x>>)[Len(seq) + 1] = x
<1>1. Append(seq, x) = seq \o <<x>>
  OBVIOUS
<1>2. Len(seq) + 1 \in DOMAIN Append(seq, x) /\ Append(seq, x)[Len(seq) + 1] = x
  OBVIOUS
<1> QED
  BY <1>1, <1>2

\* The frame at the head, and what it leaves.
LEMMA TakesFrame ==
    ASSUME PlatformInv, NEW type, NextFrame(type)
    PROVE  LET n == edge.lastSeenCommandSequence IN
           /\ calls["chain"] = Idle
           /\ Head(inbox) \in Frames(n) /\ Head(inbox).type = type
           /\ Tail(inbox) \in Seq(Frames(n))
           /\ type = "edge.hello" => Frame \in SeenUpTo(Hello, n)
           /\ type = "edge.command_ack" => Frame \in SeenUpTo(EdgeAck, n)
           /\ type = "edge.telemetry" => Frame \in SeenUpTo(Telemetry, n)
           /\ type = "edge.reconnect_handshake" => Frame \in SeenUpTo(Handshake, n)
<1>1. inbox \in Seq(Frames(edge.lastSeenCommandSequence)) /\ inbox # <<>>
  BY DEF PlatformInv, LinkInv, NextFrame
<1>2. /\ Head(inbox) \in Frames(edge.lastSeenCommandSequence)
      /\ Tail(inbox) \in Seq(Frames(edge.lastSeenCommandSequence))
  BY <1>1
<1> QED
  BY <1>2, FramePayloads DEF NextFrame, Frame

(***************************************************************************)
(* What a step does to the domain's state.                                 *)
(***************************************************************************)

DemoWrite(robot) ==
    /\ robot \in Robot
    /\ robot.connectionState \in {"ONLINE", robots[Robot1].connectionState}
    /\ robot.lastSeenCommandSequence = robots[Robot1].lastSeenCommandSequence
    /\ robots' = [robots EXCEPT ![Robot1] = robot]
    /\ UNCHANGED <<missions, issueVars, inboxVars, now>>

\* Every step is a reducer's on an input of a message that was on its way, a write of a demo
\* control, or none.
PlatformReduces ==
    LET n == edge.lastSeenCommandSequence IN
    \/ UNCHANGED vars
    \/ \E in \in DispatchInputs, time \in Nat : Dispatch /\ dispatchMissionCommand(in, time)
    \/ \E in \in CancelInputs, time \in Nat : requestMissionCancellation(in, time)
    \/ \E time \in Nat : evaluateTelemetryFreshness(Robot1, time)
    \/ beginReconnect(Robot1) \/ Tick
    \/ \E hello \in SeenUpTo(Hello, n) : handleEdgeConnected(hello)
    \/ \E ack \in SeenUpTo(EdgeAck, n) : applyCommandAck(ack)
    \/ \E telemetry \in SeenUpTo(Telemetry, n) : ingestRobotTelemetry(telemetry)
    \/ \E handshake \in SeenUpTo(Handshake, n) \union DemoHandshakes :
           processReconnectHandshake(handshake)
    \/ \E robot : DemoWrite(robot)

LEMMA RobotOne == Robot1 \in RobotIds /\ RobotIds = {Robot1}
BY PlatformAssumption

\* A request came in at a time of the clock, not before the start.
LEMMA AskedInTime ==
    ASSUME PlatformInv, NEW time \in RequestTimes
    PROVE  time \in Nat \ {0} /\ StartTime <= time
BY ConfigAssumption DEF PlatformInv, IInv, TypeOK, Times, RequestTimes, StartTime

\* Looking at freshness evaluates it or changes nothing.
LEMMA Looks ==
    ASSUME NEW time \in Nat, LookAtFreshness(time)
    PROVE  UNCHANGED vars \/ evaluateTelemetryFreshness(Robot1, time)
BY DEF LookAtFreshness, domainVars, vars

LEMMA SweepLooks ==
    ASSUME PlatformInv, Sweep
    PROVE  \E time \in Nat : EvaluateAt(time)
<1>1. sweptAt \in Nat /\ now \in Nat
  BY DEF PlatformInv, FlagsInv, IInv, TypeOK, Times
<1> QED
  BY <1>1 DEF Sweep

LEMMA DemoLooks ==
    ASSUME PlatformInv, EvaluateDemoRobot
    PROVE  \E time \in Nat : calls["demo"] = Call(EvaluateLeft, AsOf(time)) /\ EvaluateAt(time)
<1>1. PICK time \in Nat : calls["demo"] = Call(EvaluateLeft, AsOf(time))
  BY DemoAt DEF EvaluateDemoRobot, Evaluates, PlatformInv
<1>2. calls["demo"].about = AsOf(time)
  BY <1>1, StepAt, TheSlots
<1>3. calls["demo"].about.now = time
  BY <1>2 DEF AsOf
<1> QED
  BY <1>1, <1>3 DEF EvaluateDemoRobot

LEMMA DemoWrites ==
    ASSUME PlatformInv, disconnectDemoRobot \/ lowBatteryDemo
    PROVE  \E robot : DemoWrite(robot)
<1>1. robots[Robot1] \in Robot
  BY RobotOne DEF PlatformInv, IInv, TypeOK
<1>2. CASE disconnectDemoRobot
  <2>0. PICK asked \in RequestTimes :
            demoWrite([robots[Robot1] EXCEPT !.connectionState = "ONLINE",
                           !.lastTelemetryObservedAt = asked - TelemetryDegradedAfter,
                           !.lastTelemetryReceivedAt = asked - TelemetryDegradedAfter])
    BY <1>2 DEF disconnectDemoRobot
  <2> DEFINE time == asked - TelemetryDegradedAfter
             robot == [robots[Robot1] EXCEPT !.connectionState = "ONLINE",
                                             !.lastTelemetryObservedAt = time,
                                             !.lastTelemetryReceivedAt = time]
  <2>1. demoWrite(robot)
    BY <2>0
  <2>2. time \in Nat
    BY AskedInTime, ConfigAssumption DEF StartTime
  <2> HIDE DEF time
  <2>3. robot \in Robot /\ robot.connectionState = "ONLINE"
        /\ robot.lastSeenCommandSequence = robots[Robot1].lastSeenCommandSequence
    BY <1>1, <2>2 DEF Robot, ConnectionStates
  <2> HIDE DEF robot
  <2>4. DemoWrite(robot)
    BY <2>1, <2>3 DEF DemoWrite, demoWrite, Demo
  <2> QED
    BY <2>4
<1>3. CASE lowBatteryDemo
  <2> DEFINE robot == [robots[Robot1] EXCEPT !.battery = "LOW"]
  <2>1. demoWrite(robot)
    BY <1>3 DEF lowBatteryDemo
  <2>2. robot \in Robot /\ robot.connectionState = robots[Robot1].connectionState
        /\ robot.lastSeenCommandSequence = robots[Robot1].lastSeenCommandSequence
    BY <1>1 DEF Robot, BatteryLevels
  <2> HIDE DEF robot
  <2>3. DemoWrite(robot)
    BY <2>1, <2>2 DEF DemoWrite, demoWrite, Demo
  <2> QED
    BY <2>3
<1> QED
  BY <1>2, <1>3

LEMMA PlatformSteps ==
    ASSUME PlatformInv, [PlatformNext]_platformVars
    PROVE  PlatformReduces
<1> USE DEF PlatformReduces
<1> DEFINE n == edge.lastSeenCommandSequence
<1>1. CASE UNCHANGED domainVars
  BY <1>1 DEF domainVars, vars
<1>2. CASE UNCHANGED platformVars
  BY <1>1, <1>2 DEF platformVars
<1>3. ASSUME NEW in \in DispatchInputs, createMission(in) PROVE PlatformReduces
  <2>1. PICK time \in RequestTimes : LookAtFreshness(time)
    BY <1>3 DEF createMission
  <2> QED
    BY <2>1, AskedInTime, Looks
<1>4. ASSUME NEW in \in CancelInputs, cancelMission(in) PROVE PlatformReduces
  BY <1>4, AskedInTime DEF cancelMission
<1>5. CASE Dispatch
  <2>1. PICK in \in DispatchInputs, time \in Nat :
                 calls["create"] = Call(DispatchLeft, Asked(in, time))
    BY <1>5, CreateAt DEF Dispatch, PlatformInv
  <2>2. DispatchOrReplay(in, time)
    BY <1>5, <2>1, AskedAt DEF Dispatch
  <2> QED
    BY <1>1, <1>5, <2>2 DEF DispatchOrReplay
<1>6. ASSUME NEW slot \in Slots, Send(slot) \/ BeginReconnect(slot) PROVE PlatformReduces
  BY <1>1, <1>6 DEF Send, BeginReconnect, Apply
<1>7. CASE HandleHandshake("demo")
  <2>1. PICK handshake \in DemoHandshakes : calls["demo"] = Call(HandshakeLeft, handshake)
    BY <1>7, DemoAt DEF HandleHandshake, Apply, PlatformInv
  <2>2. calls["demo"].about = handshake
    BY <2>1, StepAt, TheSlots
  <2> QED
    BY <1>7, <2>2 DEF HandleHandshake, Apply
<1>8. CASE HandleHandshake("chain")
  <2>1. PICK handshake \in SeenUpTo(Handshake, n) : calls["chain"] = Call(HandshakeLeft, handshake)
    BY <1>8, ChainAt DEF HandleHandshake, Apply, PlatformInv
  <2>2. calls["chain"].about = handshake
    BY <2>1, StepAt, TheSlots
  <2> QED
    BY <1>8, <2>2 DEF HandleHandshake, Apply
<1>9. CASE HandleHello
  BY <1>9, TakesFrame DEF HandleHello, Handle, TakeUp
<1>10. CASE HandleAck
  BY <1>10, TakesFrame DEF HandleAck, Handle, TakeUp
<1>11. CASE HandleTelemetry
  BY <1>11, TakesFrame DEF HandleTelemetry, Handle, TakeUp
<1>12. CASE HandleDisconnect \/ ReadRobot
  BY <1>1, <1>12 DEF HandleDisconnect, ReadRobot, TakeUp
<1>13. CASE ReadPending \/ SendPending
  BY <1>1, <1>13 DEF ReadPending, SendPending
<1>14. CASE Sweep \/ EvaluateDemoRobot
  <2>1. PICK time \in Nat : EvaluateAt(time)
    BY <1>14, SweepLooks, DemoLooks
  <2> QED
    BY <2>1, Looks DEF EvaluateAt
<1>15. CASE EdgeConnects \/ EdgeReceives \/ EdgeTelemetry \/ Drop \/ Crash \/ LoseFrame
  BY <1>1, <1>15 DEF EdgeConnects, EdgeReceives, EdgeTelemetry, Drop, Crash, LoseFrame
<1>16. ASSUME NEW slot \in Slots, Throws(slot) PROVE PlatformReduces
  BY <1>1, <1>16 DEF Throws
<1>17. CASE DemoControl
  BY <1>1, <1>17, DemoWrites DEF DemoControl, reconnectDemoRobot
<1>18. CASE TimePasses
  BY <1>18 DEF TimePasses
<1> QED
  BY <1>2, <1>3, <1>4, <1>5, <1>6, <1>7, <1>8, <1>9, <1>10, <1>11, <1>12, <1>13, <1>14, <1>15,
     <1>16, <1>17, <1>18, TheSlots
  DEF PlatformNext, RunRequests, RunDemo, RunChain

LEMMA DemoWriteKeepsIInv ==
    ASSUME IInv, NEW robot, DemoWrite(robot)
    PROVE  IInv'
<1>1. UNCHANGED issueVars /\ \A m \in MissionIds : QuietMissionStep(m)
  BY DEF DemoWrite, QuietMissionStep
<1>2. robots' \in [RobotIds -> Robot]
  BY DEF DemoWrite, IInv, TypeOK
<1>3. \A r \in RobotIds : RobotExists(r)' \/ robots'[r].lastSeenCommandSequence = 0
  BY RobotOne DEF DemoWrite, IInv, TypeOK, LinksAreSet, RobotExists
<1>4. TypeInv'
  BY <1>1, <1>2, <1>3, SnapshotsTypeOK
  DEF DemoWrite, IInv, TypeInv, TypeOK, LinksAreSet, inboxVars, MissionExists
<1> QED
  BY <1>1, <1>4, QuietStepKeepsIInv

\* A platform step is a domain step or a demo write.
LEMMA ReducesOrWrites ==
    ASSUME PlatformInv, PlatformReduces
    PROVE  [ReducerStep]_vars \/ \E robot : DemoWrite(robot)
<1>1. ASSUME NEW ack \in SeenUpTo(EdgeAck, edge.lastSeenCommandSequence), applyCommandAck(ack)
      PROVE  ReducerStep
  <2>1. AckFields(ack)
    BY PlatformAssumption DEF SeenUpTo, EdgeAck, AckFields
  <2> QED
    BY <1>1, <2>1 DEF ReducerStep
<1>2. ASSUME NEW telemetry \in SeenUpTo(Telemetry, edge.lastSeenCommandSequence),
             ingestRobotTelemetry(telemetry)
      PROVE  ReducerStep
  BY <1>2 DEF SeenUpTo, ReducerStep
<1>3. ASSUME NEW handshake \in SeenUpTo(Handshake, edge.lastSeenCommandSequence)
                              \union DemoHandshakes,
             processReconnectHandshake(handshake)
      PROVE  ReducerStep
  BY <1>3 DEF SeenUpTo, DemoHandshakes, ReducerStep
<1>4. ASSUME NEW hello \in SeenUpTo(Hello, edge.lastSeenCommandSequence),
             handleEdgeConnected(hello)
      PROVE  ReducerStep
  BY <1>4 DEF SeenUpTo, ReducerStep
<1>5. CASE beginReconnect(Robot1) \/ Tick
  BY <1>5, RobotOne DEF ReducerStep
<1>6. ASSUME NEW time \in Nat, evaluateTelemetryFreshness(Robot1, time) PROVE ReducerStep
  BY <1>6, RobotOne DEF ReducerStep
<1>7. CASE \/ \E in \in DispatchInputs, time \in Nat : dispatchMissionCommand(in, time)
           \/ \E in \in CancelInputs, time \in Nat : requestMissionCancellation(in, time)
  BY <1>7 DEF ReducerStep
<1> QED
  BY <1>1, <1>2, <1>3, <1>4, <1>5, <1>7, <1>6 DEF PlatformReduces

\* What the rest of the platform needs to know of a step of the domain.
DomainKept ==
    /\ IInv'
    /\ \A c \in Issued : c \in Issued' /\ commands'[c] = commands[c]
    /\ nextSequenceByRobot'[Robot1] >= nextSequenceByRobot[Robot1]

LEMMA PlatformKeepsDomain ==
    ASSUME PlatformInv, [PlatformNext]_platformVars
    PROVE  DomainKept
<1>1. IInv
  BY DEF PlatformInv
<1>2. CASE [ReducerStep]_vars
  <2>1. IInv'
    BY <1>1, <1>2, NextIInv
  <2>2. \A c \in CommandIds : CommandExists(c) => commands'[c] = commands[c]
    BY <1>1, <1>2, IssuedStays
  <2>3. nextSequenceByRobot'[Robot1] >= nextSequenceByRobot[Robot1]
    BY <1>1, <1>2, CounterGrows, RobotOne
  <2> QED
    BY <2>1, <2>2, <2>3 DEF DomainKept, Issued, CommandExists
<1>3. ASSUME NEW robot, DemoWrite(robot) PROVE DomainKept
  <2>1. IInv'
    BY <1>1, <1>3, DemoWriteKeepsIInv
  <2>2. nextSequenceByRobot[Robot1] \in Nat
    BY <1>1, RobotOne DEF IInv, TypeOK
  <2> QED
    BY <1>3, <2>1, <2>2 DEF DomainKept, DemoWrite, Issued, CommandExists, issueVars
<1> QED
  BY <1>2, <1>3, PlatformSteps, ReducesOrWrites

LEMMA TimeGoesOn ==
    ASSUME PlatformInv, [PlatformNext]_platformVars
    PROVE  StartTime <= now'
<1>1. now \in Nat /\ StartTime \in Nat /\ StartTime <= now
  BY ConfigAssumption DEF PlatformInv, IInv, TypeOK, Times, StartTime
<1>2. now' = now \/ now' = now + 1
  BY PlatformSteps DEF PlatformReduces, vars, dispatchMissionCommand, rejectDispatch,
     acceptDispatch, requestMissionCancellation, evaluateTelemetryFreshness, beginReconnect, Tick,
     handleEdgeConnected, applyCommandAck, ingestRobotTelemetry, processReconnectHandshake,
     DemoWrite
<1> QED
  BY <1>1, <1>2

LEMMA CountsKept ==
    ASSUME PlatformInv, [PlatformNext]_platformVars
    PROVE  Counted'
<1>1. ASSUME NEW S, NEW T, NEW x, IsFiniteSet(S), T \subseteq S \union {x}
      PROVE  IsFiniteSet(T)
  <2>1. IsFiniteSet(S \union {x})
    BY <1>1, FS_AddElement
  <2> QED
    BY <1>1, <2>1, FS_Subset
<1>2. \E x : processedAckIds' \subseteq processedAckIds \union {x}
  BY PlatformSteps DEF PlatformReduces, vars, dispatchMissionCommand, rejectDispatch,
     acceptDispatch, requestMissionCancellation, evaluateTelemetryFreshness, beginReconnect, Tick,
     handleEdgeConnected, applyCommandAck, ingestRobotTelemetry, processReconnectHandshake,
     DemoWrite, Remembered, inboxVars
<1>3. \E x : processedEventIds' \subseteq processedEventIds \union {x}
  BY PlatformSteps DEF PlatformReduces, vars, dispatchMissionCommand, rejectDispatch,
     acceptDispatch, requestMissionCancellation, evaluateTelemetryFreshness, beginReconnect, Tick,
     handleEdgeConnected, applyCommandAck, ingestRobotTelemetry, processReconnectHandshake,
     DemoWrite, Remembered, inboxVars
<1>4. commands' = commands \/ \E c, command : commands' = [commands EXCEPT ![c] = command]
  <2>1. ASSUME NEW c, NEW command, NEW signature, Issue(c, command, signature)
        PROVE  commands' = [commands EXCEPT ![c] = command]
    BY <2>1 DEF Issue
  <2>2. ASSUME NEW in, NEW time, acceptDispatch(in, time) \/ requestMissionCancellation(in, time)
        PROVE  \E c, command : commands' = [commands EXCEPT ![c] = command]
    BY <2>1, <2>2 DEF acceptDispatch, requestMissionCancellation
  <2>3. \/ commands' = commands
        \/ \E in, time : acceptDispatch(in, time) \/ requestMissionCancellation(in, time)
    BY PlatformSteps DEF PlatformReduces, vars, dispatchMissionCommand, rejectDispatch,
       evaluateTelemetryFreshness, beginReconnect, Tick, handleEdgeConnected, applyCommandAck,
       ingestRobotTelemetry, processReconnectHandshake, DemoWrite, issueVars
  <2> QED
    BY <2>2, <2>3
<1>5. \E x : Issued' \subseteq Issued \union {x}
  BY <1>4 DEF Issued, CommandExists, PlatformInv, IInv, TypeOK
<1> QED
  BY <1>1, <1>2, <1>3, <1>5 DEF PlatformInv, Counted

(***************************************************************************)
(* What a step does to the calls.                                          *)
(***************************************************************************)

EdgeGrows == /\ edge.lastSeenCommandSequence \in Nat
             /\ edge'.lastSeenCommandSequence \in Nat
             /\ edge.lastSeenCommandSequence <= edge'.lastSeenCommandSequence

LEMMA CallsCarryOver ==
    ASSUME DomainKept, EdgeGrows, NEW call
    PROVE  /\ CreateCall(call) => CreateCall(call)'
           /\ CancelCall(call) => CancelCall(call)'
           /\ DemoCall(call) => DemoCall(call)'
           /\ ChainCall(call) => ChainCall(call)'
<1>1. Issued \subseteq Issued'
  BY DEF DomainKept
<1>2. SendsCommand(call) => SendsCommand(call)'
  BY <1>1 DEF SendsCommand
<1>3. Seq(Issued) \subseteq Seq(Issued')
  BY <1>1, SeqGrows
<1>4. SeenUpTo(Handshake, edge.lastSeenCommandSequence)
          \subseteq SeenUpTo(Handshake, edge'.lastSeenCommandSequence)
  BY FramesGrow DEF EdgeGrows
<1>5. CreateCall(call) => CreateCall(call)'
  BY <1>2 DEF CreateCall
<1>6. DemoCall(call) => DemoCall(call)'
  BY DEF DemoCall, Evaluates, Reconnects, DemoHandshakes
<1>7. CancelCall(call) => CancelCall(call)'
  BY <1>2 DEF CancelCall
<1>8. ChainCall(call) => ChainCall(call)'
  BY <1>3, <1>4 DEF ChainCall, Reconnects
<1> QED
  BY <1>5, <1>7, <1>8, <1>6

\* A slot keeps its call or goes on to another of its own.
LEMMA CallsKept ==
    ASSUME CallsInv, DomainKept, EdgeGrows, CallsTable',
           calls'["create"] = calls["create"]
               \/ \E call : calls'["create"] = call /\ CreateCall(call)',
           calls'["cancel"] = calls["cancel"]
               \/ \E call : calls'["cancel"] = call /\ CancelCall(call)',
           calls'["demo"] = calls["demo"]
               \/ \E call : calls'["demo"] = call /\ DemoCall(call)',
           calls'["chain"] = calls["chain"]
               \/ \E call : calls'["chain"] = call /\ ChainCall(call)'
    PROVE  CallsInv'
<1>1. PICK old : old = calls["create"]
  OBVIOUS
<1>2. \E call : calls'["create"] = call /\ CreateCall(call)'
  BY <1>1, CallsCarryOver DEF CallsInv
<1>3. PICK before : before = calls["cancel"]
  OBVIOUS
<1>4. \E call : calls'["cancel"] = call /\ CancelCall(call)'
  BY <1>3, CallsCarryOver DEF CallsInv
<1>5. PICK last : last = calls["chain"]
  OBVIOUS
<1>6. \E call : calls'["chain"] = call /\ ChainCall(call)'
  BY <1>5, CallsCarryOver DEF CallsInv
<1>11. PICK first : first = calls["demo"]
  OBVIOUS
<1>12. \E call : calls'["demo"] = call /\ DemoCall(call)'
  BY <1>11, CallsCarryOver DEF CallsInv
<1>7. PICK create, cancel, demo, chain :
          /\ calls'["create"] = create /\ CreateCall(create)'
          /\ calls'["cancel"] = cancel /\ CancelCall(cancel)'
          /\ calls'["demo"] = demo /\ DemoCall(demo)'
          /\ calls'["chain"] = chain /\ ChainCall(chain)'
  BY <1>2, <1>4, <1>6, <1>12
<1>8. CreateCall(calls["create"])'
  BY <1>7 DEF CreateCall, SendsCommand
<1>9. CancelCall(calls["cancel"])'
  BY <1>7 DEF CancelCall, SendsCommand
<1>10. ChainCall(calls["chain"])'
  BY <1>7 DEF ChainCall
<1>13. DemoCall(calls["demo"])'
  BY <1>7 DEF DemoCall, Evaluates, Reconnects
<1> QED
  BY <1>8, <1>9, <1>10, <1>13 DEF CallsInv

\* One slot goes on.
LEMMA SlotGoesOn ==
    ASSUME CallsInv, DomainKept, EdgeGrows, NEW slot \in Slots, NEW todo, NEW about,
           Continue(slot, todo, about),
           \/ todo = <<>>
           \/ slot = "create" /\ CreateCall(Call(todo, about))'
           \/ slot = "cancel" /\ CancelCall(Call(todo, about))'
           \/ slot = "demo" /\ DemoCall(Call(todo, about))'
           \/ slot = "chain" /\ ChainCall(Call(todo, about))'
    PROVE  CallsInv'
<1>1. /\ CallsTable'
      /\ calls'[slot] = IF todo = <<>> THEN Idle ELSE Call(todo, about)
      /\ \A other \in Slots : other # slot => calls'[other] = calls[other]
  BY Continued DEF CallsInv
<1>2. PICK next : next = calls'[slot]
  OBVIOUS
<1>3. CreateCall(Idle)' /\ CancelCall(Idle)' /\ DemoCall(Idle)' /\ ChainCall(Idle)'
  BY DEF CreateCall, CancelCall, DemoCall, ChainCall
<1>4. \/ slot = "create" /\ CreateCall(next)'
      \/ slot = "cancel" /\ CancelCall(next)'
      \/ slot = "demo" /\ DemoCall(next)'
      \/ slot = "chain" /\ ChainCall(next)'
  BY <1>1, <1>2, <1>3, TheSlots
<1> QED
  BY <1>1, <1>2, <1>4, TheSlots, CallsKept

LEMMA CreateMissionCalls ==
    ASSUME PlatformInv, DomainKept, EdgeGrows, NEW in \in DispatchInputs, createMission(in)
    PROVE  CallsInv'
<1>1. CASE UNCHANGED calls
  BY <1>1, CallsKept DEF PlatformInv, CallsInv, CallsTable
<1>2. ASSUME NEW time \in RequestTimes, Continue("create", DispatchLeft, Asked(in, time))
      PROVE  CallsInv'
  <2>1. CreateCall(Call(DispatchLeft, Asked(in, time)))'
    BY AskedInTime DEF CreateCall
  <2> QED
    BY <1>2, <2>1, TheSlots, SlotGoesOn DEF PlatformInv
<1> QED
  BY <1>1, <1>2 DEF createMission, DispatchLeft, Asked

LEMMA CancelMissionCalls ==
    ASSUME PlatformInv, DomainKept, EdgeGrows, NEW in \in CancelInputs, cancelMission(in)
    PROVE  CallsInv'
<1>1. in.commandId \in CommandIds /\ in.commandId # None
  BY InputAssumption, NoneAssumption DEF CancelInput
<1>2. PICK command, signature : /\ Issue(in.commandId, command, signature)
                                /\ command.type = "CANCEL_MISSION"
  BY DEF cancelMission, requestMissionCancellation
<1>3. commands'[in.commandId] = command
  BY <1>1, <1>2 DEF Issue, PlatformInv, IInv, TypeOK
<1>4. in.commandId \in Issued'
  BY <1>1, <1>2, <1>3 DEF Issued, CommandExists
<1>5. CancelCall(Call(SendLeft, in.commandId))'
  BY <1>4 DEF CancelCall, SendsCommand
<1>6. Continue("cancel", SendLeft, in.commandId)
  BY DEF cancelMission, SendLeft
<1> QED
  BY <1>5, <1>6, TheSlots, SlotGoesOn DEF PlatformInv

\* A dispatch that changes the commands was accepted.
LEMMA DispatchAccepts ==
    ASSUME PlatformInv, Dispatch, commands' # commands
    PROVE  \E in \in DispatchInputs, time \in Nat :
               /\ calls["create"] = Call(DispatchLeft, Asked(in, time))
               /\ Accepts(in, time)
               /\ in.commandId \in Issued'
               /\ Continue("create", SendLeft, in.commandId)
<1>1. PICK in \in DispatchInputs, time \in Nat :
          calls["create"] = Call(DispatchLeft, Asked(in, time))
  BY CreateAt DEF Dispatch, PlatformInv
<1>2. calls.create.about.request = in /\ calls.create.about.now = time
  BY <1>1, AskedAt
<1>3. dispatchMissionCommand(in, time) /\ Continue("create", SendLeft, in.commandId)
  BY <1>2 DEF Dispatch, DispatchOrReplay, SendLeft, domainVars
<1>4. Accepts(in, time)
  BY <1>3 DEF dispatchMissionCommand, rejectDispatch, issueVars, Accepts
<1>5. in \in DispatchInput
  BY InputAssumption
<1>6. in.commandId \in CommandIds /\ in.commandId # None /\ in.type # "ABSENT"
  BY <1>5, NoneAssumption DEF DispatchInput, CommandTypes
<1>7. PICK command, signature : /\ Issue(in.commandId, command, signature)
                                /\ command.type = in.type
  BY <1>4 DEF Accepts, acceptDispatch
<1>8. commands'[in.commandId] = command
  BY <1>6, <1>7 DEF Issue, PlatformInv, IInv, TypeOK
<1> QED
  BY <1>1, <1>3, <1>4, <1>6, <1>7, <1>8 DEF Issued, CommandExists

LEMMA DispatchCalls ==
    ASSUME PlatformInv, DomainKept, EdgeGrows, Dispatch
    PROVE  CallsInv'
<1>1. CASE commands' # commands
  <2>1. PICK in \in DispatchInputs :
            in.commandId \in Issued' /\ Continue("create", SendLeft, in.commandId)
    BY <1>1, DispatchAccepts
  <2>2. CreateCall(Call(SendLeft, in.commandId))'
    BY <2>1 DEF CreateCall, SendsCommand
  <2> QED
    BY <2>1, <2>2, TheSlots, SlotGoesOn DEF PlatformInv
<1>2. CASE commands' = commands
  <2>1. Continue("create", <<>>, None)
    BY <1>2 DEF Dispatch
  <2> QED
    BY <2>1, TheSlots, SlotGoesOn DEF PlatformInv
<1> QED
  BY <1>1, <1>2

\* The last step of a call leaves its slot idle.
LEMMA LastStepCalls ==
    ASSUME PlatformInv, DomainKept, EdgeGrows, NEW slot \in Slots, NEW todo, NEW about,
           calls[slot] = Call(todo, about), Tail(todo) = <<>>, StepDone(slot)
    PROVE  CallsInv'
<1>1. calls[slot].todo = todo
  BY DEF Call
<1>2. Continue(slot, <<>>, calls[slot].about)
  BY <1>1 DEF StepDone, Rest
<1> QED
  BY <1>2, SlotGoesOn DEF PlatformInv

LEMMA SendCalls ==
    ASSUME PlatformInv, DomainKept, EdgeGrows, NEW slot \in {"create", "cancel"}, Send(slot)
    PROVE  CallsInv'
<1>1. SendsCommand(calls[slot])
  BY CreateAt, CancelAt DEF Send, PlatformInv
<1> QED
  BY <1>1, LastStepCalls, StepLists, TheSlots DEF Send, SendsCommand

LEMMA ReconnectCalls ==
    ASSUME PlatformInv, DomainKept, EdgeGrows, NEW slot \in {"demo", "chain"},
           BeginReconnect(slot) \/ HandleHandshake(slot)
    PROVE  CallsInv'
<1> DEFINE handshakes == IF slot = "demo" THEN DemoHandshakes
                         ELSE SeenUpTo(Handshake, edge.lastSeenCommandSequence)
<1>1. CASE BeginReconnect(slot)
  <2>1. PICK handshake \in handshakes : calls[slot] = Call(ReconnectLeft, handshake)
    BY <1>1, DemoAt, ChainAt DEF BeginReconnect, Apply, PlatformInv
  <2>2. calls[slot].todo = ReconnectLeft /\ calls[slot].about = handshake
    BY <2>1 DEF Call
  <2>3. Continue(slot, HandshakeLeft, handshake)
    BY <1>1, <2>2, StepLists DEF BeginReconnect, Apply, StepDone, Rest
  <2>4. CASE slot = "demo"
    <3>1. DemoCall(Call(HandshakeLeft, handshake))'
      BY <2>4 DEF DemoCall, Reconnects, DemoHandshakes
    <3> QED
      BY <2>3, <2>4, <3>1, TheSlots, SlotGoesOn DEF PlatformInv
  <2>5. CASE slot = "chain"
    <3>1. handshake \in SeenUpTo(Handshake, edge'.lastSeenCommandSequence)
      BY <2>5, FramesGrow DEF EdgeGrows
    <3>2. ChainCall(Call(HandshakeLeft, handshake))'
      BY <3>1 DEF ChainCall, Reconnects
    <3> QED
      BY <2>3, <2>5, <3>2, TheSlots, SlotGoesOn DEF PlatformInv
  <2> QED
    BY <2>4, <2>5
<1>2. CASE HandleHandshake(slot)
  <2>1. PICK handshake \in handshakes : calls[slot] = Call(HandshakeLeft, handshake)
    BY <1>2, DemoAt, ChainAt DEF HandleHandshake, Apply, PlatformInv
  <2> QED
    BY <1>2, <2>1, LastStepCalls, StepLists, TheSlots DEF HandleHandshake, Apply
<1> QED
  BY <1>1, <1>2

LEMMA TakeUpCalls ==
    ASSUME PlatformInv, DomainKept, EdgeGrows,
           \/ HandleHello \/ HandleAck \/ HandleTelemetry \/ HandleDisconnect \/ ReadRobot
    PROVE  CallsInv'
<1>1. CASE HandleHello
  <2>1. Continue("chain", ReadPendingLeft, None)
    BY <1>1 DEF HandleHello, Handle, TakeUp, ReadPendingLeft
  <2>2. ChainCall(Call(ReadPendingLeft, None))'
    BY DEF ChainCall
  <2> QED
    BY <2>1, <2>2, TheSlots, SlotGoesOn DEF PlatformInv
<1>2. CASE HandleAck \/ HandleTelemetry \/ HandleDisconnect
  <2>1. Continue("chain", <<>>, None)
    BY <1>2 DEF HandleAck, HandleTelemetry, HandleDisconnect, Handle, TakeUp
  <2> QED
    BY <2>1, TheSlots, SlotGoesOn DEF PlatformInv
<1>3. CASE ReadRobot
  <2>1. Frame \in SeenUpTo(Handshake, edge.lastSeenCommandSequence)
    BY <1>3, TakesFrame DEF ReadRobot, TakeUp
  <2>2. PICK handshake : handshake = Frame
    OBVIOUS
  <2>3. PICK todo \in {ReconnectLeft, HandshakeLeft} : Continue("chain", todo, handshake)
    BY <1>3, <2>2 DEF ReadRobot, TakeUp, ReconnectLeft, HandshakeLeft
  <2>4. handshake \in SeenUpTo(Handshake, edge'.lastSeenCommandSequence)
    BY <2>1, <2>2, FramesGrow DEF EdgeGrows
  <2>5. ChainCall(Call(todo, handshake))'
    BY <2>4 DEF ChainCall, Reconnects
  <2> QED
    BY <2>3, <2>5, TheSlots, SlotGoesOn DEF PlatformInv
<1> QED
  BY <1>1, <1>2, <1>3

LEMMA PendingIsIssued ==
    ASSUME PlatformInv
    PROVE  pendingCommands \subseteq Issued /\ Cardinality(pendingCommands) \in Nat
<1>1. pendingCommands \subseteq Issued
  BY DEF pendingCommands, Issued
<1> QED
  BY <1>1, FS_Subset, FS_CardinalityType DEF PlatformInv, Counted

LEMMA PendingCalls ==
    ASSUME PlatformInv, DomainKept, EdgeGrows, ReadPending \/ SendPending
    PROVE  CallsInv'
<1>1. CASE ReadPending /\ pendingCommands = {}
  <2>1. Continue("chain", <<>>, None)
    BY <1>1 DEF ReadPending
  <2> QED
    BY <2>1, TheSlots, SlotGoesOn DEF PlatformInv
<1>2. CASE ReadPending /\ pendingCommands # {}
  <2>1. PICK order \in [1..Cardinality(pendingCommands) -> pendingCommands] :
                 Continue("chain", SendPendingLeft, order)
    BY <1>2 DEF ReadPending, SendPendingLeft
  <2>2. pendingCommands \subseteq Issued' /\ Cardinality(pendingCommands) \in Nat
    BY PendingIsIssued DEF DomainKept
  <2>3. order \in Seq(Issued')
    BY <2>2
  <2>4. ChainCall(Call(SendPendingLeft, order))'
    BY <2>3 DEF ChainCall
  <2> QED
    BY <2>1, <2>4, TheSlots, SlotGoesOn DEF PlatformInv
<1>3. CASE SendPending
  <2>1. PICK order : calls["chain"] = Call(SendPendingLeft, order)
    BY <1>3, ChainAt DEF SendPending, PlatformInv
  <2> QED
    BY <1>3, <2>1, LastStepCalls, StepLists, TheSlots DEF SendPending
<1> QED
  BY <1>1, <1>2, <1>3

LEMMA DemoReconnectCalls ==
    ASSUME PlatformInv, DomainKept, EdgeGrows, reconnectDemoRobot
    PROVE  CallsInv'
<1> DEFINE m == robots[Robot1].activeMissionId
           c == missions[m].currentCommandId
           told(time) == [edgeSessionId |-> DemoSession, robotId |-> Robot1,
                          reportedMissionId |-> m,
                          reportedLifecycle |-> missions[m].lifecycleState,
                          lastAcknowledgedCommandId |-> c,
                          lastSeenCommandSequence |-> commands[c].sequence,
                          connectedAt |-> time, lastTelemetryObservedAt |-> time]
<1>0. PICK time \in RequestTimes : Continue("demo", ReconnectLeft, told(time))
  BY DEF reconnectDemoRobot, ReconnectLeft
<1>1. MissionExists(m) /\ CommandExists(c)
  BY DEF reconnectDemoRobot
<1>2. m \in MissionIds /\ missions[m] \in Mission /\ missions[m].lifecycleState # "ABSENT"
  BY <1>1, RobotOne DEF PlatformInv, IInv, TypeOK, Robot, MaybeMission, MissionExists
<1>3. missions[m].lifecycleState \in LifecycleStates \ {"ABSENT"}
  BY <1>2 DEF Mission
<1>4. c \in CommandIds /\ commands[c] \in Command
  BY <1>1, <1>2 DEF PlatformInv, IInv, TypeOK, Mission, MaybeCommand, CommandExists
<1>5. commands[c].sequence \in Nat
  BY <1>4 DEF Command
<1>6. time \in Nat \ {0} /\ DemoSession \in SessionIds /\ DemoSession > MaxFaults
  BY PlatformAssumption, AskedInTime DEF PlatformInv, LinkInv, DemoSession
<1>7. told(time) \in DemoHandshakes
  BY <1>2, <1>3, <1>4, <1>5, <1>6, RobotOne DEF DemoHandshakes, Handshake, MaybeMission, MaybeCommand
<1> HIDE DEF told
<1>8. PICK handshake : handshake = told(time)
  OBVIOUS
<1>9. DemoCall(Call(ReconnectLeft, handshake))'
  BY <1>7, <1>8 DEF DemoCall, Reconnects, DemoHandshakes
<1> QED
  BY <1>0, <1>8, <1>9, TheSlots, SlotGoesOn DEF PlatformInv

LEMMA DemoDisconnectCalls ==
    ASSUME PlatformInv, DomainKept, EdgeGrows, disconnectDemoRobot
    PROVE  CallsInv'
<1>1. PICK time \in RequestTimes : Continue("demo", EvaluateLeft, AsOf(time))
  BY DEF disconnectDemoRobot, EvaluateLeft, AsOf
<1>2. DemoCall(Call(EvaluateLeft, AsOf(time)))'
  BY AskedInTime DEF DemoCall, Evaluates
<1> QED
  BY <1>1, <1>2, TheSlots, SlotGoesOn DEF PlatformInv

LEMMA DemoEvaluateCalls ==
    ASSUME PlatformInv, DomainKept, EdgeGrows, EvaluateDemoRobot
    PROVE  CallsInv'
BY DemoLooks, LastStepCalls, StepLists, TheSlots DEF EvaluateDemoRobot

\* A call that throws leaves its slot idle.
LEMMA ThrowsCalls ==
    ASSUME PlatformInv, DomainKept, EdgeGrows, NEW slot \in Slots, Throws(slot)
    PROVE  CallsInv'
BY SlotGoesOn DEF Throws, PlatformInv

LEMMA CrashCalls ==
    ASSUME Crash
    PROVE  CallsInv'
BY TheSlots DEF Crash, CallsInv, CallsTable, CreateCall, CancelCall, DemoCall, ChainCall

LEMMA StepKeepsCalls ==
    ASSUME PlatformInv, [PlatformNext]_platformVars, DomainKept, EdgeGrows
    PROVE  CallsInv'
<1>1. CASE UNCHANGED calls
  BY <1>1, CallsKept DEF PlatformInv, CallsInv, CallsTable
<1>2. CASE UNCHANGED platformVars
  BY <1>1, <1>2 DEF platformVars
<1>3. CASE RunRequests
  BY <1>3, DispatchCalls, SendCalls DEF RunRequests
<1>4. CASE RunDemo
  BY <1>4, DemoEvaluateCalls, ReconnectCalls DEF RunDemo
<1>5. CASE RunChain
  BY <1>5, TakeUpCalls, ReconnectCalls, PendingCalls DEF RunChain
<1>6. CASE Sweep \/ EdgeConnects \/ EdgeReceives \/ EdgeTelemetry \/ Drop \/ LoseFrame \/ TimePasses
  BY <1>1, <1>6
  DEF Sweep, EdgeConnects, EdgeReceives, EdgeTelemetry, Drop, LoseFrame, TimePasses
<1>7. CASE DemoControl
  BY <1>1, <1>7, DemoReconnectCalls, DemoDisconnectCalls DEF DemoControl, lowBatteryDemo
<1> QED
  BY <1>2, <1>3, <1>5, <1>6, <1>7, <1>4, CreateMissionCalls, CancelMissionCalls, CrashCalls,
     ThrowsCalls
  DEF PlatformNext

(***************************************************************************)
(* What a step does to the edge and the queues.                            *)
(***************************************************************************)

LEMMA HelloFrame ==
    ASSUME NEW state \in EdgeState
    PROVE  /\ Edge!createHelloMessage(state) \in Frames(state.lastSeenCommandSequence)
           /\ Edge!createHelloMessage(state).type = "edge.hello"
<1>1. state.robotId = Robot1 /\ state.lastSeenCommandSequence \in Nat
  BY DEF EdgeState
<1> DEFINE payload == [robotId |-> state.robotId,
                       lastSeenCommandSequence |-> state.lastSeenCommandSequence]
<1>2. payload \in SeenUpTo(Hello, state.lastSeenCommandSequence)
  BY <1>1, RobotOne DEF SeenUpTo, Hello
<1>3. Edge!createHelloMessage(state) = [type |-> "edge.hello", payload |-> payload]
  BY DEF Edge!createHelloMessage
<1> HIDE DEF payload
<1> QED
  BY <1>2, <1>3 DEF Frames

LEMMA HandshakeStep ==
    ASSUME NEW state \in EdgeState, NEW session \in Nat, NEW time \in Nat \ {0}
    PROVE  LET step == Edge!createReconnectHandshakeMessage(state, session, time) IN
           /\ step.state \in EdgeState
           /\ step.state.lastSeenCommandSequence = state.lastSeenCommandSequence
           /\ step.outbound = <<>> \/ \E frame \in Frames(state.lastSeenCommandSequence) :
                                          step.outbound = <<frame>>
<1> DEFINE next == [state EXCEPT !.edgeSessionId = session, !.reconnectHandshakeSent = TRUE]
           payload == [edgeSessionId |-> session, robotId |-> state.robotId,
                       reportedMissionId |-> state.currentMissionId,
                       reportedLifecycle |-> state.reportedMissionLifecycleState,
                       lastAcknowledgedCommandId |-> state.lastAcknowledgedCommandId,
                       lastSeenCommandSequence |-> state.lastSeenCommandSequence,
                       connectedAt |-> time, lastTelemetryObservedAt |-> time]
           frame == [type |-> "edge.reconnect_handshake", payload |-> payload]
           step == Edge!createReconnectHandshakeMessage(state, session, time)
<1>1. next \in EdgeState /\ next.lastSeenCommandSequence = state.lastSeenCommandSequence
  BY DEF EdgeState
<1>2. payload \in Handshake
  BY PlatformAssumption, RobotOne DEF EdgeState, Handshake, LifecycleStates, SettledStates,
     ActiveStates
<1>3. payload.lastSeenCommandSequence <= state.lastSeenCommandSequence
  BY DEF EdgeState
<1>4. frame \in Frames(state.lastSeenCommandSequence)
  <2> HIDE DEF payload
  <2> QED
    BY <1>2, <1>3 DEF Frames, SeenUpTo
<1>5. step.state = next /\ step.outbound \in {<<>>, <<frame>>}
  BY DEF Edge!createReconnectHandshakeMessage, Edge!SimulatorStep
<1> HIDE DEF next, frame, step
<1> QED
  BY <1>1, <1>4, <1>5 DEF step

\* Opening a connection: the edge knows what it knew, and says hello.
LEMMA OpenStep ==
    ASSUME NEW state \in EdgeState, NEW session \in Nat, NEW time \in Nat \ {0}
    PROVE  LET step == Edge!openStep(state, session, time) IN
           /\ step.state \in EdgeState
           /\ step.state.lastSeenCommandSequence = state.lastSeenCommandSequence
           /\ step.outbound \in Seq(Frames(state.lastSeenCommandSequence))
           /\ \E i \in DOMAIN step.outbound : step.outbound[i].type = "edge.hello"
<1> DEFINE step == Edge!openStep(state, session, time)
           handshake == Edge!createReconnectHandshakeMessage(state, session, time)
           hello == Edge!createHelloMessage(state)
           frames == Frames(state.lastSeenCommandSequence)
<1>1. hello \in frames /\ hello.type = "edge.hello"
  BY HelloFrame
<1>2. /\ handshake.state \in EdgeState
      /\ handshake.state.lastSeenCommandSequence = state.lastSeenCommandSequence
      /\ handshake.outbound = <<>> \/ \E frame \in frames : handshake.outbound = <<frame>>
  BY HandshakeStep
<1>3. \/ step.state = state /\ step.outbound = <<hello>>
      \/ step.state = handshake.state /\ step.outbound = <<hello>> \o handshake.outbound
  BY DEF Edge!openStep, Edge!SimulatorStep
<1> HIDE DEF step, handshake, hello, frames
<1>4. /\ <<hello>> \in Seq(frames) /\ 1 \in DOMAIN <<hello>> /\ <<hello>>[1] = hello
  BY <1>1
<1>5. handshake.outbound \in Seq(frames)
  <2>1. CASE handshake.outbound = <<>>
    BY <2>1
  <2>2. ASSUME NEW frame \in frames, handshake.outbound = <<frame>>
        PROVE  handshake.outbound \in Seq(frames)
    BY <2>2
  <2> QED
    BY <1>2, <2>1, <2>2
<1> DEFINE one == <<hello>>
<1>6. one \in Seq(frames) /\ 1 \in DOMAIN one /\ one[1] = hello
  BY <1>4
<1> HIDE DEF one
<1>7. /\ one \o handshake.outbound \in Seq(frames)
      /\ 1 \in DOMAIN (one \o handshake.outbound)
      /\ (one \o handshake.outbound)[1] = hello
  BY <1>5, <1>6
<1>8. step.outbound \in Seq(frames) /\ 1 \in DOMAIN step.outbound /\ step.outbound[1] = hello
  BY <1>3, <1>6, <1>7 DEF one
<1>9. step.state \in EdgeState /\ step.state.lastSeenCommandSequence = state.lastSeenCommandSequence
  BY <1>2, <1>3
<1> QED
  BY <1>1, <1>8, <1>9 DEF step, frames

\* A command for the robot: it has been seen, and is answered with one acknowledgement.
LEMMA CommandStep ==
    ASSUME NEW state \in EdgeState, NEW command, NEW id \in Nat,
           command.commandId \in CommandIds, command.missionId \in MissionIds,
           command.robotId = Robot1, command.sequence \in Nat
    PROVE  LET step == Edge!handleCommand(state, command, id) IN
           /\ step.state \in EdgeState
           /\ step.state.lastSeenCommandSequence =
                  Larger(state.lastSeenCommandSequence, command.sequence)
           /\ \E frame \in Frames(step.state.lastSeenCommandSequence) :
                  /\ step.outbound = <<frame>>
                  /\ frame.type = "edge.command_ack"
                  /\ frame.payload.commandId = command.commandId
<1> DEFINE step == Edge!handleCommand(state, command, id)
           seen == Larger(state.lastSeenCommandSequence, command.sequence)
           noted == [state EXCEPT !.lastSeenCommandSequence = seen]
           payload(status) == [ackId |-> id, commandId |-> command.commandId,
                               robotId |-> command.robotId, status |-> status,
                               lastSeenCommandSequence |-> command.sequence]
           frame(status) == [type |-> "edge.command_ack", payload |-> payload(status)]
<1>1. state.lastSeenCommandSequence \in Nat /\ state.robotId = Robot1
  BY DEF EdgeState
<1>2. seen \in Nat /\ command.sequence <= seen
  BY <1>1 DEF Larger
<1>3. Edge!noteSeenCommand(state, command) = noted
  BY DEF Edge!noteSeenCommand, Edge!laterSequence, Larger
<1> HIDE DEF seen
<1>4. noted \in EdgeState /\ noted.lastSeenCommandSequence = seen
  BY <1>2 DEF EdgeState
<1>5. ASSUME NEW status \in {"ACCEPTED", "REJECTED"}
      PROVE  /\ frame(status) \in Frames(seen)
             /\ frame(status).type = "edge.command_ack"
             /\ frame(status).payload.commandId = command.commandId
             /\ Edge!createCommandAck(command, id, status) = frame(status)
  <2>1. payload(status) \in SeenUpTo(EdgeAck, seen)
    BY <1>2 DEF SeenUpTo, EdgeAck, CommandAckStatuses
  <2>2. payload(status).commandId = command.commandId
    OBVIOUS
  <2>3. Edge!createCommandAck(command, id, status) = frame(status)
    BY DEF Edge!createCommandAck
  <2> HIDE DEF payload
  <2> QED
    BY <2>1, <2>2, <2>3 DEF Frames
<1>6. Edge!applyAcceptedCommand(state, command) \in EdgeState
      /\ Edge!applyAcceptedCommand(state, command).lastSeenCommandSequence = seen
  <2> DEFINE told == [noted EXCEPT !.lastAcknowledgedCommandId = command.commandId]
  <2>1. told \in EdgeState /\ told.lastSeenCommandSequence = seen
    BY <1>4 DEF EdgeState, MaybeCommand
  <2>2. Edge!applyAcceptedCommand(state, command) =
            IF command.type = "CANCEL_MISSION"
            THEN [told EXCEPT !.currentMissionId = None,
                              !.reportedMissionLifecycleState = "CANCELLED"]
            ELSE [told EXCEPT !.currentMissionId = command.missionId,
                              !.reportedMissionLifecycleState = "RUNNING",
                              !.reconnectHandshakeSent = FALSE]
    BY <1>3 DEF Edge!applyAcceptedCommand
  <2> HIDE DEF told
  <2>3. CASE command.type = "CANCEL_MISSION"
    BY <2>1, <2>2, <2>3 DEF EdgeState, MaybeMission
  <2>4. CASE command.type # "CANCEL_MISSION"
    <3> DEFINE runs == [told EXCEPT !.currentMissionId = command.missionId,
                                    !.reportedMissionLifecycleState = "RUNNING",
                                    !.reconnectHandshakeSent = FALSE]
    <3>1. runs \in EdgeState
      BY <2>1 DEF EdgeState, MaybeMission
    <3>2. runs.lastSeenCommandSequence = told.lastSeenCommandSequence
      BY <2>1 DEF EdgeState
    <3> QED
      BY <2>1, <2>2, <2>4, <3>1, <3>2
  <2> QED
    BY <2>3, <2>4
<1>7. \/ step.state = noted /\ step.outbound = <<frame("REJECTED")>>
      \/ /\ step.state = Edge!applyAcceptedCommand(state, command)
         /\ step.outbound = <<frame("ACCEPTED")>>
  BY <1>1, <1>3, <1>5 DEF Edge!handleCommand, Edge!SimulatorStep
<1>8. step.state \in EdgeState /\ step.state.lastSeenCommandSequence = seen
  BY <1>4, <1>6, <1>7
<1>9. \E f \in Frames(seen) : /\ step.outbound = <<f>> /\ f.type = "edge.command_ack"
                              /\ f.payload.commandId = command.commandId
  BY <1>5, <1>7
<1> HIDE DEF step
<1> QED
  BY <1>8, <1>9 DEF step, seen

LEMMA TelemetryStep ==
    ASSUME NEW state \in EdgeState, NEW id \in Nat, NEW time \in Nat \ {0}
    PROVE  LET step == Edge!createTelemetryMessage(state, id, time) IN
           /\ step.state = state
           /\ \E frame \in Frames(state.lastSeenCommandSequence) : step.outbound = <<frame>>
<1> DEFINE payload == [eventId |-> id, robotId |-> state.robotId,
                       connectionState |-> "ONLINE", healthy |-> TRUE, battery |-> "OK",
                       currentMissionId |-> state.currentMissionId,
                       lastAcknowledgedCommandId |-> state.lastAcknowledgedCommandId,
                       lastSeenCommandSequence |-> state.lastSeenCommandSequence,
                       observedAt |-> time, receivedAt |-> time]
           frame == [type |-> "edge.telemetry", payload |-> payload]
<1>1. payload \in Telemetry
  BY PlatformAssumption, RobotOne DEF EdgeState, Telemetry, ConnectionStates, BatteryLevels
<1>2. payload.lastSeenCommandSequence <= state.lastSeenCommandSequence
  BY DEF EdgeState
<1>3. frame \in Frames(state.lastSeenCommandSequence)
  <2> HIDE DEF payload
  <2> QED
    BY <1>1, <1>2 DEF Frames, SeenUpTo
<1>4. /\ Edge!createTelemetryMessage(state, id, time).state = state
      /\ Edge!createTelemetryMessage(state, id, time).outbound = <<frame>>
  BY DEF Edge!createTelemetryMessage, Edge!SimulatorStep
<1> HIDE DEF frame
<1> QED
  BY <1>3, <1>4

\* Of the numbers up to the count of a finite set, one is not in the set.
LEMMA NextIdIsNat ==
    ASSUME NEW used, IsFiniteSet(used)
    PROVE  NextId(used) \in Nat
<1> DEFINE n == Cardinality(used)
<1>1. n \in Nat
  BY FS_CardinalityType
<1>2. Cardinality(0..n) = n + 1
  BY <1>1, FS_Interval
<1>3. ~(0..n \subseteq used)
  BY <1>1, <1>2, FS_Subset
<1>4. \E id \in 0..n : id \notin used
  BY <1>3
<1>5. NextId(used) \in 0..n
  BY <1>4 DEF NextId
<1> QED
  BY <1>1, <1>5

\* What is made from each of a queue's frames is finite.
LEMMA QueuedIsFinite ==
    ASSUME PlatformInv, NEW type
    PROVE  IsFiniteSet(Queued(type))
<1> DEFINE waiting == {j \in DOMAIN inbox : inbox[j].type = type}
           payloads == {inbox[i].payload : i \in waiting}
<1>1. DOMAIN inbox = 1..Len(inbox) /\ Len(inbox) \in Nat
  BY DEF PlatformInv, LinkInv
<1>2. IsFiniteSet(1..Len(inbox))
  BY <1>1, FS_Interval
<1>3. IsFiniteSet(waiting)
  BY <1>1, <1>2, FS_Subset
<1>4. PICK f : f = [i \in waiting |-> inbox[i].payload]
  OBVIOUS
<1>5. f \in Surjection(waiting, payloads)
  BY <1>4 DEF Surjection
<1>6. IsFiniteSet(payloads)
  BY <1>3, <1>5, FS_Surjection
<1> QED
  BY <1>6 DEF Queued

LEMMA IdsInUseAreFinite ==
    ASSUME PlatformInv
    PROVE  NextId(AckIdsInUse) \in Nat /\ NextId(EventIdsInUse) \in Nat
<1> DEFINE acks == Queued("edge.command_ack")
           events == Queued("edge.telemetry")
           ackIds == {ack.ackId : ack \in acks}
           eventIds == {event.eventId : event \in events}
<1>1. IsFiniteSet(acks) /\ IsFiniteSet(events)
  BY QueuedIsFinite
<1> HIDE DEF acks, events
<1>2. PICK f : f = [ack \in acks |-> ack.ackId]
  OBVIOUS
<1>3. f \in Surjection(acks, ackIds)
  BY <1>2 DEF Surjection
<1>4. PICK g : g = [event \in events |-> event.eventId]
  OBVIOUS
<1>5. g \in Surjection(events, eventIds)
  BY <1>4 DEF Surjection
<1>6. IsFiniteSet(ackIds) /\ IsFiniteSet(eventIds)
  BY <1>1, <1>3, <1>5, FS_Surjection
<1>7. IsFiniteSet(AckIdsInUse)
  <2>1. AckIdsInUse = processedAckIds \union ackIds
    BY DEF AckIdsInUse, acks
  <2>2. IsFiniteSet(processedAckIds)
    BY DEF PlatformInv, Counted
  <2> QED
    BY <1>6, <2>1, <2>2, FS_Union
<1>8. IsFiniteSet(EventIdsInUse)
  <2>1. EventIdsInUse = processedEventIds \union eventIds
    BY DEF EventIdsInUse, events
  <2>2. IsFiniteSet(processedEventIds)
    BY DEF PlatformInv, Counted
  <2> QED
    BY <1>6, <2>1, <2>2, FS_Union
<1> QED
  BY <1>7, <1>8, NextIdIsNat

LEMMA EnvelopeFields ==
    ASSUME PlatformInv, NEW command \in Envelopes
    PROVE  /\ command.commandId \in Issued /\ command.commandId \in CommandIds
           /\ command.missionId \in MissionIds /\ command.robotId = Robot1
           /\ command.sequence \in Nat /\ command.sequence < nextSequenceByRobot[Robot1]
<1>1. PICK c \in Issued : command = Envelope(c)
  BY DEF Envelopes
<1>2. c \in CommandIds /\ CommandExists(c) /\ commands[c] \in Command
  BY DEF Issued, PlatformInv, IInv, TypeOK
<1>3. commands[c].robotId = Robot1 /\ commands[c].missionId \in MissionIds
  BY <1>2, RobotOne DEF PlatformInv, IInv, LinksAreSet
<1>4. commands[c].sequence \in Nat /\ commands[c].sequence < nextSequenceByRobot[Robot1]
  BY <1>2, <1>3 DEF PlatformInv, IInv, UniqueSequences, Command
<1> QED
  BY <1>1, <1>2, <1>3, <1>4 DEF Envelope

LEMMA EnvelopesStay ==
    ASSUME DomainKept
    PROVE  Envelopes \subseteq Envelopes' /\ Seq(Envelopes) \subseteq Seq(Envelopes')
<1>1. ASSUME NEW c \in Issued PROVE c \in Issued' /\ Envelope(c)' = Envelope(c)
  BY DEF DomainKept, Envelope
<1>2. Envelopes \subseteq Envelopes'
  BY <1>1 DEF Envelopes
<1> QED
  BY <1>2, SeqGrows

\* The edge's own steps.
LEMMA EdgeConnectsStep ==
    ASSUME PlatformInv, EdgeConnects
    PROVE  /\ edge' \in EdgeState
           /\ edge'.lastSeenCommandSequence = edge.lastSeenCommandSequence
           /\ \E sent \in Seq(Frames(edge.lastSeenCommandSequence)) :
                  /\ inbox' = inbox \o sent
                  /\ \E i \in DOMAIN sent : sent[i].type = "edge.hello"
<1>1. faults \in Nat /\ now \in Nat \ {0} /\ edge \in EdgeState
  BY PlatformAssumption DEF PlatformInv, LinkInv, IInv, TypeOK, Times
<1> QED
  BY <1>1, OpenStep DEF EdgeConnects, EdgeSends

LEMMA EdgeReceivesStep ==
    ASSUME PlatformInv, EdgeReceives
    PROVE  /\ Head(down) \in Envelopes /\ Tail(down) \in Seq(Envelopes)
           /\ edge' \in EdgeState
           /\ edge'.lastSeenCommandSequence =
                  Larger(edge.lastSeenCommandSequence, Head(down).sequence)
           /\ \E frame \in Frames(edge'.lastSeenCommandSequence) :
                  /\ inbox' = inbox \o <<frame>>
                  /\ frame.type = "edge.command_ack"
                  /\ frame.payload.commandId = Head(down).commandId
<1>1. down \in Seq(Envelopes) /\ down # <<>> /\ edge \in EdgeState
  BY DEF PlatformInv, LinkInv, EdgeReceives
<1>2. Head(down) \in Envelopes /\ Tail(down) \in Seq(Envelopes)
  BY <1>1
<1>3. PICK command : command = Head(down)
  OBVIOUS
<1>4. /\ command.commandId \in CommandIds /\ command.missionId \in MissionIds
      /\ command.robotId = Robot1 /\ command.sequence \in Nat
  BY <1>2, <1>3, EnvelopeFields
<1>5. PICK id \in Nat : EdgeSends(Edge!handleCommand(edge, command, id))
  BY <1>3, IdsInUseAreFinite DEF EdgeReceives
<1> QED
  BY <1>1, <1>2, <1>3, <1>4, <1>5, CommandStep DEF EdgeSends

LEMMA EdgeTelemetryStep ==
    ASSUME PlatformInv, EdgeTelemetry
    PROVE  /\ edge' = edge
           /\ \E frame \in Frames(edge.lastSeenCommandSequence) : inbox' = inbox \o <<frame>>
<1>1. now \in Nat \ {0} /\ edge \in EdgeState
  BY DEF PlatformInv, LinkInv, IInv, TypeOK, Times
<1>2. PICK id \in Nat : EdgeSends(Edge!createTelemetryMessage(edge, id, now))
  BY IdsInUseAreFinite DEF EdgeTelemetry
<1> QED
  BY <1>1, <1>2, TelemetryStep DEF EdgeSends

\* Who writes the edge's state.
LEMMA EdgeWriters ==
    ASSUME [PlatformNext]_platformVars
    PROVE  EdgeConnects \/ EdgeReceives \/ EdgeTelemetry \/ edge' = edge
BY DEF PlatformNext, platformVars, linkVars, createMission, cancelMission, RunRequests, RunDemo,
   RunChain, Dispatch, Send, BeginReconnect, HandleHandshake, Apply, HandleHello, HandleAck,
   HandleTelemetry, HandleDisconnect, ReadRobot, Handle, TakeUp, ReadPending, SendPending, Sweep,
   EvaluateAt, EvaluateDemoRobot, DemoControl, disconnectDemoRobot, lowBatteryDemo,
   reconnectDemoRobot, demoWrite, demoUnchanged, Drop, Crash, LoseFrame, Throws, TimePasses

LEMMA EdgeStateKept ==
    ASSUME PlatformInv, [PlatformNext]_platformVars
    PROVE  edge' \in EdgeState /\ EdgeGrows
<1>1. edge \in EdgeState /\ edge.lastSeenCommandSequence \in Nat
  BY DEF PlatformInv, LinkInv, EdgeState
<1>2. CASE edge' = edge
  BY <1>1, <1>2 DEF EdgeGrows
<1>3. CASE EdgeConnects
  BY <1>1, <1>3, EdgeConnectsStep DEF EdgeGrows
<1>4. CASE EdgeReceives
  <2>1. Head(down).sequence \in Nat
    BY <1>4, EdgeReceivesStep, EnvelopeFields
  <2>2. edge'.lastSeenCommandSequence \in Nat
        /\ edge.lastSeenCommandSequence <= edge'.lastSeenCommandSequence
    BY <1>1, <1>4, <2>1, EdgeReceivesStep DEF Larger
  <2> QED
    BY <1>1, <1>4, <2>2, EdgeReceivesStep DEF EdgeGrows
<1>5. CASE EdgeTelemetry
  BY <1>2, <1>5, EdgeTelemetryStep
<1> QED
  BY <1>2, <1>3, <1>4, <1>5, EdgeWriters

LEMMA InboxKept ==
    ASSUME PlatformInv, [PlatformNext]_platformVars, EdgeGrows
    PROVE  inbox' \in Seq(Frames(edge'.lastSeenCommandSequence))
<1> DEFINE old == Frames(edge.lastSeenCommandSequence)
           new == Frames(edge'.lastSeenCommandSequence)
<1>1. inbox \in Seq(old)
  BY DEF PlatformInv, LinkInv
<1>2. old \subseteq new /\ Seq(old) \subseteq Seq(new)
  BY FramesGrow, SeqGrows DEF EdgeGrows
<1>3. CASE inbox' = inbox
  BY <1>1, <1>2, <1>3
<1>4. ASSUME inbox # <<>>, inbox' = Tail(inbox) PROVE inbox' \in Seq(new)
  BY <1>1, <1>2, <1>4
<1>5. CASE EdgeConnects
  <2>1. PICK sent \in Seq(old) : inbox' = inbox \o sent
    BY <1>5, EdgeConnectsStep
  <2> HIDE DEF old, new
  <2>2. inbox \in Seq(new) /\ sent \in Seq(new)
    BY <1>1, <1>2
  <2>3. inbox \o sent \in Seq(new)
    BY <2>2
  <2> QED
    BY <2>1, <2>3 DEF new
<1>6. ASSUME NEW frame \in new, inbox' = inbox \o <<frame>> PROVE inbox' \in Seq(new)
  <2> HIDE DEF old, new
  <2> DEFINE one == <<frame>>
  <2>1. one \in Seq(new)
    BY <1>6
  <2>2. inbox \in Seq(new)
    BY <1>1, <1>2
  <2> HIDE DEF one
  <2>3. inbox \o one \in Seq(new)
    BY <2>1, <2>2
  <2> QED
    BY <1>6, <2>3 DEF one
<1>7. CASE EdgeReceives
  BY <1>6, <1>7, EdgeReceivesStep
<1>8. CASE EdgeTelemetry
  BY <1>2, <1>6, <1>8, EdgeTelemetryStep
<1>9. CASE Drop
  <2>1. PICK n \in Arrived :
            inbox' = Append(SubSeq(inbox, 1, n), [type |-> "disconnect", payload |-> None])
    BY <1>9 DEF Drop
  <2>2. n \in 0..Len(inbox)
    BY DEF Arrived
  <2> DEFINE last == [type |-> "disconnect", payload |-> None]
  <2>3. last \in new
    BY DEF Frames
  <2> HIDE DEF old, new, last
  <2>4. SubSeq(inbox, 1, n) \in Seq(new)
    BY <1>1, <1>2, <2>2
  <2>5. Append(SubSeq(inbox, 1, n), last) \in Seq(new)
    BY <2>3, <2>4
  <2> QED
    BY <2>1, <2>5 DEF last, new
<1>10. CASE Crash
  BY <1>10 DEF Crash
<1>11. \/ inbox' = inbox \/ EdgeConnects \/ EdgeReceives \/ EdgeTelemetry \/ Drop \/ Crash
       \/ inbox # <<>> /\ inbox' = Tail(inbox)
  BY DEF PlatformNext, platformVars, linkVars, createMission, cancelMission, RunRequests, RunDemo,
     RunChain, Dispatch, Send, BeginReconnect, HandleHandshake, Apply, HandleHello, HandleAck,
     HandleTelemetry, HandleDisconnect, ReadRobot, Handle, TakeUp, NextFrame, ReadPending,
     SendPending, Sweep, EvaluateAt, EvaluateDemoRobot, DemoControl, disconnectDemoRobot,
     lowBatteryDemo, reconnectDemoRobot, demoWrite, demoUnchanged, LoseFrame, Throws, TimePasses
<1> QED
  BY <1>3, <1>4, <1>5, <1>7, <1>8, <1>9, <1>10, <1>11

LEMMA SentKept ==
    ASSUME PlatformInv, DomainKept, NEW c \in Issued
    PROVE  /\ sendCommand(c) => down' \in Seq(Envelopes)
           /\ Envelope(c) \in Envelopes
<1>1. Envelope(c) \in Envelopes
  BY DEF Envelopes
<1>2. down \in Seq(Envelopes)
  BY DEF PlatformInv, LinkInv
<1>3. Append(down, Envelope(c)) \in Seq(Envelopes)
  BY <1>1, <1>2
<1> QED
  BY <1>1, <1>2, <1>3 DEF sendCommand

LEMMA DownKept ==
    ASSUME PlatformInv, [PlatformNext]_platformVars, DomainKept
    PROVE  down' \in Seq(Envelopes')
<1>1. down \in Seq(Envelopes) /\ Seq(Envelopes) \subseteq Seq(Envelopes')
  BY EnvelopesStay DEF PlatformInv, LinkInv
<1>2. CASE down' = down
  BY <1>1, <1>2
<1>3. ASSUME NEW slot \in {"create", "cancel"}, Send(slot) PROVE down' \in Seq(Envelopes')
  <2>1. PICK c \in Issued : calls[slot] = Call(SendLeft, c)
    BY <1>3, CreateAt, CancelAt DEF Send, PlatformInv, SendsCommand
  <2>2. calls[slot].about = c
    BY <2>1, StepAt, TheSlots
  <2>3. sendCommand(c)
    BY <1>3, <2>2 DEF Send
  <2> QED
    BY <1>1, <2>3, SentKept
<1>4. CASE SendPending
  <2>1. PICK order \in Seq(Issued) : calls["chain"] = Call(SendPendingLeft, order)
    BY <1>4, ChainAt DEF SendPending, PlatformInv
  <2>2. calls["chain"].about = order
    BY <2>1, StepAt, TheSlots
  <2> DEFINE sent == [i \in DOMAIN order |-> Envelope(order[i])]
  <2>3. down' = IF connected THEN down \o sent ELSE down
    BY <1>4, <2>2 DEF SendPending
  <2>4. sent \in Seq(Envelopes)
    <3>1. \A i \in DOMAIN order : Envelope(order[i]) \in Envelopes
      BY DEF Envelopes
    <3>2. DOMAIN order = 1..Len(order) /\ Len(order) \in Nat
      OBVIOUS
    <3> QED
      BY <3>1, <3>2
  <2> HIDE DEF sent
  <2>5. down \o sent \in Seq(Envelopes)
    BY <1>1, <2>4
  <2> QED
    BY <1>1, <2>3, <2>5
<1>5. CASE EdgeReceives
  BY <1>1, <1>5, EdgeReceivesStep DEF EdgeReceives
<1>6. CASE Drop \/ Crash
  <2>1. down' = <<>>
    BY <1>6 DEF Drop, Crash
  <2>2. <<>> \in Seq(Envelopes')
    OBVIOUS
  <2> QED
    BY <2>1, <2>2
<1>7. \/ down' = down \/ Send("create") \/ Send("cancel") \/ SendPending \/ EdgeReceives
      \/ Drop \/ Crash
  BY DEF PlatformNext, platformVars, linkVars, createMission, cancelMission, RunRequests, RunDemo,
     RunChain, Dispatch, BeginReconnect, HandleHandshake, Apply, HandleHello, HandleAck,
     HandleTelemetry, HandleDisconnect, ReadRobot, Handle, TakeUp, ReadPending, Sweep,
     EvaluateAt, EvaluateDemoRobot, DemoControl, disconnectDemoRobot, lowBatteryDemo,
     reconnectDemoRobot, demoWrite, demoUnchanged, EdgeConnects, EdgeTelemetry, LoseFrame, Throws,
     TimePasses
<1> QED
  BY <1>2, <1>3, <1>4, <1>5, <1>6, <1>7

\* Who writes the connection and counts faults.
LEMMA ConnectionKept ==
    ASSUME PlatformInv, [PlatformNext]_platformVars
    PROVE  /\ faults' \in 0..MaxFaults
           /\ connected' \in BOOLEAN
           /\ ~connected' => down' = <<>>
<1>1. faults \in 0..MaxFaults /\ connected \in BOOLEAN /\ (~connected => down = <<>>)
  BY DEF PlatformInv, LinkInv, FlagsInv
<1>2. CASE UNCHANGED <<faults, connected>>
  <2>1. \/ down' = down \/ Drop \/ Crash \/ connected \/ EdgeReceives
    BY <1>2 DEF PlatformNext, platformVars, linkVars, createMission, cancelMission, RunRequests,
       RunDemo, RunChain, Dispatch, Send, sendCommand, BeginReconnect, HandleHandshake, Apply,
       HandleHello, HandleAck, HandleTelemetry, HandleDisconnect, ReadRobot, Handle, TakeUp,
       ReadPending, SendPending, Sweep, EvaluateAt, EvaluateDemoRobot, DemoControl,
       disconnectDemoRobot, lowBatteryDemo, reconnectDemoRobot, demoWrite, demoUnchanged,
       EdgeConnects, EdgeTelemetry, LoseFrame, Throws, TimePasses
  <2>2. ~connected /\ EdgeReceives => FALSE
    BY <1>1 DEF EdgeReceives
  <2> QED
    BY <1>1, <1>2, <2>1, <2>2 DEF Drop, Crash
<1>3. CASE EdgeConnects
  BY <1>1, <1>3 DEF EdgeConnects
<1>4. ASSUME faults < MaxFaults, faults' = faults + 1 PROVE faults' \in 0..MaxFaults
  BY <1>1, <1>4, PlatformAssumption
<1>5. CASE Drop \/ Crash
  BY <1>4, <1>5 DEF Drop, Crash
<1>6. CASE DemoControl
  BY <1>1, <1>4, <1>6 DEF DemoControl, disconnectDemoRobot, lowBatteryDemo, reconnectDemoRobot,
     demoWrite, Demo, demoUnchanged
<1>7. ASSUME LoseFrame \/ \E slot \in Slots : Throws(slot)
      PROVE  /\ faults' \in 0..MaxFaults
             /\ connected' \in BOOLEAN
             /\ ~connected' => down' = <<>>
  BY <1>1, <1>4, <1>7 DEF LoseFrame, Throws
<1>8. \/ UNCHANGED <<faults, connected>> \/ EdgeConnects \/ Drop \/ Crash \/ DemoControl
      \/ LoseFrame \/ \E slot \in Slots : Throws(slot)
  BY DEF PlatformNext, platformVars, linkVars, createMission, cancelMission, RunRequests, RunDemo,
     RunChain, Dispatch, Send, BeginReconnect, HandleHandshake, Apply, HandleHello, HandleAck,
     HandleTelemetry, HandleDisconnect, ReadRobot, Handle, TakeUp, ReadPending, SendPending,
     Sweep, EvaluateAt, EvaluateDemoRobot, EdgeReceives, EdgeTelemetry, TimePasses
<1> QED
  BY <1>2, <1>3, <1>5, <1>6, <1>7, <1>8

\* Pending commands were issued.
LEMMA PendingWasIssued == pendingCommands \subseteq CommandIds /\ pendingCommands \subseteq Issued
BY DEF pendingCommands, Issued

\* Who writes the list of commands left behind.
LEMMA MissedKept ==
    ASSUME PlatformInv, [PlatformNext]_platformVars
    PROVE  missed' \subseteq CommandIds
<1>1. missed \subseteq CommandIds
  BY DEF PlatformInv, FlagsInv
<1>2. CASE LoseFrame
  <2>1. Head(inbox).type = "edge.command_ack" => Frame.commandId \in CommandIds
    BY <1>2, TakesFrame DEF LoseFrame, NextFrame, SeenUpTo, EdgeAck
  <2> QED
    BY <1>1, <1>2, <2>1, PendingWasIssued DEF LoseFrame
<1>3. ASSUME NEW slot \in Slots, Throws(slot) PROVE missed' \subseteq CommandIds
  <2>1. IsAt(slot, "send") => calls[slot].about \in CommandIds
    <3>1. IsAt(slot, "send") => SendsCommand(calls[slot])
      BY CreateAt, CancelAt, DemoAt, ChainAt, TheSlots DEF PlatformInv
    <3> QED
      BY <3>1, StepAt DEF SendsCommand, Issued
  <2> QED
    BY <1>1, <1>3, <2>1, PendingWasIssued DEF Throws
<1>4. \/ missed' = missed \/ missed' = {} \/ LoseFrame \/ \E slot \in Slots : Throws(slot)
  BY DEF PlatformNext, platformVars, linkVars, createMission, cancelMission, RunRequests, RunDemo,
     RunChain, Dispatch, Send, BeginReconnect, HandleHandshake, Apply, HandleHello, HandleAck,
     HandleTelemetry, HandleDisconnect, ReadRobot, Handle, TakeUp, ReadPending, SendPending,
     Sweep, EvaluateAt, EvaluateDemoRobot, EdgeConnects, EdgeReceives, EdgeTelemetry, DemoControl,
     disconnectDemoRobot, lowBatteryDemo, reconnectDemoRobot, demoWrite, demoUnchanged, Drop,
     Crash, TimePasses
<1> QED
  BY <1>1, <1>2, <1>3, <1>4

LEMMA FlagsKept ==
    ASSUME PlatformInv, [PlatformNext]_platformVars
    PROVE  FlagsInv'
<1>1. overtaken \in BOOLEAN /\ sweptAt \in Nat /\ now \in Nat
  BY DEF PlatformInv, FlagsInv, IInv, TypeOK, Times
<1>2. /\ overtaken' = overtaken \/ overtaken' \in BOOLEAN
      /\ sweptAt' = sweptAt \/ sweptAt' = now
  BY DEF PlatformNext, platformVars, linkVars, createMission, cancelMission, RunRequests, RunDemo,
     RunChain, Dispatch, Send, BeginReconnect, HandleHandshake, Apply, HandleHello, HandleAck,
     HandleTelemetry, HandleDisconnect, ReadRobot, Handle, TakeUp, ReadPending, SendPending,
     Sweep, EvaluateAt, EvaluateDemoRobot, EdgeConnects, EdgeReceives, EdgeTelemetry, DemoControl,
     disconnectDemoRobot, lowBatteryDemo, reconnectDemoRobot, demoWrite, demoUnchanged, Drop,
     Crash, LoseFrame, Throws, TimePasses, Overtakes
<1> QED
  BY <1>1, <1>2, ConnectionKept, MissedKept DEF FlagsInv

LEMMA PlatformInvStep == PlatformInv /\ [PlatformNext]_platformVars => PlatformInv'
<1> SUFFICES ASSUME PlatformInv, [PlatformNext]_platformVars PROVE PlatformInv'
  OBVIOUS
<1>1. DomainKept /\ IInv'
  BY PlatformKeepsDomain DEF DomainKept
<1>2. edge' \in EdgeState /\ EdgeGrows
  BY EdgeStateKept
<1>3. StartTime <= now' /\ Counted'
  BY TimeGoesOn, CountsKept
<1>4. CallsInv'
  BY <1>1, <1>2, StepKeepsCalls
<1>5. LinkInv'
  BY <1>1, <1>2, InboxKept, DownKept, ConnectionKept DEF LinkInv
<1>6. FlagsInv'
  BY FlagsKept
<1>7. StartTime' = StartTime
  BY DEF StartTime
<1> QED
  BY <1>1, <1>3, <1>4, <1>5, <1>6, <1>7 DEF PlatformInv

(***************************************************************************)
(* The invariant holds.                                                    *)
(***************************************************************************)

LEMMA PlatformInitIInv == PlatformInit => IInv
<1> SUFFICES ASSUME PlatformInit PROVE IInv
  OBVIOUS
<1>1. now = StartTime /\ now \in Times
  BY ConfigAssumption, PlatformAssumption DEF PlatformInit, StartTime, Times
<1>2. DemoRobot(now) \in Robot /\ DemoRobot(now).lastSeenCommandSequence = 0
  <2>1. ASSUME NEW time \in Nat
        PROVE  DemoRobot(time) \in Robot /\ DemoRobot(time).lastSeenCommandSequence = 0
    BY DEF DemoRobot, NoRobot, Robot, ConnectionStates, BatteryLevels, MaybeMission
  <2>2. now \in Nat
    BY <1>1 DEF Times
  <2> QED
    BY <2>1, <2>2
<1>3. robots \in [RobotIds -> Robot]
      /\ \A r \in RobotIds : robots[r].lastSeenCommandSequence = 0
  BY <1>2, RobotOne DEF PlatformInit
<1>4. \A m \in MissionIds : missions[m].lifecycleState = "ABSENT" /\ missions[m].currentCommandId = None
  BY DEF PlatformInit, NoMission
<1>5. /\ \A c \in CommandIds : ~CommandExists(c)
      /\ \A k \in IdempotencyKeys : idempotencyRecords[k] = NoRecord
  BY DEF PlatformInit, NoCommand, CommandExists
<1>6. TypeOK
  BY <1>1, <1>3 DEF PlatformInit, TypeOK, Mission, Command, NoMission, NoCommand, NoRecord,
     LifecycleStates, OperationalStatuses, MaybeMission, MaybeCommand
<1>7. LinksAreSet
  BY <1>3, <1>4, <1>5 DEF LinksAreSet, MissionExists
<1>8. UniqueSequences /\ OneCommandPerKey
  BY <1>5 DEF UniqueSequences, OneCommandPerKey
<1>9. CurrentCommandMatchesMission /\ CancellationFlow /\ SettledStatusIsKept
  BY <1>4 DEF CurrentCommandMatchesMission, CancellationFlow, SettledStatusIsKept
<1> QED
  BY <1>6, <1>7, <1>8, <1>9 DEF IInv

LEMMA PlatformInvInit == PlatformInit => PlatformInv
<1> SUFFICES ASSUME PlatformInit PROVE PlatformInv
  OBVIOUS
<1>1. IInv
  BY PlatformInitIInv
<1>2. StartTime <= now
  BY ConfigAssumption DEF PlatformInit, StartTime
<1>3. Counted
  <2>1. Issued = {} /\ processedAckIds = {} /\ processedEventIds = {}
    BY DEF PlatformInit, Issued, CommandExists, NoCommand
  <2> QED
    BY <2>1, FS_EmptySet DEF Counted
<1>4. CallsInv
  BY TheSlots DEF PlatformInit, CallsInv, CallsTable, CreateCall, CancelCall, DemoCall, ChainCall
<1>5. edge \in EdgeState
  BY PlatformAssumption
  DEF PlatformInit, Edge!createInitialSimulatorState, EdgeState, MaybeCommand, MaybeMission
<1>6. faults \in 0..MaxFaults
  BY PlatformAssumption DEF PlatformInit
<1>7. StartTime \in Nat
  BY ConfigAssumption DEF StartTime
<1>8. inbox = <<>> /\ down = <<>> /\ FlagsInv
  BY <1>7 DEF PlatformInit, FlagsInv
<1>9. LinkInv
  BY <1>5, <1>6, <1>8 DEF LinkInv
<1> QED
  BY <1>1, <1>2, <1>3, <1>4, <1>8, <1>9 DEF PlatformInv

\* In every reachable state the domain's tables satisfy the invariant of its reducers, every call
\* is one its slot can be handling, and what is queued was sent by this edge and this platform.
THEOREM PlatformInvariance == PlatformSpec => []PlatformInv
BY PlatformInvInit, PlatformInvStep, PTL DEF PlatformSpec

LEMMA CallSteps ==
    ASSUME PlatformInv, NEW slot \in Slots
    PROVE  calls[slot].todo \in Seq(Steps)
<1>1. \A todo, about : Call(todo, about).todo = todo
  BY DEF Call
<1>2. Idle.todo \in Seq(Steps)
  BY <1>1, ListsAreSteps DEF Idle
<1>3. calls["create"].todo \in Seq(Steps)
  BY <1>1, <1>2, ListsAreSteps DEF PlatformInv, CallsInv, CreateCall, SendsCommand
<1>4. calls["cancel"].todo \in Seq(Steps)
  BY <1>1, <1>2, ListsAreSteps DEF PlatformInv, CallsInv, CancelCall, SendsCommand
<1>5. calls["chain"].todo \in Seq(Steps)
  BY <1>1, <1>2, ListsAreSteps DEF PlatformInv, CallsInv, ChainCall, Reconnects
<1>6. calls["demo"].todo \in Seq(Steps)
  BY <1>1, <1>2, ListsAreSteps DEF PlatformInv, CallsInv, DemoCall, Evaluates, Reconnects
<1> QED
  BY <1>3, <1>4, <1>5, <1>6, TheSlots

\* Tables, calls, edge and connection keep their types, and a closed connection carries nothing.
THEOREM PlatformTypeCorrect == PlatformSpec => []PlatformTypeOK
<1>1. PlatformInv => PlatformTypeOK
  BY CallSteps DEF PlatformInv, PlatformTypeOK, IInv, LinkInv, FlagsInv, EdgeState
<1> QED
  BY <1>1, PlatformInvariance, PTL

(***************************************************************************)
(* What the reducers promise holds for the platform too.                   *)
(***************************************************************************)

\* The invariants of the domain hold under messages that an edge makes up on the way, drops,
\* crashes and the demo controls that write a robot's snapshot themselves.
THEOREM DomainInvariantsHold ==
    PlatformSpec => [](/\ UniqueSequences /\ OneCommandPerKey /\ CurrentCommandMatchesMission
                       /\ CancellationFlow /\ SettledStatusIsKept)
<1>1. PlatformInv => /\ UniqueSequences /\ OneCommandPerKey /\ CurrentCommandMatchesMission
                     /\ CancellationFlow /\ SettledStatusIsKept
  BY DEF PlatformInv, IInv
<1> QED
  BY <1>1, PlatformInvariance, PTL

\* What the action properties of the domain say of one step.
IssuedStay == /\ \A c \in CommandIds : CommandExists(c) => commands'[c] = commands[c]
              /\ \A k \in IdempotencyKeys : idempotencyRecords[k] # NoRecord =>
                     idempotencyRecords'[k] = idempotencyRecords[k]
ProgressGrows == \A r \in RobotIds :
                     /\ nextSequenceByRobot'[r] >= nextSequenceByRobot[r]
                     /\ robots'[r].lastSeenCommandSequence >= robots[r].lastSeenCommandSequence
DispatchesFresh == \A m \in MissionIds :
                       /\ missions'[m].lifecycleState = "DISPATCHED"
                       /\ missions[m].lifecycleState # "DISPATCHED"
                       => LET c == missions'[m].currentCommandId IN
                          /\ c \in CommandIds /\ ~CommandExists(c)
                          /\ commands'[c].sequence =
                                 Larger(1, nextSequenceByRobot[commands'[c].robotId])
OutcomesUseUp == \A m \in MissionIds :
                     /\ missions'[m].lifecycleState # missions[m].lifecycleState
                     /\ missions'[m].lifecycleState \in
                            {"RUNNING", "CANCELLED", "SUCCEEDED", "FAILED", "MANUAL_REVIEW"}
                     => inboxVars' # inboxVars

LEMMA StepKeepsPromises ==
    ASSUME PlatformInv, [PlatformNext]_platformVars
    PROVE  IssuedStay /\ ProgressGrows /\ DispatchesFresh /\ OutcomesUseUp
<1>1. IInv
  BY DEF PlatformInv
<1>2. CASE [ReducerStep]_vars
  <2>1. IssuedStay
    BY <1>1, <1>2, IssuedStays DEF IssuedStay
  <2>2. ProgressGrows
    BY <1>1, <1>2, LastSeenGrows, CounterGrows DEF ProgressGrows
  <2>3. DispatchesFresh
    BY <1>1, <1>2, DispatchedWithFresh DEF DispatchesFresh
  <2>4. OutcomesUseUp
    BY <1>1, <1>2, OutcomeUsesUp DEF OutcomesUseUp
  <2> QED
    BY <2>1, <2>2, <2>3, <2>4
<1>3. ASSUME NEW robot, DemoWrite(robot)
      PROVE  IssuedStay /\ ProgressGrows /\ DispatchesFresh /\ OutcomesUseUp
  <2>1. UNCHANGED <<missions, commands, idempotencyRecords, nextSequenceByRobot>>
    BY <1>3 DEF DemoWrite, issueVars
  <2>2. \A r \in RobotIds :
            /\ robots'[r].lastSeenCommandSequence = robots[r].lastSeenCommandSequence
            /\ robots[r].lastSeenCommandSequence \in Nat /\ nextSequenceByRobot[r] \in Nat
    BY <1>1, <1>3, RobotOne DEF DemoWrite, IInv, TypeOK, Robot
  <2>3. ProgressGrows
    BY <2>1, <2>2 DEF ProgressGrows
  <2> QED
    BY <2>1, <2>3 DEF IssuedStay, DispatchesFresh, OutcomesUseUp
<1> QED
  BY <1>2, <1>3, PlatformSteps, ReducesOrWrites

\* The action properties of the domain hold for the platform's steps: what was issued is never
\* rewritten, progress never runs back, a dispatch has a new command, and an outcome only an edge
\* decides takes a message of the edge, or the one the demo makes up.
THEOREM DomainStepsHold ==
    PlatformSpec => /\ IssuedCommandsAreFinal /\ ProgressOnlyGrows
                    /\ DispatchedWithFreshCommand /\ EdgeOutcomesUseUpTheirMessage
<1>1. PlatformInv /\ [PlatformNext]_platformVars => [IssuedStay]_vars
  BY StepKeepsPromises
<1>2. PlatformInv /\ [PlatformNext]_platformVars => [ProgressGrows]_vars
  BY StepKeepsPromises
<1>3. PlatformInv /\ [PlatformNext]_platformVars => [DispatchesFresh]_vars
  BY StepKeepsPromises
<1>4. PlatformInv /\ [PlatformNext]_platformVars => [OutcomesUseUp]_vars
  BY StepKeepsPromises
<1>5. PlatformSpec => [][IssuedStay]_vars /\ [][ProgressGrows]_vars
                      /\ [][DispatchesFresh]_vars /\ [][OutcomesUseUp]_vars
  BY <1>1, <1>2, <1>3, <1>4, PlatformInvariance, PTL DEF PlatformSpec
<1> QED
  BY <1>5 DEF IssuedStay, ProgressGrows, DispatchesFresh, OutcomesUseUp, IssuedCommandsAreFinal,
     ProgressOnlyGrows, DispatchedWithFreshCommand, EdgeOutcomesUseUpTheirMessage

(***************************************************************************)
(* What the cloud knows of the edge.                                       *)
(***************************************************************************)

LEMMA SeenWasIssuedStep ==
    ASSUME PlatformInv, SeenWasIssued, [PlatformNext]_platformVars
    PROVE  SeenWasIssued'
<1>1. DomainKept /\ EdgeGrows
  BY PlatformKeepsDomain, EdgeStateKept
<1>2. nextSequenceByRobot[Robot1] \in Nat /\ nextSequenceByRobot'[Robot1] \in Nat
  BY <1>1, RobotOne DEF DomainKept, PlatformInv, IInv, TypeOK
<1>3. nextSequenceByRobot'[Robot1] >= nextSequenceByRobot[Robot1]
  BY <1>1 DEF DomainKept
<1>4. CASE edge'.lastSeenCommandSequence = edge.lastSeenCommandSequence
  BY <1>1, <1>2, <1>3, <1>4 DEF SeenWasIssued, EdgeGrows
<1>5. CASE EdgeReceives
  <2>1. /\ Head(down).sequence \in Nat
        /\ Head(down).sequence < nextSequenceByRobot[Robot1]
    BY <1>5, EdgeReceivesStep, EnvelopeFields
  <2>2. edge'.lastSeenCommandSequence = Larger(edge.lastSeenCommandSequence, Head(down).sequence)
    BY <1>5, EdgeReceivesStep
  <2> QED
    BY <1>1, <1>2, <1>3, <2>1, <2>2 DEF SeenWasIssued, EdgeGrows, Larger
<1> QED
  BY <1>4, <1>5, EdgeWriters, EdgeConnectsStep, EdgeTelemetryStep

LEMMA SessionsStay ==
    ASSUME PlatformInv, [PlatformNext]_platformVars
    PROVE  processedReconnectSessionIds \subseteq processedReconnectSessionIds'
BY PlatformSteps DEF PlatformReduces, vars, dispatchMissionCommand, rejectDispatch,
   acceptDispatch, requestMissionCancellation, evaluateTelemetryFreshness, beginReconnect, Tick,
   handleEdgeConnected, applyCommandAck, ingestRobotTelemetry, processReconnectHandshake,
   DemoWrite, Remembered, inboxVars

\* Only messages tell the cloud what the robot has seen, and each tells what this edge had seen
\* when it sent it, but for the handshake the platform makes up.
LEMMA CloudInvStep ==
    ASSUME PlatformInv, CloudInv, [PlatformNext]_platformVars
    PROVE  CloudInv'
<1> DEFINE n == edge.lastSeenCommandSequence
           Behind == robots'[Robot1].lastSeenCommandSequence <= edge'.lastSeenCommandSequence
<1>1. ASSUME NEW session \in processedReconnectSessionIds, session > MaxFaults PROVE CloudInv'
  BY <1>1, SessionsStay DEF CloudInv
<1>2. CASE robots[Robot1].lastSeenCommandSequence <= n
  <2>1. EdgeGrows /\ n \in Nat /\ robots[Robot1].lastSeenCommandSequence \in Nat
    BY EdgeStateKept, RobotOne DEF PlatformInv, IInv, TypeOK, Robot, EdgeGrows
  <2>2. CASE robots'[Robot1].lastSeenCommandSequence = robots[Robot1].lastSeenCommandSequence
    BY <1>2, <2>1, <2>2 DEF CloudInv, EdgeGrows
  <2>3. ASSUME NEW seen \in Nat, seen <= n, SeenAfter(Robot1, seen) PROVE Behind
    BY <1>2, <2>1, <2>3 DEF SeenAfter, Larger, EdgeGrows
  <2>4. ASSUME NEW hello \in SeenUpTo(Hello, n), handleEdgeConnected(hello) PROVE Behind
    BY <2>3, <2>4, SeenAfterHello, RobotOne DEF SeenUpTo, Hello, PlatformInv
  <2>5. ASSUME NEW ack \in SeenUpTo(EdgeAck, n), applyCommandAck(ack) PROVE Behind
    BY <2>3, <2>5, SeenAfterAck, RobotOne DEF SeenUpTo, EdgeAck, PlatformInv
  <2>6. ASSUME NEW telemetry \in SeenUpTo(Telemetry, n), ingestRobotTelemetry(telemetry)
        PROVE  Behind
    BY <2>3, <2>6, SeenAfterTelemetry, RobotOne DEF SeenUpTo, Telemetry, PlatformInv
  <2>7. ASSUME NEW handshake \in SeenUpTo(Handshake, n), processReconnectHandshake(handshake)
        PROVE  Behind
    BY <2>3, <2>7, SeenAfterHandshake, RobotOne DEF SeenUpTo, Handshake, PlatformInv
  <2>8. ASSUME NEW handshake \in DemoHandshakes, processReconnectHandshake(handshake)
        PROVE  \E session \in processedReconnectSessionIds' : session > MaxFaults
    BY <2>8 DEF DemoHandshakes, processReconnectHandshake, Remembered
  <2>9. ASSUME NEW robot, DemoWrite(robot)
        PROVE  robots'[Robot1].lastSeenCommandSequence = robots[Robot1].lastSeenCommandSequence
    BY <2>9, RobotOne DEF DemoWrite, PlatformInv, IInv, TypeOK
  <2>10. CASE \/ \E in \in DispatchInputs, time \in Nat : dispatchMissionCommand(in, time)
              \/ \E in \in CancelInputs, time \in Nat : requestMissionCancellation(in, time)
              \/ \E time \in Nat : evaluateTelemetryFreshness(Robot1, time)
              \/ beginReconnect(Robot1) \/ Tick \/ UNCHANGED vars
    BY <2>2, <2>10, SeenElsewhere, RobotOne DEF PlatformInv
  <2> QED
    BY <2>2, <2>4, <2>5, <2>6, <2>7, <2>8, <2>9, <2>10, PlatformSteps DEF PlatformReduces, CloudInv
<1> QED
  BY <1>1, <1>2 DEF CloudInv

\* The cloud never believes the robot has seen a command it has not, and the robot has seen only
\* what was issued.
THEOREM CloudFollowsTheEdge == PlatformSpec => []CloudKnowsNoMoreThanTheEdge
<1> DEFINE Inv == PlatformInv /\ SeenWasIssued /\ CloudInv
<1>1. PlatformInit => Inv
  <2> SUFFICES ASSUME PlatformInit PROVE Inv
    OBVIOUS
  <2>1. edge.lastSeenCommandSequence = 0
    BY DEF PlatformInit, Edge!createInitialSimulatorState
  <2>2. robots[Robot1].lastSeenCommandSequence = 0
    BY RobotOne DEF PlatformInit, DemoRobot, NoRobot
  <2> QED
    BY <2>1, <2>2, PlatformInvInit DEF SeenWasIssued, CloudInv
<1>2. Inv /\ [PlatformNext]_platformVars => Inv'
  BY PlatformInvStep, SeenWasIssuedStep, CloudInvStep
<1>3. Inv => CloudKnowsNoMoreThanTheEdge
  BY DEF SeenWasIssued, CloudInv, CloudKnowsNoMoreThanTheEdge
<1> QED
  BY <1>1, <1>2, <1>3, PTL DEF PlatformSpec

(***************************************************************************)
(* Freshness at the time of a dispatch.                                    *)
(***************************************************************************)

LEMMA EvaluationIsFresh ==
    ASSUME PlatformInv, NEW time \in Nat, LookAtFreshness(time)
    PROVE  robots'[Robot1].connectionState = freshConnection(robots'[Robot1], time)
<1>1. robots \in [RobotIds -> Robot] /\ Robot1 \in RobotIds
  BY RobotOne DEF PlatformInv, IInv, TypeOK
<1> DEFINE next == freshConnection(robots[Robot1], time)
<1>2. CASE evaluateTelemetryFreshness(Robot1, time)
  <2>1. robots'[Robot1] = [robots[Robot1] EXCEPT !.connectionState = next]
    BY <1>1, <1>2 DEF evaluateTelemetryFreshness
  <2>2. /\ robots'[Robot1].connectionState = next
        /\ robots'[Robot1].lastTelemetryObservedAt = robots[Robot1].lastTelemetryObservedAt
        /\ robots'[Robot1].lastTelemetryReceivedAt = robots[Robot1].lastTelemetryReceivedAt
    <3> HIDE DEF next
    <3> QED
      BY <1>1, <2>1 DEF Robot
  <2>3. lastSeenAt(robots'[Robot1]) = lastSeenAt(robots[Robot1])
    BY <2>2 DEF lastSeenAt
  <2> QED
    BY <2>2, <2>3 DEF freshConnection
<1>3. CASE next = robots[Robot1].connectionState /\ UNCHANGED domainVars
  BY <1>3 DEF domainVars
<1> QED
  BY <1>2, <1>3 DEF LookAtFreshness

\* What is fresh is fresh as of every earlier time.
LEMMA FreshEarlier ==
    ASSUME NEW robot \in Robot, NEW early \in Nat, NEW late \in Nat, early <= late,
           freshConnection(robot, late) = "ONLINE"
    PROVE  freshConnection(robot, early) = "ONLINE"
<1>1. lastSeenAt(robot) \in Nat
  BY DEF lastSeenAt, Robot
<1>2. PICK seen \in Nat : seen = lastSeenAt(robot)
  BY <1>1
<1>3. classifyConnectionState(late - seen) = "ONLINE" /\ seen # 0
  BY <1>2 DEF freshConnection
<1>4. classifyConnectionState(early - seen) = "ONLINE"
  <2>1. /\ TelemetryStaleAfter \in Nat /\ TelemetryDegradedAfter \in Nat
        /\ TelemetryOfflineAfter \in Nat
    BY ConfigAssumption
  <2>2. /\ late - seen < TelemetryOfflineAfter /\ late - seen < TelemetryDegradedAfter
        /\ late - seen < TelemetryStaleAfter
    BY <1>3, <2>1 DEF classifyConnectionState
  <2>3. /\ early - seen < TelemetryOfflineAfter /\ early - seen < TelemetryDegradedAfter
        /\ early - seen < TelemetryStaleAfter
    BY <2>1, <2>2
  <2> QED
    BY <2>1, <2>3 DEF classifyConnectionState
<1> QED
  BY <1>2, <1>3, <1>4 DEF freshConnection

LEMMA ReconnectIsNotOnline ==
    ASSUME PlatformInv, beginReconnect(Robot1)
    PROVE  robots'[Robot1].connectionState = "RECONNECTING"
BY RobotOne DEF beginReconnect, PlatformInv, IInv, TypeOK, Robot

\* The other calls leave the creation under way alone.
LEMMA CreateUntouched ==
    ASSUME PlatformInv,
           \/ RunChain \/ RunDemo \/ DemoControl \/ Send("cancel")
           \/ \E in \in CancelInputs : cancelMission(in)
           \/ \E slot \in Slots \ {"create"} : Throws(slot)
    PROVE  calls'["create"] = calls["create"]
<1>1. ASSUME NEW slot \in Slots \ {"create"}, NEW todo, NEW about, Continue(slot, todo, about)
      PROVE  calls'["create"] = calls["create"]
  BY <1>1, Continued, TheSlots DEF PlatformInv, CallsInv
<1>2. CASE RunChain
  <2>1. CASE ReadPending
    BY <1>1, <2>1, TheSlots DEF ReadPending
  <2> QED
    BY <1>1, <1>2, <2>1, TheSlots
    DEF RunChain, BeginReconnect, HandleHandshake, Apply, HandleHello, HandleAck,
        HandleTelemetry, HandleDisconnect, ReadRobot, Handle, TakeUp, SendPending, StepDone
<1>3. CASE Send("cancel")
  BY <1>1, <1>3, TheSlots DEF Send, StepDone
<1>4. CASE \E in \in CancelInputs : cancelMission(in)
  BY <1>1, <1>4, TheSlots DEF cancelMission
<1>5. CASE RunDemo
  BY <1>1, <1>5, TheSlots DEF RunDemo, EvaluateDemoRobot, BeginReconnect, HandleHandshake, Apply,
     StepDone
<1>6. CASE disconnectDemoRobot \/ reconnectDemoRobot
  BY <1>1, <1>6, TheSlots DEF disconnectDemoRobot, reconnectDemoRobot
<1>7. CASE lowBatteryDemo
  BY <1>7 DEF lowBatteryDemo
<1>8. CASE \E slot \in Slots \ {"create"} : Throws(slot)
  BY <1>1, <1>8 DEF Throws
<1> QED
  BY <1>2, <1>3, <1>4, <1>5, <1>6, <1>7, <1>8 DEF DemoControl

\* Only createMission leads to a dispatch.
LEMMA CreateGoesOn ==
    ASSUME PlatformInv, Dispatch \/ Send("create") \/ Throws("create") \/ Crash
    PROVE  ~IsAt("create", "dispatch")'
<1> USE TheSlots
<1>1. ASSUME calls'["create"] = Idle PROVE ~IsAt("create", "dispatch")'
  BY <1>1 DEF IsAt, Idle, Call
<1>2. ASSUME NEW about, calls'["create"] = Call(SendLeft, about)
      PROVE  ~IsAt("create", "dispatch")'
  BY <1>2, StepLists DEF IsAt, Call
<1>3. ASSUME NEW todo \in {SendLeft, <<>>}, NEW about, Continue("create", todo, about)
      PROVE  ~IsAt("create", "dispatch")'
  BY <1>1, <1>2, <1>3, Continued DEF PlatformInv, CallsInv
<1>4. CASE Dispatch
  <2>1. CASE commands' # commands
    BY <1>3, <1>4, <2>1, DispatchAccepts
  <2> QED
    BY <1>3, <1>4, <2>1 DEF Dispatch
<1>5. CASE Send("create")
  <2>1. PICK c : calls["create"] = Call(SendLeft, c)
    BY <1>5, CreateAt DEF Send, SendsCommand, PlatformInv
  <2> QED
    BY <1>1, <1>5, <2>1, StepDoneFrom, StepLists DEF Send, PlatformInv, CallsInv
<1>6. CASE Throws("create")
  BY <1>3, <1>6 DEF Throws
<1>7. CASE Crash
  BY <1>1, <1>7 DEF Crash
<1> QED
  BY <1>4, <1>5, <1>6, <1>7

\* An evaluation beside a creation leaves the robot online only if it is fresh as of the
\* creation's time, unless it was made as of an earlier time.
LEMMA EvaluationBeside ==
    ASSUME PlatformInv, [PlatformNext]_platformVars, NEW time \in Nat, EvaluateAt(time),
           calls'["create"] = calls["create"], IsAt("create", "dispatch"), ~overtaken',
           robots'[Robot1].connectionState = "ONLINE"
    PROVE  freshConnection(robots[Robot1], calls["create"].about.now)' = "ONLINE"
<1>1. PICK in \in DispatchInputs, asked \in Nat :
          calls["create"] = Call(DispatchLeft, Asked(in, asked))
  BY CreateAt DEF PlatformInv
<1>2. calls["create"].about.now = asked
  BY <1>1, AskedAt
<1>3. asked <= time
  BY <1>2 DEF EvaluateAt
<1>4. freshConnection(robots'[Robot1], time) = "ONLINE"
  BY EvaluationIsFresh DEF EvaluateAt
<1>5. robots'[Robot1] \in Robot
  BY PlatformKeepsDomain, RobotOne DEF DomainKept, IInv, TypeOK
<1>6. freshConnection(robots'[Robot1], asked) = "ONLINE"
  BY <1>3, <1>4, <1>5, FreshEarlier
<1> QED
  BY <1>2, <1>6

LEMMA LookedInvStep ==
    ASSUME PlatformInv, LookedInv, [PlatformNext]_platformVars
    PROVE  LookedInv'
<1> SUFFICES ASSUME IsAt("create", "dispatch")', ~overtaken',
                    robots'[Robot1].connectionState = "ONLINE"
             PROVE  freshConnection(robots[Robot1], calls["create"].about.now)' = "ONLINE"
  BY DEF LookedInv
<1>1. CASE UNCHANGED robots /\ ~overtaken /\ calls'["create"] = calls["create"]
  BY <1>1 DEF LookedInv, IsAt
<1>2. ASSUME NEW in \in DispatchInputs, createMission(in)
      PROVE  freshConnection(robots[Robot1], calls["create"].about.now)' = "ONLINE"
  <2>1. PICK time \in RequestTimes :
            /\ LookAtFreshness(time)
            /\ UNCHANGED calls \/ Continue("create", DispatchLeft, Asked(in, time))
    BY <1>2 DEF createMission, DispatchLeft, Asked
  <2>2. ~UNCHANGED calls
    BY <1>2, NothingAtIdle, TheSlots DEF createMission, IsAt
  <2>3. calls'["create"] = Call(DispatchLeft, Asked(in, time))
    BY <2>1, <2>2, Continued, SomethingLeft, TheSlots DEF PlatformInv, CallsInv
  <2>4. calls'["create"].about.now = time
    BY <2>3 DEF Call, Asked
  <2>5. freshConnection(robots'[Robot1], time) = "ONLINE"
    BY <2>1, AskedInTime, EvaluationIsFresh
  <2> QED
    BY <2>4, <2>5
<1>3. CASE Sweep \/ EvaluateDemoRobot
  <2>1. PICK time \in Nat : EvaluateAt(time)
    BY <1>3, SweepLooks, DemoLooks
  <2>2. calls'["create"] = calls["create"]
    BY <1>3, CreateUntouched DEF Sweep, RunDemo
  <2>3. IsAt("create", "dispatch")
    BY <2>2 DEF IsAt
  <2> QED
    BY <2>1, <2>2, <2>3, EvaluationBeside
<1>4. CASE \/ Send("cancel") \/ ReadRobot \/ ReadPending \/ SendPending \/ reconnectDemoRobot
           \/ \E in \in CancelInputs : cancelMission(in)
           \/ \E slot \in Slots \ {"create"} : Throws(slot)
  <2>1. calls'["create"] = calls["create"]
    BY <1>4, CreateUntouched DEF RunChain, DemoControl
  <2>2. UNCHANGED robots
    BY <1>4 DEF Send, ReadRobot, TakeUp, ReadPending, SendPending, reconnectDemoRobot, Throws,
       domainVars, cancelMission, requestMissionCancellation
  <2>3. ASSUME NEW slot \in Slots \ {"create"}, Throws(slot) PROVE ~overtaken
    <3>1. overtaken' = (overtaken /\ slot # "create")
      BY <2>3 DEF Throws
    <3> QED
      BY <3>1
  <2>4. ~overtaken
    BY <1>4, <2>3 DEF Send, ReadRobot, TakeUp, ReadPending, SendPending, reconnectDemoRobot,
       cancelMission
  <2> QED
    BY <1>1, <2>1, <2>2, <2>4
<1>5. CASE \/ UNCHANGED platformVars \/ EdgeConnects \/ EdgeReceives \/ EdgeTelemetry \/ Drop
           \/ LoseFrame \/ TimePasses
  BY <1>1, <1>5 DEF platformVars, domainVars, EdgeConnects, EdgeReceives, EdgeTelemetry, Drop,
     LoseFrame, TimePasses, Tick
<1>6. CASE HandleDisconnect \/ BeginReconnect("chain") \/ BeginReconnect("demo")
  BY <1>6, ReconnectIsNotOnline DEF HandleDisconnect, TakeUp, BeginReconnect, Apply
<1>7. CASE \/ HandleHello \/ HandleAck \/ HandleTelemetry
           \/ HandleHandshake("chain") \/ HandleHandshake("demo") \/ disconnectDemoRobot
  <2>1. calls'["create"] = calls["create"]
    BY <1>7, CreateUntouched DEF RunChain, RunDemo, DemoControl
  <2>2. IsAt("create", "dispatch")
    BY <2>1 DEF IsAt
  <2>3. overtaken'
    BY <1>7, <2>2
    DEF HandleHello, HandleAck, HandleTelemetry, Handle, HandleHandshake, disconnectDemoRobot,
        Overtakes
  <2> QED
    BY <2>3
<1>8. CASE lowBatteryDemo
  <2>1. robots[Robot1] \in Robot
    BY RobotOne DEF PlatformInv, IInv, TypeOK
  <2>2. robots'[Robot1] = [robots[Robot1] EXCEPT !.battery = "LOW"]
    BY <1>8, RobotOne DEF lowBatteryDemo, demoWrite, PlatformInv, IInv, TypeOK
  <2>3. /\ robots'[Robot1].connectionState = robots[Robot1].connectionState
        /\ robots'[Robot1].lastTelemetryObservedAt = robots[Robot1].lastTelemetryObservedAt
        /\ robots'[Robot1].lastTelemetryReceivedAt = robots[Robot1].lastTelemetryReceivedAt
    BY <2>1, <2>2 DEF Robot
  <2>4. \A time : freshConnection(robots'[Robot1], time) = freshConnection(robots[Robot1], time)
    BY <2>3 DEF freshConnection, lastSeenAt
  <2>5. UNCHANGED <<calls, overtaken>>
    BY <1>8 DEF lowBatteryDemo
  <2> QED
    BY <2>3, <2>4, <2>5 DEF LookedInv, IsAt
<1>9. CASE Throws("create")
  BY <1>9, CreateGoesOn
<1> QED
  BY <1>2, <1>3, <1>4, <1>5, <1>6, <1>7, <1>8, <1>9, CreateGoesOn
  DEF PlatformNext, RunRequests, RunDemo, RunChain, DemoControl

\* Only a dispatch on behalf of a creation gives a mission a new command to wait for.
LEMMA PlatformCases ==
    ASSUME PlatformInv, [PlatformNext]_platformVars
    PROVE  \/ QuietStep
           \/ \E in \in DispatchInputs, time \in Nat :
                  Dispatch /\ Accepts(in, time) /\ ~SafetyBlocked(in)
           \/ \E in \in CancelInputs, time \in Nat : requestMissionCancellation(in, time)
<1> DEFINE n == edge.lastSeenCommandSequence
<1>1. IInv
  BY DEF PlatformInv
<1>2. CASE UNCHANGED vars \/ Tick
  BY <1>2 DEF vars, Tick, QuietStep, QuietMissionStep, issueVars
<1>3. ASSUME NEW in \in DispatchInputs, NEW time \in Nat, Dispatch,
             dispatchMissionCommand(in, time)
      PROVE  QuietStep \/ (Dispatch /\ Accepts(in, time) /\ ~SafetyBlocked(in))
  BY <1>1, <1>3, RejectIsQuiet DEF dispatchMissionCommand, QuietStep, Accepts
<1>4. ASSUME NEW ack \in SeenUpTo(EdgeAck, n), applyCommandAck(ack) PROVE QuietStep
  <2>1. AckFields(ack)
    BY PlatformAssumption DEF SeenUpTo, EdgeAck, AckFields
  <2> QED
    BY <1>1, <1>4, <2>1, AckIsQuiet DEF QuietStep
<1>5. ASSUME NEW telemetry \in SeenUpTo(Telemetry, n), ingestRobotTelemetry(telemetry)
      PROVE  QuietStep
  BY <1>1, <1>5, TelemetryIsQuiet DEF QuietStep, SeenUpTo
<1>6. CASE (\E time \in Nat : evaluateTelemetryFreshness(Robot1, time)) \/ beginReconnect(Robot1)
  BY <1>1, <1>6, RobotOne, RepaintIsQuiet
  DEF QuietStep, evaluateTelemetryFreshness, beginReconnect
<1>7. ASSUME NEW handshake \in SeenUpTo(Handshake, n) \union DemoHandshakes,
             processReconnectHandshake(handshake)
      PROVE  QuietStep
  BY <1>1, <1>7, HandshakeIsQuiet DEF QuietStep, SeenUpTo, DemoHandshakes
<1>8. ASSUME NEW hello, handleEdgeConnected(hello) \/ DemoWrite(hello) PROVE QuietStep
  BY <1>8 DEF handleEdgeConnected, DemoWrite, QuietStep, QuietMissionStep
<1> QED
  BY <1>2, <1>3, <1>4, <1>5, <1>6, <1>7, <1>8, PlatformSteps DEF PlatformReduces

\* What an accepted dispatch gives its mission; the other missions keep what they have.
LEMMA AcceptedMission ==
    ASSUME PlatformInv, NEW in \in DispatchInputs, NEW time \in Nat, Accepts(in, time),
           NEW m \in MissionIds
    PROVE  /\ m # in.missionId => missions'[m] = missions[m]
           /\ missions'[in.missionId].lifecycleState = "DISPATCHED"
           /\ missions'[in.missionId].currentCommandId = in.commandId
           /\ missions'[in.missionId].lastAcknowledgedCommandSequence = 0
           /\ commands'[in.commandId].type = in.type
           /\ in.robotId = Robot1
<1>1. in \in DispatchInput
  BY InputAssumption
<1>2. in.missionId \in MissionIds /\ in.commandId \in CommandIds /\ in.robotId = Robot1
  BY <1>1, RobotOne DEF DispatchInput
<1> DEFINE sequence == dispatchSequence(in.robotId)
           next == [NoMission EXCEPT !.robotId = in.robotId, !.lifecycleState = "DISPATCHED",
                                     !.currentCommandId = in.commandId,
                                     !.lastCommandSequence = sequence]
<1>3. missions' = [missions EXCEPT ![in.missionId] = next]
  BY DEF Accepts, acceptDispatch
<1>4. /\ next.lifecycleState = "DISPATCHED" /\ next.currentCommandId = in.commandId
      /\ next.lastAcknowledgedCommandSequence = 0
  BY DEF NoMission
<1>5. \E command, signature : Issue(in.commandId, command, signature) /\ command.type = in.type
  BY DEF Accepts, acceptDispatch
<1>6. commands'[in.commandId].type = in.type
  BY <1>2, <1>5 DEF Issue, PlatformInv, IInv, TypeOK
<1> HIDE DEF next
<1> QED
  BY <1>2, <1>3, <1>4, <1>6 DEF PlatformInv, IInv, TypeOK

\* A mission that waits after a step waited for the same command before, or was just dispatched.
LEMMA StillWaiting ==
    ASSUME PlatformInv, [PlatformNext]_platformVars, NEW m \in MissionIds,
           missions'[m].lifecycleState = "DISPATCHED"
    PROVE  \/ /\ missions[m].lifecycleState = "DISPATCHED"
              /\ missions'[m].currentCommandId = missions[m].currentCommandId
              /\ missions'[m].lastAcknowledgedCommandSequence =
                     missions[m].lastAcknowledgedCommandSequence
           \/ \E in \in DispatchInputs, time \in Nat :
                  /\ Dispatch /\ Accepts(in, time) /\ ~SafetyBlocked(in)
                  /\ m = in.missionId
<1>1. CASE QuietStep
  BY <1>1 DEF QuietStep, QuietMissionStep, RejectedStep, ActiveStep, DecidedStep, SameLinks
<1>2. ASSUME NEW in \in DispatchInputs, NEW time \in Nat, Accepts(in, time), m # in.missionId
      PROVE  missions'[m] = missions[m]
  BY <1>2, AcceptedMission
<1>3. ASSUME NEW in \in CancelInputs, NEW time \in Nat, requestMissionCancellation(in, time)
      PROVE  missions'[m] = missions[m]
  <2>1. PICK sequence :
            missions' = [missions EXCEPT ![in.missionId] =
                [@ EXCEPT !.lifecycleState = "CANCEL_REQUESTED",
                          !.currentCommandId = in.commandId, !.lastCommandSequence = sequence]]
    BY <1>3 DEF requestMissionCancellation
  <2>2. in.missionId \in MissionIds /\ missions \in [MissionIds -> Mission]
    BY InputAssumption DEF CancelInput, PlatformInv, IInv, TypeOK
  <2>3. missions'[in.missionId].lifecycleState = "CANCEL_REQUESTED"
    BY <2>1, <2>2 DEF Mission
  <2> QED
    BY <2>1, <2>2, <2>3
<1> QED
  BY <1>1, <1>2, <1>3, PlatformCases

\* A motion command is dispatched only to a robot whose telemetry is fresh as of the time of the
\* request, unless an edge message, a demo control or an evaluation as of an earlier time took
\* effect since the request looked.  Time passes and demo controls run while it is under way.
THEOREM MotionNeedsFreshness == PlatformSpec => FreshUnlessOvertaken
<1> DEFINE Inv == PlatformInv /\ LookedInv
           Fresh == \A m \in MissionIds :
                        /\ missions'[m].lifecycleState = "DISPATCHED"
                        /\ missions'[m].currentCommandId # missions[m].currentCommandId
                        /\ commands'[missions'[m].currentCommandId].type \in MotionCommandTypes
                        => \/ freshConnection(robots[Robot1], calls.create.about.now) = "ONLINE"
                           \/ overtaken
<1>1. PlatformInit => Inv
  <2> SUFFICES ASSUME PlatformInit PROVE Inv
    OBVIOUS
  <2>1. calls["create"] = Idle
    BY TheSlots DEF PlatformInit
  <2> QED
    BY <2>1, PlatformInvInit, NothingAtIdle, TheSlots DEF LookedInv
<1>2. Inv /\ [PlatformNext]_platformVars => Inv'
  BY PlatformInvStep, LookedInvStep
<1>3. Inv /\ [PlatformNext]_platformVars => [Fresh]_platformVars
  <2> SUFFICES ASSUME Inv, [PlatformNext]_platformVars, NEW m \in MissionIds,
                      missions'[m].lifecycleState = "DISPATCHED",
                      missions'[m].currentCommandId # missions[m].currentCommandId,
                      commands'[missions'[m].currentCommandId].type \in MotionCommandTypes
               PROVE  \/ freshConnection(robots[Robot1], calls.create.about.now) = "ONLINE"
                      \/ overtaken
    OBVIOUS
  <2>1. PICK in \in DispatchInputs, time \in Nat :
                 /\ Dispatch /\ Accepts(in, time) /\ ~SafetyBlocked(in)
                 /\ m = in.missionId
    BY StillWaiting
  <2>2. in.type \in MotionCommandTypes /\ in.robotId = Robot1
    BY <2>1, AcceptedMission
  <2>3. robots[Robot1].connectionState = "ONLINE"
    BY <2>1, <2>2 DEF SafetyBlocked, isRiskyCommand
  <2> QED
    BY <2>1, <2>3 DEF LookedInv, Dispatch
<1> QED
  BY <1>1, <1>2, <1>3, PTL DEF PlatformSpec, FreshUnlessOvertaken

(***************************************************************************)
(* What waits stays until it is taken up.                                  *)
(***************************************************************************)

LEMMA InboxSteps ==
    ASSUME PlatformInv, [PlatformNext]_platformVars, connected'
    PROVE  \/ inbox' = inbox
           \/ \E frames \in Seq(Frames(edge'.lastSeenCommandSequence)) : inbox' = inbox \o frames
           \/ \E type : /\ NextFrame(type) /\ inbox' = Tail(inbox)
                        /\ type = "edge.hello" => HandleHello
                        /\ type = "edge.command_ack" => HandleAck
           \/ LoseFrame
<1>1. CASE EdgeConnects
  <2>1. edge'.lastSeenCommandSequence = edge.lastSeenCommandSequence
        /\ \E frames \in Seq(Frames(edge.lastSeenCommandSequence)) : inbox' = inbox \o frames
    BY <1>1, EdgeConnectsStep
  <2> QED
    BY <2>1
<1>2. ASSUME NEW frame \in Frames(edge'.lastSeenCommandSequence), inbox' = inbox \o <<frame>>
      PROVE  \E frames \in Seq(Frames(edge'.lastSeenCommandSequence)) : inbox' = inbox \o frames
  <2>1. <<frame>> \in Seq(Frames(edge'.lastSeenCommandSequence))
    OBVIOUS
  <2> QED
    BY <1>2, <2>1
<1>3. CASE EdgeReceives
  BY <1>2, <1>3, EdgeReceivesStep
<1>4. CASE EdgeTelemetry
  <2>1. edge'.lastSeenCommandSequence = edge.lastSeenCommandSequence
    BY <1>4, EdgeTelemetryStep
  <2> QED
    BY <1>2, <1>4, <2>1, EdgeTelemetryStep
<1>5. CASE HandleHello
  <2>1. NextFrame("edge.hello") /\ inbox' = Tail(inbox)
    BY <1>5 DEF HandleHello, Handle, TakeUp
  <2> QED
    BY <1>5, <2>1
<1>6. CASE HandleAck
  <2>1. NextFrame("edge.command_ack") /\ inbox' = Tail(inbox)
    BY <1>6 DEF HandleAck, Handle, TakeUp
  <2> QED
    BY <1>6, <2>1
<1>7. CASE HandleTelemetry \/ HandleDisconnect \/ ReadRobot
  <2>1. \E type \in {"edge.telemetry", "disconnect", "edge.reconnect_handshake"} :
            NextFrame(type) /\ inbox' = Tail(inbox)
    BY <1>7 DEF HandleTelemetry, HandleDisconnect, ReadRobot, Handle, TakeUp
  <2> QED
    BY <2>1
<1>8. \/ inbox' = inbox \/ EdgeConnects \/ EdgeReceives \/ EdgeTelemetry
      \/ HandleHello \/ HandleAck \/ HandleTelemetry \/ HandleDisconnect \/ ReadRobot \/ LoseFrame
  BY DEF PlatformNext, platformVars, linkVars, createMission, cancelMission, RunRequests, RunDemo,
     RunChain, Dispatch, Send, BeginReconnect, HandleHandshake, Apply, ReadPending, SendPending,
     Sweep, EvaluateAt, EvaluateDemoRobot, DemoControl, disconnectDemoRobot, lowBatteryDemo,
     reconnectDemoRobot, demoWrite, demoUnchanged, Drop, Crash, Throws, TimePasses
<1> QED
  BY <1>1, <1>3, <1>4, <1>5, <1>6, <1>7, <1>8

\* A frame of a connection that stays open waits until it is handled or its handler fails.
LEMMA FrameStays ==
    ASSUME PlatformInv, [PlatformNext]_platformVars, connected', NEW i \in DOMAIN inbox
    PROVE  \/ \E j \in DOMAIN inbox' : inbox'[j] = inbox[i]
           \/ inbox[i].type = "edge.hello" /\ HandleHello
           \/ inbox[i].type = "edge.command_ack" /\ HandleAck /\ Frame = inbox[i].payload
           \/ inbox[i].type \notin {"edge.hello", "edge.command_ack"}
           \/ LoseFrame /\ Head(inbox) = inbox[i]
<1> DEFINE old == Frames(edge.lastSeenCommandSequence)
           new == Frames(edge'.lastSeenCommandSequence)
<1>1. inbox \in Seq(old)
  BY DEF PlatformInv, LinkInv
<1> HIDE DEF old, new
<1>2. i \in 1..Len(inbox) /\ Len(inbox) \in Nat
  BY <1>1
<1>3. CASE inbox' = inbox
  BY <1>3
<1>4. ASSUME NEW frames \in Seq(new), inbox' = inbox \o frames
      PROVE  \E j \in DOMAIN inbox' : inbox'[j] = inbox[i]
  <2>1. i \in DOMAIN (inbox \o frames) /\ (inbox \o frames)[i] = inbox[i]
    BY <1>1, <1>2
  <2> QED
    BY <1>4, <2>1
<1>5. ASSUME inbox' = Tail(inbox), i # 1
      PROVE  \E j \in DOMAIN inbox' : inbox'[j] = inbox[i]
  <2>1. i - 1 \in DOMAIN Tail(inbox) /\ Tail(inbox)[i - 1] = inbox[i]
    BY <1>1, <1>2, <1>5
  <2> QED
    BY <1>5, <2>1
<1>6. ASSUME NEW type, NextFrame(type), i = 1 PROVE inbox[i].type = type /\ Frame = inbox[i].payload
  BY <1>1, <1>2, <1>6 DEF NextFrame, Frame
<1>7. ASSUME LoseFrame
      PROVE  (\E j \in DOMAIN inbox' : inbox'[j] = inbox[i]) \/ Head(inbox) = inbox[i]
  BY <1>1, <1>2, <1>5, <1>7 DEF LoseFrame
<1> QED
  BY <1>3, <1>4, <1>5, <1>6, <1>7, InboxSteps DEF new

\* Commands on their way down stay on it until the edge takes them.
LEMMA DownSteps ==
    ASSUME PlatformInv, [PlatformNext]_platformVars, connected'
    PROVE  \/ down' = down
           \/ \E sent \in Seq(Envelopes) : down' = down \o sent
           \/ EdgeReceives
<1>1. ASSUME NEW c \in Issued, sendCommand(c)
      PROVE  down' = down \/ \E sent \in Seq(Envelopes) : down' = down \o sent
  <2>1. down \in Seq(Envelopes) /\ Envelope(c) \in Envelopes
    BY DEF PlatformInv, LinkInv, Envelopes
  <2> DEFINE envelope == Envelope(c)
  <2> HIDE DEF envelope
  <2>2. <<envelope>> \in Seq(Envelopes) /\ Append(down, envelope) = down \o <<envelope>>
    BY <2>1 DEF envelope
  <2> QED
    BY <1>1, <2>2 DEF sendCommand, envelope
<1>2. ASSUME NEW slot \in {"create", "cancel"}, Send(slot)
      PROVE  down' = down \/ \E sent \in Seq(Envelopes) : down' = down \o sent
  <2>1. PICK c \in Issued : calls[slot] = Call(SendLeft, c)
    BY <1>2, CreateAt, CancelAt DEF Send, PlatformInv, SendsCommand
  <2>2. calls[slot].about = c
    BY <2>1, StepAt, TheSlots
  <2> QED
    BY <1>1, <1>2, <2>2 DEF Send
<1>3. CASE SendPending
  <2>1. PICK order \in Seq(Issued) : calls["chain"] = Call(SendPendingLeft, order)
    BY <1>3, ChainAt DEF SendPending, PlatformInv
  <2>2. calls["chain"].about = order
    BY <2>1, StepAt, TheSlots
  <2> DEFINE sent == [i \in DOMAIN order |-> Envelope(order[i])]
  <2>3. sent \in Seq(Envelopes)
    <3>1. \A i \in DOMAIN order : Envelope(order[i]) \in Envelopes
      BY DEF Envelopes
    <3>2. DOMAIN order = 1..Len(order) /\ Len(order) \in Nat
      OBVIOUS
    <3> QED
      BY <3>1, <3>2
  <2>4. down' = down \/ down' = down \o sent
    BY <1>3, <2>2 DEF SendPending
  <2> QED
    BY <2>3, <2>4
<1>4. \/ down' = down \/ Send("create") \/ Send("cancel") \/ SendPending \/ EdgeReceives
  BY DEF PlatformNext, platformVars, linkVars, createMission, cancelMission, RunRequests, RunDemo,
     RunChain, Dispatch, BeginReconnect, HandleHandshake, Apply, HandleHello, HandleAck,
     HandleTelemetry, HandleDisconnect, ReadRobot, Handle, TakeUp, ReadPending, Sweep,
     EvaluateAt, EvaluateDemoRobot, DemoControl, disconnectDemoRobot, lowBatteryDemo,
     reconnectDemoRobot, demoWrite, demoUnchanged, EdgeConnects, EdgeTelemetry, Drop, Crash,
     LoseFrame, Throws, TimePasses
<1> QED
  BY <1>2, <1>3, <1>4

LEMMA CommandStays ==
    ASSUME PlatformInv, [PlatformNext]_platformVars, connected', NEW i \in DOMAIN down
    PROVE  \/ \E j \in DOMAIN down' : down'[j] = down[i]
           \/ EdgeReceives /\ Head(down) = down[i]
<1>1. down \in Seq(Envelopes)
  BY DEF PlatformInv, LinkInv
<1>2. i \in 1..Len(down) /\ Len(down) \in Nat
  BY <1>1
<1>3. CASE down' = down
  BY <1>3
<1>4. ASSUME NEW sent \in Seq(Envelopes), down' = down \o sent
      PROVE  \E j \in DOMAIN down' : down'[j] = down[i]
  <2>1. i \in DOMAIN (down \o sent) /\ (down \o sent)[i] = down[i]
    BY <1>1, <1>2
  <2> QED
    BY <1>4, <2>1
<1>5. CASE EdgeReceives
  <2>1. down' = Tail(down)
    BY <1>5 DEF EdgeReceives
  <2>2. CASE i = 1
    BY <1>1, <1>2, <1>5, <2>2
  <2>3. CASE i # 1
    <3>1. i - 1 \in DOMAIN Tail(down) /\ Tail(down)[i - 1] = down[i]
      BY <1>1, <1>2, <2>3
    <3> QED
      BY <2>1, <3>1
  <2> QED
    BY <2>2, <2>3
<1> QED
  BY <1>3, <1>4, <1>5, DownSteps

\* A send or a delivery that is due stays due until it is done, fails or the process dies.
LEMMA SendStays ==
    ASSUME PlatformInv, [PlatformNext]_platformVars, connected', IsAt("create", "send")
    PROVE  calls'["create"] = calls["create"] \/ Send("create") \/ Throws("create")
<1> USE TheSlots
<1>1. PICK c : calls["create"] = Call(SendLeft, c)
  BY CreateAt DEF PlatformInv, SendsCommand
<1>2. \A step : IsAt("create", step) <=> step = "send"
  BY <1>1, StepAt, StepLists, SomethingLeft
<1>3. calls["create"] # Idle
  BY <1>2, NothingAtIdle
<1>4. CASE \/ RunChain \/ RunDemo \/ DemoControl \/ Send("cancel")
           \/ \E in \in CancelInputs : cancelMission(in)
           \/ \E slot \in Slots \ {"create"} : Throws(slot)
  BY <1>4, CreateUntouched
<1>5. ~Dispatch
  BY <1>2 DEF Dispatch
<1>6. ~\E in \in DispatchInputs : createMission(in)
  BY <1>3 DEF createMission
<1>7. CASE \/ UNCHANGED platformVars \/ Sweep \/ EdgeConnects \/ EdgeReceives \/ EdgeTelemetry
           \/ Drop \/ Crash \/ LoseFrame \/ TimePasses
  BY <1>7 DEF platformVars, Sweep, EdgeConnects, EdgeReceives, EdgeTelemetry, Drop, Crash,
     LoseFrame, TimePasses
<1> QED
  BY <1>4, <1>5, <1>6, <1>7 DEF PlatformNext, RunRequests

LEMMA DeliveryStays ==
    ASSUME PlatformInv, [PlatformNext]_platformVars, connected',
           NEW due \in {"readPending", "sendPending"}, IsAt("chain", due)
    PROVE  \/ calls'["chain"] = calls["chain"]
           \/ due = "readPending" /\ ReadPending
           \/ due = "sendPending" /\ SendPending
           \/ due = "readPending" /\ Throws("chain")
<1> USE TheSlots
<1>1. \A step : IsAt("chain", step) => step = due
  BY DEF IsAt
<1>2. calls["chain"] # Idle
  BY NothingAtIdle
<1>3. ASSUME NEW slot \in {"create", "cancel", "demo"}, NEW todo, NEW about,
             Continue(slot, todo, about)
      PROVE  calls'["chain"] = calls["chain"]
  BY <1>3, Continued DEF PlatformInv, CallsInv
<1>4. CASE Dispatch
  <2>1. \E todo, about : Continue("create", todo, about)
    BY <1>4 DEF Dispatch
  <2> QED
    BY <1>3, <2>1
<1>5. CASE \/ Send("create") \/ Send("cancel") \/ RunDemo
           \/ disconnectDemoRobot \/ reconnectDemoRobot
           \/ \E in \in DispatchInputs : createMission(in)
           \/ \E in \in CancelInputs : cancelMission(in)
  BY <1>3, <1>5
  DEF Send, RunDemo, EvaluateDemoRobot, BeginReconnect, HandleHandshake, Apply, StepDone,
      disconnectDemoRobot, reconnectDemoRobot, createMission, cancelMission
<1>6. CASE HandleHello \/ HandleAck \/ HandleTelemetry \/ HandleDisconnect \/ ReadRobot
  BY <1>2, <1>6 DEF HandleHello, HandleAck, HandleTelemetry, HandleDisconnect, ReadRobot, Handle,
     TakeUp, NextFrame
<1>7. CASE BeginReconnect("chain") \/ HandleHandshake("chain")
  BY <1>1, <1>7 DEF BeginReconnect, HandleHandshake, Apply
<1>8. CASE ReadPending \/ SendPending
  BY <1>1, <1>8 DEF ReadPending, SendPending
<1>9. CASE \/ UNCHANGED platformVars \/ Sweep \/ EdgeConnects \/ EdgeReceives \/ EdgeTelemetry
           \/ Drop \/ Crash \/ LoseFrame \/ TimePasses \/ lowBatteryDemo
  BY <1>9 DEF platformVars, Sweep, EdgeConnects, EdgeReceives, EdgeTelemetry, Drop, Crash,
     LoseFrame, TimePasses, lowBatteryDemo
<1>10. ASSUME NEW slot \in Slots, Throws(slot)
       PROVE  \/ calls'["chain"] = calls["chain"]
              \/ due = "readPending" /\ Throws("chain")
  <2>1. CASE slot = "chain"
    BY <1>10, <2>1 DEF Throws
  <2>2. CASE slot # "chain"
    <3>1. Continue(slot, <<>>, None)
      BY <1>10 DEF Throws
    <3>2. CallsTable
      BY DEF PlatformInv, CallsInv
    <3> QED
      BY <1>10, <2>2, <3>1, <3>2, Continued
  <2> QED
    BY <2>1, <2>2
<1> QED
  BY <1>4, <1>5, <1>6, <1>7, <1>8, <1>9, <1>10 DEF PlatformNext, RunRequests, RunChain, DemoControl

(***************************************************************************)
(* Every dispatch is answered.                                             *)
(***************************************************************************)

\* The command a dispatched mission waits for is pending.
LEMMA WaitsForItsCommand ==
    ASSUME PlatformInv, NEW m \in MissionIds, missions[m].lifecycleState = "DISPATCHED"
    PROVE  LET c == missions[m].currentCommandId IN
           /\ c \in Issued /\ c \in pendingCommands /\ commands[c].missionId = m
<1> DEFINE c == missions[m].currentCommandId
<1>1. c # None /\ c \in MaybeCommand
  BY DEF PlatformInv, IInv, CancellationFlow, TypeOK, Mission
<1>2. CommandExists(c) /\ commands[c].missionId = m
  BY <1>1 DEF PlatformInv, IInv, CurrentCommandMatchesMission
<1> QED
  BY <1>1, <1>2 DEF MaybeCommand, Issued, pendingCommands

LEMMA EnvelopeNames ==
    ASSUME NEW c
    PROVE  Envelope(c).commandId = c
BY DEF Envelope

\* A command sent on an open connection goes down.
LEMMA SendGoesDown ==
    ASSUME PlatformInv, connected, NEW c \in Issued, sendCommand(c)
    PROVE  GoesDown(c)'
<1> DEFINE envelope == Envelope(c)
<1>1. down \in Seq(Envelopes) /\ envelope \in Envelopes /\ envelope.commandId = c
  BY EnvelopeNames DEF PlatformInv, LinkInv, Envelopes
<1>2. down' = Append(down, envelope)
  BY DEF sendCommand
<1> HIDE DEF envelope
<1>3. Len(down) + 1 \in DOMAIN down' /\ down'[Len(down) + 1] = envelope
  BY <1>1, <1>2
<1> QED
  BY <1>1, <1>3 DEF GoesDown

\* So does one that is pending when the chain delivers.
LEMMA DeliveryGoesDown ==
    ASSUME PlatformInv, connected, SendPending, NEW c, NEW i \in DOMAIN calls["chain"].about,
           calls["chain"].about[i] = c
    PROVE  GoesDown(c)'
<1>1. PICK order \in Seq(Issued) : calls["chain"] = Call(SendPendingLeft, order)
  BY ChainAt DEF SendPending, PlatformInv
<1>2. calls["chain"].about = order
  BY <1>1, StepAt, TheSlots
<1> DEFINE sent == [k \in DOMAIN order |-> Envelope(order[k])]
<1>3. down' = down \o sent
  BY <1>2 DEF SendPending
<1>4. sent \in Seq(Envelopes)
  <2>1. \A k \in DOMAIN order : Envelope(order[k]) \in Envelopes
    BY DEF Envelopes
  <2>2. DOMAIN order = 1..Len(order) /\ Len(order) \in Nat
    OBVIOUS
  <2> QED
    BY <2>1, <2>2
<1>5. i \in DOMAIN sent /\ sent[i].commandId = c
  BY <1>2, EnvelopeNames
<1> HIDE DEF sent
<1>6. down \in Seq(Envelopes)
  BY DEF PlatformInv, LinkInv
<1>7. i \in 1..Len(sent) /\ Len(sent) \in Nat /\ Len(down) \in Nat
  BY <1>4, <1>5, <1>6
<1>8. /\ Len(down) + i \in DOMAIN (down \o sent)
      /\ (down \o sent)[Len(down) + i] = sent[i]
  BY <1>4, <1>6, <1>7
<1> QED
  BY <1>3, <1>5, <1>8 DEF GoesDown

\* The delivery after a hello names every pending command.
LEMMA ReadNames ==
    ASSUME PlatformInv, ReadPending, NEW c \in pendingCommands
    PROVE  IsSent(c)'
<1>1. PICK order : BySequence(order) /\ Continue("chain", SendPendingLeft, order)
  BY DEF ReadPending, SendPendingLeft
<1>2. PICK i \in DOMAIN order : order[i] = c
  BY <1>1 DEF BySequence
<1>3. calls'["chain"] = Call(SendPendingLeft, order)
  BY <1>1, Continued, SomethingLeft, TheSlots DEF PlatformInv, CallsInv
<1>4. IsAt("chain", "sendPending")'
  BY <1>3, StepLists, SomethingLeft DEF IsAt, Call
<1>5. calls'["chain"].about = order
  BY <1>3 DEF Call
<1> QED
  BY <1>2, <1>4, <1>5 DEF IsSent

LEMMA HelloBringsDelivery ==
    ASSUME PlatformInv, HandleHello, NEW c
    PROVE  IsSent(c)'
<1>1. Continue("chain", ReadPendingLeft, None)
  BY DEF HandleHello, Handle, TakeUp, ReadPendingLeft
<1>2. calls'["chain"] = Call(ReadPendingLeft, None)
  BY <1>1, Continued, SomethingLeft, TheSlots DEF PlatformInv, CallsInv
<1> QED
  BY <1>2, StepLists, SomethingLeft DEF IsAt, Call, IsSent

\* The first acknowledgement of a waiting mission's command ends the wait, whatever it says.
LEMMA AckEndsTheWait ==
    ASSUME PlatformInv, HandleAck, NEW m \in MissionIds, missions[m].lifecycleState = "DISPATCHED",
           missions[m].lastAcknowledgedCommandSequence = 0,
           Frame.commandId = missions[m].currentCommandId
    PROVE  missions'[m].lifecycleState # "DISPATCHED"
<1> DEFINE c == missions[m].currentCommandId
           n == edge.lastSeenCommandSequence
<1>1. Frame \in SeenUpTo(EdgeAck, n) /\ applyCommandAck(Frame)
  BY TakesFrame DEF HandleAck, Handle, TakeUp
<1>2. PICK ack : ack = Frame
  OBVIOUS
<1>3. /\ ack.commandId = c /\ ack.status \in CommandAckStatuses
      /\ ack.lastSeenCommandSequence \in Nat
  BY <1>1, <1>2 DEF SeenUpTo, EdgeAck
<1>4. CommandExists(c) /\ commands[c].missionId = m
  BY WaitsForItsCommand DEF Issued
<1>5. AckApplies(ack)
  BY <1>3, <1>4, NoneAssumption DEF AckApplies, MissionExists
<1> DEFINE lifecycle == lifecycleFromAckStatus(ack.status, commands[c])
<1>6. lifecycle # "DISPATCHED"
  BY <1>3, LifecycleFromAck
<1>7. missions' = [missions EXCEPT ![m] = missionAfterAck(missions[m], ack, lifecycle)]
  BY <1>1, <1>2, <1>3, <1>4, <1>5 DEF applyCommandAck
<1> HIDE DEF lifecycle
<1>8. missions'[m] = missionAfterAck(missions[m], ack, lifecycle) /\ missions[m] \in Mission
  BY <1>7 DEF PlatformInv, IInv, TypeOK
<1>9. missionAfterAck(missions[m], ack, lifecycle).lifecycleState = lifecycle
  BY <1>8 DEF missionAfterAck, Mission
<1> QED
  BY <1>6, <1>8, <1>9

\* Only the reading of the pending commands forgets which were left behind.
LEMMA MissedStays ==
    ASSUME [PlatformNext]_platformVars
    PROVE  missed \subseteq missed' \/ ReadPending
BY DEF PlatformNext, platformVars, linkVars, createMission, cancelMission, RunRequests, RunDemo,
   RunChain, Dispatch, Send, BeginReconnect, HandleHandshake, Apply, HandleHello, HandleAck,
   HandleTelemetry, HandleDisconnect, ReadRobot, Handle, TakeUp, SendPending, Sweep, EvaluateAt,
   EvaluateDemoRobot, EdgeConnects, EdgeReceives, EdgeTelemetry, DemoControl,
   disconnectDemoRobot, lowBatteryDemo, reconnectDemoRobot, demoWrite, demoUnchanged, Drop, Crash,
   LoseFrame, Throws, TimePasses

\* A connection opens with a hello.  A command or its answer is lost with the connection, or with
\* a call that fails, and that is noted until the pending commands are read.
LEMMA AnsweringGoesOn ==
    ASSUME PlatformInv, [PlatformNext]_platformVars, NEW m \in MissionIds,
           missions[m].lifecycleState = "DISPATCHED",
           missions[m].lastAcknowledgedCommandSequence = 0,
           missions'[m].lifecycleState = "DISPATCHED",
           NEW c, c = missions[m].currentCommandId, Answering(c) \/ c \in missed
    PROVE  Answering(c)' \/ c \in missed'
<1> SUFFICES ASSUME connected' PROVE Answering(c)' \/ c \in missed'
  BY DEF Answering
<1>1. c \in Issued /\ c \in pendingCommands /\ commands[c].missionId = m
  BY WaitsForItsCommand
<1>2. CASE ~connected
  <2>1. EdgeConnects
    BY <1>2 DEF PlatformNext, platformVars, linkVars, createMission, cancelMission, RunRequests,
       RunDemo, RunChain, Dispatch, Send, BeginReconnect, HandleHandshake, Apply, HandleHello,
       HandleAck, HandleTelemetry, HandleDisconnect, ReadRobot, Handle, TakeUp, ReadPending,
       SendPending, Sweep, EvaluateAt, EvaluateDemoRobot, EdgeReceives, EdgeTelemetry,
       DemoControl, disconnectDemoRobot, lowBatteryDemo, reconnectDemoRobot, demoWrite,
       demoUnchanged, Drop, Crash, LoseFrame, Throws, TimePasses
  <2>2. PICK sent \in Seq(Frames(edge.lastSeenCommandSequence)) :
                 inbox' = inbox \o sent /\ \E i \in DOMAIN sent : sent[i].type = "edge.hello"
    BY <2>1, EdgeConnectsStep
  <2>3. PICK i \in DOMAIN sent : sent[i].type = "edge.hello"
    BY <2>2
  <2> DEFINE frames == Frames(edge.lastSeenCommandSequence)
  <2>4. inbox \in Seq(frames) /\ sent \in Seq(frames)
    BY DEF PlatformInv, LinkInv
  <2> HIDE DEF frames
  <2>5. /\ Len(inbox) + i \in DOMAIN (inbox \o sent)
        /\ (inbox \o sent)[Len(inbox) + i] = sent[i]
    BY <2>4
  <2>6. HelloWaits'
    BY <2>2, <2>3, <2>5 DEF HelloWaits
  <2> QED
    BY <2>6 DEF Answering
<1>3. CASE connected /\ IsAt("create", "send") /\ calls["create"].about = c
  <2>1. CASE calls'["create"] = calls["create"]
    BY <1>3, <2>1 DEF IsAt, IsSent, Answering
  <2>2. CASE Send("create")
    BY <1>1, <1>3, <2>2, SendGoesDown DEF Send, Answering
  <2>3. CASE Throws("create")
    <3>1. ~IsAt("create", "readPending")
      BY <1>3 DEF IsAt
    <3>2. missed' = missed \union {calls["create"].about}
      BY <1>3, <2>3, <3>1 DEF Throws
    <3> QED
      BY <1>3, <3>2
  <2> QED
    BY <1>3, <2>1, <2>2, <2>3, SendStays
<1>4. CASE connected /\ IsAt("chain", "readPending")
  <2>1. CASE calls'["chain"] = calls["chain"]
    BY <1>4, <2>1 DEF IsAt, IsSent, Answering
  <2>2. CASE ReadPending
    BY <1>1, <2>2, ReadNames DEF Answering
  <2>3. CASE Throws("chain")
    <3>1. ~IsAt("chain", "send")
      BY <1>4 DEF IsAt
    <3> QED
      BY <1>1, <1>4, <2>3, <3>1 DEF Throws
  <2> QED
    BY <1>4, <2>1, <2>2, <2>3, DeliveryStays
<1>5. ASSUME connected, IsAt("chain", "sendPending"), NEW i \in DOMAIN calls["chain"].about,
             calls["chain"].about[i] = c
      PROVE  Answering(c)'
  <2>1. CASE calls'["chain"] = calls["chain"]
    BY <1>5, <2>1 DEF IsAt, IsSent, Answering
  <2>2. CASE SendPending
    BY <1>5, <2>2, DeliveryGoesDown DEF Answering
  <2> QED
    BY <1>5, <2>1, <2>2, DeliveryStays
<1>6. ASSUME NEW i \in DOMAIN inbox, inbox[i].type = "edge.hello"
      PROVE  Answering(c)' \/ c \in missed'
  <2>1. CASE \E j \in DOMAIN inbox' : inbox'[j] = inbox[i]
    BY <1>6, <2>1 DEF HelloWaits, Answering
  <2>2. CASE HandleHello
    BY <2>2, HelloBringsDelivery DEF Answering
  <2>3. CASE LoseFrame /\ Head(inbox) = inbox[i]
    BY <1>1, <1>6, <2>3 DEF LoseFrame
  <2> QED
    BY <1>6, <2>1, <2>2, <2>3, FrameStays
<1>7. ASSUME NEW i \in DOMAIN inbox, inbox[i].type = "edge.command_ack",
             inbox[i].payload.commandId = c
      PROVE  Answering(c)' \/ c \in missed'
  <2>1. CASE \E j \in DOMAIN inbox' : inbox'[j] = inbox[i]
    BY <1>7, <2>1 DEF AckWaits, Answering
  <2>2. CASE HandleAck /\ Frame = inbox[i].payload
    BY <1>7, <2>2, AckEndsTheWait
  <2>3. CASE LoseFrame /\ Head(inbox) = inbox[i]
    BY <1>7, <2>3 DEF LoseFrame, Frame
  <2> QED
    BY <1>7, <2>1, <2>2, <2>3, FrameStays
<1>8. ASSUME NEW i \in DOMAIN down, down[i].commandId = c PROVE Answering(c)'
  <2>1. CASE \E j \in DOMAIN down' : down'[j] = down[i]
    BY <1>8, <2>1 DEF GoesDown, Answering
  <2>2. CASE EdgeReceives /\ Head(down) = down[i]
    <3> DEFINE frames == Frames(edge'.lastSeenCommandSequence)
    <3>1. PICK frame \in frames : /\ inbox' = inbox \o <<frame>>
                                  /\ frame.type = "edge.command_ack"
                                  /\ frame.payload.commandId = c
      BY <1>8, <2>2, EdgeReceivesStep
    <3>2. inbox \in Seq(Frames(edge.lastSeenCommandSequence))
      BY DEF PlatformInv, LinkInv
    <3>3. inbox \in Seq(frames)
      BY <3>2, EdgeStateKept, FramesGrow, SeqGrows DEF EdgeGrows
    <3> HIDE DEF frames
    <3>4. /\ Len(inbox) + 1 \in DOMAIN (inbox \o <<frame>>)
          /\ (inbox \o <<frame>>)[Len(inbox) + 1] = frame
      BY <3>3, Appended
    <3>5. AckWaits(c)'
      BY <3>1, <3>4 DEF AckWaits
    <3> QED
      BY <3>5 DEF Answering
  <2> QED
    BY <1>8, <2>1, <2>2, CommandStays
<1>9. ASSUME c \in missed PROVE Answering(c)' \/ c \in missed'
  <2>1. CASE ReadPending
    BY <1>1, <2>1, ReadNames DEF Answering
  <2> QED
    BY <1>9, <2>1, MissedStays
<1> QED
  BY <1>2, <1>3, <1>4, <1>5, <1>6, <1>7, <1>8, <1>9
  DEF Answering, IsSent, HelloWaits, AckWaits, GoesDown, PlatformInv, FlagsInv

LEMMA AnswerInvStep ==
    ASSUME PlatformInv, AnswerInv, [PlatformNext]_platformVars
    PROVE  AnswerInv'
<1> SUFFICES ASSUME NEW m \in MissionIds, missions'[m].lifecycleState = "DISPATCHED"
             PROVE  /\ missions'[m].lastAcknowledgedCommandSequence = 0
                    /\ \/ Answering(missions[m].currentCommandId)'
                       \/ (missions[m].currentCommandId \in missed)'
  BY DEF AnswerInv
<1>1. PICK c : c = missions'[m].currentCommandId
  OBVIOUS
<1>2. Answering(c)' => Answering(missions[m].currentCommandId)'
  BY <1>1 DEF Answering, IsSent, GoesDown, AckWaits
<1>3. CASE /\ missions[m].lifecycleState = "DISPATCHED"
           /\ missions[m].currentCommandId = c
           /\ missions'[m].lastAcknowledgedCommandSequence =
                  missions[m].lastAcknowledgedCommandSequence
  <2>1. missions[m].lastAcknowledgedCommandSequence = 0 /\ (Answering(c) \/ c \in missed)
    BY <1>3 DEF AnswerInv
  <2> QED
    BY <1>1, <1>2, <1>3, <2>1, AnsweringGoesOn
<1>5. ASSUME NEW in \in DispatchInputs, NEW time \in Nat, Dispatch, Accepts(in, time),
             m = in.missionId
      PROVE  /\ missions'[m].lastAcknowledgedCommandSequence = 0
             /\ Answering(c)'
  <2>1. in.type # "ABSENT" /\ in.commandId \in CommandIds /\ in.commandId # None
    BY InputAssumption, NoneAssumption DEF DispatchInput, CommandTypes
  <2>2. commands[in.commandId].type = "ABSENT"
    BY <1>5, <2>1 DEF Accepts, Malformed, CommandExists
  <2>3. commands' # commands
    BY <1>5, <2>1, <2>2, AcceptedMission
  <2>4. PICK dispatched \in DispatchInputs, asked \in Nat :
                 /\ Accepts(dispatched, asked)
                 /\ Continue("create", SendLeft, dispatched.commandId)
    BY <1>5, <2>3, DispatchAccepts
  <2>5. /\ missions'[m].lastAcknowledgedCommandSequence = 0
        /\ c = in.commandId
    BY <1>1, <1>5, AcceptedMission
  <2>6. dispatched.commandId \in CommandIds /\ dispatched.commandId # None
        /\ dispatched.type # "ABSENT"
    BY InputAssumption, NoneAssumption DEF DispatchInput, CommandTypes
  <2>7. dispatched.commandId = c
    <3>1. commands'[dispatched.commandId].type # commands[dispatched.commandId].type
      BY <2>4, <2>6, AcceptedMission DEF Accepts, Malformed, CommandExists
    <3>2. \E command : commands' = [commands EXCEPT ![in.commandId] = command]
      BY <1>5 DEF Accepts, acceptDispatch, Issue
    <3> QED
      BY <2>5, <2>6, <3>1, <3>2 DEF PlatformInv, IInv, TypeOK
  <2>8. calls'["create"] = Call(SendLeft, c)
    BY <2>4, <2>7, Continued, SomethingLeft, TheSlots DEF PlatformInv, CallsInv
  <2>9. IsSent(c)'
    BY <2>8, StepLists, SomethingLeft DEF IsSent, IsAt, Call
  <2> QED
    BY <2>5, <2>9 DEF Answering
<1> QED
  BY <1>1, <1>2, <1>3, <1>5, StillWaiting

\* Only a failed call forgets a dispatch: in a quiet system the missions that wait for an answer
\* are those whose command a call that failed left behind.
THEOREM DispatchesAreNotForgotten == PlatformSpec => []QuietMeansAnswered
<1> DEFINE Inv == PlatformInv /\ AnswerInv
<1>1. PlatformInit => Inv
  <2> SUFFICES ASSUME PlatformInit PROVE Inv
    OBVIOUS
  <2>1. \A m \in MissionIds : missions[m].lifecycleState = "ABSENT"
    BY DEF PlatformInit, NoMission
  <2> QED
    BY <2>1, PlatformInvInit DEF AnswerInv
<1>2. Inv /\ [PlatformNext]_platformVars => Inv'
  BY PlatformInvStep, AnswerInvStep
<1>3. Inv => QuietMeansAnswered
  <2> SUFFICES ASSUME Inv, Quiet, NEW m \in MissionIds, missions[m].lifecycleState = "DISPATCHED"
               PROVE  missions[m].currentCommandId \in missed
    BY DEF QuietMeansAnswered
  <2>1. PICK c : c = missions[m].currentCommandId /\ (Answering(c) \/ c \in missed)
    BY DEF AnswerInv
  <2>2. calls["create"] = Idle /\ calls["chain"] = Idle
    BY TheSlots DEF Quiet
  <2>3. ~IsSent(c)
    BY <2>2, NothingAtIdle, TheSlots DEF IsSent
  <2>4. connected /\ DOMAIN inbox = {} /\ DOMAIN down = {}
    BY DEF Quiet
  <2> QED
    BY <2>1, <2>3, <2>4 DEF Answering, HelloWaits, GoesDown, AckWaits
<1> QED
  BY <1>1, <1>2, <1>3, PTL DEF PlatformSpec
=============================================================================
