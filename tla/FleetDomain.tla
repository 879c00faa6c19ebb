----------------------------- MODULE FleetDomain -----------------------------
(***************************************************************************)
(* The reducers of packages/fleet-domain: pure functions from a            *)
(* DomainState and an input to the next DomainState, plus the one write    *)
(* to that state made outside the package (handleEdgeConnected of          *)
(* apps/fleet-platform).  The repository runs one reducer at a time, so    *)
(* each reducer is one action.                                             *)
(*                                                                         *)
(* Inputs are whatever the protocol schemas let through: a request, an     *)
(* acknowledgement, a telemetry event or a handshake may name any mission, *)
(* robot, command and sequence, arrive late, out of order or twice.        *)
(*                                                                         *)
(* Left out: poses, health, failure texts, edge versions and updatedAt     *)
(* stamps, which no reducer reads back, and the pair of event records a    *)
(* reducer appends last, an append-only output.  An absent record or field *)
(* is a value of its own: lifecycle "ABSENT", connection "UNKNOWN", the    *)
(* identifier None, the sequence or time 0 (both start at 1).              *)
(***************************************************************************)
EXTENDS Integers

CONSTANTS
    MissionIds, RobotIds, CommandIds, IdempotencyKeys,
    AckIds, EventIds, SessionIds,   \* ids the edge stamps on its messages
    None,                           \* no mission, robot, command or key
    Payloads, InvalidPayloads,      \* command payloads; those validation refuses
    AllowedCommandTypes,            \* DomainConfig.allowedCommandTypes
    TelemetryStaleAfter, TelemetryDegradedAfter, TelemetryOfflineAfter,
    MaxCommandTtl,
    MaxTime,                        \* bound on the clock
    DispatchInputs, CancelInputs,   \* the requests operators may send
    CommandAcks, TelemetryEvents, ReconnectHandshakes, EdgeHellos
                                    \* the messages edges may send

CommandTypes == {"GO_TO_POSE", "CANCEL_MISSION", "PAUSE_MISSION", "RESUME_MISSION",
                 "EMERGENCY_STOP"}
MotionCommandTypes == {"GO_TO_POSE", "RESUME_MISSION"}
SafetyClasses == {"NORMAL", "RISKY", "EMERGENCY_STOP"}
CommandAckStatuses == {"ACCEPTED", "REJECTED", "EXPIRED", "DUPLICATE", "FAILED"}
SettledStates == {"REJECTED", "SAFETY_BLOCKED", "CANCELLED", "SUCCEEDED", "FAILED",
                  "TIMED_OUT", "MANUAL_REVIEW"}
ActiveStates == {"DISPATCHED", "RUNNING", "CANCEL_REQUESTED"}
LifecycleStates == SettledStates \union ActiveStates \union {"ABSENT"}
OperationalStatuses == {"NOMINAL", "DEGRADED", "RECONNECTING", "RECONCILING", "RECOVERED"}
ConnectionStates == {"ONLINE", "STALE", "DEGRADED", "OFFLINE", "RECONNECTING"}
BatteryLevels == {"UNKNOWN", "OK", "LOW"}  \* LOW is below lowBatteryPercent

VARIABLES
    missions,             \* MissionSnapshot of each mission id
    robots,               \* RobotSnapshot of each robot id
    commands,             \* the command issued under each command id
    idempotencyRecords,   \* the request each operator key stands for
    nextSequenceByRobot,  \* next command sequence of each robot, 0 if unset
    processedEventIds, processedAckIds, processedReconnectSessionIds,
    now                   \* the wall clock

vars == <<missions, robots, commands, idempotencyRecords, nextSequenceByRobot,
          processedEventIds, processedAckIds, processedReconnectSessionIds, now>>

issueVars == <<commands, idempotencyRecords, nextSequenceByRobot>>
inboxVars == <<processedEventIds, processedAckIds, processedReconnectSessionIds>>

Times == 1..MaxTime
MaybeMission == MissionIds \union {None}
MaybeCommand == CommandIds \union {None}

Mission == [robotId : RobotIds \union {None}, lifecycleState : LifecycleStates,
            operationalStatus : OperationalStatuses,
            currentCommandId : MaybeCommand, lastCommandSequence : Nat,
            lastAcknowledgedCommandId : MaybeCommand,
            lastAcknowledgedCommandSequence : Nat]
Robot == [connectionState : ConnectionStates \union {"UNKNOWN"}, battery : BatteryLevels,
          activeMissionId : MaybeMission, lastSeenCommandSequence : Nat,
          lastTelemetryObservedAt : Nat, lastTelemetryReceivedAt : Nat]
Command == [missionId : MaybeMission, robotId : RobotIds \union {None},
            type : CommandTypes \union {"ABSENT"},
            idempotencyKey : IdempotencyKeys \union {None}, sequence : Nat, expiresAt : Nat]
Signature == [missionId : MissionIds, robotId : RobotIds \union {None},
              type : CommandTypes, payload : Payloads]
IdempotencyRecord == [payloadSignature : Signature, commandId : CommandIds,
                      missionId : MissionIds]

NoMission == [robotId |-> None, lifecycleState |-> "ABSENT", operationalStatus |-> "NOMINAL",
              currentCommandId |-> None, lastCommandSequence |-> 0,
              lastAcknowledgedCommandId |-> None, lastAcknowledgedCommandSequence |-> 0]
NoRobot == [connectionState |-> "UNKNOWN", battery |-> "UNKNOWN", activeMissionId |-> None,
            lastSeenCommandSequence |-> 0,
            lastTelemetryObservedAt |-> 0, lastTelemetryReceivedAt |-> 0]
NoCommand == [missionId |-> None, robotId |-> None, type |-> "ABSENT",
              idempotencyKey |-> None, sequence |-> 0, expiresAt |-> 0]
NoRecord == None

(***************************************************************************)
(* Inputs.  The service stamps a request's issuedAt and now with the time  *)
(* it came in, so a request carries its lifetime and a reducer takes that  *)
(* time; the times in edge messages are the edge's own.                    *)
(***************************************************************************)
DispatchInput == [commandId : CommandIds, missionId : MissionIds, robotId : RobotIds,
                  type : CommandTypes, safetyClass : SafetyClasses, payload : Payloads,
                  idempotencyKey : IdempotencyKeys, ttl : Nat]
CancelInput == [commandId : CommandIds, missionId : MissionIds, payload : Payloads,
                idempotencyKey : IdempotencyKeys, ttl : Nat]
CommandAck == [ackId : AckIds, commandId : CommandIds, status : CommandAckStatuses,
               lastSeenCommandSequence : Nat]
Telemetry == [eventId : EventIds, robotId : RobotIds, connectionState : ConnectionStates,
              healthy : BOOLEAN, battery : BatteryLevels \ {"UNKNOWN"},
              currentMissionId : MaybeMission, lastAcknowledgedCommandId : MaybeCommand,
              lastSeenCommandSequence : Nat, observedAt : Nat \ {0},
              receivedAt : Nat \ {0}]
Handshake == [edgeSessionId : SessionIds, robotId : RobotIds,
              reportedMissionId : MaybeMission,
              reportedLifecycle : LifecycleStates \ {"ABSENT"},
              lastAcknowledgedCommandId : MaybeCommand, lastSeenCommandSequence : Nat,
              connectedAt : Nat \ {0}, lastTelemetryObservedAt : Nat \ {0}]
Hello == [robotId : RobotIds, lastSeenCommandSequence : Nat]

ASSUME NoneAssumption ==
    /\ None \notin MissionIds \union RobotIds \union CommandIds \union IdempotencyKeys
    /\ None \notin IdempotencyRecord
ASSUME InputAssumption ==
    /\ DispatchInputs \subseteq DispatchInput
    /\ CancelInputs \subseteq CancelInput
    /\ CommandAcks \subseteq CommandAck
    /\ TelemetryEvents \subseteq Telemetry
    /\ ReconnectHandshakes \subseteq Handshake
    /\ EdgeHellos \subseteq Hello
ASSUME ConfigAssumption ==
    /\ TelemetryStaleAfter \in Nat /\ TelemetryDegradedAfter \in Nat
    /\ TelemetryOfflineAfter \in Nat /\ MaxCommandTtl \in Nat
    /\ MaxTime \in Nat \ {0}

MissionExists(m) == m # None /\ missions[m].lifecycleState # "ABSENT"
RobotExists(r) == robots[r].connectionState # "UNKNOWN"
CommandExists(c) == c # None /\ commands[c].type # "ABSENT"

isActiveMission(state) == state \in ActiveStates

\* Mutant: the later report wins.
Latest(a, b) == b
Larger(a, b) == IF a >= b THEN a ELSE b

\* The id of an edge message joins those already processed.
\* Mutant: the id is never recorded.
Forgotten(processed, id) == processed
Remembered(processed, id) == processed \union {id}

(***************************************************************************)
(* Dispatch: dispatch.ts.                                                  *)
(***************************************************************************)

dispatchSignature(in) == [missionId |-> in.missionId, robotId |-> in.robotId,
                          type |-> in.type, payload |-> in.payload]
cancelSignature(in) == [missionId |-> in.missionId, robotId |-> None,
                        type |-> "CANCEL_MISSION", payload |-> in.payload]

\* Mutant: a repeated request is not recognised, only a conflicting one.
ConflictingKey(key, signature) ==
    /\ idempotencyRecords[key] # NoRecord
    /\ idempotencyRecords[key].payloadSignature # signature

\* The key was used before: a different request is a conflict, the same one is answered with
\* the command it produced.  Neither changes a snapshot.
AnsweredByKey(key, signature) ==
    LET record == idempotencyRecords[key] IN
    /\ record # NoRecord
    /\ \/ record.payloadSignature # signature
       \/ CommandExists(record.commandId) /\ MissionExists(record.missionId)

LifetimeRefused(ttl) == ttl <= 0 \/ ttl > MaxCommandTtl

isRiskyCommand(in) == in.safetyClass # "NORMAL" \/ in.type \in MotionCommandTypes

\* Mutant: a command id may be used again.
MalformedButForItsId(in) ==
    \/ in.type \notin AllowedCommandTypes
    \/ in.payload \in InvalidPayloads
    \/ LifetimeRefused(in.ttl)

Malformed(in) ==
    \/ CommandExists(in.commandId)
    \/ in.type \notin AllowedCommandTypes
    \/ in.payload \in InvalidPayloads
    \/ LifetimeRefused(in.ttl)

AssignedElsewhere(in) ==
    LET active == robots[in.robotId].activeMissionId IN
    active \notin {None, in.missionId} /\ isActiveMission(missions[active].lifecycleState)

SafetyBlocked(in) ==
    \/ isRiskyCommand(in) /\ \/ robots[in.robotId].connectionState # "ONLINE"
                             \/ robots[in.robotId].battery = "LOW"
    \/ AssignedElsewhere(in)
    \/ robots[in.robotId].connectionState = "RECONNECTING"

\* Mutant: the rejected request keeps the command its mission id waited for.
rejectDispatchInPlace(in, lifecycle) ==
    /\ missions' = [missions EXCEPT ![in.missionId] =
           [@ EXCEPT !.robotId = in.robotId, !.lifecycleState = lifecycle,
                     !.operationalStatus = "DEGRADED"]]
    /\ UNCHANGED <<robots, issueVars, inboxVars, now>>

\* The rejected request replaces whatever snapshot its mission id had.
rejectDispatch(in, lifecycle) ==
    /\ missions' = [missions EXCEPT ![in.missionId] =
           [NoMission EXCEPT !.robotId = in.robotId, !.lifecycleState = lifecycle,
                             !.operationalStatus = "DEGRADED"]]
    /\ UNCHANGED <<robots, issueVars, inboxVars, now>>

Issue(c, command, signature) ==
    /\ commands' = [commands EXCEPT ![c] = command]
    /\ idempotencyRecords' = [idempotencyRecords EXCEPT ![command.idempotencyKey] =
           [payloadSignature |-> signature, commandId |-> c, missionId |-> command.missionId]]
    /\ nextSequenceByRobot' =
           [nextSequenceByRobot EXCEPT ![command.robotId] = command.sequence + 1]

\* Mutant: the next sequence follows what the edge has seen, not what was issued.
sequenceAfterSeen(r) == robots[r].lastSeenCommandSequence + 1
dispatchSequence(r) == IF nextSequenceByRobot[r] = 0 THEN 1 ELSE nextSequenceByRobot[r]

acceptDispatch(in, time) ==
    LET sequence == dispatchSequence(in.robotId) IN
    /\ Issue(in.commandId,
             [missionId |-> in.missionId, robotId |-> in.robotId, type |-> in.type,
              idempotencyKey |-> in.idempotencyKey, sequence |-> sequence,
              expiresAt |-> time + in.ttl],
             dispatchSignature(in))
    /\ missions' = [missions EXCEPT ![in.missionId] =
           [NoMission EXCEPT !.robotId = in.robotId, !.lifecycleState = "DISPATCHED",
                             !.currentCommandId = in.commandId,
                             !.lastCommandSequence = sequence]]
    /\ robots' = [robots EXCEPT
           ![in.robotId].connectionState = IF @ = "UNKNOWN" THEN "ONLINE" ELSE @,
           ![in.robotId].activeMissionId = in.missionId]
    /\ UNCHANGED <<inboxVars, now>>

dispatchMissionCommand(in, time) ==
    /\ ~AnsweredByKey(in.idempotencyKey, dispatchSignature(in))
    /\ \/ Malformed(in) /\ rejectDispatch(in, "REJECTED")
       \/ ~Malformed(in) /\ SafetyBlocked(in) /\ rejectDispatch(in, "SAFETY_BLOCKED")
       \/ ~Malformed(in) /\ ~SafetyBlocked(in) /\ acceptDispatch(in, time)

(***************************************************************************)
(* Cancellation: cancel.ts.  A refused cancellation changes no snapshot.   *)
(***************************************************************************)

cancelSequence(m) ==
    LET r == missions[m].robotId IN
    IF nextSequenceByRobot[r] # 0 THEN nextSequenceByRobot[r]
    ELSE IF missions[m].lastCommandSequence # 0 THEN missions[m].lastCommandSequence + 1
    ELSE robots[r].lastSeenCommandSequence + 1

requestMissionCancellation(in, time) ==
    LET mission == missions[in.missionId]
        sequence == cancelSequence(in.missionId) IN
    /\ MissionExists(in.missionId)
    /\ ~AnsweredByKey(in.idempotencyKey, cancelSignature(in))
    /\ isActiveMission(mission.lifecycleState)
    /\ ~CommandExists(in.commandId)
    /\ ~LifetimeRefused(in.ttl)
    /\ Issue(in.commandId,
             [missionId |-> in.missionId, robotId |-> mission.robotId,
              type |-> "CANCEL_MISSION", idempotencyKey |-> in.idempotencyKey,
              sequence |-> sequence, expiresAt |-> time + in.ttl],
             cancelSignature(in))
    /\ missions' = [missions EXCEPT ![in.missionId] =
           [@ EXCEPT !.lifecycleState = "CANCEL_REQUESTED",
                     !.currentCommandId = in.commandId, !.lastCommandSequence = sequence]]
    /\ UNCHANGED <<robots, inboxVars, now>>

(***************************************************************************)
(* Acknowledgement and timeout: ack.ts.                                    *)
(***************************************************************************)

\* Mutant: an ack status without a mapping becomes the lifecycle state.
unmappedAckStatus(status, command) ==
    IF status = "ACCEPTED" THEN "RUNNING" ELSE status

\* Mutant: the type of the acknowledged command is ignored.
cancelOnAnyAck(status, command) == IF status = "ACCEPTED" THEN "CANCELLED" ELSE "FAILED"

lifecycleFromAckStatus(status, command) ==
    CASE status \in {"ACCEPTED", "DUPLICATE"} ->
             IF command.type = "CANCEL_MISSION" THEN "CANCELLED" ELSE "RUNNING"
      [] status = "EXPIRED" -> "TIMED_OUT"
      [] status = "REJECTED" -> "REJECTED"
      [] OTHER -> "FAILED"

\* An ack for an unknown command, or older than one already applied, is only remembered.
AckApplies(ack) ==
    LET m == commands[ack.commandId].missionId IN
    /\ CommandExists(ack.commandId)
    /\ MissionExists(m)
    /\ ack.lastSeenCommandSequence >= missions[m].lastAcknowledgedCommandSequence

robotAfterAck(r, m, lifecycle, lastSeen) ==
    [robots[r] EXCEPT
        !.connectionState = "ONLINE",
        !.activeMissionId = IF isActiveMission(lifecycle) \/ ~RobotExists(r) THEN m ELSE None,
        !.lastSeenCommandSequence = Larger(@, lastSeen)]

missionAfterAck(mission, ack, lifecycle) ==
    [mission EXCEPT
        !.lifecycleState = lifecycle,
        !.operationalStatus = IF ack.status = "ACCEPTED" THEN "NOMINAL" ELSE "DEGRADED",
        !.lastAcknowledgedCommandId = ack.commandId,
        !.lastAcknowledgedCommandSequence = ack.lastSeenCommandSequence]

applyCommandAck(ack) ==
    LET command == commands[ack.commandId]
        lifecycle == lifecycleFromAckStatus(ack.status, command) IN
    /\ ack.ackId \notin processedAckIds
    /\ processedAckIds' = Remembered(processedAckIds, ack.ackId)
    /\ \/ ~AckApplies(ack) /\ UNCHANGED <<missions, robots>>
       \/ /\ AckApplies(ack)
          /\ missions' = [missions EXCEPT ![command.missionId] =
                              missionAfterAck(@, ack, lifecycle)]
          /\ robots' = [robots EXCEPT ![command.robotId] =
                 robotAfterAck(command.robotId, command.missionId, lifecycle,
                               ack.lastSeenCommandSequence)]
    /\ UNCHANGED <<issueVars, processedEventIds, processedReconnectSessionIds, now>>

applyMissionTimeout(m) ==
    LET c == missions[m].currentCommandId IN
    /\ missions[m].lifecycleState = "DISPATCHED"
    /\ CommandExists(c)
    /\ commands[c].expiresAt <= now
    /\ missions' = [missions EXCEPT ![m] =
           [@ EXCEPT !.lifecycleState = "TIMED_OUT", !.operationalStatus = "DEGRADED"]]
    /\ UNCHANGED <<robots, issueVars, inboxVars, now>>

(***************************************************************************)
(* Telemetry and its freshness: telemetry.ts.                              *)
(***************************************************************************)

\* Mutant: settled missions are repainted too.
RepaintAny(m, status) ==
    IF m # None /\ MissionExists(m) THEN [missions EXCEPT ![m].operationalStatus = status]
    ELSE missions

\* The snapshot of m after a step that repaints its operational status while it is active.
RepaintActive(m, status) ==
    IF m # None /\ isActiveMission(missions[m].lifecycleState)
    THEN [missions EXCEPT ![m].operationalStatus = status]
    ELSE missions

missionAfterTelemetry(mission, telemetry) ==
    [mission EXCEPT
        !.lifecycleState = IF @ = "DISPATCHED" THEN "RUNNING" ELSE @,
        !.operationalStatus = IF telemetry.connectionState = "ONLINE" /\ telemetry.healthy
                              THEN "NOMINAL" ELSE "DEGRADED",
        !.lastAcknowledgedCommandId =
            IF telemetry.lastAcknowledgedCommandId # None
            THEN telemetry.lastAcknowledgedCommandId ELSE @,
        !.lastAcknowledgedCommandSequence = telemetry.lastSeenCommandSequence]

ingestRobotTelemetry(telemetry) ==
    LET r == telemetry.robotId
        m == telemetry.currentMissionId IN
    /\ telemetry.eventId \notin processedEventIds
    /\ processedEventIds' = Remembered(processedEventIds, telemetry.eventId)
    /\ robots' = [robots EXCEPT ![r] =
           [connectionState |-> telemetry.connectionState, battery |-> telemetry.battery,
            activeMissionId |-> IF m # None THEN m ELSE @.activeMissionId,
            lastSeenCommandSequence |->
                Larger(@.lastSeenCommandSequence, telemetry.lastSeenCommandSequence),
            lastTelemetryObservedAt |-> telemetry.observedAt,
            lastTelemetryReceivedAt |-> telemetry.receivedAt]]
    /\ missions' = IF m # None /\ isActiveMission(missions[m].lifecycleState)
                   THEN [missions EXCEPT ![m] = missionAfterTelemetry(@, telemetry)]
                   ELSE missions
    /\ UNCHANGED <<issueVars, processedAckIds, processedReconnectSessionIds, now>>

classifyConnectionState(age) ==
    CASE age >= TelemetryOfflineAfter -> "OFFLINE"
      [] age < TelemetryOfflineAfter /\ age >= TelemetryDegradedAfter -> "DEGRADED"
      [] /\ age < TelemetryOfflineAfter /\ age < TelemetryDegradedAfter
         /\ age >= TelemetryStaleAfter -> "STALE"
      [] OTHER -> "ONLINE"

lastSeenAt(robot) == IF robot.lastTelemetryReceivedAt # 0 THEN robot.lastTelemetryReceivedAt
                     ELSE robot.lastTelemetryObservedAt

\* What the robot's telemetry was worth at that time.
freshConnection(robot, time) == IF lastSeenAt(robot) # 0
                                THEN classifyConnectionState(time - lastSeenAt(robot))
                                ELSE "OFFLINE"

evaluateTelemetryFreshness(r, time) ==
    LET next == freshConnection(robots[r], time) IN
    /\ RobotExists(r)
    /\ next # robots[r].connectionState
    /\ robots' = [robots EXCEPT ![r].connectionState = next]
    /\ missions' = RepaintActive(robots[r].activeMissionId,
                                 IF next = "ONLINE" THEN "NOMINAL" ELSE "DEGRADED")
    /\ UNCHANGED <<issueVars, inboxVars, now>>

(***************************************************************************)
(* Reconnect and reconciliation: reconnect.ts.                             *)
(***************************************************************************)

beginReconnect(r) ==
    /\ RobotExists(r)
    /\ robots' = [robots EXCEPT ![r].connectionState = "RECONNECTING"]
    /\ missions' = RepaintActive(robots[r].activeMissionId, "RECONNECTING")
    /\ UNCHANGED <<issueVars, inboxVars, now>>

\* The robot saw a command that had expired before anyone acknowledged it.
SawExpiredCommand(handshake, mission) ==
    LET c == mission.currentCommandId IN
    /\ mission.lifecycleState = "DISPATCHED"
    /\ CommandExists(c)
    /\ commands[c].expiresAt < handshake.connectedAt
    /\ handshake.lastSeenCommandSequence >= commands[c].sequence

\* The robot missed a command and its last acknowledgement does not explain the gap.
UnexplainedGap(handshake, mission) ==
    /\ handshake.lastSeenCommandSequence < mission.lastCommandSequence
    /\ handshake.lastAcknowledgedCommandId # mission.lastAcknowledgedCommandId

decideReconciliation(handshake) ==
    LET reported == handshake.reportedMissionId
        active == robots[handshake.robotId].activeMissionId IN
    IF \/ ~MissionExists(reported)
       \/ MissionExists(active) /\ active # reported
       \/ SawExpiredCommand(handshake, missions[reported])
       \/ UnexplainedGap(handshake, missions[reported])
    THEN "MANUAL_REVIEW"
    ELSE CASE handshake.reportedLifecycle = "SUCCEEDED" -> "MARK_SUCCEEDED"
           [] handshake.reportedLifecycle = "FAILED" -> "MARK_FAILED"
           [] OTHER -> "RESUME_RUNNING"

\* Mutant: a resumed mission waits for its command again.
resumeAsDispatched(mission, outcome) ==
    [mission EXCEPT
        !.lifecycleState = IF outcome = "MANUAL_REVIEW" THEN outcome ELSE "DISPATCHED",
        !.operationalStatus = "RECOVERED"]

applyReconciliationToMission(mission, outcome) ==
    [mission EXCEPT
        !.lifecycleState = CASE outcome = "MARK_SUCCEEDED" -> "SUCCEEDED"
                             [] outcome = "MARK_FAILED" -> "FAILED"
                             [] outcome = "MANUAL_REVIEW" -> "MANUAL_REVIEW"
                             [] OTHER -> "RUNNING",
        !.operationalStatus = IF outcome = "MANUAL_REVIEW" THEN "RECONCILING"
                              ELSE "RECOVERED"]

\* The mission a decision applies to: the reported one, or under review the one the cloud
\* believes the robot runs.
ReconciledMission(handshake, outcome) ==
    LET active == robots[handshake.robotId].activeMissionId IN
    CASE MissionExists(handshake.reportedMissionId) -> handshake.reportedMissionId
      [] ~MissionExists(handshake.reportedMissionId) /\ MissionExists(active)
         /\ outcome = "MANUAL_REVIEW" -> active
      [] OTHER -> None

\* The assignment a reconciliation leaves on the robot.
ReconciledAssignment(r, m, lifecycle) ==
    CASE m # None /\ isActiveMission(lifecycle) -> m
      [] m = None -> robots[r].activeMissionId
      [] OTHER -> None

processReconnectHandshake(handshake) ==
    LET r == handshake.robotId
        outcome == decideReconciliation(handshake)
        m == ReconciledMission(handshake, outcome)
        next == applyReconciliationToMission(IF m = None THEN NoMission ELSE missions[m], outcome)
    IN
    /\ handshake.edgeSessionId \notin processedReconnectSessionIds
    /\ processedReconnectSessionIds' =
           Remembered(processedReconnectSessionIds, handshake.edgeSessionId)
    /\ missions' = IF m = None THEN missions ELSE [missions EXCEPT ![m] = next]
    /\ robots' = [robots EXCEPT ![r] =
           [robots[r] EXCEPT
              !.connectionState = IF outcome = "MANUAL_REVIEW" THEN "DEGRADED" ELSE "ONLINE",
              !.activeMissionId = ReconciledAssignment(r, m, next.lifecycleState),
              !.lastSeenCommandSequence = Larger(@, handshake.lastSeenCommandSequence),
              !.lastTelemetryObservedAt = handshake.lastTelemetryObservedAt]]
    /\ UNCHANGED <<issueVars, processedEventIds, processedAckIds, now>>

\* service.ts: an edge that says hello is online, whatever it was before; an unknown one gets
\* a first snapshot with a full battery and fresh telemetry.
handleEdgeConnected(hello) ==
    LET r == hello.robotId
        lastSeen == hello.lastSeenCommandSequence IN
    /\ robots' = [robots EXCEPT ![r] =
           IF RobotExists(r)
           THEN [robots[r] EXCEPT !.connectionState = "ONLINE",
                                  !.lastSeenCommandSequence = Larger(@, lastSeen)]
           ELSE [NoRobot EXCEPT !.connectionState = "ONLINE", !.battery = "OK",
                                !.lastSeenCommandSequence = lastSeen,
                                !.lastTelemetryObservedAt = now,
                                !.lastTelemetryReceivedAt = now]]
    /\ UNCHANGED <<missions, issueVars, inboxVars, now>>

Tick ==
    /\ now < MaxTime
    /\ now' = now + 1
    /\ UNCHANGED <<missions, robots, issueVars, inboxVars>>

createInitialDomainState ==
    /\ missions = [m \in MissionIds |-> NoMission]
    /\ robots = [r \in RobotIds |-> NoRobot]
    /\ commands = [c \in CommandIds |-> NoCommand]
    /\ idempotencyRecords = [k \in IdempotencyKeys |-> NoRecord]
    /\ nextSequenceByRobot = [r \in RobotIds |-> 0]
    /\ processedEventIds = {}
    /\ processedAckIds = {}
    /\ processedReconnectSessionIds = {}
    /\ now = 1

Init == createInitialDomainState

Next ==
    \/ \E in \in DispatchInputs : dispatchMissionCommand(in, now)
    \/ \E in \in CancelInputs : requestMissionCancellation(in, now)
    \/ \E ack \in CommandAcks : applyCommandAck(ack)
    \/ \E m \in MissionIds : applyMissionTimeout(m)
    \/ \E telemetry \in TelemetryEvents : ingestRobotTelemetry(telemetry)
    \/ \E r \in RobotIds : evaluateTelemetryFreshness(r, now) \/ beginReconnect(r)
    \/ \E handshake \in ReconnectHandshakes : processReconnectHandshake(handshake)
    \/ \E hello \in EdgeHellos : handleEdgeConnected(hello)
    \/ Tick

Spec == Init /\ [][Next]_vars
-----------------------------------------------------------------------------
(***************************************************************************)
(* Properties.                                                             *)
(***************************************************************************)

\* Every table holds records of its snapshot type.
TypeOK ==
    /\ missions \in [MissionIds -> Mission]
    /\ robots \in [RobotIds -> Robot]
    /\ commands \in [CommandIds -> Command]
    /\ idempotencyRecords \in [IdempotencyKeys -> IdempotencyRecord \union {NoRecord}]
    /\ nextSequenceByRobot \in [RobotIds -> Nat]
    /\ processedEventIds \subseteq EventIds
    /\ processedAckIds \subseteq AckIds
    /\ processedReconnectSessionIds \subseteq SessionIds
    /\ now \in Times

\* No two commands of a robot share a sequence, and the counter is past them all: dispatch and
\* cancellation draw from it by different fallbacks (cancel.ts, when the counter is unset), and
\* the Postgres schema refuses a second command with the same robot and sequence.
UniqueSequences ==
    \A c, d \in CommandIds :
        CommandExists(c) =>
            /\ commands[c].sequence < nextSequenceByRobot[commands[c].robotId]
            /\ CommandExists(d) /\ c # d /\ commands[c].robotId = commands[d].robotId =>
                   commands[c].sequence # commands[d].sequence

\* An operator key stands for exactly one command: every record leads to its command and mission,
\* and every command is the one its key leads to.  A retried request can therefore never
\* produce a second command, whichever of dispatch and cancel the key was used for.
OneCommandPerKey ==
    /\ \A k \in IdempotencyKeys : idempotencyRecords[k] # NoRecord =>
           LET record == idempotencyRecords[k] IN
           /\ CommandExists(record.commandId)
           /\ commands[record.commandId].idempotencyKey = k
           /\ commands[record.commandId].missionId = record.missionId
           /\ MissionExists(record.missionId)
    /\ \A c \in CommandIds : CommandExists(c) =>
           LET record == idempotencyRecords[commands[c].idempotencyKey] IN
           record # NoRecord /\ record.commandId = c

\* The command a mission waits for is a command of that mission, sent to that mission's robot,
\* with the sequence the mission remembers.  rejectDispatch may move a mission to another robot
\* and must then forget its command: redelivery and cancellation follow these fields.
CurrentCommandMatchesMission ==
    \A m \in MissionIds : missions[m].currentCommandId # None =>
        LET c == missions[m].currentCommandId IN
        /\ CommandExists(c)
        /\ commands[c].missionId = m
        /\ commands[c].robotId = missions[m].robotId
        /\ commands[c].sequence = missions[m].lastCommandSequence

\* Cancellation is a flow: a mission is CANCEL_REQUESTED only while its current command is the
\* cancellation, and CANCELLED only if a cancellation was issued for it; a mission in
\* DISPATCHED always has a command whose answer it waits for.
CancellationFlow ==
    \A m \in MissionIds :
        /\ missions[m].lifecycleState = "CANCEL_REQUESTED" =>
               /\ missions[m].currentCommandId # None
               /\ commands[missions[m].currentCommandId].type = "CANCEL_MISSION"
        /\ missions[m].lifecycleState = "DISPATCHED" => missions[m].currentCommandId # None
        /\ missions[m].lifecycleState = "CANCELLED" =>
               \E c \in CommandIds : /\ commands[c].type = "CANCEL_MISSION"
                                     /\ commands[c].missionId = m

\* A settled mission keeps the operational status it settled with.  Telemetry, the freshness
\* sweep and the start of a reconnect repaint active missions only, although the robot's
\* assignment may still name a settled one.
SettledStatusIsKept ==
    \A m \in MissionIds :
        /\ missions[m].lifecycleState \in {"REJECTED", "SAFETY_BLOCKED", "TIMED_OUT"} =>
               missions[m].operationalStatus = "DEGRADED"
        /\ missions[m].lifecycleState = "SUCCEEDED" =>
               missions[m].operationalStatus = "RECOVERED"
        /\ missions[m].lifecycleState = "MANUAL_REVIEW" =>
               missions[m].operationalStatus = "RECONCILING"

\* An issued command and the record of its key are never rewritten, whatever is requested or
\* reported later: what an edge was sent stays what the cloud believes it sent.
IssuedCommandsAreFinal ==
    [][/\ \A c \in CommandIds : CommandExists(c) => commands'[c] = commands[c]
       /\ \A k \in IdempotencyKeys :
              idempotencyRecords[k] # NoRecord => idempotencyRecords'[k] = idempotencyRecords[k]
      ]_vars

\* Command progress never runs backwards: a robot's sequence counter and the highest sequence it
\* was seen to have only grow, however late the report that carries them.
ProgressOnlyGrows ==
    [][\A r \in RobotIds :
           /\ nextSequenceByRobot'[r] >= nextSequenceByRobot[r]
           /\ robots'[r].lastSeenCommandSequence >= robots[r].lastSeenCommandSequence]_vars

\* A mission starts to run, is cancelled, succeeds, fails or goes to review only by a step that
\* uses up an edge message not processed before: a message delivered twice moves it once.
EdgeOutcomesUseUpTheirMessage ==
    [][\A m \in MissionIds :
           /\ missions'[m].lifecycleState # missions[m].lifecycleState
           /\ missions'[m].lifecycleState \in
                  {"RUNNING", "CANCELLED", "SUCCEEDED", "FAILED", "MANUAL_REVIEW"}
           => inboxVars' # inboxVars]_vars

\* A mission enters DISPATCHED only with a command that did not exist before and that carries
\* the sequence its robot's counter had reserved; nothing else returns a mission to waiting.
DispatchedWithFreshCommand ==
    [][\A m \in MissionIds :
           /\ missions'[m].lifecycleState = "DISPATCHED"
           /\ missions[m].lifecycleState # "DISPATCHED"
           => LET c == missions'[m].currentCommandId IN
              /\ c \in CommandIds /\ ~CommandExists(c)
              /\ commands'[c].sequence =
                     Larger(1, nextSequenceByRobot[commands'[c].robotId])]_vars

\* What the other invariants rest on: a snapshot or command that exists names a robot, a mission
\* and a key, and a robot never heard of has seen no command.
LinksAreSet ==
    /\ \A m \in MissionIds : MissionExists(m) => missions[m].robotId \in RobotIds
    /\ \A c \in CommandIds : CommandExists(c) =>
           /\ commands[c].robotId \in RobotIds
           /\ commands[c].missionId \in MissionIds
           /\ commands[c].idempotencyKey \in IdempotencyKeys
    /\ \A r \in RobotIds : ~RobotExists(r) => robots[r].lastSeenCommandSequence = 0

\* The inductive invariant of FleetDomainProofs.
IInv ==
    /\ TypeOK
    /\ LinksAreSet
    /\ UniqueSequences
    /\ OneCommandPerKey
    /\ CurrentCommandMatchesMission
    /\ CancellationFlow
    /\ SettledStatusIsKept
=============================================================================
