-------------------------- MODULE FleetDomainProofs --------------------------
(***************************************************************************)
(* Theorems about FleetDomain, for every value of its constants.           *)
(*                                                                         *)
(* TypeOK is not inductive alone: a cancellation indexes the sequence      *)
(* counters by the robot of its mission, which is a robot only because     *)
(* LinksAreSet says so.  Both are proved together, one lemma per reducer.  *)
(* The lemmas hold of any message of the right type, so that a             *)
(* specification that produces its messages can use them too.              *)
(***************************************************************************)
EXTENDS FleetDomain, TLAPS

TypeInv == TypeOK /\ LinksAreSet

\* What the reducer reads of an acknowledgement; an edge's also names the robot.
AckFields(ack) ==
    /\ ack.ackId \in AckIds /\ ack.commandId \in CommandIds
    /\ ack.status \in CommandAckStatuses /\ ack.lastSeenCommandSequence \in Nat

\* A step of a reducer on any typed input, with any time the call may have been stamped with.
ReducerStep ==
    \/ \E in \in DispatchInputs, time \in Nat : dispatchMissionCommand(in, time)
    \/ \E in \in CancelInputs, time \in Nat : requestMissionCancellation(in, time)
    \/ \E ack : AckFields(ack) /\ applyCommandAck(ack)
    \/ \E m \in MissionIds : applyMissionTimeout(m)
    \/ \E telemetry \in Telemetry : ingestRobotTelemetry(telemetry)
    \/ \E r \in RobotIds, time \in Nat : evaluateTelemetryFreshness(r, time)
    \/ \E r \in RobotIds : beginReconnect(r)
    \/ \E handshake \in Handshake : processReconnectHandshake(handshake)
    \/ \E hello \in Hello : handleEdgeConnected(hello)
    \/ Tick

\* The inputs a model declares are typed.
LEMMA NextIsReducerStep == TypeOK /\ Next => ReducerStep
<1> SUFFICES ASSUME TypeOK, Next PROVE ReducerStep
  OBVIOUS
<1>1. now \in Nat
  BY DEF TypeOK, Times
<1> QED
  BY <1>1, InputAssumption DEF Next, ReducerStep, AckFields, CommandAck

(***************************************************************************)
(* Types and links.                                                        *)
(***************************************************************************)

LEMMA LargerIsNat ==
    ASSUME NEW a \in Nat, NEW b \in Nat
    PROVE  Larger(a, b) \in Nat /\ Larger(a, b) >= a /\ Larger(a, b) >= b
BY DEF Larger

LEMMA InitTypeOK == Init => TypeInv
<1> SUFFICES ASSUME Init PROVE TypeInv
  OBVIOUS
<1>1. TypeOK
  BY ConfigAssumption DEF Init, createInitialDomainState, TypeOK, Mission, Robot, Command,
     NoMission, NoRobot, NoCommand, NoRecord, LifecycleStates, OperationalStatuses,
     BatteryLevels, MaybeMission, MaybeCommand, Times
<1>2. LinksAreSet
  BY DEF Init, createInitialDomainState, LinksAreSet, MissionExists, CommandExists, RobotExists,
     NoMission, NoRobot, NoCommand
<1> QED
  BY <1>1, <1>2 DEF TypeInv

LEMMA RejectTypeOK ==
    ASSUME TypeInv, NEW in \in DispatchInputs,
           NEW lifecycle \in {"REJECTED", "SAFETY_BLOCKED"}, rejectDispatch(in, lifecycle)
    PROVE  TypeInv'
<1>1. in \in DispatchInput
  BY InputAssumption
<1>2. missions' \in [MissionIds -> Mission]
  BY <1>1 DEF TypeInv, rejectDispatch, TypeOK, Mission, NoMission, DispatchInput, LifecycleStates,
     SettledStates, OperationalStatuses, MaybeCommand
<1>3. \A m \in MissionIds : MissionExists(m)' => missions'[m].robotId \in RobotIds
  BY <1>1 DEF TypeInv, TypeOK, LinksAreSet, rejectDispatch, NoMission, DispatchInput, MissionExists
<1> QED
  BY <1>2, <1>3 DEF TypeInv, LinksAreSet, MissionExists, CommandExists, RobotExists,
     rejectDispatch, TypeOK, issueVars, inboxVars

LEMMA AcceptTypeOK ==
    ASSUME TypeInv, NEW in \in DispatchInputs, NEW time \in Nat, acceptDispatch(in, time)
    PROVE  TypeInv'
<1> DEFINE sequence == dispatchSequence(in.robotId)
<1>1. in \in DispatchInput
  BY InputAssumption
<1>2. sequence \in Nat \ {0}
  BY <1>1 DEF TypeInv, TypeOK, dispatchSequence, DispatchInput
<1>3. missions' \in [MissionIds -> Mission]
  BY <1>1, <1>2 DEF acceptDispatch, TypeInv, TypeOK, Mission, NoMission, DispatchInput,
     LifecycleStates, ActiveStates, OperationalStatuses, MaybeCommand
<1>4. robots' \in [RobotIds -> Robot]
  BY <1>1 DEF acceptDispatch, TypeInv, TypeOK, Robot, DispatchInput, ConnectionStates,
     MaybeMission
<1>5. commands' \in [CommandIds -> Command]
  BY <1>1, <1>2 DEF acceptDispatch, Issue, TypeInv, TypeOK, Command, DispatchInput, MaybeMission
<1>6. idempotencyRecords' \in [IdempotencyKeys -> IdempotencyRecord \union {NoRecord}]
  BY <1>1 DEF acceptDispatch, Issue, TypeInv, TypeOK, IdempotencyRecord, Signature,
     DispatchInput, dispatchSignature
<1>7. nextSequenceByRobot' \in [RobotIds -> Nat]
  BY <1>1, <1>2 DEF acceptDispatch, Issue, TypeInv, TypeOK, DispatchInput
<1>8. TypeOK'
  BY <1>3, <1>4, <1>5, <1>6, <1>7 DEF acceptDispatch, TypeInv, TypeOK, inboxVars
<1>9. \A m \in MissionIds : MissionExists(m)' => missions'[m].robotId \in RobotIds
  BY <1>1 DEF TypeInv, TypeOK, LinksAreSet, acceptDispatch, NoMission, DispatchInput,
     MissionExists
<1>10. \A c \in CommandIds : CommandExists(c)' =>
           /\ commands'[c].robotId \in RobotIds
           /\ commands'[c].missionId \in MissionIds
           /\ commands'[c].idempotencyKey \in IdempotencyKeys
  BY <1>1 DEF TypeInv, TypeOK, LinksAreSet, acceptDispatch, Issue, DispatchInput, CommandExists
<1>11. \A r \in RobotIds : ~RobotExists(r)' => robots'[r].lastSeenCommandSequence = 0
  BY <1>1 DEF TypeInv, TypeOK, Robot, ConnectionStates, LinksAreSet, acceptDispatch, DispatchInput, RobotExists
<1> QED
  BY <1>8, <1>9, <1>10, <1>11 DEF TypeInv, LinksAreSet

LEMMA CancelSequenceIsNat ==
    ASSUME TypeInv, NEW m \in MissionIds, MissionExists(m)
    PROVE  /\ missions[m].robotId \in RobotIds
           /\ cancelSequence(m) \in Nat
           /\ cancelSequence(m) >= nextSequenceByRobot[missions[m].robotId]
<1>1. missions[m].robotId \in RobotIds /\ missions[m].lastCommandSequence \in Nat
  BY DEF TypeInv, TypeOK, LinksAreSet, Mission
<1>2. /\ nextSequenceByRobot[missions[m].robotId] \in Nat
      /\ robots[missions[m].robotId].lastSeenCommandSequence \in Nat
  BY <1>1 DEF TypeInv, TypeOK, Robot
<1> QED
  BY <1>1, <1>2 DEF cancelSequence

LEMMA CancelTypeOK ==
    ASSUME TypeInv, NEW in \in CancelInputs, NEW time \in Nat,
           requestMissionCancellation(in, time)
    PROVE  TypeInv'
<1> DEFINE mission == missions[in.missionId]
           sequence == cancelSequence(in.missionId)
<1>1. in \in CancelInput
  BY InputAssumption
<1>2. /\ mission \in Mission /\ mission.robotId \in RobotIds
      /\ sequence \in Nat
  BY <1>1, CancelSequenceIsNat DEF TypeInv, TypeOK, CancelInput, requestMissionCancellation
<1>3. missions' \in [MissionIds -> Mission]
  BY <1>1, <1>2 DEF requestMissionCancellation, TypeInv, TypeOK, Mission, CancelInput,
     LifecycleStates, ActiveStates, MaybeCommand
<1>5. commands' \in [CommandIds -> Command]
  BY <1>1, <1>2 DEF requestMissionCancellation, Issue, TypeInv, TypeOK, Command, CancelInput,
     CommandTypes, MaybeMission
<1>6. idempotencyRecords' \in [IdempotencyKeys -> IdempotencyRecord \union {NoRecord}]
  BY <1>1 DEF requestMissionCancellation, Issue, TypeInv, TypeOK, IdempotencyRecord, Signature,
     CommandTypes, CancelInput, cancelSignature
<1>7. nextSequenceByRobot' \in [RobotIds -> Nat]
  BY <1>1, <1>2 DEF requestMissionCancellation, Issue, TypeInv, TypeOK
<1>8. TypeOK'
  BY <1>3, <1>5, <1>6, <1>7 DEF requestMissionCancellation, TypeInv, TypeOK, inboxVars
<1>9. \A m \in MissionIds : MissionExists(m)' => missions'[m].robotId \in RobotIds
  BY <1>1, <1>2 DEF TypeInv, TypeOK, LinksAreSet, requestMissionCancellation, CancelInput,
     MissionExists
<1>10. \A c \in CommandIds : CommandExists(c)' =>
           /\ commands'[c].robotId \in RobotIds
           /\ commands'[c].missionId \in MissionIds
           /\ commands'[c].idempotencyKey \in IdempotencyKeys
  BY <1>1, <1>2 DEF TypeInv, TypeOK, LinksAreSet, requestMissionCancellation, Issue, CancelInput,
     CommandExists
<1> QED
  BY <1>8, <1>9, <1>10 DEF TypeInv, LinksAreSet, requestMissionCancellation, RobotExists

\* The steps below write missions, robots and the processed ids only.
LEMMA SnapshotsTypeOK ==
    ASSUME TypeInv, UNCHANGED issueVars, now' \in Times,
           missions' \in [MissionIds -> Mission], robots' \in [RobotIds -> Robot],
           processedEventIds' \subseteq EventIds, processedAckIds' \subseteq AckIds,
           processedReconnectSessionIds' \subseteq SessionIds,
           \A m \in MissionIds : MissionExists(m)' => missions'[m].robotId \in RobotIds,
           \A r \in RobotIds : RobotExists(r)' \/ robots'[r].lastSeenCommandSequence = 0
    PROVE  TypeInv'
BY DEF TypeInv, TypeOK, LinksAreSet, issueVars, CommandExists

LEMMA AckTypeOK ==
    ASSUME TypeInv, NEW ack, AckFields(ack), applyCommandAck(ack)
    PROVE  TypeInv'
<1> DEFINE c == ack.commandId
           m == commands[c].missionId
           r == commands[c].robotId
           lifecycle == lifecycleFromAckStatus(ack.status, commands[c])
<1>2. ack.lastSeenCommandSequence \in Nat /\ c \in CommandIds
  BY DEF AckFields
<1>3. lifecycle \in LifecycleStates \ {"ABSENT"}
  BY DEF lifecycleFromAckStatus, LifecycleStates, SettledStates, ActiveStates
<1>4. processedAckIds' \subseteq AckIds
  BY DEF applyCommandAck, Remembered, TypeInv, TypeOK, AckFields
<1>5. CASE ~AckApplies(ack)
  BY <1>4, <1>5 DEF applyCommandAck, TypeInv, TypeOK, LinksAreSet, issueVars, MissionExists,
     CommandExists, RobotExists
<1>6. CASE AckApplies(ack)
  <2>1. m \in MissionIds /\ r \in RobotIds /\ missions[m] \in Mission /\ robots[r] \in Robot
    BY <1>2, <1>6 DEF AckApplies, TypeInv, TypeOK, LinksAreSet
  <2>2. missionAfterAck(missions[m], ack, lifecycle) \in Mission
    BY <1>2, <1>3, <2>1 DEF missionAfterAck, Mission, OperationalStatuses, MaybeCommand
  <2>3. Larger(robots[r].lastSeenCommandSequence, ack.lastSeenCommandSequence) \in Nat
    BY <1>2, <2>1, LargerIsNat DEF Robot
  <2>4. robotAfterAck(r, m, lifecycle, ack.lastSeenCommandSequence) \in Robot
    BY <2>1, <2>3 DEF robotAfterAck, Robot, ConnectionStates, MaybeMission
  <2>5. /\ missions' \in [MissionIds -> Mission]
        /\ robots' \in [RobotIds -> Robot]
    BY <1>6, <2>1, <2>2, <2>4 DEF applyCommandAck, TypeInv, TypeOK
  <2>6. missionAfterAck(missions[m], ack, lifecycle).robotId = missions[m].robotId
    BY <2>1 DEF missionAfterAck, Mission
  <2>7. \A n \in MissionIds : MissionExists(n)' => missions'[n].robotId \in RobotIds
    BY <1>6, <2>1, <2>6 DEF applyCommandAck, AckApplies, TypeInv, TypeOK, LinksAreSet, MissionExists
  <2>8. robotAfterAck(r, m, lifecycle, ack.lastSeenCommandSequence).connectionState = "ONLINE"
    BY <2>1 DEF robotAfterAck, Robot
  <2>9. \A s \in RobotIds : RobotExists(s)' \/ robots'[s].lastSeenCommandSequence = 0
    BY <1>6, <2>1, <2>8 DEF applyCommandAck, TypeInv, TypeOK, LinksAreSet, RobotExists
  <2> QED
    BY <1>4, <2>5, <2>7, <2>9, SnapshotsTypeOK DEF applyCommandAck, TypeInv, TypeOK, issueVars
<1> QED
  BY <1>5, <1>6

LEMMA TimeoutTypeOK ==
    ASSUME TypeInv, NEW m \in MissionIds, applyMissionTimeout(m)
    PROVE  TypeInv'
<1> DEFINE next == [missions[m] EXCEPT !.lifecycleState = "TIMED_OUT",
                                       !.operationalStatus = "DEGRADED"]
<1>a. missions[m] \in Mission
  BY DEF TypeInv, TypeOK
<1>b. next \in Mission
  BY <1>a DEF Mission, LifecycleStates, SettledStates, OperationalStatuses
<1>1. missions' \in [MissionIds -> Mission]
  BY <1>b DEF applyMissionTimeout, TypeInv, TypeOK
<1>2. \A n \in MissionIds : MissionExists(n)' => missions'[n].robotId \in RobotIds
  BY DEF applyMissionTimeout, TypeInv, TypeOK, LinksAreSet, MissionExists, Mission
<1> QED
  BY <1>1, <1>2, SnapshotsTypeOK
  DEF applyMissionTimeout, TypeInv, TypeOK, LinksAreSet, RobotExists, inboxVars, issueVars

LEMMA RepaintTypeOK ==
    ASSUME TypeInv, NEW m \in MaybeMission, NEW status \in OperationalStatuses,
           missions' = RepaintActive(m, status)
    PROVE  /\ missions' \in [MissionIds -> Mission]
           /\ \A n \in MissionIds : MissionExists(n)' => missions'[n].robotId \in RobotIds
<1>1. CASE missions' = missions
  BY <1>1 DEF TypeInv, TypeOK, LinksAreSet, MissionExists
<1>2. CASE m \in MissionIds /\ missions' = [missions EXCEPT ![m].operationalStatus = status]
  <2>1. missions' \in [MissionIds -> Mission]
    BY <1>2 DEF TypeInv, TypeOK, Mission
  <2>2. \A n \in MissionIds : MissionExists(n)' => missions'[n].robotId \in RobotIds
    BY <1>2 DEF TypeInv, TypeOK, LinksAreSet, MissionExists, Mission
  <2> QED
    BY <2>1, <2>2
<1> QED
  BY <1>1, <1>2 DEF RepaintActive, MaybeMission

LEMMA FreshnessTypeOK ==
    ASSUME TypeInv, NEW r \in RobotIds, NEW time \in Nat, evaluateTelemetryFreshness(r, time)
    PROVE  TypeInv'
<1>1. freshConnection(robots[r], time) \in ConnectionStates
  BY DEF freshConnection, classifyConnectionState, ConnectionStates
<1>2. robots' \in [RobotIds -> Robot]
  BY <1>1 DEF evaluateTelemetryFreshness, TypeInv, TypeOK, Robot
<1>3. \A s \in RobotIds : RobotExists(s)' \/ robots'[s].lastSeenCommandSequence = 0
  BY <1>1 DEF evaluateTelemetryFreshness, TypeInv, TypeOK, LinksAreSet, RobotExists, Robot,
     ConnectionStates
<1>4. robots[r].activeMissionId \in MaybeMission
  BY DEF TypeInv, TypeOK, Robot
<1>5. /\ missions' \in [MissionIds -> Mission]
      /\ \A n \in MissionIds : MissionExists(n)' => missions'[n].robotId \in RobotIds
  BY <1>4, RepaintTypeOK DEF evaluateTelemetryFreshness, OperationalStatuses
<1> QED
  BY <1>2, <1>3, <1>5, SnapshotsTypeOK DEF evaluateTelemetryFreshness, TypeInv, TypeOK, inboxVars

LEMMA BeginReconnectTypeOK ==
    ASSUME TypeInv, NEW r \in RobotIds, beginReconnect(r)
    PROVE  TypeInv'
<1>2. robots' \in [RobotIds -> Robot]
  BY DEF beginReconnect, TypeInv, TypeOK, Robot, ConnectionStates
<1>3. \A s \in RobotIds : RobotExists(s)' \/ robots'[s].lastSeenCommandSequence = 0
  BY DEF beginReconnect, TypeInv, TypeOK, LinksAreSet, RobotExists, Robot
<1>4. robots[r].activeMissionId \in MaybeMission
  BY DEF TypeInv, TypeOK, Robot
<1>5. /\ missions' \in [MissionIds -> Mission]
      /\ \A n \in MissionIds : MissionExists(n)' => missions'[n].robotId \in RobotIds
  BY <1>4, RepaintTypeOK DEF beginReconnect, OperationalStatuses
<1> QED
  BY <1>2, <1>3, <1>5, SnapshotsTypeOK DEF beginReconnect, TypeInv, TypeOK, inboxVars

LEMMA TelemetryMission ==
    ASSUME NEW mission \in Mission, NEW telemetry \in Telemetry
    PROVE  LET next == missionAfterTelemetry(mission, telemetry) IN
           /\ next \in Mission
           /\ next.robotId = mission.robotId
           /\ next.currentCommandId = mission.currentCommandId
           /\ next.lastCommandSequence = mission.lastCommandSequence
           /\ next.lifecycleState =
                  IF mission.lifecycleState = "DISPATCHED" THEN "RUNNING" ELSE mission.lifecycleState
<1> DEFINE lifecycle == IF mission.lifecycleState = "DISPATCHED" THEN "RUNNING"
                        ELSE mission.lifecycleState
           status == IF telemetry.connectionState = "ONLINE" /\ telemetry.healthy
                     THEN "NOMINAL" ELSE "DEGRADED"
           acknowledged == IF telemetry.lastAcknowledgedCommandId # None
                           THEN telemetry.lastAcknowledgedCommandId
                           ELSE mission.lastAcknowledgedCommandId
<1>1. lifecycle \in LifecycleStates
  BY DEF Mission, LifecycleStates, ActiveStates
<1>2. status \in OperationalStatuses
  BY DEF OperationalStatuses
<1>3. acknowledged \in MaybeCommand
  BY DEF Mission, Telemetry
<1>4. missionAfterTelemetry(mission, telemetry) =
          [mission EXCEPT !.lifecycleState = lifecycle, !.operationalStatus = status,
                          !.lastAcknowledgedCommandId = acknowledged,
                          !.lastAcknowledgedCommandSequence = telemetry.lastSeenCommandSequence]
  BY DEF missionAfterTelemetry
<1>5. telemetry.lastSeenCommandSequence \in Nat
  BY DEF Telemetry
<1> HIDE DEF lifecycle, status, acknowledged
<1>6. /\ missionAfterTelemetry(mission, telemetry) \in Mission
      /\ missionAfterTelemetry(mission, telemetry).robotId = mission.robotId
      /\ missionAfterTelemetry(mission, telemetry).currentCommandId = mission.currentCommandId
      /\ missionAfterTelemetry(mission, telemetry).lastCommandSequence =
             mission.lastCommandSequence
      /\ missionAfterTelemetry(mission, telemetry).lifecycleState = lifecycle
  BY <1>1, <1>2, <1>3, <1>4, <1>5 DEF Mission
<1> QED
  BY <1>6 DEF lifecycle

LEMMA TelemetryTypeOK ==
    ASSUME TypeInv, NEW telemetry \in Telemetry, ingestRobotTelemetry(telemetry)
    PROVE  TypeInv'
<1> DEFINE r == telemetry.robotId
           m == telemetry.currentMissionId
<1>1. telemetry \in Telemetry
  OBVIOUS
<1>2. processedEventIds' \subseteq EventIds
  BY <1>1 DEF ingestRobotTelemetry, Remembered, TypeInv, TypeOK, Telemetry
<1>3. r \in RobotIds /\ robots[r] \in Robot /\ m \in MaybeMission
  BY <1>1 DEF Telemetry, TypeInv, TypeOK
<1>4. Larger(robots[r].lastSeenCommandSequence, telemetry.lastSeenCommandSequence) \in Nat
  BY <1>1, <1>3, LargerIsNat DEF Robot, Telemetry
<1>5. robots' \in [RobotIds -> Robot]
  BY <1>1, <1>3, <1>4 DEF ingestRobotTelemetry, TypeInv, TypeOK, Robot, Telemetry, MaybeMission
<1>6. \A s \in RobotIds : RobotExists(s)' \/ robots'[s].lastSeenCommandSequence = 0
  BY <1>1 DEF ingestRobotTelemetry, TypeInv, TypeOK, LinksAreSet, RobotExists, Telemetry,
     ConnectionStates
<1>7. /\ missions' \in [MissionIds -> Mission]
      /\ \A n \in MissionIds : MissionExists(n)' => missions'[n].robotId \in RobotIds
  <2>1. CASE m \in MissionIds /\ isActiveMission(missions[m].lifecycleState)
    <3> DEFINE next == missionAfterTelemetry(missions[m], telemetry)
    <3>1. missions[m] \in Mission /\ missions[m].robotId \in RobotIds
      BY <2>1, NoneAssumption DEF TypeInv, TypeOK, LinksAreSet, MissionExists, isActiveMission,
         ActiveStates
    <3>2. next \in Mission /\ next.robotId = missions[m].robotId
      BY <1>1, <3>1, TelemetryMission
    <3>3. missions' = [missions EXCEPT ![m] = next]
      BY <2>1, NoneAssumption DEF ingestRobotTelemetry
    <3> QED
      BY <2>1, <3>1, <3>2, <3>3 DEF TypeInv, TypeOK, LinksAreSet, MissionExists
  <2>2. CASE missions' = missions
    BY <2>2 DEF TypeInv, TypeOK, LinksAreSet, MissionExists
  <2> QED
    BY <1>3, <2>1, <2>2 DEF ingestRobotTelemetry, MaybeMission
<1> QED
  BY <1>2, <1>5, <1>6, <1>7, SnapshotsTypeOK DEF ingestRobotTelemetry, TypeInv, TypeOK

\* What a reconciliation applies to, whatever the handshake reports.
LEMMA ReconciledMissionExists ==
    ASSUME TypeInv, NEW handshake \in Handshake, NEW outcome,
           ReconciledMission(handshake, outcome) # None
    PROVE  /\ ReconciledMission(handshake, outcome) \in MissionIds
           /\ MissionExists(ReconciledMission(handshake, outcome))
<1>1. /\ handshake.reportedMissionId \in MaybeMission
      /\ robots[handshake.robotId].activeMissionId \in MaybeMission
  BY DEF Handshake, TypeInv, TypeOK, Robot
<1> QED
  BY <1>1 DEF ReconciledMission, MissionExists, MaybeMission

LEMMA ReconciledMissionTypeOK ==
    ASSUME NEW mission \in Mission, NEW outcome
    PROVE  LET next == applyReconciliationToMission(mission, outcome) IN
           /\ next \in Mission
           /\ next.robotId = mission.robotId
           /\ next.currentCommandId = mission.currentCommandId
           /\ next.lastCommandSequence = mission.lastCommandSequence
           /\ next.lifecycleState \in {"SUCCEEDED", "FAILED", "MANUAL_REVIEW", "RUNNING"}
           /\ next.lifecycleState = "SUCCEEDED" => next.operationalStatus = "RECOVERED"
           /\ next.lifecycleState = "MANUAL_REVIEW" => next.operationalStatus = "RECONCILING"
<1> DEFINE lifecycle == CASE outcome = "MARK_SUCCEEDED" -> "SUCCEEDED"
                          [] outcome = "MARK_FAILED" -> "FAILED"
                          [] outcome = "MANUAL_REVIEW" -> "MANUAL_REVIEW"
                          [] OTHER -> "RUNNING"
           status == IF outcome = "MANUAL_REVIEW" THEN "RECONCILING" ELSE "RECOVERED"
<1>1. lifecycle \in {"SUCCEEDED", "FAILED", "MANUAL_REVIEW", "RUNNING"}
  OBVIOUS
<1>2. /\ lifecycle = "SUCCEEDED" => status = "RECOVERED"
      /\ lifecycle = "MANUAL_REVIEW" => status = "RECONCILING"
  OBVIOUS
<1>3. applyReconciliationToMission(mission, outcome) =
          [mission EXCEPT !.lifecycleState = lifecycle, !.operationalStatus = status]
  BY DEF applyReconciliationToMission
<1> HIDE DEF lifecycle, status
<1>4. status \in OperationalStatuses
  BY DEF status, OperationalStatuses
<1> QED
  BY <1>1, <1>2, <1>3, <1>4 DEF Mission, LifecycleStates, SettledStates, ActiveStates

LEMMA HandshakeTypeOK ==
    ASSUME TypeInv, NEW handshake \in Handshake, processReconnectHandshake(handshake)
    PROVE  TypeInv'
<1> DEFINE r == handshake.robotId
           outcome == decideReconciliation(handshake)
           m == ReconciledMission(handshake, outcome)
           next == applyReconciliationToMission(IF m = None THEN NoMission ELSE missions[m],
                                                outcome)
           connection == IF outcome = "MANUAL_REVIEW" THEN "DEGRADED" ELSE "ONLINE"
           assignment == ReconciledAssignment(r, m, next.lifecycleState)
           lastSeen == Larger(robots[r].lastSeenCommandSequence,
                              handshake.lastSeenCommandSequence)
<1>1. handshake \in Handshake
  OBVIOUS
<1>2. processedReconnectSessionIds' \subseteq SessionIds
  BY <1>1 DEF processReconnectHandshake, Remembered, TypeInv, TypeOK, Handshake
<1>3. r \in RobotIds /\ robots[r] \in Robot
  BY <1>1 DEF Handshake, TypeInv, TypeOK
<1>4. m # None => m \in MissionIds /\ MissionExists(m)
  BY <1>1, ReconciledMissionExists
<1>5. connection \in ConnectionStates /\ connection # "UNKNOWN"
  BY DEF ConnectionStates
<1>6. assignment \in MaybeMission
  BY <1>3, <1>4 DEF ReconciledAssignment, MaybeMission, Robot
<1>7. lastSeen \in Nat
  BY <1>1, <1>3, LargerIsNat DEF Robot, Handshake
<1>8. robots' = [robots EXCEPT ![r] =
          [robots[r] EXCEPT !.connectionState = connection, !.activeMissionId = assignment,
                            !.lastSeenCommandSequence = lastSeen,
                            !.lastTelemetryObservedAt = handshake.lastTelemetryObservedAt]]
  BY DEF processReconnectHandshake
<1>9. missions' = IF m = None THEN missions ELSE [missions EXCEPT ![m] = next]
  BY DEF processReconnectHandshake
<1>10. handshake.lastTelemetryObservedAt \in Nat
  BY <1>1 DEF Handshake
<1>11. m # None => /\ missions[m] \in Mission
                   /\ next \in Mission
                   /\ next.robotId = missions[m].robotId
  BY <1>4, ReconciledMissionTypeOK DEF TypeInv, TypeOK
<1> HIDE DEF connection, assignment, lastSeen, m, next
<1>12. robots' \in [RobotIds -> Robot]
  BY <1>3, <1>5, <1>6, <1>7, <1>8, <1>10 DEF TypeInv, TypeOK, Robot
<1>13. \A s \in RobotIds : RobotExists(s)' \/ robots'[s].lastSeenCommandSequence = 0
  BY <1>3, <1>5, <1>8 DEF TypeInv, TypeOK, Robot, LinksAreSet, RobotExists
<1>14. missions' \in [MissionIds -> Mission]
  BY <1>4, <1>9, <1>11 DEF TypeInv, TypeOK
<1>15. \A n \in MissionIds : MissionExists(n)' => missions'[n].robotId \in RobotIds
  BY <1>4, <1>9, <1>11 DEF TypeInv, TypeOK, LinksAreSet, MissionExists
<1> QED
  BY <1>2, <1>12, <1>13, <1>14, <1>15, SnapshotsTypeOK
  DEF processReconnectHandshake, TypeInv, TypeOK

LEMMA ConnectedTypeOK ==
    ASSUME TypeInv, NEW hello \in Hello, handleEdgeConnected(hello)
    PROVE  TypeInv'
<1> DEFINE r == hello.robotId
           lastSeen == Larger(robots[r].lastSeenCommandSequence, hello.lastSeenCommandSequence)
           next == robots'[r]
<1>1. hello \in Hello
  OBVIOUS
<1>2. r \in RobotIds /\ robots[r] \in Robot /\ hello.lastSeenCommandSequence \in Nat
  BY <1>1 DEF Hello, TypeInv, TypeOK
<1>3. lastSeen \in Nat
  BY <1>2, LargerIsNat DEF Robot
<1>4. next \in Robot /\ next.connectionState = "ONLINE"
  <2>1. CASE RobotExists(r)
    <3>1. next = [robots[r] EXCEPT !.connectionState = "ONLINE",
                                   !.lastSeenCommandSequence = lastSeen]
      BY <1>2, <2>1 DEF handleEdgeConnected, TypeInv, TypeOK
    <3> HIDE DEF next, lastSeen
    <3> QED
      BY <1>2, <1>3, <3>1 DEF Robot, ConnectionStates
  <2>2. CASE ~RobotExists(r)
    <3>1. next = [NoRobot EXCEPT !.connectionState = "ONLINE", !.battery = "OK",
                                 !.lastSeenCommandSequence = hello.lastSeenCommandSequence,
                                 !.lastTelemetryObservedAt = now,
                                 !.lastTelemetryReceivedAt = now]
      BY <1>2, <2>2 DEF handleEdgeConnected, TypeInv, TypeOK
    <3>2. now \in Nat
      BY DEF TypeInv, TypeOK, Times
    <3> HIDE DEF next
    <3> QED
      BY <1>2, <3>1, <3>2 DEF NoRobot, Robot, ConnectionStates, BatteryLevels, MaybeMission
  <2> QED
    BY <2>1, <2>2
<1>5. robots' = [robots EXCEPT ![r] = next]
  BY <1>2 DEF handleEdgeConnected, TypeInv, TypeOK
<1>6. robots' \in [RobotIds -> Robot]
  BY <1>2, <1>4, <1>5 DEF TypeInv, TypeOK
<1>7. \A s \in RobotIds : RobotExists(s)' \/ robots'[s].lastSeenCommandSequence = 0
  BY <1>2, <1>4, <1>5 DEF TypeInv, TypeOK, LinksAreSet, RobotExists
<1> QED
  BY <1>6, <1>7, SnapshotsTypeOK
  DEF handleEdgeConnected, TypeInv, TypeOK, LinksAreSet, inboxVars, MissionExists

LEMMA NextTypeOK == TypeInv /\ [ReducerStep]_vars => TypeInv'
<1> SUFFICES ASSUME TypeInv, [ReducerStep]_vars PROVE TypeInv'
  OBVIOUS
<1>1. CASE UNCHANGED vars
  BY <1>1 DEF vars, TypeInv, TypeOK, LinksAreSet, MissionExists, CommandExists, RobotExists
<1>2. ASSUME NEW in \in DispatchInputs, NEW time \in Nat, dispatchMissionCommand(in, time)
      PROVE  TypeInv'
  BY <1>2, RejectTypeOK, AcceptTypeOK DEF dispatchMissionCommand
<1>3. ASSUME NEW in \in CancelInputs, NEW time \in Nat, requestMissionCancellation(in, time)
      PROVE  TypeInv'
  BY <1>3, CancelTypeOK
<1>4. ASSUME NEW ack, AckFields(ack), applyCommandAck(ack) PROVE TypeInv'
  BY <1>4, AckTypeOK
<1>5. ASSUME NEW m \in MissionIds, applyMissionTimeout(m) PROVE TypeInv'
  BY <1>5, TimeoutTypeOK
<1>6. ASSUME NEW telemetry \in Telemetry, ingestRobotTelemetry(telemetry) PROVE TypeInv'
  BY <1>6, TelemetryTypeOK
<1>7. ASSUME NEW r \in RobotIds, NEW time \in Nat, evaluateTelemetryFreshness(r, time)
      PROVE  TypeInv'
  BY <1>7, FreshnessTypeOK
<1>11. ASSUME NEW r \in RobotIds, beginReconnect(r) PROVE TypeInv'
  BY <1>11, BeginReconnectTypeOK
<1>8. ASSUME NEW handshake \in Handshake, processReconnectHandshake(handshake)
      PROVE  TypeInv'
  BY <1>8, HandshakeTypeOK
<1>9. ASSUME NEW hello \in Hello, handleEdgeConnected(hello) PROVE TypeInv'
  BY <1>9, ConnectedTypeOK
<1>10. CASE Tick
  BY <1>10, ConfigAssumption DEF Tick, TypeInv, TypeOK, LinksAreSet, MissionExists, CommandExists,
     RobotExists, Times, issueVars, inboxVars
<1> QED
  BY <1>1, <1>2, <1>3, <1>4, <1>5, <1>6, <1>7, <1>8, <1>9, <1>10, <1>11
  DEF ReducerStep

\* Every table holds records of its snapshot type in every reachable state.
THEOREM TypeCorrect == Spec => []TypeOK
<1>1. Spec => []TypeInv
  <2>1. TypeInv /\ [Next]_vars => TypeInv'
    BY NextTypeOK, NextIsReducerStep DEF TypeInv
  <2> QED
    BY InitTypeOK, <2>1, PTL DEF Spec
<1>2. TypeInv => TypeOK
  BY DEF TypeInv
<1> QED
  BY <1>1, <1>2, PTL
=============================================================================
