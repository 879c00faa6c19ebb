-------------------------- MODULE FleetDomainSafety --------------------------
(***************************************************************************)
(* The safety invariants and action properties of FleetDomain, for every   *)
(* value of its constants.                                                 *)
(*                                                                         *)
(* IInv is inductive.  Only an accepted dispatch and a cancellation issue  *)
(* a command; each is treated on its own.  Every other step leaves the     *)
(* issued commands alone and does to each mission one of the few things    *)
(* QuietMissionStep lists, which is all the invariants need to know of it. *)
(***************************************************************************)
EXTENDS FleetDomainProofs

SameLinks(m) ==
    /\ missions'[m].robotId = missions[m].robotId
    /\ missions'[m].currentCommandId = missions[m].currentCommandId
    /\ missions'[m].lastCommandSequence = missions[m].lastCommandSequence

StatusFits(mission) ==
    /\ mission.lifecycleState \in {"REJECTED", "SAFETY_BLOCKED", "TIMED_OUT"} =>
           mission.operationalStatus = "DEGRADED"
    /\ mission.lifecycleState = "SUCCEEDED" => mission.operationalStatus = "RECOVERED"
    /\ mission.lifecycleState = "MANUAL_REVIEW" => mission.operationalStatus = "RECONCILING"

CancelIssuedFor(m) ==
    \E c \in CommandIds : commands[c].type = "CANCEL_MISSION" /\ commands[c].missionId = m

\* The mission was refused: its snapshot is a new one without a command.
RejectedStep(m) ==
    /\ missions'[m].currentCommandId = None
    /\ missions'[m].lifecycleState \in {"REJECTED", "SAFETY_BLOCKED"}
    /\ missions'[m].operationalStatus = "DEGRADED"

\* The mission is active and stays what it is, or starts to run.
ActiveStep(m) ==
    /\ SameLinks(m)
    /\ isActiveMission(missions[m].lifecycleState)
    /\ missions'[m].lifecycleState \in {missions[m].lifecycleState, "RUNNING"}
    /\ missions'[m].lifecycleState = "DISPATCHED" =>
           missions'[m].lastAcknowledgedCommandSequence =
               missions[m].lastAcknowledgedCommandSequence

\* An edge or the clock decides the mission.
DecidedStep(m) ==
    /\ SameLinks(m)
    /\ missions'[m].lifecycleState \in {"RUNNING", "CANCELLED", "SUCCEEDED", "FAILED",
                                        "MANUAL_REVIEW", "REJECTED", "TIMED_OUT"}
    /\ StatusFits(missions'[m])
    /\ missions'[m].lifecycleState = "CANCELLED" => CancelIssuedFor(m)

QuietMissionStep(m) ==
    missions'[m] = missions[m] \/ RejectedStep(m) \/ ActiveStep(m) \/ DecidedStep(m)

LEMMA QuietStepKeepsIInv ==
    ASSUME IInv, TypeInv', UNCHANGED issueVars,
           \A m \in MissionIds : QuietMissionStep(m)
    PROVE  IInv'
<1> USE DEF IInv
<1>1. UNCHANGED <<commands, idempotencyRecords, nextSequenceByRobot>>
  BY DEF issueVars
<1>2. UniqueSequences'
  BY <1>1 DEF UniqueSequences, CommandExists
<1>3. \A m \in MissionIds : MissionExists(m) => MissionExists(m)'
  BY DEF QuietMissionStep, RejectedStep, ActiveStep, DecidedStep, MissionExists
<1>4. \A k \in IdempotencyKeys :
          idempotencyRecords[k] # NoRecord => idempotencyRecords[k].missionId \in MissionIds
  BY DEF TypeOK, IdempotencyRecord
<1>5. OneCommandPerKey'
  BY <1>1, <1>3, <1>4 DEF OneCommandPerKey, CommandExists
<1>6. CurrentCommandMatchesMission'
  <2> SUFFICES ASSUME NEW m \in MissionIds, missions'[m].currentCommandId # None
               PROVE  LET c == missions'[m].currentCommandId IN
                      /\ CommandExists(c)
                      /\ commands[c].missionId = m
                      /\ commands[c].robotId = missions'[m].robotId
                      /\ commands[c].sequence = missions'[m].lastCommandSequence
    BY <1>1 DEF CurrentCommandMatchesMission, CommandExists
  <2>1. SameLinks(m)
    BY DEF QuietMissionStep, RejectedStep, ActiveStep, DecidedStep, SameLinks
  <2> QED
    BY <2>1 DEF SameLinks, CurrentCommandMatchesMission
<1>7. CancellationFlow'
  <2> SUFFICES ASSUME NEW m \in MissionIds
               PROVE  /\ missions'[m].lifecycleState = "CANCEL_REQUESTED" =>
                             /\ missions'[m].currentCommandId # None
                             /\ commands[missions'[m].currentCommandId].type = "CANCEL_MISSION"
                      /\ missions'[m].lifecycleState = "DISPATCHED" =>
                             missions'[m].currentCommandId # None
                      /\ missions'[m].lifecycleState = "CANCELLED" => CancelIssuedFor(m)
    BY <1>1 DEF CancellationFlow, CancelIssuedFor
  <2>1. CASE missions'[m] = missions[m]
    BY <2>1 DEF CancellationFlow, CancelIssuedFor
  <2>2. CASE RejectedStep(m)
    BY <2>2 DEF RejectedStep
  <2>3. CASE ActiveStep(m)
    BY <2>3 DEF ActiveStep, SameLinks, CancellationFlow, isActiveMission, ActiveStates
  <2>4. CASE DecidedStep(m)
    BY <2>4 DEF DecidedStep
  <2> QED
    BY <2>1, <2>2, <2>3, <2>4 DEF QuietMissionStep
<1>8. SettledStatusIsKept'
  <2> SUFFICES ASSUME NEW m \in MissionIds PROVE StatusFits(missions'[m])
    BY DEF SettledStatusIsKept, StatusFits
  <2>1. StatusFits(missions[m])
    BY DEF SettledStatusIsKept, StatusFits
  <2> QED
    BY <2>1 DEF QuietMissionStep, RejectedStep, ActiveStep, DecidedStep, StatusFits,
       isActiveMission, ActiveStates
<1> QED
  BY <1>2, <1>5, <1>6, <1>7, <1>8 DEF TypeInv

(***************************************************************************)
(* The steps that issue no command.                                        *)
(***************************************************************************)

LEMMA RejectIsQuiet ==
    ASSUME IInv, NEW in \in DispatchInputs,
           NEW lifecycle \in {"REJECTED", "SAFETY_BLOCKED"}, rejectDispatch(in, lifecycle)
    PROVE  UNCHANGED issueVars /\ \A m \in MissionIds : QuietMissionStep(m)
BY DEF IInv, TypeOK, rejectDispatch, NoMission, issueVars, QuietMissionStep, RejectedStep

LEMMA MissionAfterAckFits ==
    ASSUME NEW mission \in Mission, NEW ack,
           NEW lifecycle \in LifecycleStates,
           lifecycle \in {"REJECTED", "TIMED_OUT"} => ack.status # "ACCEPTED"
    PROVE  LET next == missionAfterAck(mission, ack, lifecycle) IN
           /\ next.robotId = mission.robotId
           /\ next.currentCommandId = mission.currentCommandId
           /\ next.lastCommandSequence = mission.lastCommandSequence
           /\ next.lifecycleState = lifecycle
           /\ lifecycle \in {"REJECTED", "TIMED_OUT"} => next.operationalStatus = "DEGRADED"
BY DEF missionAfterAck, Mission

LEMMA LifecycleFromAck ==
    ASSUME NEW status \in CommandAckStatuses, NEW command
    PROVE  LET lifecycle == lifecycleFromAckStatus(status, command) IN
           /\ lifecycle \in {"RUNNING", "CANCELLED", "TIMED_OUT", "REJECTED", "FAILED"}
           /\ lifecycle \in {"REJECTED", "TIMED_OUT"} => status # "ACCEPTED"
           /\ lifecycle = "CANCELLED" => command.type = "CANCEL_MISSION"
BY DEF lifecycleFromAckStatus, CommandAckStatuses

LEMMA AckIsQuiet ==
    ASSUME IInv, NEW ack, AckFields(ack), applyCommandAck(ack)
    PROVE  UNCHANGED issueVars /\ \A m \in MissionIds : QuietMissionStep(m)
<1> DEFINE c == ack.commandId
           m == commands[c].missionId
           lifecycle == lifecycleFromAckStatus(ack.status, commands[c])
           next == missionAfterAck(missions[m], ack, lifecycle)
<1>1. ack.status \in CommandAckStatuses /\ c \in CommandIds
  BY DEF AckFields
<1>2. CASE ~AckApplies(ack)
  BY <1>2 DEF applyCommandAck, QuietMissionStep
<1>3. CASE AckApplies(ack)
  <2>1. m \in MissionIds /\ missions[m] \in Mission
    BY <1>1, <1>3 DEF AckApplies, IInv, TypeOK, LinksAreSet
  <2>2. missions' = [missions EXCEPT ![m] = next]
    BY <1>3 DEF applyCommandAck
  <2>3. /\ lifecycle \in {"RUNNING", "CANCELLED", "TIMED_OUT", "REJECTED", "FAILED"}
        /\ lifecycle \in {"REJECTED", "TIMED_OUT"} => ack.status # "ACCEPTED"
        /\ lifecycle = "CANCELLED" => commands[c].type = "CANCEL_MISSION"
    BY <1>1, LifecycleFromAck
  <2>4. lifecycle \in LifecycleStates
    BY <2>3 DEF LifecycleStates, SettledStates, ActiveStates
  <2>5. /\ next.robotId = missions[m].robotId
        /\ next.currentCommandId = missions[m].currentCommandId
        /\ next.lastCommandSequence = missions[m].lastCommandSequence
        /\ next.lifecycleState = lifecycle
        /\ lifecycle \in {"REJECTED", "TIMED_OUT"} => next.operationalStatus = "DEGRADED"
    BY <1>1, <2>1, <2>3, <2>4, MissionAfterAckFits
  <2> HIDE DEF next, lifecycle
  <2>6. missions'[m] = next
    BY <2>1, <2>2 DEF IInv, TypeOK
  <2>7. lifecycle = "CANCELLED" => CancelIssuedFor(m)
    BY <1>1, <2>3 DEF CancelIssuedFor
  <2>8. DecidedStep(m)
    BY <2>3, <2>5, <2>6, <2>7 DEF DecidedStep, SameLinks, StatusFits
  <2>9. \A n \in MissionIds : n # m => missions'[n] = missions[n]
    BY <2>2 DEF IInv, TypeOK
  <2> QED
    BY <2>8, <2>9 DEF QuietMissionStep, applyCommandAck
<1> QED
  BY <1>2, <1>3 DEF applyCommandAck

LEMMA TimeoutIsQuiet ==
    ASSUME IInv, NEW t \in MissionIds, applyMissionTimeout(t)
    PROVE  UNCHANGED issueVars /\ \A m \in MissionIds : QuietMissionStep(m)
<1> DEFINE next == [missions[t] EXCEPT !.lifecycleState = "TIMED_OUT",
                                       !.operationalStatus = "DEGRADED"]
<1>1. missions[t] \in Mission /\ missions' = [missions EXCEPT ![t] = next]
  BY DEF IInv, TypeOK, applyMissionTimeout
<1>2. missions'[t] = next /\ \A m \in MissionIds : m # t => missions'[m] = missions[m]
  BY <1>1 DEF IInv, TypeOK
<1>3. /\ next.robotId = missions[t].robotId
      /\ next.currentCommandId = missions[t].currentCommandId
      /\ next.lastCommandSequence = missions[t].lastCommandSequence
      /\ next.lifecycleState = "TIMED_OUT" /\ next.operationalStatus = "DEGRADED"
  BY <1>1 DEF Mission
<1>4. DecidedStep(t)
  BY <1>2, <1>3 DEF DecidedStep, SameLinks, StatusFits
<1> QED
  BY <1>2, <1>4 DEF QuietMissionStep, applyMissionTimeout

LEMMA RepaintIsQuiet ==
    ASSUME IInv, NEW r \in RobotIds, NEW status,
           missions' = RepaintActive(robots[r].activeMissionId, status)
    PROVE  \A m \in MissionIds : QuietMissionStep(m)
<1> DEFINE t == robots[r].activeMissionId
<1>1. t \in MaybeMission
  BY DEF IInv, TypeOK, Robot
<1>2. CASE missions' = missions
  BY <1>2 DEF QuietMissionStep
<1>3. CASE /\ t \in MissionIds /\ isActiveMission(missions[t].lifecycleState)
           /\ missions' = [missions EXCEPT ![t].operationalStatus = status]
  <2>1. missions[t] \in Mission
    BY <1>3 DEF IInv, TypeOK
  <2>2. missions'[t] = [missions[t] EXCEPT !.operationalStatus = status]
    BY <1>3 DEF IInv, TypeOK
  <2>3. ActiveStep(t)
    BY <1>3, <2>1, <2>2 DEF ActiveStep, SameLinks, Mission
  <2>4. \A m \in MissionIds : m # t => missions'[m] = missions[m]
    BY <1>3 DEF IInv, TypeOK
  <2> QED
    BY <2>3, <2>4 DEF QuietMissionStep
<1> QED
  BY <1>1, <1>2, <1>3 DEF RepaintActive, MaybeMission

LEMMA TelemetryIsQuiet ==
    ASSUME IInv, NEW telemetry \in Telemetry, ingestRobotTelemetry(telemetry)
    PROVE  UNCHANGED issueVars /\ \A m \in MissionIds : QuietMissionStep(m)
<1> DEFINE t == telemetry.currentMissionId
           next == missionAfterTelemetry(missions[t], telemetry)
<1>1. telemetry \in Telemetry /\ t \in MaybeMission
  BY DEF Telemetry
<1>2. CASE missions' = missions
  BY <1>2 DEF QuietMissionStep, ingestRobotTelemetry
<1>3. CASE /\ t \in MissionIds /\ isActiveMission(missions[t].lifecycleState)
           /\ missions' = [missions EXCEPT ![t] = next]
  <2>1. missions[t] \in Mission
    BY <1>3 DEF IInv, TypeOK
  <2>2. /\ next.robotId = missions[t].robotId
        /\ next.currentCommandId = missions[t].currentCommandId
        /\ next.lastCommandSequence = missions[t].lastCommandSequence
        /\ next.lifecycleState \in {missions[t].lifecycleState, "RUNNING"}
        /\ next.lifecycleState # "DISPATCHED"
    BY <1>1, <2>1, TelemetryMission
  <2> HIDE DEF next
  <2>3. missions'[t] = next /\ \A m \in MissionIds : m # t => missions'[m] = missions[m]
    BY <1>3 DEF IInv, TypeOK
  <2>4. ActiveStep(t)
    BY <1>3, <2>2, <2>3 DEF ActiveStep, SameLinks
  <2> QED
    BY <2>3, <2>4 DEF QuietMissionStep, ingestRobotTelemetry
<1> QED
  BY <1>1, <1>2, <1>3 DEF ingestRobotTelemetry, MaybeMission

LEMMA HandshakeIsQuiet ==
    ASSUME IInv, NEW handshake \in Handshake, processReconnectHandshake(handshake)
    PROVE  UNCHANGED issueVars /\ \A m \in MissionIds : QuietMissionStep(m)
<1> DEFINE outcome == decideReconciliation(handshake)
           t == ReconciledMission(handshake, outcome)
           next == applyReconciliationToMission(IF t = None THEN NoMission ELSE missions[t],
                                                outcome)
<1>1. handshake \in Handshake
  OBVIOUS
<1>2. t # None => t \in MissionIds
  BY <1>1, ReconciledMissionExists DEF TypeInv, IInv
<1>3. missions' = IF t = None THEN missions ELSE [missions EXCEPT ![t] = next]
  BY DEF processReconnectHandshake
<1>4. CASE t = None
  BY <1>3, <1>4 DEF QuietMissionStep, processReconnectHandshake
<1>5. CASE t # None
  <2>1. missions[t] \in Mission
    BY <1>2, <1>5 DEF IInv, TypeOK
  <2>2. next = applyReconciliationToMission(missions[t], outcome)
    BY <1>5
  <2>3. /\ next.robotId = missions[t].robotId
        /\ next.currentCommandId = missions[t].currentCommandId
        /\ next.lastCommandSequence = missions[t].lastCommandSequence
        /\ next.lifecycleState \in {"SUCCEEDED", "FAILED", "MANUAL_REVIEW", "RUNNING"}
        /\ next.lifecycleState = "SUCCEEDED" => next.operationalStatus = "RECOVERED"
        /\ next.lifecycleState = "MANUAL_REVIEW" => next.operationalStatus = "RECONCILING"
    BY <2>1, <2>2, ReconciledMissionTypeOK
  <2> HIDE DEF next, t
  <2>4. missions'[t] = next /\ \A m \in MissionIds : m # t => missions'[m] = missions[m]
    BY <1>2, <1>3, <1>5 DEF IInv, TypeOK
  <2>5. DecidedStep(t)
    BY <2>3, <2>4 DEF DecidedStep, SameLinks, StatusFits
  <2> QED
    BY <2>4, <2>5 DEF QuietMissionStep, processReconnectHandshake
<1> QED
  BY <1>4, <1>5

(***************************************************************************)
(* The steps that issue a command.                                         *)
(***************************************************************************)

\* A key that answers nothing is unused: the record it would have leads to a command and a mission
\* that exist.
LEMMA UnansweredKeyIsFree ==
    ASSUME IInv, NEW key \in IdempotencyKeys, NEW signature, ~AnsweredByKey(key, signature)
    PROVE  idempotencyRecords[key] = NoRecord
BY DEF IInv, OneCommandPerKey, AnsweredByKey

\* What issuing command under the unused id c and an unused key means for the invariants.
LEMMA IssueKeepsInvariants ==
    ASSUME IInv, NEW c \in CommandIds, NEW command \in Command, NEW signature \in Signature,
           Issue(c, command, signature), ~CommandExists(c),
           command.idempotencyKey \in IdempotencyKeys,
           idempotencyRecords[command.idempotencyKey] = NoRecord,
           command.type # "ABSENT",
           command.robotId \in RobotIds, command.missionId \in MissionIds,
           command.sequence >= nextSequenceByRobot[command.robotId],
           \A m \in MissionIds : MissionExists(m) => MissionExists(m)',
           MissionExists(command.missionId)'
    PROVE  /\ UniqueSequences'
           /\ OneCommandPerKey'
           /\ commands'[c] = command
           /\ \A d \in CommandIds : CommandExists(d) => d # c /\ commands'[d] = commands[d]
           /\ \A d \in CommandIds : commands'[d].type = "CANCEL_MISSION" =>
                  d = c \/ commands'[d] = commands[d]
<1> DEFINE k == command.idempotencyKey
           record == [payloadSignature |-> signature, commandId |-> c,
                      missionId |-> command.missionId]
<1>1. commands'[c] = command /\ \A d \in CommandIds : d # c => commands'[d] = commands[d]
  BY DEF IInv, TypeOK, Issue
<1>2. \A d \in CommandIds : CommandExists(d) => d # c
  OBVIOUS
<1>3. \A d \in CommandIds : CommandExists(d)' <=> (d = c \/ CommandExists(d))
  BY <1>1, NoneAssumption DEF CommandExists
<1>4. /\ nextSequenceByRobot'[command.robotId] = command.sequence + 1
      /\ \A r \in RobotIds : r # command.robotId =>
             nextSequenceByRobot'[r] = nextSequenceByRobot[r]
  BY DEF IInv, TypeOK, Issue
<1>5. /\ idempotencyRecords'[k] = record
      /\ \A j \in IdempotencyKeys : j # k => idempotencyRecords'[j] = idempotencyRecords[j]
  BY DEF IInv, TypeOK, Issue
<1>6. UniqueSequences'
  <2> SUFFICES ASSUME NEW a \in CommandIds, NEW d \in CommandIds, CommandExists(a)'
               PROVE  /\ commands'[a].sequence < nextSequenceByRobot'[commands'[a].robotId]
                      /\ /\ CommandExists(d)' /\ a # d
                         /\ commands'[a].robotId = commands'[d].robotId
                         => commands'[a].sequence # commands'[d].sequence
    BY DEF UniqueSequences
  <2>1. \A e \in CommandIds : CommandExists(e) =>
            /\ commands[e].robotId \in RobotIds /\ commands[e].sequence \in Nat
            /\ commands[e].sequence < nextSequenceByRobot[commands[e].robotId]
    BY DEF IInv, TypeOK, LinksAreSet, UniqueSequences, Command
  <2>2. command.sequence \in Nat /\ \A r \in RobotIds : nextSequenceByRobot[r] \in Nat
    BY DEF IInv, TypeOK, Command
  <2>3. commands'[a].sequence < nextSequenceByRobot'[commands'[a].robotId]
    BY <1>1, <1>3, <1>4, <2>1, <2>2
  <2>4. ASSUME CommandExists(d)', a # d, commands'[a].robotId = commands'[d].robotId
        PROVE  commands'[a].sequence # commands'[d].sequence
    <3>1. CASE a = c
      BY <1>1, <1>3, <2>1, <2>2, <2>4, <3>1
    <3>2. CASE d = c
      BY <1>1, <1>3, <2>1, <2>2, <2>4, <3>2
    <3>3. CASE a # c /\ d # c
      BY <1>1, <1>3, <2>4, <3>3 DEF IInv, UniqueSequences
    <3> QED
      BY <3>1, <3>2, <3>3
  <2> QED
    BY <2>3, <2>4
<1>7. record \in IdempotencyRecord /\ record # NoRecord
  BY NoneAssumption DEF IdempotencyRecord, NoRecord
<1> HIDE DEF record
<1>8. OneCommandPerKey'
  <2>1. ASSUME NEW j \in IdempotencyKeys, NEW entry,
               entry = idempotencyRecords'[j], entry # NoRecord
        PROVE  /\ CommandExists(entry.commandId)'
               /\ commands'[entry.commandId].idempotencyKey = j
               /\ commands'[entry.commandId].missionId = entry.missionId
               /\ MissionExists(entry.missionId)'
    <3>1. CASE j = k
      <4>1. entry.commandId = c /\ entry.missionId = command.missionId
        BY <1>5, <2>1, <3>1 DEF record
      <4> QED
        BY <1>1, <1>3, <3>1, <4>1
    <3>2. CASE j # k
      <4>1. entry \in IdempotencyRecord /\ idempotencyRecords[j] = entry
        BY <1>5, <2>1, <3>2 DEF IInv, TypeOK
      <4>2. /\ CommandExists(entry.commandId)
            /\ commands[entry.commandId].idempotencyKey = j
            /\ commands[entry.commandId].missionId = entry.missionId
            /\ MissionExists(entry.missionId)
        BY <2>1, <4>1 DEF IInv, OneCommandPerKey
      <4>3. entry.commandId \in CommandIds /\ entry.missionId \in MissionIds
        BY <4>1 DEF IdempotencyRecord
      <4> QED
        BY <1>1, <1>2, <1>3, <4>1, <4>2, <4>3
    <3> QED
      BY <3>1, <3>2
  <2>2. ASSUME NEW d \in CommandIds, CommandExists(d)'
        PROVE  /\ idempotencyRecords'[commands'[d].idempotencyKey] # NoRecord
               /\ idempotencyRecords'[commands'[d].idempotencyKey].commandId = d
    <3>1. CASE d = c
      BY <1>1, <1>5, <1>7, <3>1 DEF record
    <3>2. CASE d # c
      <4>1. CommandExists(d) /\ commands'[d] = commands[d]
        BY <1>1, <1>3, <2>2, <3>2
      <4>2. /\ commands[d].idempotencyKey \in IdempotencyKeys
            /\ idempotencyRecords[commands[d].idempotencyKey] # NoRecord
            /\ idempotencyRecords[commands[d].idempotencyKey].commandId = d
        BY <4>1 DEF IInv, LinksAreSet, OneCommandPerKey
      <4> QED
        BY <1>5, <4>1, <4>2
    <3> QED
      BY <3>1, <3>2
  <2> QED
    BY <2>1, <2>2 DEF OneCommandPerKey, CommandExists, MissionExists
<1> QED
  BY <1>1, <1>2, <1>6, <1>8

\* A step that issues c for mission t and leaves the other missions alone.
LEMMA IssuedMissionKeepsIInv ==
    ASSUME IInv, TypeInv', NEW c \in CommandIds, NEW t \in MissionIds,
           UniqueSequences', OneCommandPerKey', ~CommandExists(c),
           \A d \in CommandIds : CommandExists(d) => d # c /\ commands'[d] = commands[d],
           \A m \in MissionIds : m # t => missions'[m] = missions[m],
           missions'[t].currentCommandId = c,
           commands'[c].type # "ABSENT",
           commands'[c].missionId = t,
           commands'[c].robotId = missions'[t].robotId,
           commands'[c].sequence = missions'[t].lastCommandSequence,
           \/ missions'[t].lifecycleState = "DISPATCHED"
           \/ /\ missions'[t].lifecycleState = "CANCEL_REQUESTED"
              /\ commands'[c].type = "CANCEL_MISSION"
    PROVE  IInv'
<1>1. c # None
  BY NoneAssumption
<1>2. CurrentCommandMatchesMission'
  <2> SUFFICES ASSUME NEW m \in MissionIds, NEW d, d = missions'[m].currentCommandId, d # None
               PROVE  /\ CommandExists(d)'
                      /\ commands'[d].missionId = m
                      /\ commands'[d].robotId = missions'[m].robotId
                      /\ commands'[d].sequence = missions'[m].lastCommandSequence
    BY DEF CurrentCommandMatchesMission, CommandExists
  <2>1. CASE m = t
    BY <1>1, <2>1 DEF CommandExists
  <2>2. CASE m # t
    <3>1. missions'[m] = missions[m] /\ d \in CommandIds
      BY <2>2 DEF IInv, TypeOK, Mission, MaybeCommand
    <3>2. /\ CommandExists(d) /\ commands[d].missionId = m
          /\ commands[d].robotId = missions[m].robotId
          /\ commands[d].sequence = missions[m].lastCommandSequence
      BY <3>1 DEF IInv, CurrentCommandMatchesMission
    <3>3. commands'[d] = commands[d]
      BY <3>1, <3>2
    <3> QED
      BY <3>1, <3>2, <3>3 DEF CommandExists
  <2> QED
    BY <2>1, <2>2
<1>3. CancellationFlow'
  <2> SUFFICES ASSUME NEW m \in MissionIds
               PROVE  /\ missions'[m].lifecycleState = "CANCEL_REQUESTED" =>
                             /\ missions'[m].currentCommandId # None
                             /\ commands'[missions'[m].currentCommandId].type = "CANCEL_MISSION"
                      /\ missions'[m].lifecycleState = "DISPATCHED" =>
                             missions'[m].currentCommandId # None
                      /\ missions'[m].lifecycleState = "CANCELLED" => CancelIssuedFor(m)'
    BY DEF CancellationFlow, CancelIssuedFor
  <2>1. CASE m = t
    BY <1>1, <2>1
  <2>2. CASE m # t
    <3>1. missions'[m] = missions[m]
      BY <2>2
    <3>2. missions[m].lifecycleState = "CANCELLED" => CancelIssuedFor(m)'
      BY NoneAssumption DEF IInv, CancellationFlow, CancelIssuedFor, CommandExists
    <3>3. missions[m].currentCommandId # None =>
              commands'[missions[m].currentCommandId] = commands[missions[m].currentCommandId]
      BY DEF IInv, TypeOK, Mission, MaybeCommand, CurrentCommandMatchesMission
    <3> QED
      BY <3>1, <3>2, <3>3 DEF IInv, CancellationFlow
  <2> QED
    BY <2>1, <2>2
<1>4. SettledStatusIsKept'
  BY DEF IInv, SettledStatusIsKept
<1> QED
  BY <1>2, <1>3, <1>4 DEF IInv, TypeInv

LEMMA AcceptKeepsIInv ==
    ASSUME IInv, NEW in \in DispatchInputs, NEW time \in Nat,
           acceptDispatch(in, time), ~Malformed(in),
           ~AnsweredByKey(in.idempotencyKey, dispatchSignature(in))
    PROVE  /\ IInv'
           /\ idempotencyRecords[in.idempotencyKey] = NoRecord
           /\ ~CommandExists(in.commandId)
<1> DEFINE c == in.commandId
           t == in.missionId
           sequence == dispatchSequence(in.robotId)
           command == [missionId |-> t, robotId |-> in.robotId, type |-> in.type,
                       idempotencyKey |-> in.idempotencyKey, sequence |-> sequence,
                       expiresAt |-> time + in.ttl]
           snapshot == [NoMission EXCEPT !.robotId = in.robotId, !.lifecycleState = "DISPATCHED",
                                         !.currentCommandId = c, !.lastCommandSequence = sequence]
<1>1. in \in DispatchInput /\ TypeInv
  BY InputAssumption DEF IInv, TypeInv
<1>2. /\ c \in CommandIds /\ t \in MissionIds /\ in.robotId \in RobotIds
      /\ in.idempotencyKey \in IdempotencyKeys
      /\ in.type \in CommandTypes /\ in.ttl \in Nat
  BY <1>1 DEF DispatchInput
<1>3. sequence \in Nat /\ sequence >= nextSequenceByRobot[in.robotId]
  BY <1>2 DEF IInv, TypeOK, dispatchSequence
<1>4. command \in Command
  BY <1>2, <1>3 DEF Command, MaybeMission
<1>5. dispatchSignature(in) \in Signature
  BY <1>1 DEF dispatchSignature, Signature, DispatchInput
<1>6. idempotencyRecords[in.idempotencyKey] = NoRecord
  BY <1>2, UnansweredKeyIsFree
<1>7. ~CommandExists(c)
  BY DEF Malformed
<1>8. /\ missions'[t] = snapshot
      /\ \A m \in MissionIds : m # t => missions'[m] = missions[m]
      /\ Issue(c, command, dispatchSignature(in))
  BY <1>2 DEF acceptDispatch, IInv, TypeOK
<1>9. /\ snapshot.robotId = in.robotId /\ snapshot.lifecycleState = "DISPATCHED"
      /\ snapshot.currentCommandId = c /\ snapshot.lastCommandSequence = sequence
  BY DEF NoMission
<1> HIDE DEF sequence, snapshot
<1>10. MissionExists(t)' /\ \A m \in MissionIds : MissionExists(m) => MissionExists(m)'
  BY <1>2, <1>8, <1>9, NoneAssumption DEF MissionExists
<1>11. command.type # "ABSENT"
  BY <1>2 DEF CommandTypes
<1>12. TypeInv'
  BY <1>1, AcceptTypeOK
<1>13. /\ command.missionId = t /\ command.robotId = in.robotId /\ command.sequence = sequence
       /\ command.idempotencyKey = in.idempotencyKey
  OBVIOUS
<1> HIDE DEF command
<1>14. /\ UniqueSequences' /\ OneCommandPerKey'
       /\ commands'[c] = command
       /\ \A d \in CommandIds : CommandExists(d) => d # c /\ commands'[d] = commands[d]
  BY <1>2, <1>3, <1>4, <1>5, <1>6, <1>7, <1>8, <1>10, <1>11, <1>13, IssueKeepsInvariants
<1>15. IInv'
  BY <1>2, <1>7, <1>8, <1>9, <1>11, <1>12, <1>13, <1>14, IssuedMissionKeepsIInv
<1> QED
  BY <1>6, <1>7, <1>15

LEMMA CancelKeepsIInv ==
    ASSUME IInv, NEW in \in CancelInputs, NEW time \in Nat,
           requestMissionCancellation(in, time)
    PROVE  /\ IInv'
           /\ idempotencyRecords[in.idempotencyKey] = NoRecord
           /\ missions[in.missionId].robotId \in RobotIds
           /\ cancelSequence(in.missionId) \in Nat
           /\ cancelSequence(in.missionId) >=
                  nextSequenceByRobot[missions[in.missionId].robotId]
<1> DEFINE c == in.commandId
           t == in.missionId
           mission == missions[t]
           sequence == cancelSequence(t)
           command == [missionId |-> t, robotId |-> mission.robotId, type |-> "CANCEL_MISSION",
                       idempotencyKey |-> in.idempotencyKey, sequence |-> sequence,
                       expiresAt |-> time + in.ttl]
           snapshot == [mission EXCEPT !.lifecycleState = "CANCEL_REQUESTED",
                                       !.currentCommandId = c, !.lastCommandSequence = sequence]
<1>1. in \in CancelInput /\ TypeInv
  BY InputAssumption DEF IInv, TypeInv
<1>2. /\ c \in CommandIds /\ t \in MissionIds /\ in.idempotencyKey \in IdempotencyKeys
      /\ in.ttl \in Nat /\ mission \in Mission
  BY <1>1 DEF CancelInput, IInv, TypeOK
<1>3. /\ MissionExists(t) /\ ~CommandExists(c)
      /\ ~AnsweredByKey(in.idempotencyKey, cancelSignature(in))
  BY DEF requestMissionCancellation
<1>4. /\ mission.robotId \in RobotIds /\ sequence \in Nat
      /\ sequence >= nextSequenceByRobot[mission.robotId]
  BY <1>1, <1>2, <1>3, CancelSequenceIsNat
<1>5. command \in Command
  BY <1>2, <1>4 DEF Command, CommandTypes, MaybeMission
<1>6. cancelSignature(in) \in Signature
  BY <1>1 DEF cancelSignature, Signature, CancelInput, CommandTypes
<1>7. idempotencyRecords[in.idempotencyKey] = NoRecord
  BY <1>2, <1>3, UnansweredKeyIsFree
<1>8. /\ missions'[t] = snapshot
      /\ \A m \in MissionIds : m # t => missions'[m] = missions[m]
      /\ Issue(c, command, cancelSignature(in))
  BY <1>2 DEF requestMissionCancellation, IInv, TypeOK
<1>9. /\ snapshot.robotId = mission.robotId /\ snapshot.lifecycleState = "CANCEL_REQUESTED"
      /\ snapshot.currentCommandId = c /\ snapshot.lastCommandSequence = sequence
  BY <1>2 DEF Mission
<1> HIDE DEF sequence, snapshot
<1>10. MissionExists(t)' /\ \A m \in MissionIds : MissionExists(m) => MissionExists(m)'
  BY <1>2, <1>8, <1>9, NoneAssumption DEF MissionExists
<1>12. TypeInv'
  BY <1>1, CancelTypeOK
<1>13. /\ command.missionId = t /\ command.robotId = mission.robotId
       /\ command.sequence = sequence /\ command.idempotencyKey = in.idempotencyKey
       /\ command.type = "CANCEL_MISSION"
  OBVIOUS
<1> HIDE DEF command
<1>14. /\ UniqueSequences' /\ OneCommandPerKey'
       /\ commands'[c] = command
       /\ \A d \in CommandIds : CommandExists(d) => d # c /\ commands'[d] = commands[d]
  BY <1>2, <1>3, <1>4, <1>5, <1>6, <1>7, <1>8, <1>10, <1>13, IssueKeepsInvariants
<1>15. IInv'
  BY <1>2, <1>3, <1>8, <1>9, <1>12, <1>13, <1>14, IssuedMissionKeepsIInv
<1> QED
  BY <1>4, <1>7, <1>15 DEF sequence

(***************************************************************************)
(* Every step.                                                             *)
(***************************************************************************)

\* Init has no mission, no command and no record.
LEMMA InitIInv == Init => IInv
<1> SUFFICES ASSUME Init PROVE IInv
  OBVIOUS
<1>1. TypeInv
  BY InitTypeOK
<1>2. \A m \in MissionIds : missions[m].lifecycleState = "ABSENT" /\ missions[m].currentCommandId = None
  BY DEF Init, createInitialDomainState, NoMission
<1>3. /\ \A c \in CommandIds : ~CommandExists(c)
      /\ \A k \in IdempotencyKeys : idempotencyRecords[k] = NoRecord
  BY DEF Init, createInitialDomainState, NoCommand, CommandExists
<1>4. UniqueSequences /\ OneCommandPerKey
  BY <1>3 DEF UniqueSequences, OneCommandPerKey
<1>5. CurrentCommandMatchesMission /\ CancellationFlow /\ SettledStatusIsKept
  BY <1>2 DEF CurrentCommandMatchesMission, CancellationFlow, SettledStatusIsKept
<1> QED
  BY <1>1, <1>4, <1>5 DEF IInv, TypeInv

QuietStep == UNCHANGED issueVars /\ \A m \in MissionIds : QuietMissionStep(m)

Accepts(in, time) == /\ acceptDispatch(in, time) /\ ~Malformed(in)
                     /\ ~AnsweredByKey(in.idempotencyKey, dispatchSignature(in))

\* Every step is quiet, an accepted dispatch or a cancellation.
LEMMA StepCases ==
    ASSUME IInv, [ReducerStep]_vars
    PROVE  \/ QuietStep
           \/ \E in \in DispatchInputs, time \in Nat : Accepts(in, time)
           \/ \E in \in CancelInputs, time \in Nat : requestMissionCancellation(in, time)
<1>1. CASE UNCHANGED vars
  BY <1>1 DEF vars, QuietStep, QuietMissionStep, issueVars
<1>2. ASSUME NEW in \in DispatchInputs, NEW time \in Nat, dispatchMissionCommand(in, time)
      PROVE  QuietStep \/ Accepts(in, time)
  BY <1>2, RejectIsQuiet DEF dispatchMissionCommand, QuietStep, Accepts
<1>3. ASSUME NEW ack, AckFields(ack), applyCommandAck(ack) PROVE QuietStep
  BY <1>3, AckIsQuiet DEF QuietStep
<1>4. ASSUME NEW m \in MissionIds, applyMissionTimeout(m) PROVE QuietStep
  BY <1>4, TimeoutIsQuiet DEF QuietStep
<1>5. ASSUME NEW telemetry \in Telemetry, ingestRobotTelemetry(telemetry) PROVE QuietStep
  BY <1>5, TelemetryIsQuiet DEF QuietStep
<1>6. ASSUME NEW r \in RobotIds, NEW time, evaluateTelemetryFreshness(r, time) \/ beginReconnect(r)
      PROVE  QuietStep
  BY <1>6, RepaintIsQuiet DEF QuietStep, evaluateTelemetryFreshness, beginReconnect
<1>7. ASSUME NEW handshake \in Handshake, processReconnectHandshake(handshake)
      PROVE  QuietStep
  BY <1>7, HandshakeIsQuiet DEF QuietStep
<1>8. ASSUME NEW hello \in Hello, handleEdgeConnected(hello) PROVE QuietStep
  BY <1>8 DEF handleEdgeConnected, QuietStep, QuietMissionStep
<1>9. CASE Tick
  BY <1>9 DEF Tick, QuietStep, QuietMissionStep
<1> QED
  BY <1>1, <1>2, <1>3, <1>4, <1>5, <1>6, <1>7, <1>8, <1>9 DEF ReducerStep

\* The calls of FleetDomain are stamped with the time of its clock.
LEMMA StepIsReducerStep == IInv /\ [Next]_vars => [ReducerStep]_vars
BY NextIsReducerStep DEF IInv

LEMMA NextIInv == IInv /\ [ReducerStep]_vars => IInv'
<1> SUFFICES ASSUME IInv, [ReducerStep]_vars PROVE IInv'
  OBVIOUS
<1>1. TypeInv'
  BY NextTypeOK DEF IInv, TypeInv
<1>2. CASE QuietStep
  BY <1>1, <1>2, QuietStepKeepsIInv DEF QuietStep
<1> QED
  BY <1>2, StepCases, AcceptKeepsIInv, CancelKeepsIInv DEF Accepts

\* IInv holds in every reachable state; the theorems after it name its parts.
THEOREM Invariance == Spec => []IInv
BY InitIInv, NextIInv, StepIsReducerStep, PTL DEF Spec

\* No two commands of a robot share a sequence, and the robot's counter is past them all.
THEOREM SequencesAreUnique == Spec => []UniqueSequences
<1>1. IInv => UniqueSequences
  BY DEF IInv
<1> QED
  BY <1>1, Invariance, PTL

\* An operator key stands for exactly one command.
THEOREM KeysAreIdempotent == Spec => []OneCommandPerKey
<1>1. IInv => OneCommandPerKey
  BY DEF IInv
<1> QED
  BY <1>1, Invariance, PTL

\* The command a mission waits for is its own, for its robot, with the sequence it remembers.
THEOREM MissionsNameTheirCommand == Spec => []CurrentCommandMatchesMission
<1>1. IInv => CurrentCommandMatchesMission
  BY DEF IInv
<1> QED
  BY <1>1, Invariance, PTL

\* CANCEL_REQUESTED and CANCELLED come from a cancellation that was issued for the mission.
THEOREM CancellationsAreIssued == Spec => []CancellationFlow
<1>1. IInv => CancellationFlow
  BY DEF IInv
<1> QED
  BY <1>1, Invariance, PTL

\* A settled mission keeps the operational status it settled with.
THEOREM SettledStatusHolds == Spec => []SettledStatusIsKept
<1>1. IInv => SettledStatusIsKept
  BY DEF IInv
<1> QED
  BY <1>1, Invariance, PTL

(***************************************************************************)
(* Action properties.                                                      *)
(***************************************************************************)

LEMMA IssuedStays ==
    ASSUME IInv, [ReducerStep]_vars
    PROVE  /\ \A c \in CommandIds : CommandExists(c) => commands'[c] = commands[c]
           /\ \A k \in IdempotencyKeys :
                  idempotencyRecords[k] # NoRecord => idempotencyRecords'[k] = idempotencyRecords[k]
<1> DEFINE Final == /\ \A c \in CommandIds : CommandExists(c) => commands'[c] = commands[c]
                    /\ \A k \in IdempotencyKeys :
                           idempotencyRecords[k] # NoRecord =>
                               idempotencyRecords'[k] = idempotencyRecords[k]
<1>1. CASE QuietStep
  BY <1>1 DEF QuietStep, issueVars
<1>2. ASSUME NEW in \in DispatchInputs, NEW time \in Nat, Accepts(in, time)
      PROVE  Final
  <2>1. idempotencyRecords[in.idempotencyKey] = NoRecord /\ ~CommandExists(in.commandId)
    BY <1>2, AcceptKeepsIInv DEF Accepts
  <2> QED
    BY <1>2, <2>1 DEF Accepts, acceptDispatch, Issue, IInv, TypeOK
<1>3. ASSUME NEW in \in CancelInputs, NEW time \in Nat, requestMissionCancellation(in, time)
      PROVE  Final
  <2>1. idempotencyRecords[in.idempotencyKey] = NoRecord
    BY <1>3, CancelKeepsIInv
  <2> QED
    BY <1>3, <2>1 DEF requestMissionCancellation, Issue, IInv, TypeOK
<1> QED
  BY <1>1, <1>2, <1>3, StepCases

\* An issued command and the record of its key are never rewritten.
THEOREM IssuedCommandsStay == Spec => IssuedCommandsAreFinal
<1>1. IInv /\ [Next]_vars =>
          [/\ \A c \in CommandIds : CommandExists(c) => commands'[c] = commands[c]
           /\ \A k \in IdempotencyKeys : idempotencyRecords[k] # NoRecord =>
                  idempotencyRecords'[k] = idempotencyRecords[k]]_vars
  BY IssuedStays, StepIsReducerStep
<1> QED
  BY <1>1, Invariance, PTL DEF Spec, IssuedCommandsAreFinal

LEMMA DispatchedWithFresh ==
    ASSUME IInv, [ReducerStep]_vars, NEW m \in MissionIds,
           missions'[m].lifecycleState = "DISPATCHED",
           missions[m].lifecycleState # "DISPATCHED"
    PROVE  LET c == missions'[m].currentCommandId IN
           /\ c \in CommandIds /\ ~CommandExists(c)
           /\ commands'[c].sequence = Larger(1, nextSequenceByRobot[commands'[c].robotId])
<1> DEFINE Fresh == \A n \in MissionIds :
                /\ missions'[n].lifecycleState = "DISPATCHED"
                /\ missions[n].lifecycleState # "DISPATCHED"
                => LET c == missions'[n].currentCommandId IN
                   /\ c \in CommandIds /\ ~CommandExists(c)
                   /\ commands'[c].sequence =
                          Larger(1, nextSequenceByRobot[commands'[c].robotId])
<1>1. CASE QuietStep
  BY <1>1 DEF QuietStep, QuietMissionStep, RejectedStep, ActiveStep, DecidedStep
<1>2. ASSUME NEW in \in DispatchInputs, NEW time \in Nat, Accepts(in, time)
      PROVE  Fresh
  <2>1. in \in DispatchInput /\ in.commandId \in CommandIds
    BY InputAssumption DEF DispatchInput
  <2>2. ~CommandExists(in.commandId)
    BY <1>2, AcceptKeepsIInv DEF Accepts
  <2>3. /\ \A n \in MissionIds : n # in.missionId => missions'[n] = missions[n]
        /\ missions'[in.missionId].currentCommandId = in.commandId
        /\ commands'[in.commandId].robotId = in.robotId
        /\ commands'[in.commandId].sequence = dispatchSequence(in.robotId)
    BY <1>2, <2>1 DEF Accepts, acceptDispatch, Issue, IInv, TypeOK, NoMission,
       DispatchInput
  <2>4. dispatchSequence(in.robotId) = Larger(1, nextSequenceByRobot[in.robotId])
    BY <2>1 DEF dispatchSequence, Larger, IInv, TypeOK, DispatchInput
  <2> QED
    BY <2>1, <2>2, <2>3, <2>4
<1>3. ASSUME NEW in \in CancelInputs, NEW time \in Nat, requestMissionCancellation(in, time)
      PROVE  Fresh
  <2>1. in.missionId \in MissionIds /\ missions[in.missionId] \in Mission
    BY InputAssumption DEF CancelInput, IInv, TypeOK
  <2>2. /\ missions'[in.missionId].lifecycleState = "CANCEL_REQUESTED"
        /\ \A n \in MissionIds : n # in.missionId => missions'[n] = missions[n]
    BY <1>3, <2>1 DEF requestMissionCancellation, IInv, TypeOK, Mission
  <2> QED
    BY <2>2
<1> QED
  BY <1>1, <1>2, <1>3, StepCases

\* A mission enters DISPATCHED only with a command that did not exist before, under the sequence
\* its robot's counter had reserved.
THEOREM DispatchIsFresh == Spec => DispatchedWithFreshCommand
<1>1. IInv /\ [Next]_vars =>
          [\A m \in MissionIds :
               /\ missions'[m].lifecycleState = "DISPATCHED"
               /\ missions[m].lifecycleState # "DISPATCHED"
               => LET c == missions'[m].currentCommandId IN
                  /\ c \in CommandIds /\ ~CommandExists(c)
                  /\ commands'[c].sequence =
                         Larger(1, nextSequenceByRobot[commands'[c].robotId])]_vars
  BY DispatchedWithFresh, StepIsReducerStep
<1> QED
  BY <1>1, Invariance, PTL DEF Spec, DispatchedWithFreshCommand

\* What a reducer that is told seen makes of what robot r has seen.
SeenAfter(r, seen) ==
    robots'[r].lastSeenCommandSequence \in
        {robots[r].lastSeenCommandSequence, Larger(robots[r].lastSeenCommandSequence, seen)}

LEMMA SeenAfterAck ==
    ASSUME IInv, NEW ack, applyCommandAck(ack), NEW r \in RobotIds
    PROVE  SeenAfter(r, ack.lastSeenCommandSequence)
<1> DEFINE seen == Larger(robots[r].lastSeenCommandSequence, ack.lastSeenCommandSequence)
<1>1. robots[r] \in Robot
  BY DEF IInv, TypeOK
<1>2. CASE robots' = robots
  BY <1>2 DEF SeenAfter
<1>3. CASE AckApplies(ack)
  <2>1. \A m, lifecycle :
            robotAfterAck(r, m, lifecycle, ack.lastSeenCommandSequence).lastSeenCommandSequence
                = seen
    BY <1>1 DEF robotAfterAck, Robot
  <2>2. robots'[r] = robots[r] \/
            \E m, lifecycle : robots'[r] =
                robotAfterAck(r, m, lifecycle, ack.lastSeenCommandSequence)
    BY <1>3 DEF applyCommandAck, IInv, TypeOK
  <2> QED
    BY <2>1, <2>2 DEF SeenAfter
<1> QED
  BY <1>2, <1>3 DEF applyCommandAck

LEMMA SeenAfterTelemetry ==
    ASSUME IInv, NEW telemetry, ingestRobotTelemetry(telemetry), NEW r \in RobotIds
    PROVE  SeenAfter(r, telemetry.lastSeenCommandSequence)
BY DEF SeenAfter, ingestRobotTelemetry, IInv, TypeOK

LEMMA SeenAfterHandshake ==
    ASSUME IInv, NEW handshake, processReconnectHandshake(handshake), NEW r \in RobotIds
    PROVE  SeenAfter(r, handshake.lastSeenCommandSequence)
<1> DEFINE seen == Larger(robots[r].lastSeenCommandSequence, handshake.lastSeenCommandSequence)
<1>1. robots[r] \in Robot
  BY DEF IInv, TypeOK
<1>2. CASE r # handshake.robotId
  BY <1>2 DEF processReconnectHandshake, IInv, TypeOK, SeenAfter
<1>3. CASE r = handshake.robotId
  <2>1. \E connection, assignment : robots'[r] =
            [robots[r] EXCEPT !.connectionState = connection, !.activeMissionId = assignment,
                              !.lastSeenCommandSequence = seen,
                              !.lastTelemetryObservedAt = handshake.lastTelemetryObservedAt]
    BY <1>3 DEF processReconnectHandshake, IInv, TypeOK, seen
  <2> HIDE DEF seen
  <2>2. robots'[r].lastSeenCommandSequence = seen
    BY <1>1, <2>1 DEF Robot
  <2> QED
    BY <2>2 DEF SeenAfter, seen
<1> QED
  BY <1>2, <1>3

LEMMA SeenAfterHello ==
    ASSUME IInv, NEW hello \in Hello, handleEdgeConnected(hello), NEW r \in RobotIds
    PROVE  SeenAfter(r, hello.lastSeenCommandSequence)
<1> DEFINE seen == Larger(robots[r].lastSeenCommandSequence, hello.lastSeenCommandSequence)
<1>1. robots[r] \in Robot
  BY DEF IInv, TypeOK
<1>2. CASE r # hello.robotId
  BY <1>2 DEF handleEdgeConnected, IInv, TypeOK, SeenAfter
<1>3. CASE r = hello.robotId /\ RobotExists(r)
  <2>1. robots'[r] = [robots[r] EXCEPT !.connectionState = "ONLINE",
                                       !.lastSeenCommandSequence = seen]
    BY <1>3 DEF handleEdgeConnected, IInv, TypeOK, seen
  <2> HIDE DEF seen
  <2>2. robots'[r].lastSeenCommandSequence = seen
    BY <1>1, <2>1 DEF Robot
  <2> QED
    BY <2>2 DEF SeenAfter, seen
<1>4. CASE r = hello.robotId /\ ~RobotExists(r)
  <2>1. robots[r].lastSeenCommandSequence = 0
    BY <1>4 DEF IInv, LinksAreSet
  <2>2. robots'[r].lastSeenCommandSequence = hello.lastSeenCommandSequence
    BY <1>4 DEF handleEdgeConnected, IInv, TypeOK, NoRobot
  <2>3. hello.lastSeenCommandSequence \in Nat
    BY DEF Hello
  <2>4. Larger(0, hello.lastSeenCommandSequence) = hello.lastSeenCommandSequence
    BY <2>3 DEF Larger
  <2> QED
    BY <2>1, <2>2, <2>4 DEF SeenAfter
<1> QED
  BY <1>2, <1>3, <1>4

\* No other reducer writes what a robot has seen.
LEMMA SeenElsewhere ==
    ASSUME IInv, NEW r \in RobotIds,
           \/ \E in \in DispatchInputs, time \in Nat : dispatchMissionCommand(in, time)
           \/ \E in \in CancelInputs, time \in Nat : requestMissionCancellation(in, time)
           \/ \E m \in MissionIds : applyMissionTimeout(m)
           \/ \E s \in RobotIds, time \in Nat : evaluateTelemetryFreshness(s, time)
           \/ \E s \in RobotIds : beginReconnect(s)
           \/ Tick \/ UNCHANGED vars
    PROVE  robots'[r].lastSeenCommandSequence = robots[r].lastSeenCommandSequence
<1>1. robots[r] \in Robot
  BY DEF IInv, TypeOK
<1>2. CASE robots' = robots
  BY <1>2
<1>3. ASSUME NEW in \in DispatchInputs, NEW time \in Nat, acceptDispatch(in, time)
      PROVE  robots'[r].lastSeenCommandSequence = robots[r].lastSeenCommandSequence
  BY <1>1, <1>3 DEF acceptDispatch, IInv, TypeOK, Robot
<1>4. ASSUME NEW s \in RobotIds, NEW time, evaluateTelemetryFreshness(s, time) \/ beginReconnect(s)
      PROVE  robots'[r].lastSeenCommandSequence = robots[r].lastSeenCommandSequence
  BY <1>1, <1>4 DEF evaluateTelemetryFreshness, beginReconnect, IInv, TypeOK, Robot
<1> QED
  BY <1>2, <1>3, <1>4 DEF dispatchMissionCommand, rejectDispatch, requestMissionCancellation,
     applyMissionTimeout, Tick, vars

LEMMA LastSeenGrows ==
    ASSUME IInv, [ReducerStep]_vars, NEW r \in RobotIds
    PROVE  robots'[r].lastSeenCommandSequence >= robots[r].lastSeenCommandSequence
<1> DEFINE Grows == robots'[r].lastSeenCommandSequence >= robots[r].lastSeenCommandSequence
<1>1. robots[r].lastSeenCommandSequence \in Nat
  BY DEF IInv, TypeOK, Robot
<1>2. ASSUME NEW seen \in Nat, SeenAfter(r, seen) PROVE Grows
  <2>1. Larger(robots[r].lastSeenCommandSequence, seen) >= robots[r].lastSeenCommandSequence
    BY <1>1, LargerIsNat
  <2> QED
    BY <1>1, <1>2, <2>1 DEF SeenAfter
<1>3. ASSUME NEW ack, AckFields(ack), applyCommandAck(ack) PROVE Grows
  BY <1>2, <1>3, SeenAfterAck DEF AckFields
<1>4. ASSUME NEW telemetry \in Telemetry, ingestRobotTelemetry(telemetry) PROVE Grows
  BY <1>2, <1>4, SeenAfterTelemetry DEF Telemetry
<1>5. ASSUME NEW handshake \in Handshake, processReconnectHandshake(handshake) PROVE Grows
  BY <1>2, <1>5, SeenAfterHandshake DEF Handshake
<1>6. ASSUME NEW hello \in Hello, handleEdgeConnected(hello) PROVE Grows
  BY <1>2, <1>6, SeenAfterHello DEF Hello
<1>7. CASE robots'[r].lastSeenCommandSequence = robots[r].lastSeenCommandSequence
  BY <1>1, <1>7
<1> QED
  BY <1>3, <1>4, <1>5, <1>6, <1>7, SeenElsewhere DEF ReducerStep

LEMMA CounterGrows ==
    ASSUME IInv, [ReducerStep]_vars, NEW r \in RobotIds
    PROVE  nextSequenceByRobot'[r] >= nextSequenceByRobot[r]
<1>1. \A s \in RobotIds : nextSequenceByRobot[s] \in Nat
  BY DEF IInv, TypeOK
<1>2. CASE QuietStep
  BY <1>1, <1>2 DEF QuietStep, issueVars
<1>3. ASSUME NEW in \in DispatchInputs, NEW time \in Nat, Accepts(in, time)
      PROVE  nextSequenceByRobot'[r] >= nextSequenceByRobot[r]
  BY <1>1, <1>3 DEF Accepts, acceptDispatch, Issue, dispatchSequence, IInv, TypeOK
<1>4. ASSUME NEW in \in CancelInputs, NEW time \in Nat, requestMissionCancellation(in, time)
      PROVE  nextSequenceByRobot'[r] >= nextSequenceByRobot[r]
  <2>1. /\ missions[in.missionId].robotId \in RobotIds
        /\ cancelSequence(in.missionId) \in Nat
        /\ cancelSequence(in.missionId) >= nextSequenceByRobot[missions[in.missionId].robotId]
    BY <1>4, CancelKeepsIInv
  <2> QED
    BY <1>1, <1>4, <2>1 DEF requestMissionCancellation, Issue, IInv, TypeOK
<1> QED
  BY <1>2, <1>3, <1>4, StepCases

\* A robot's sequence counter and the highest sequence it was seen to have only grow.
THEOREM ProgressNeverRunsBack == Spec => ProgressOnlyGrows
<1>1. IInv /\ [Next]_vars =>
          [\A r \in RobotIds :
               /\ nextSequenceByRobot'[r] >= nextSequenceByRobot[r]
               /\ robots'[r].lastSeenCommandSequence >= robots[r].lastSeenCommandSequence]_vars
  BY LastSeenGrows, CounterGrows, StepIsReducerStep
<1> QED
  BY <1>1, Invariance, PTL DEF Spec, ProgressOnlyGrows

LEMMA OutcomeUsesUp ==
    ASSUME IInv, [ReducerStep]_vars, NEW m \in MissionIds,
           missions'[m].lifecycleState # missions[m].lifecycleState,
           missions'[m].lifecycleState \in
               {"RUNNING", "CANCELLED", "SUCCEEDED", "FAILED", "MANUAL_REVIEW"}
    PROVE  inboxVars' # inboxVars
<1> DEFINE Outcomes == {"RUNNING", "CANCELLED", "SUCCEEDED", "FAILED", "MANUAL_REVIEW"}
           UsesUp == \A n \in MissionIds :
                         /\ missions'[n].lifecycleState # missions[n].lifecycleState
                         /\ missions'[n].lifecycleState \in Outcomes
                         => inboxVars' # inboxVars
<1>1. CASE inboxVars' # inboxVars
  BY <1>1
<1>2. ASSUME NEW in \in DispatchInputs, NEW time \in Nat, dispatchMissionCommand(in, time)
      PROVE  UsesUp
  <2>1. in.missionId \in MissionIds
    BY InputAssumption DEF DispatchInput
  <2>2. ASSUME NEW lifecycle \in {"REJECTED", "SAFETY_BLOCKED"}, rejectDispatch(in, lifecycle)
        PROVE  UsesUp
    BY <2>1, <2>2 DEF rejectDispatch, NoMission, IInv, TypeOK
  <2>3. ASSUME acceptDispatch(in, time) PROVE UsesUp
    BY <2>1, <2>3 DEF acceptDispatch, NoMission, IInv, TypeOK
  <2> QED
    BY <1>2, <2>2, <2>3 DEF dispatchMissionCommand
<1>3. ASSUME NEW in \in CancelInputs, NEW time \in Nat, requestMissionCancellation(in, time)
      PROVE  UsesUp
  BY <1>3 DEF requestMissionCancellation, IInv, TypeOK, Mission
<1>4. ASSUME NEW t \in MissionIds, applyMissionTimeout(t) PROVE UsesUp
  BY <1>4 DEF applyMissionTimeout, IInv, TypeOK, Mission
<1>5. ASSUME NEW r \in RobotIds, NEW status,
             missions' = RepaintActive(robots[r].activeMissionId, status)
      PROVE  UsesUp
  BY <1>5 DEF RepaintActive, IInv, TypeOK, Mission
<1>6. CASE missions' = missions
  BY <1>6
<1>7. \/ inboxVars' # inboxVars
      \/ missions' = missions
      \/ \E in \in DispatchInputs, time \in Nat : dispatchMissionCommand(in, time)
      \/ \E in \in CancelInputs, time \in Nat : requestMissionCancellation(in, time)
      \/ \E t \in MissionIds : applyMissionTimeout(t)
      \/ \E r \in RobotIds, status \in {"NOMINAL", "DEGRADED", "RECONNECTING"} :
             missions' = RepaintActive(robots[r].activeMissionId, status)
  BY DEF ReducerStep, vars, inboxVars, applyCommandAck, ingestRobotTelemetry,
     processReconnectHandshake, handleEdgeConnected, Remembered, Tick,
     evaluateTelemetryFreshness, beginReconnect
<1> QED
  BY <1>1, <1>2, <1>3, <1>4, <1>5, <1>6, <1>7

\* Outcomes that only an edge decides use up an edge message.
THEOREM OutcomesUseUpAMessage == Spec => EdgeOutcomesUseUpTheirMessage
<1>1. IInv /\ [Next]_vars =>
          [\A m \in MissionIds :
               /\ missions'[m].lifecycleState # missions[m].lifecycleState
               /\ missions'[m].lifecycleState \in
                      {"RUNNING", "CANCELLED", "SUCCEEDED", "FAILED", "MANUAL_REVIEW"}
               => inboxVars' # inboxVars]_vars
  BY OutcomeUsesUp, StepIsReducerStep
<1> QED
  BY <1>1, Invariance, PTL DEF Spec, EdgeOutcomesUseUpTheirMessage
=============================================================================
