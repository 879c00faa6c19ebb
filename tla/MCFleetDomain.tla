--------------------------- MODULE MCFleetDomain ---------------------------
(***************************************************************************)
(* FleetDomain for TLC.  Two pools of inputs: every kind of message around *)
(* one robot, and requests and acks that move missions between two robots. *)
(* In both, command ids, keys and edge message ids are reused across       *)
(* missions, and an edge message may arrive at any time, also before the   *)
(* command it speaks of.                                                   *)
(***************************************************************************)
EXTENDS FleetDomain, TLC

CONSTANTS m1, m2, r1, r2, c1, c2, k1, k2, a1, a2, e1, s1, p1, p2

goToPose(robot, missionIds, keys, ttls) ==
    [commandId : CommandIds, missionId : missionIds, robotId : {robot},
     type : {"GO_TO_POSE"}, safetyClass : {"NORMAL"}, payload : {p1},
     idempotencyKey : keys, ttl : ttls]

pause(c, m, r, k) ==
    [commandId |-> c, missionId |-> m, robotId |-> r, type |-> "PAUSE_MISSION",
     safetyClass |-> "NORMAL", payload |-> p1, idempotencyKey |-> k, ttl |-> 1]

cancel(keys) == [commandId : CommandIds, missionId : MissionIds, payload : {p2},
                 idempotencyKey : keys, ttl : {1}]

ack(id, status, lastSeen) == [ackId : {id}, commandId : CommandIds, status : {status},
                              lastSeenCommandSequence : {lastSeen}]

telemetry(battery, mission) ==
    [eventId |-> e1, robotId |-> r1, connectionState |-> "ONLINE", healthy |-> TRUE,
     battery |-> battery, currentMissionId |-> mission, lastAcknowledgedCommandId |-> None,
     lastSeenCommandSequence |-> 1, observedAt |-> 1, receivedAt |-> 1]

handshake(robot, mission, lifecycles, times) ==
    [edgeSessionId : {s1}, robotId : {robot}, reportedMissionId : {mission},
     reportedLifecycle : lifecycles, lastAcknowledgedCommandId : {None},
     lastSeenCommandSequence : {1}, connectedAt : times, lastTelemetryObservedAt : {1}]

hello(robot) == [robotId |-> robot, lastSeenCommandSequence |-> 0]

\* One robot.
OneRobotDispatches == goToPose(r1, MissionIds, IdempotencyKeys, {1})
                      \union goToPose(r1, {m1}, {k2}, {0})
                      \union {pause(c2, m2, r1, k2)}
OneRobotCancels == cancel({k2})
OneRobotAcks == ack(a1, "ACCEPTED", 1) \union ack(a2, "EXPIRED", 2)
OneRobotTelemetry == {telemetry("OK", m1), telemetry("LOW", None)}
OneRobotHandshakes == handshake(r1, None, {"RUNNING"}, {1})
                      \union handshake(r1, m1, {"RUNNING", "SUCCEEDED"}, {3})
OneRobotHellos == {hello(r1)}

\* Two robots.
TwoRobotDispatches == goToPose(r1, MissionIds, {k1}, {1}) \union goToPose(r2, MissionIds, {k2}, {1})
                      \union {pause(c2, m1, r2, k2), pause(c1, m1, r1, k1)}
TwoRobotCancels == cancel({k1, k2})
TwoRobotAcks == ack(a1, "ACCEPTED", 1) \union ack(a2, "REJECTED", 1)
TwoRobotTelemetry == {}
TwoRobotHandshakes == handshake(r2, m1, {"RUNNING"}, {1})
TwoRobotHellos == {hello(r1)}
=============================================================================
