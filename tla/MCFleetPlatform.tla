-------------------------- MODULE MCFleetPlatform --------------------------
(***************************************************************************)
(* FleetPlatform for TLC: one mission, its motion command and its          *)
(* cancellation.                                                           *)
(***************************************************************************)
EXTENDS FleetPlatform

CONSTANTS m1, r1, c1, c2, k1, k2, p1

Ids == Nat

GoToPose == {[commandId |-> c1, missionId |-> m1, robotId |-> r1, type |-> "GO_TO_POSE",
              safetyClass |-> "NORMAL", payload |-> p1, idempotencyKey |-> k1, ttl |-> 1]}
CancelMission == {[commandId |-> c2, missionId |-> m1, payload |-> p1, idempotencyKey |-> k2,
                   ttl |-> 1]}
NoMessages == {}
=============================================================================
