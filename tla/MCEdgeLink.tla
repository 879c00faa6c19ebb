----------------------------- MODULE MCEdgeLink -----------------------------
(***************************************************************************)
(* EdgeLink for TLC: two socket slots, so that an old and a new connection *)
(* overlap, and one motion command, which drops the connection of a        *)
(* simulator in the reconnect scenario.                                    *)
(***************************************************************************)
EXTENDS EdgeLink, TLC

CONSTANTS s1, s2, r1, m1, c1

GoToPose == {[commandId |-> c1, missionId |-> m1, robotId |-> r1, type |-> "GO_TO_POSE",
              sequence |-> 1]}

=============================================================================
