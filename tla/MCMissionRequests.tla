------------------------- MODULE MCMissionRequests -------------------------
(***************************************************************************)
(* MissionRequests for TLC.  Four asks: a plain one, its key with another  *)
(* body, another key whose body names the first key and a mission, and     *)
(* another key alone.                                                      *)
(***************************************************************************)
EXTENDS MissionRequests

CONSTANTS k1, k2, m1, go, stop

plain == [missionId |-> None, idempotencyKey |-> None, content |-> go]
other == [missionId |-> None, idempotencyKey |-> None, content |-> stop]
named == [missionId |-> m1, idempotencyKey |-> k1, content |-> go]

AllBodies == {plain, other, named}
AllAsks == {[key |-> k1, body |-> plain], [key |-> k1, body |-> other],
            [key |-> k2, body |-> named]}
RetryAsks == {[key |-> k1, body |-> plain]}
=============================================================================
