------------------------ MODULE MCPostgresRepository ------------------------
(***************************************************************************)
(* PostgresRepository for TLC: a robot is upserted, a mission is recorded  *)
(* for it, perhaps before anyone registered it, and the demo seed is       *)
(* installed.                                                              *)
(***************************************************************************)
EXTENDS PostgresRepository

CONSTANTS r1, m1

RecordMission == {[robotId |-> r1, missionId |-> m1]}
AllMutations == RecordMission \union {[robotId |-> r1, missionId |-> None]}
Seed == {[bookmarks |-> 0, robots |-> {r1}, missions |-> [m \in {m1} |-> None], events |-> {}]}
=============================================================================
