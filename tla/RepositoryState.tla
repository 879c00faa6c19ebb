-------------------------- MODULE RepositoryState --------------------------
(***************************************************************************)
(* What the two modules about the repository of packages/fleet-persistence *)
(* share: the aggregate it stores, reduced to what the schema constrains   *)
(* (a mission refers to a robot) and to the event log that feeds the       *)
(* outbox, and what each method of the repository makes of it.             *)
(*                                                                         *)
(* A reducer numbers its event by the length of the log (events.ts:30); the*)
(* rest of an event (times, correlation ids) never repeats and is the call *)
(* that made it.                                                           *)
(***************************************************************************)
EXTENDS Integers, FiniteSets

CONSTANTS
    NumCalls,             \* calls of repository methods
    RobotIds, MissionIds,
    None,
    Mutations,            \* the reducers' effects passed to update
    SuppliedStates        \* states passed to write and reset

Calls == 1..NumCalls      \* numbered in the order they begin
Event == [id : Nat, fact : Calls \union {None}]

\* The log is read back in the order of the bookmarks, the numbers 1 to bookmarks.
DomainState == [bookmarks : Nat, robots : SUBSET RobotIds,
                missions : [MissionIds -> RobotIds \union {None}], events : SUBSET Event]
Mutation == [robotId : RobotIds, missionId : MissionIds \union {None}]

Update(mutation) == [method |-> "update", mutation |-> mutation, state |-> None]
Write(state) == [method |-> "write", mutation |-> None, state |-> state]
Reset(state) == [method |-> "reset", mutation |-> None, state |-> state]
Read == [method |-> "read", mutation |-> None, state |-> None]

Operations == {Update(m) : m \in Mutations} \union {Read}
              \union {Write(s) : s \in SuppliedStates} \union {Reset(s) : s \in SuppliedStates}

\* Only a snapshot without events is ever installed by reset (createSeededDomainState).
ASSUME StateAssumption ==
    /\ NumCalls \in Nat
    /\ None \notin Calls \union RobotIds \union MissionIds \union DomainState \union Operations
    /\ Mutations \subseteq Mutation
    /\ SuppliedStates \subseteq {s \in DomainState : s.events = {}}

createInitialDomainState == [bookmarks |-> 0, robots |-> {},
                             missions |-> [m \in MissionIds |-> None], events |-> {}]

\* Mutant: an event is numbered by the last index of the log before it.
lastNumber(s) == s.bookmarks - 1
\* createGeneratedId gets the length of the log plus one.
eventNumber(s) == s.bookmarks + 1

\* Call c runs a reducer on s that logs an event: a robot is upserted, or a mission is recorded,
\* also a refused one.  Reducers that change nothing are left out.
mutate(s, mutation, c) ==
    [bookmarks |-> s.bookmarks + 1,
     robots |-> IF mutation.missionId = None THEN s.robots \union {mutation.robotId} ELSE s.robots,
     missions |-> [m \in MissionIds |-> IF m = mutation.missionId THEN mutation.robotId
                                        ELSE s.missions[m]],
     events |-> s.events \union {[id |-> eventNumber(s), fact |-> c]}]

\* The state a call leaves when it sees s.
nextState(o, s, c) ==
    CASE o.method = "read" -> s
      [] o.method = "update" -> mutate(s, o.mutation, c)
      [] o.method \in {"write", "reset"} -> o.state
=============================================================================
