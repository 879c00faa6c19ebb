---------------------- MODULE PostgresRepositoryProofs ----------------------
(***************************************************************************)
(* PostgresRepository for any number of calls, robots, missions, mutations *)
(* and failures: the tables keep their types, every logged event is queued *)
(* for publication, and the repository implements the atomic aggregate of  *)
(* DomainRepository.                                                       *)
(*                                                                         *)
(* The invariant says how far the view of each open transaction agrees     *)
(* with the state it is based on.  A writer is based on what is committed, *)
(* which only the holder of the lock replaces; a reader on its snapshot.   *)
(***************************************************************************)
EXTENDS PostgresRepository, TLAPS

Base(c) == IF ReadsOnly(c) THEN snapshot[c] ELSE db
IsReset(c) == operation[c].method = "reset"
Protected == {"locked", "bookmarksRead", "rowsRead", "read", "replaced"}

\* What a call is and holds at each statement.
Staged(c) ==
    /\ stage[c] # "idle" => operation[c] \in Operations
    /\ stage[c] \in {"locked", "replaced"} => ~ReadsOnly(c)
    /\ stage[c] \in Reading => ~IsReset(c)
    /\ stage[c] \in Protected /\ ~ReadsOnly(c) => lock = c
    /\ stage[c] \in Protected /\ ReadsOnly(c) => snapshot[c] \in DomainState

\* How much of its base a call has read.
Viewed(c) ==
    /\ stage[c] \in {"idle", "begun", "locked"} => view[c] = None
    /\ stage[c] = "bookmarksRead" =>
           view[c] = [bookmarks |-> Base(c).bookmarks, robots |-> {},
                      missions |-> [m \in MissionIds |-> None], events |-> {}]
    /\ stage[c] = "rowsRead" =>
           view[c] = [bookmarks |-> Base(c).bookmarks, robots |-> Base(c).robots,
                      missions |-> Base(c).missions, events |-> {}]
    /\ stage[c] \in {"read", "replaced"} => view[c] = IF IsReset(c) THEN None ELSE Base(c)

NewEvents(c) == IF IsReset(c) THEN {} ELSE (draft[c].events \ db.events) \ outbox

\* What a call is about to commit.
Drafted(c) ==
    stage[c] = "replaced" => /\ draft[c] = nextState(operation[c], view[c], c)
                             /\ draft[c] \in DomainState
                             /\ queue[c] = NewEvents(c)

CallOK(c) == Staged(c) /\ Viewed(c) /\ Drafted(c)
RepositoryInv == TypeOK /\ LoggedEventsAreQueued /\ \A c \in Calls : CallOK(c)

(***************************************************************************)
(* The operations and the events.                                          *)
(***************************************************************************)

LEMMA OperationFacts ==
    ASSUME NEW o \in Operations
    PROVE  /\ o.method \in {"read", "update", "write", "reset"}
           /\ o.method = "update" => o.mutation \in Mutation
           /\ o.method \in {"write", "reset"} => o.state \in DomainState /\ o.state.events = {}
BY StateAssumption DEF Operations, Update, Write, Reset, Read

LEMMA InitialState == createInitialDomainState \in DomainState
BY DEF createInitialDomainState, DomainState

LEMMA MutateType ==
    ASSUME NEW s \in DomainState, NEW mutation \in Mutation, NEW c \in Calls
    PROVE  mutate(s, mutation, c) \in DomainState
<1>1. [id |-> eventNumber(s), fact |-> c] \in Event
  BY DEF eventNumber, Event, DomainState
<1> QED
  BY <1>1 DEF mutate, DomainState, Mutation

LEMMA NextStateType ==
    ASSUME NEW o \in Operations, NEW s, NEW c \in Calls, s \in DomainState \/ o.method = "reset"
    PROVE  /\ nextState(o, s, c) \in DomainState
           /\ o.method = "reset" => nextState(o, s, c) = o.state /\ o.state.events = {}
<1>1. CASE o.method = "update"
  BY <1>1, OperationFacts, MutateType DEF nextState
<1>2. CASE o.method # "update"
  BY <1>2, OperationFacts DEF nextState
<1> QED
  BY <1>1, <1>2

\* The dedupe key tells any two events apart.
LEMMA KeysAreEvents == ASSUME NEW e, NEW S PROVE Persisted(e, S) <=> e \in S
BY DEF Persisted, dedupeKey

(***************************************************************************)
(* The invariant.                                                          *)
(***************************************************************************)

LEMMA InitInv == Init => RepositoryInv
BY InitialState DEF Init, RepositoryInv, TypeOK, LoggedEventsAreQueued, createInitialDomainState,
   CallOK, Staged, Viewed, Drafted, Stages, Reading, Protected

\* A call that a step does not touch stays as it is while its base and its lock do.
LEMMA OtherCall ==
    ASSUME NEW d \in Calls, CallOK(d),
           stage'[d] = stage[d], operation'[d] = operation[d], snapshot'[d] = snapshot[d],
           view'[d] = view[d], draft'[d] = draft[d], queue'[d] = queue[d],
           lock = d => lock' = d,
           lock = d => UNCHANGED tables
    PROVE  CallOK(d)'
<1>1. Staged(d)'
  BY DEF CallOK, Staged, ReadsOnly, IsReset
<1>2. stage[d] \in Protected => Base(d)' = Base(d)
  BY DEF CallOK, Staged, Base, ReadsOnly, tables
<1>3. Viewed(d)'
  BY <1>2 DEF CallOK, Viewed, IsReset, Protected
<1>4. Drafted(d)'
  <2> SUFFICES ASSUME stage[d] = "replaced" PROVE Drafted(d)'
    BY DEF Drafted
  <2>1. lock = d
    BY DEF CallOK, Staged, Protected
  <2>2. NewEvents(d)' = NewEvents(d)
    BY <2>1 DEF NewEvents, IsReset, tables
  <2> QED
    BY <2>2 DEF CallOK, Drafted, nextState, mutate, eventNumber
<1> QED
  BY <1>1, <1>3, <1>4 DEF CallOK

Unmoved(d) ==
    /\ stage'[d] = stage[d] /\ operation'[d] = operation[d] /\ snapshot'[d] = snapshot[d]
    /\ view'[d] = view[d] /\ draft'[d] = draft[d] /\ queue'[d] = queue[d]
    /\ lock = d => lock' = d
    /\ lock = d => UNCHANGED tables

LEMMA OthersStay ==
    ASSUME RepositoryInv, NEW c \in Calls, CallOK(c)', \A d \in Calls \ {c} : Unmoved(d)
    PROVE  \A d \in Calls : CallOK(d)'
<1> SUFFICES ASSUME NEW d \in Calls, d # c PROVE CallOK(d)'
  OBVIOUS
<1>1. CallOK(d) /\ Unmoved(d)
  BY DEF RepositoryInv
<1> QED
  BY <1>1, OtherCall DEF Unmoved

LEMMA BeginInv ==
    ASSUME RepositoryInv, NEW c \in Calls, NEW o \in Operations, Begin(c, o)
    PROVE  RepositoryInv'
<1> USE DEF RepositoryInv, Begin, to, tables, written
<1>1. TypeOK'
  BY DEF TypeOK, Stages, InTransaction
<1>2. stage'[c] = "begun" /\ operation'[c] = o /\ view'[c] = None
  BY DEF TypeOK, CallOK, Viewed
<1>3. CallOK(c)'
  BY <1>2 DEF CallOK, Staged, Viewed, Drafted, Reading, Protected
<1>4. \A d \in Calls \ {c} : Unmoved(d)
  BY DEF TypeOK, Unmoved
<1> QED
  BY <1>1, <1>3, <1>4, OthersStay DEF LoggedEventsAreQueued

LEMMA LockInv ==
    ASSUME RepositoryInv, NEW c \in Calls, lockRepository(c)
    PROVE  RepositoryInv'
<1> USE DEF RepositoryInv, lockRepository, to, tables, written
<1>1. TypeOK'
  BY DEF TypeOK, Stages, InTransaction, Reading
<1>2. /\ stage'[c] = IF IsReset(c) THEN "read" ELSE "locked"
      /\ view'[c] = None /\ lock' = c /\ operation'[c] \in Operations
      /\ ~ReadsOnly(c)' /\ IsReset(c)' = IsReset(c)
  BY DEF TypeOK, CallOK, Viewed, Staged, IsReset, ReadsOnly
<1>3. CallOK(c)'
  BY <1>2 DEF CallOK, Staged, Viewed, Drafted, Reading, Protected
<1>4. \A d \in Calls \ {c} : Unmoved(d)
  BY StateAssumption DEF TypeOK, Unmoved
<1> QED
  BY <1>1, <1>3, <1>4, OthersStay DEF LoggedEventsAreQueued

\* What the statements of an open transaction see.
LEMMA VisibleBase ==
    ASSUME NEW c \in Calls, CallOK(c), db \in DomainState,
           stage[c] \in {"locked", "bookmarksRead", "rowsRead"}
    PROVE  Visible(c) = Base(c) /\ Base(c) \in DomainState
BY DEF CallOK, Staged, Visible, Base, Protected

LEMMA BookmarksInv ==
    ASSUME RepositoryInv, NEW c \in Calls, readStateBookmarks(c)
    PROVE  RepositoryInv'
<1> USE DEF RepositoryInv, readStateBookmarks, to, tables, written
<1>1. Visible(c) \in DomainState /\ operation[c] \in Operations /\ ~IsReset(c)
  BY DEF TypeOK, CallOK, Staged, Visible, ReadsOnly, IsReset, Reading
<1>2. [createInitialDomainState EXCEPT !.bookmarks = Visible(c).bookmarks] \in DomainState
  BY <1>1 DEF createInitialDomainState, DomainState
<1>3. TypeOK'
  BY <1>2 DEF TypeOK, Stages, InTransaction, Reading
<1>4. /\ stage'[c] = "bookmarksRead" /\ operation'[c] = operation[c]
      /\ ReadsOnly(c)' = ReadsOnly(c) /\ IsReset(c)' = IsReset(c)
      /\ ReadsOnly(c) => stage[c] = "begun"
      /\ ~ReadsOnly(c) => lock' = c
  BY DEF TypeOK, CallOK, Staged, ReadsOnly, IsReset, Protected
<1>5. Base(c)' = Visible(c) /\ (ReadsOnly(c) => snapshot'[c] \in DomainState)
  BY <1>4 DEF TypeOK, Base, Visible
<1>6. view'[c] = [bookmarks |-> Visible(c).bookmarks, robots |-> {},
                  missions |-> [m \in MissionIds |-> None], events |-> {}]
  BY DEF TypeOK, createInitialDomainState
<1>7. CallOK(c)'
  BY <1>1, <1>4, <1>5, <1>6 DEF CallOK, Staged, Viewed, Drafted, Reading, Protected
<1>8. \A d \in Calls \ {c} : Unmoved(d)
  BY DEF TypeOK, Unmoved
<1> QED
  BY <1>3, <1>7, <1>8, OthersStay DEF LoggedEventsAreQueued

LEMMA RowsInv ==
    ASSUME RepositoryInv, NEW c \in Calls, readRows(c)
    PROVE  RepositoryInv'
<1> USE DEF RepositoryInv, readRows, to, tables, written
<1>1. Visible(c) = Base(c) /\ Base(c) \in DomainState
  BY VisibleBase DEF TypeOK
<1>2. view[c] = [bookmarks |-> Base(c).bookmarks, robots |-> {},
                 missions |-> [m \in MissionIds |-> None], events |-> {}]
  BY DEF CallOK, Viewed
<1>3. view'[c] = [bookmarks |-> Base(c).bookmarks, robots |-> Base(c).robots,
                  missions |-> Base(c).missions, events |-> {}]
  <2>1. view'[c] = [[view[c] EXCEPT !.robots = Base(c).robots]
                       EXCEPT !.missions = Base(c).missions]
    BY <1>1 DEF TypeOK
  <2> HIDE DEF readRows, RepositoryInv
  <2> DEFINE none == [m \in MissionIds |-> None]
  <2>2. view[c] = [bookmarks |-> Base(c).bookmarks, robots |-> {}, missions |-> none,
                   events |-> {}]
    BY <1>2
  <2> HIDE DEF none
  <2> DEFINE robotsRead == [view[c] EXCEPT !.robots = Base(c).robots]
  <2>3. robotsRead = [bookmarks |-> Base(c).bookmarks, robots |-> Base(c).robots,
                      missions |-> none, events |-> {}]
    BY <2>2
  <2>4. view'[c] = [robotsRead EXCEPT !.missions = Base(c).missions]
    BY <2>1
  <2> HIDE DEF robotsRead
  <2> QED
    BY <2>3, <2>4
<1>4. view'[c] \in DomainState
  <2> HIDE DEF readRows, RepositoryInv
  <2> DEFINE B == Base(c)
  <2>1. B \in DomainState
    BY <1>1
  <2> HIDE DEF B
  <2>2. [bookmarks |-> B.bookmarks, robots |-> B.robots, missions |-> B.missions, events |-> {}]
            \in DomainState
    BY <2>1 DEF DomainState
  <2> QED
    BY <1>3, <2>2 DEF B
<1>5. TypeOK'
  BY <1>4 DEF TypeOK, Stages, InTransaction, Reading
<1>6. /\ stage'[c] = "rowsRead" /\ operation'[c] = operation[c] /\ Base(c)' = Base(c)
      /\ ReadsOnly(c)' = ReadsOnly(c) /\ IsReset(c)' = IsReset(c)
  BY DEF TypeOK, ReadsOnly, IsReset, Base
<1>7. CallOK(c)'
  BY <1>3, <1>6 DEF CallOK, Staged, Viewed, Drafted, Reading, Protected
<1>8. \A d \in Calls \ {c} : Unmoved(d)
  BY DEF TypeOK, Unmoved
<1> QED
  BY <1>5, <1>7, <1>8, OthersStay DEF LoggedEventsAreQueued

LEMMA EventsInv ==
    ASSUME RepositoryInv, NEW c \in Calls, readEvents(c)
    PROVE  RepositoryInv'
<1> USE DEF RepositoryInv, readEvents, to, tables, written
<1>1. Visible(c) = Base(c) /\ Base(c) \in DomainState
  BY VisibleBase DEF TypeOK
<1>2. view[c] = [bookmarks |-> Base(c).bookmarks, robots |-> Base(c).robots,
                 missions |-> Base(c).missions, events |-> {}]
  BY DEF CallOK, Viewed
<1>3. view'[c] = Base(c)
  BY <1>1, <1>2 DEF TypeOK, DomainState
<1>4. TypeOK'
  BY <1>1, <1>3 DEF TypeOK, Stages, InTransaction, Reading
<1>5. /\ stage'[c] = "read" /\ operation'[c] = operation[c] /\ Base(c)' = Base(c)
      /\ ReadsOnly(c)' = ReadsOnly(c) /\ IsReset(c)' = IsReset(c) /\ ~IsReset(c)
  BY DEF TypeOK, CallOK, Staged, ReadsOnly, IsReset, Base, Reading
<1>6. CallOK(c)'
  BY <1>3, <1>5 DEF CallOK, Staged, Viewed, Drafted, Reading, Protected
<1>7. \A d \in Calls \ {c} : Unmoved(d)
  BY DEF TypeOK, Unmoved
<1> QED
  BY <1>4, <1>6, <1>7, OthersStay DEF LoggedEventsAreQueued

\* The holder of the lock has read what is committed; its new state is one the tables can hold.
LEMMA DraftType ==
    ASSUME RepositoryInv, NEW c \in Calls, stage[c] = "read", ~ReadsOnly(c)
    PROVE  /\ operation[c] \in Operations
           /\ nextState(operation[c], view[c], c) \in DomainState
           /\ IsReset(c) => nextState(operation[c], view[c], c).events = {}
           /\ ~IsReset(c) => view[c] = db
<1>1. operation[c] \in Operations
  BY DEF RepositoryInv, CallOK, Staged
<1>2. view[c] = IF IsReset(c) THEN None ELSE db
  BY DEF RepositoryInv, CallOK, Viewed, Base
<1>3. view[c] \in DomainState \/ operation[c].method = "reset"
  BY <1>2 DEF RepositoryInv, TypeOK, IsReset
<1> QED
  BY <1>1, <1>2, <1>3, NextStateType DEF IsReset

LEMMA ReplaceInv ==
    ASSUME RepositoryInv, NEW c \in Calls, replaceDomainState(c)
    PROVE  RepositoryInv'
<1> DEFINE next == nextState(operation[c], view[c], c)
           rows == insertOutboxRecords(selectNewOutboxRecords(view[c], next))
<1> USE DEF RepositoryInv, to, tables, written
<1>1. /\ stage[c] = "read" /\ ~ReadsOnly(c)
      /\ stage' = [stage EXCEPT ![c] = "replaced"]
      /\ draft' = [draft EXCEPT ![c] = next]
      /\ queue' = [queue EXCEPT ![c] = IF IsReset(c) THEN {} ELSE rows]
      /\ UNCHANGED <<db, outbox, lock, operation, snapshot, view, faults>>
  BY DEF replaceDomainState, IsReset
<1>2. /\ next \in DomainState /\ operation[c] \in Operations
      /\ ~IsReset(c) => view[c] = db
  BY <1>1, DraftType
<1>3. rows = (next.events \ view[c].events) \ outbox
  BY KeysAreEvents DEF insertOutboxRecords, selectNewOutboxRecords
<1>4. rows \subseteq Event
  BY <1>2, <1>3 DEF DomainState
<1>5. draft'[c] = next /\ queue'[c] = IF IsReset(c) THEN {} ELSE rows
  BY <1>1 DEF TypeOK
<1> HIDE DEF next, rows
<1>6. TypeOK'
  BY <1>1, <1>2, <1>4 DEF TypeOK, Stages, InTransaction
<1>7. /\ stage'[c] = "replaced" /\ operation'[c] = operation[c] /\ Base(c)' = Base(c)
      /\ ReadsOnly(c)' = ReadsOnly(c) /\ IsReset(c)' = IsReset(c)
  BY <1>1 DEF TypeOK, ReadsOnly, IsReset, Base
<1>8. queue'[c] = NewEvents(c)'
  BY <1>1, <1>2, <1>3, <1>5, <1>7 DEF NewEvents
<1>9. draft'[c] = nextState(operation'[c], view'[c], c)
  BY <1>1, <1>5 DEF next
<1>10. Drafted(c)'
  BY <1>2, <1>5, <1>8, <1>9 DEF Drafted
<1>11. CallOK(c)'
  BY <1>1, <1>7, <1>10 DEF CallOK, Staged, Viewed, Reading, Protected
<1>12. \A d \in Calls \ {c} : Unmoved(d)
  BY <1>1 DEF TypeOK, Unmoved
<1> QED
  BY <1>1, <1>6, <1>11, <1>12, OthersStay DEF LoggedEventsAreQueued

LEMMA CommitInv ==
    ASSUME RepositoryInv, NEW c \in Calls, Commit(c)
    PROVE  RepositoryInv'
<1> USE DEF RepositoryInv, to, tables, written
<1>1. stage' = [stage EXCEPT ![c] = "committed"] /\ lock' = released(c) /\ forget(c)
      /\ UNCHANGED <<operation, view, faults>>
  BY DEF Commit
<1>2. CASE stage[c] = "replaced" /\ db' = draft[c] /\ outbox' = outbox \union queue[c]
  <2>1. /\ draft[c] \in DomainState /\ queue[c] = NewEvents(c) /\ lock = c /\ ~ReadsOnly(c)
        /\ draft[c] = nextState(operation[c], view[c], c) /\ operation[c] \in Operations
        /\ view[c] = IF IsReset(c) THEN None ELSE db
    BY <1>2 DEF CallOK, Drafted, Staged, Protected, Viewed, Base
  <2>2. IsReset(c) => draft[c].events = {}
    BY <2>1, NextStateType DEF IsReset
  <2>3. draft[c].events \subseteq outbox \union queue[c]
    BY <2>1, <2>2 DEF NewEvents, LoggedEventsAreQueued
  <2>4. queue[c] \subseteq Event
    BY DEF TypeOK
  <2>5. TypeOK'
    BY <1>1, <1>2, <2>1, <2>4 DEF TypeOK, Stages, released, forget
  <2>6. CallOK(c)'
    BY <1>1, <2>1 DEF CallOK, Staged, Viewed, Drafted, Reading, Protected, TypeOK
  <2>7. \A d \in Calls \ {c} : Unmoved(d)
    BY <1>1, <1>2, <2>1 DEF TypeOK, Unmoved, released, Holds, forget
  <2> QED
    BY <1>2, <2>3, <2>5, <2>6, <2>7, OthersStay DEF LoggedEventsAreQueued
<1>3. CASE stage[c] = "read" /\ ReadsOnly(c) /\ UNCHANGED tables
  <2>1. operation[c] \in Operations
    BY <1>3 DEF CallOK, Staged
  <2>2. TypeOK'
    BY <1>1, <1>3 DEF TypeOK, Stages, released, forget
  <2>3. CallOK(c)'
    BY <1>1, <2>1 DEF CallOK, Staged, Viewed, Drafted, Reading, Protected, TypeOK
  <2>4. \A d \in Calls \ {c} : Unmoved(d)
    BY <1>1, <1>3 DEF TypeOK, Unmoved, released, Holds, forget
  <2> QED
    BY <1>3, <2>2, <2>3, <2>4, OthersStay DEF LoggedEventsAreQueued
<1> QED
  BY <1>2, <1>3 DEF Commit

LEMMA ReturnInv ==
    ASSUME RepositoryInv, NEW c \in Calls, Return(c)
    PROVE  RepositoryInv'
<1> USE DEF RepositoryInv, Return, to, tables, written
<1>1. TypeOK'
  BY DEF TypeOK, Stages, Ended
<1>2. CallOK(c)'
  BY DEF CallOK, Staged, Viewed, Drafted, Reading, Protected, TypeOK
<1>3. \A d \in Calls \ {c} : Unmoved(d)
  BY DEF TypeOK, Unmoved
<1> QED
  BY <1>1, <1>2, <1>3, OthersStay DEF LoggedEventsAreQueued

LEMMA RollbackInv ==
    ASSUME RepositoryInv, NEW c \in Calls, stage[c] # "idle", rollback(c), faults' \in Nat
    PROVE  RepositoryInv'
<1> USE DEF RepositoryInv, rollback, to, tables, written
<1>1. TypeOK'
  BY DEF TypeOK, Stages, Ended, released, forget
<1>2. CallOK(c)'
  BY DEF CallOK, Staged, Viewed, Drafted, Reading, Protected, TypeOK
<1>3. \A d \in Calls \ {c} : Unmoved(d)
  BY DEF TypeOK, Unmoved, released, Holds, forget
<1> QED
  BY <1>1, <1>2, <1>3, OthersStay DEF LoggedEventsAreQueued

LEMMA FailInv ==
    ASSUME RepositoryInv, NEW c \in Calls, ForeignKeyViolation(c) \/ Fail(c)
    PROVE  RepositoryInv'
<1>1. stage[c] # "idle" /\ rollback(c) /\ faults' \in Nat
  BY DEF RepositoryInv, TypeOK, ForeignKeyViolation, Fail, InTransaction, Reading
<1> QED
  BY <1>1, RollbackInv

LEMMA StutterInv == ASSUME RepositoryInv, UNCHANGED vars PROVE RepositoryInv'
<1>1. \A d \in Calls : CallOK(d)'
  BY OtherCall DEF RepositoryInv, vars, tables
<1> QED
  BY <1>1 DEF RepositoryInv, TypeOK, LoggedEventsAreQueued, vars

LEMMA NextInv == RepositoryInv /\ [Next]_vars => RepositoryInv'
BY BeginInv, LockInv, BookmarksInv, RowsInv, EventsInv, ReplaceInv, CommitInv, ReturnInv, FailInv,
   StutterInv DEF Next

\* RepositoryInv holds in every reachable state; the theorems after it name its parts.
THEOREM RepositoryInvariance == Spec => []RepositoryInv
BY InitInv, NextInv, PTL DEF Spec

\* The tables, the lock and the transactions keep their types.
THEOREM RepositoryTypes == Spec => []TypeOK
<1>1. RepositoryInv => TypeOK
  BY DEF RepositoryInv
<1> QED
  BY <1>1, RepositoryInvariance, PTL

\* No event of the log is missing from the outbox, whatever resets and failures came before.
THEOREM EventsReachTheOutbox == Spec => []LoggedEventsAreQueued
<1>1. RepositoryInv => LoggedEventsAreQueued
  BY DEF RepositoryInv
<1> QED
  BY <1>1, RepositoryInvariance, PTL

(***************************************************************************)
(* The repository implements DomainRepository.  A writer takes effect when *)
(* it commits, a reader when it takes its snapshot.                        *)
(***************************************************************************)

phases == [c \in Calls |-> phaseOf(c)]
sights == [c \in Calls |-> seenBy(c)]
aggregateVars == <<db, outbox, operation, phases, sights>>

LEMMA SameStates ==
    ASSUME NEW o, NEW s, NEW c
    PROVE  Aggregate!nextState(o, s, c) = nextState(o, s, c)
BY DEF nextState, mutate, eventNumber,
       Aggregate!nextState, Aggregate!mutate, Aggregate!eventNumber

LEMMA AggregateInit == Init => Aggregate!Init
<1> SUFFICES ASSUME Init PROVE Aggregate!Init
  OBVIOUS
<1>1. \A c \in Calls : phaseOf(c) = "idle" /\ seenBy(c) = None
  BY DEF Init, phaseOf, seenBy, Ended
<1> QED
  BY <1>1 DEF Init, Aggregate!Init, Aggregate!Calls, Calls, createInitialDomainState,
     Aggregate!createInitialDomainState

\* What the aggregate shows of a call depends on its own variables.
LEMMA SamePhase ==
    ASSUME NEW d, stage'[d] = stage[d], operation'[d] = operation[d], view'[d] = view[d],
           snapshot'[d] = snapshot[d]
    PROVE  phaseOf(d)' = phaseOf(d) /\ seenBy(d)' = seenBy(d)
BY DEF phaseOf, seenBy, TookEffect, ReadsOnly

\* A step of call c moves the phase and the sight of c alone.
LEMMA OnePhase ==
    ASSUME NEW c \in Calls, NEW p, NEW v, phaseOf(c)' = p, seenBy(c)' = v,
           \A d \in Calls \ {c} : Unmoved(d)
    PROVE  phases' = [phases EXCEPT ![c] = p] /\ sights' = [sights EXCEPT ![c] = v]
<1>1. \A d \in Calls \ {c} : phaseOf(d)' = phaseOf(d) /\ seenBy(d)' = seenBy(d)
  BY SamePhase DEF Unmoved
<1>2. \A d \in Calls : phaseOf(d)' = IF d = c THEN p ELSE phaseOf(d)
  BY <1>1
<1>3. \A d \in Calls : seenBy(d)' = IF d = c THEN v ELSE seenBy(d)
  BY <1>1
<1> QED
  BY <1>2, <1>3 DEF phases, sights

\* A step that moves neither changes nothing the aggregate shows.
LEMMA SameSights ==
    ASSUME NEW c \in Calls, phaseOf(c)' = phaseOf(c), seenBy(c)' = seenBy(c),
           UNCHANGED <<db, outbox, operation>>, \A d \in Calls \ {c} : Unmoved(d)
    PROVE  UNCHANGED aggregateVars
<1>1. \A d \in Calls : phaseOf(d)' = phaseOf(d) /\ seenBy(d)' = seenBy(d)
  BY SamePhase DEF Unmoved
<1> QED
  BY <1>1 DEF aggregateVars, phases, sights

LEMMA SameOperations == Aggregate!Operations = Operations /\ Aggregate!Calls = Calls
BY DEF Operations, Update, Write, Reset, Read, Calls, Aggregate!Operations, Aggregate!Update,
       Aggregate!Write, Aggregate!Reset, Aggregate!Read, Aggregate!Calls

AggregateStepOrStutter == Aggregate!Next \/ UNCHANGED aggregateVars

LEMMA BeginStep ==
    ASSUME RepositoryInv, NEW c \in Calls, NEW o \in Operations, Begin(c, o)
    PROVE  Aggregate!Call(c, o)
<1> USE DEF Begin, to, tables, written
<1>1. phaseOf(c) = "idle" /\ phaseOf(c)' = "pending" /\ seenBy(c) = None /\ seenBy(c)' = None
  BY DEF RepositoryInv, TypeOK, phaseOf, seenBy, TookEffect, Ended
<1>2. \A d \in Calls \ {c} : Unmoved(d)
  BY DEF RepositoryInv, TypeOK, Unmoved
<1>3. phases' = [phases EXCEPT ![c] = "pending"] /\ sights' = [sights EXCEPT ![c] = None]
  BY <1>1, <1>2, OnePhase
<1>4. sights[c] = None /\ phases[c] = "idle" /\ sights = [d \in Calls |-> sights[d]]
  BY <1>1 DEF sights, phases
<1>5. sights' = sights
  BY <1>3, <1>4
<1> QED
  BY <1>3, <1>4, <1>5 DEF Aggregate!Call, phases, sights

\* Statements inside a transaction are not seen from outside.
LEMMA InnerStep ==
    ASSUME RepositoryInv, NEW c \in Calls,
           \/ lockRepository(c)
           \/ readStateBookmarks(c) /\ ~ReadsOnly(c)
           \/ readRows(c) \/ readEvents(c) \/ replaceDomainState(c)
    PROVE  UNCHANGED aggregateVars
<1> USE DEF to, tables, written, RepositoryInv, TypeOK
<1>1. UNCHANGED <<db, outbox, operation, snapshot>>
  BY DEF lockRepository, readStateBookmarks, readRows, readEvents, replaceDomainState
<1>2. \A d \in Calls \ {c} : Unmoved(d)
  <2>1. CASE lockRepository(c)
    BY <2>1, StateAssumption DEF lockRepository, Unmoved
  <2>2. CASE ~lockRepository(c)
    BY <2>2 DEF readStateBookmarks, readRows, readEvents, replaceDomainState, Unmoved
  <2> QED
    BY <2>1, <2>2
<1>3. /\ stage[c] \in {"begun", "locked", "bookmarksRead", "rowsRead", "read"}
      /\ stage'[c] \in {"locked", "bookmarksRead", "rowsRead", "read", "replaced"}
      /\ stage[c] = "begun" => ~ReadsOnly(c)
  BY DEF lockRepository, readStateBookmarks, readRows, readEvents, replaceDomainState
<1>4. phaseOf(c)' = phaseOf(c) /\ seenBy(c)' = seenBy(c)
  BY <1>1, <1>3 DEF phaseOf, seenBy, TookEffect, ReadsOnly, Ended
<1> QED
  BY <1>1, <1>2, <1>4, SameSights

\* A reader sees the aggregate at its first statement.
LEMMA SnapshotStep ==
    ASSUME RepositoryInv, NEW c \in Calls, readStateBookmarks(c), ReadsOnly(c)
    PROVE  Aggregate!Apply(c)
<1> USE DEF readStateBookmarks, to, tables, written
<1>1. /\ stage[c] = "begun" /\ stage'[c] = "bookmarksRead" /\ snapshot'[c] = db
      /\ operation' = operation /\ operation[c].method = "read" /\ db' = db /\ outbox' = outbox
  BY DEF RepositoryInv, TypeOK, CallOK, Staged, ReadsOnly
<1>2. phaseOf(c) = "pending" /\ phaseOf(c)' = "applied" /\ seenBy(c)' = db
  BY <1>1 DEF phaseOf, seenBy, TookEffect, ReadsOnly, Ended
<1>3. \A d \in Calls \ {c} : Unmoved(d)
  BY DEF RepositoryInv, TypeOK, Unmoved
<1>4. phases' = [phases EXCEPT ![c] = "applied"] /\ sights' = [sights EXCEPT ![c] = db]
  BY <1>2, <1>3, OnePhase
<1>5. phases[c] = "pending"
  BY <1>2 DEF phases
<1>6. Aggregate!nextState(operation[c], db, c) = db
  BY <1>1 DEF Aggregate!nextState
<1>7. Aggregate!Looks(operation[c]) /\ Aggregate!Logged(operation[c], db, db') = {}
  BY <1>1 DEF Aggregate!Looks, Aggregate!Logged
<1> QED
  BY <1>1, <1>4, <1>5, <1>6, <1>7 DEF Aggregate!Apply, phases, sights

\* A writer replaces the aggregate it saw, and queues its events, when it commits.
LEMMA WriterCommitStep ==
    ASSUME RepositoryInv, NEW c \in Calls, Commit(c), stage[c] = "replaced"
    PROVE  Aggregate!Apply(c)
<1> USE DEF to, tables, written
<1>1. /\ stage'[c] = "committed" /\ operation' = operation /\ view' = view
      /\ db' = draft[c] /\ outbox' = outbox \union queue[c]
  BY DEF Commit, RepositoryInv, TypeOK
<1>2. /\ lock = c /\ ~ReadsOnly(c) /\ view[c] = IF IsReset(c) THEN None ELSE db
      /\ draft[c] = nextState(operation[c], view[c], c) /\ queue[c] = NewEvents(c)
      /\ operation[c] \in Operations
  BY DEF RepositoryInv, CallOK, Staged, Viewed, Drafted, Protected, Base
<1>3. draft[c] = nextState(operation[c], db, c)
  BY <1>2, NextStateType DEF IsReset, RepositoryInv, TypeOK
<1>4. db' = Aggregate!nextState(operation[c], db, c)
  BY <1>1, <1>3, SameStates
<1>5. outbox' = outbox \union Aggregate!Logged(operation[c], db, db')
  BY <1>1, <1>2 DEF NewEvents, IsReset, Aggregate!Logged
<1>6. phaseOf(c) = "pending" /\ phaseOf(c)' = "applied" /\ seenBy(c)' = view[c]
  BY <1>1, <1>2 DEF phaseOf, seenBy, TookEffect, ReadsOnly, Ended
<1>7. view[c] = IF Aggregate!Looks(operation[c]) THEN db ELSE None
  BY <1>2 DEF Aggregate!Looks, IsReset
<1>8. \A d \in Calls \ {c} : Unmoved(d)
  BY <1>2 DEF Commit, RepositoryInv, TypeOK, Unmoved, released, Holds, forget
<1>9. /\ phases' = [phases EXCEPT ![c] = "applied"]
      /\ sights' = [sights EXCEPT ![c] = IF Aggregate!Looks(operation[c]) THEN db ELSE None]
  BY <1>6, <1>7, <1>8, OnePhase
<1>10. phases[c] = "pending"
  BY <1>6 DEF phases
<1> QED
  BY <1>1, <1>4, <1>5, <1>9, <1>10 DEF Aggregate!Apply, phases, sights

\* What a reader read statement by statement is its snapshot.
LEMMA ReaderCommitStep ==
    ASSUME RepositoryInv, NEW c \in Calls, Commit(c), stage[c] = "read", ReadsOnly(c)
    PROVE  UNCHANGED aggregateVars
<1> USE DEF to, tables, written
<1>1. stage'[c] = "committed" /\ UNCHANGED <<db, outbox, operation, view>>
  BY DEF Commit, RepositoryInv, TypeOK
<1>2. view[c] = snapshot[c]
  BY DEF RepositoryInv, CallOK, Viewed, Base, ReadsOnly, IsReset
<1>3. phaseOf(c)' = phaseOf(c) /\ seenBy(c)' = seenBy(c)
  BY <1>1, <1>2 DEF phaseOf, seenBy, TookEffect, ReadsOnly, Ended
<1>4. \A d \in Calls \ {c} : Unmoved(d)
  BY DEF Commit, RepositoryInv, TypeOK, Unmoved, released, Holds, forget
<1> QED
  BY <1>1, <1>3, <1>4, SameSights

LEMMA ReturnStep ==
    ASSUME RepositoryInv, NEW c \in Calls, Return(c)
    PROVE  Aggregate!Return(c)
<1> USE DEF Return, to, tables, written
<1>1. /\ phaseOf(c) = "applied" /\ phaseOf(c)' = "done" /\ seenBy(c) = view[c]
      /\ seenBy(c)' = view[c]
  BY DEF RepositoryInv, TypeOK, phaseOf, seenBy, TookEffect, Ended
<1>2. \A d \in Calls \ {c} : Unmoved(d)
  BY DEF RepositoryInv, TypeOK, Unmoved
<1>3. phases' = [phases EXCEPT ![c] = "done"] /\ sights' = [sights EXCEPT ![c] = view[c]]
  BY <1>1, <1>2, OnePhase
<1>4. phases[c] = "applied" /\ sights[c] = view[c]
  BY <1>1 DEF phases, sights
<1>5. sights' = sights
  BY <1>3, <1>4 DEF sights
<1> QED
  BY <1>3, <1>4, <1>5 DEF Aggregate!Return, phases, sights

LEMMA FailStep ==
    ASSUME RepositoryInv, NEW c \in Calls, ForeignKeyViolation(c) \/ Fail(c)
    PROVE  Aggregate!Fail(c)
<1> USE DEF to, tables, written
<1>1. stage[c] \in InTransaction \union {"committed"} /\ rollback(c)
  BY DEF ForeignKeyViolation, Fail, InTransaction
<1>2. stage'[c] = "failed" /\ UNCHANGED <<db, outbox, operation>>
  BY <1>1 DEF rollback, RepositoryInv, TypeOK
<1>3. phaseOf(c) \in {"pending", "applied"} /\ phaseOf(c)' = "failed" /\ seenBy(c)' = None
  BY <1>1, <1>2 DEF phaseOf, seenBy, TookEffect, Ended, InTransaction, Reading
<1>4. \A d \in Calls \ {c} : Unmoved(d)
  BY <1>1 DEF rollback, RepositoryInv, TypeOK, Unmoved, released, Holds, forget
<1>5. phases' = [phases EXCEPT ![c] = "failed"] /\ sights' = [sights EXCEPT ![c] = None]
  BY <1>3, <1>4, OnePhase
<1>6. phases[c] \in {"pending", "applied"}
  BY <1>3 DEF phases
<1> QED
  BY <1>2, <1>5, <1>6 DEF Aggregate!Fail, phases, sights

\* Every step is a step of the aggregate or invisible to it.
LEMMA AggregateStep == RepositoryInv /\ [Next]_vars => [Aggregate!Next]_aggregateVars
<1> SUFFICES ASSUME RepositoryInv, [Next]_vars PROVE AggregateStepOrStutter
  BY DEF AggregateStepOrStutter
<1>1. ASSUME NEW c \in Calls, NEW o \in Operations, Begin(c, o) PROVE AggregateStepOrStutter
  BY <1>1, BeginStep, SameOperations DEF Aggregate!Next, AggregateStepOrStutter
<1>2. ASSUME NEW c \in Calls, readStateBookmarks(c), ReadsOnly(c) PROVE AggregateStepOrStutter
  BY <1>2, SnapshotStep, SameOperations DEF Aggregate!Next, AggregateStepOrStutter
<1>3. ASSUME NEW c \in Calls,
             \/ lockRepository(c)
             \/ readStateBookmarks(c) /\ ~ReadsOnly(c)
             \/ readRows(c) \/ readEvents(c) \/ replaceDomainState(c)
      PROVE  AggregateStepOrStutter
  BY <1>3, InnerStep DEF AggregateStepOrStutter
<1>4. ASSUME NEW c \in Calls, Commit(c) PROVE AggregateStepOrStutter
  <2>1. CASE stage[c] = "replaced"
    BY <1>4, <2>1, WriterCommitStep, SameOperations DEF Aggregate!Next, AggregateStepOrStutter
  <2>2. CASE stage[c] = "read" /\ ReadsOnly(c)
    BY <1>4, <2>2, ReaderCommitStep DEF AggregateStepOrStutter
  <2> QED
    BY <1>4, <2>1, <2>2 DEF Commit
<1>5. ASSUME NEW c \in Calls, Return(c) PROVE AggregateStepOrStutter
  BY <1>5, ReturnStep, SameOperations DEF Aggregate!Next, AggregateStepOrStutter
<1>6. ASSUME NEW c \in Calls, ForeignKeyViolation(c) \/ Fail(c) PROVE AggregateStepOrStutter
  BY <1>6, FailStep, SameOperations DEF Aggregate!Next, AggregateStepOrStutter
<1>7. ASSUME UNCHANGED vars PROVE AggregateStepOrStutter
  <2>1. \A d \in Calls : phaseOf(d)' = phaseOf(d) /\ seenBy(d)' = seenBy(d)
    BY <1>7, SamePhase DEF vars
  <2> QED
    BY <1>7, <2>1 DEF AggregateStepOrStutter, aggregateVars, phases, sights, vars, tables
<1> QED
  BY <1>1, <1>2, <1>3, <1>4, <1>5, <1>6, <1>7 DEF Next

\* Concurrent calls act as if each had seen and replaced the aggregate at one moment.
THEOREM RepositoryIsAtomic == Spec => ImplementsAggregate
<1>1. [Aggregate!Next]_aggregateVars => [Aggregate!Next]_(Aggregate!vars)
  BY DEF aggregateVars, phases, sights, Aggregate!vars
<1> QED
  BY AggregateInit, AggregateStep, <1>1, RepositoryInvariance, PTL
  DEF Spec, ImplementsAggregate, Aggregate!Spec
=============================================================================
