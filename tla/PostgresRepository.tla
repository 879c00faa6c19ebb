------------------------- MODULE PostgresRepository -------------------------
(***************************************************************************)
(* PostgresDomainStateRepository: each method is one transaction that      *)
(* takes an advisory lock, reads the aggregate table by table, computes    *)
(* its replacement, rewrites every table with the new outbox rows, and     *)
(* commits.  Statements of different calls interleave; each call has a     *)
(* connection of its own.                                                  *)
(*                                                                         *)
(* Writers run READ COMMITTED: a statement sees what is committed when it  *)
(* starts.  read() runs REPEATABLE READ: every statement sees what was     *)
(* committed at its first one.  A transaction's own writes are seen by     *)
(* others once it commits.  Seven tables are read in three groups:         *)
(* bookmarks, canonical rows, event logs.                                  *)
(***************************************************************************)
EXTENDS RepositoryState

CONSTANT MaxFaults  \* bound on statements, commits and connections that fail

VARIABLES
    db,         \* the committed aggregate
    outbox,     \* the events of the committed outbox rows
    lock,       \* the call that holds the advisory lock
    operation,  \* what each call asked for
    stage,      \* the statement a call has reached
    snapshot,   \* what was committed at the first statement of a read()
    view,       \* the aggregate as far as the call has read it
    draft,      \* the aggregate the transaction has written
    queue,      \* the outbox rows the transaction has written
    faults

vars == <<db, outbox, lock, operation, stage, snapshot, view, draft, queue, faults>>
tables == <<db, outbox>>
written == <<draft, queue>>

Reading == {"locked", "bookmarksRead", "rowsRead"}
InTransaction == {"begun", "replaced"} \union Reading \union {"read"}
Ended == {"done", "failed"}
Stages == {"idle", "committed"} \union InTransaction \union Ended

Holds(c) == lock = c
ReadsOnly(c) == operation[c].method = "read"

\* Mutant: read() runs in the default isolation level.
CommittedNow(c) == db

\* What a statement of call c sees.
Visible(c) == IF ReadsOnly(c) /\ stage[c] # "begun" THEN snapshot[c] ELSE db

(***************************************************************************)
(* The outbox rows.                                                        *)
(***************************************************************************)

\* Mutant: the key is the event's id alone.
eventId(e) == e.id

\* domainEventDedupeKey: the id and a hash of the whole event.
dedupeKey(e) == <<e.id, e>>

Persisted(e, events) == \E f \in events : dedupeKey(f) = dedupeKey(e)

selectNewOutboxRecords(current, next) == {e \in next.events : ~Persisted(e, current.events)}

\* ON CONFLICT (dedupe_key) DO NOTHING.
insertOutboxRecords(records) == {e \in records : ~Persisted(e, outbox)}

\* The foreign key of missions: a mission's robot has a row.
ReferencesHold(s) == \A m \in MissionIds : s.missions[m] # None => s.missions[m] \in s.robots

(***************************************************************************)
(* The statements of a call.                                               *)
(***************************************************************************)

to(c, next) == stage' = [stage EXCEPT ![c] = next]

\* BEGIN.
Begin(c, o) ==
    /\ stage[c] = "idle" /\ \A b \in 1..(c - 1) : stage[b] # "idle"
    /\ to(c, "begun")
    /\ operation' = [operation EXCEPT ![c] = o]
    /\ UNCHANGED <<tables, lock, snapshot, view, written, faults>>

\* Mutant: writers do not wait for each other.
lockNothing(c) ==
    /\ stage[c] = "begun" /\ ~ReadsOnly(c)
    /\ lock' = c
    /\ to(c, IF operation[c].method = "reset" THEN "read" ELSE "locked")
    /\ UNCHANGED <<tables, operation, snapshot, view, written, faults>>

\* pg_advisory_xact_lock waits for the transaction that holds the lock.
lockRepository(c) ==
    /\ stage[c] = "begun" /\ ~ReadsOnly(c)
    /\ lock = None
    /\ lock' = c
    /\ to(c, IF operation[c].method = "reset" THEN "read" ELSE "locked")
    /\ UNCHANGED <<tables, operation, snapshot, view, written, faults>>

\* The first statement of read() takes its snapshot.
readStateBookmarks(c) ==
    /\ \/ stage[c] = "locked"
       \/ /\ stage[c] = "begun"
          /\ ReadsOnly(c)
    /\ to(c, "bookmarksRead")
    /\ view' = [view EXCEPT ![c] = [createInitialDomainState EXCEPT
                                       !.bookmarks = Visible(c).bookmarks]]
    /\ snapshot' = IF ReadsOnly(c) THEN [snapshot EXCEPT ![c] = db] ELSE snapshot
    /\ UNCHANGED <<tables, lock, operation, written, faults>>

\* readRobots to readIdempotencyRecords.
readRows(c) ==
    /\ stage[c] = "bookmarksRead"
    /\ to(c, "rowsRead")
    /\ view' = [view EXCEPT ![c].robots = Visible(c).robots,
                            ![c].missions = Visible(c).missions]
    /\ UNCHANGED <<tables, lock, operation, snapshot, written, faults>>

readEvents(c) ==
    /\ stage[c] = "rowsRead"
    /\ to(c, "read")
    /\ view' = [view EXCEPT ![c] = [view[c] EXCEPT !.events = Visible(c).events]]
    /\ UNCHANGED <<tables, lock, operation, snapshot, written, faults>>

\* The mutator runs, every table is rewritten and the outbox rows are inserted.
replaceDomainState(c) ==
    LET o == operation[c]
        next == nextState(o, view[c], c)
    IN /\ stage[c] = "read" /\ ~ReadsOnly(c)
       /\ ReferencesHold(next)
       /\ to(c, "replaced")
       /\ draft' = [draft EXCEPT ![c] = next]
       /\ queue' = [queue EXCEPT ![c] =
              IF o.method = "reset" THEN {}
              ELSE insertOutboxRecords(selectNewOutboxRecords(view[c], next))]
       /\ UNCHANGED <<tables, lock, operation, snapshot, view, faults>>

\* Mutant: the lock outlives its transaction.
keepLock(c) == lock
\* Transaction-level advisory locks are released at the end of the transaction.
released(c) == IF Holds(c) THEN None ELSE lock

\* The transaction is over: its snapshot and its own versions of the rows are gone.
forget(c) ==
    /\ snapshot' = [snapshot EXCEPT ![c] = None]
    /\ draft' = [draft EXCEPT ![c] = None]
    /\ queue' = [queue EXCEPT ![c] = {}]

\* COMMIT: the rows become visible and the lock is released.
Commit(c) ==
    /\ \/ /\ stage[c] = "replaced"
          /\ db' = draft[c]
          /\ outbox' = outbox \union queue[c]
       \/ /\ stage[c] = "read" /\ ReadsOnly(c)
          /\ UNCHANGED tables
    /\ lock' = released(c)
    /\ to(c, "committed")
    /\ forget(c)
    /\ UNCHANGED <<operation, view, faults>>

\* The method returns what its transaction read or computed.
Return(c) ==
    /\ stage[c] = "committed"
    /\ to(c, "done")
    /\ UNCHANGED <<tables, lock, operation, snapshot, view, written, faults>>

\* ROLLBACK, by the method or by the server when the connection is gone.
rollback(c) ==
    /\ lock' = released(c)
    /\ to(c, "failed")
    /\ forget(c)
    /\ view' = [view EXCEPT ![c] = None]
    /\ UNCHANGED <<tables, operation>>

\* A mission names a robot without a row: the insert is refused.
ForeignKeyViolation(c) ==
    /\ stage[c] = "read" /\ ~ReadsOnly(c)
    /\ ~ReferencesHold(nextState(operation[c], view[c], c))
    /\ rollback(c)
    /\ UNCHANGED faults

\* A statement, the mutator or the connection fails; after COMMIT only its answer is lost.
Fail(c) ==
    /\ stage[c] \in InTransaction \union {"committed"}
    /\ faults < MaxFaults
    /\ faults' = faults + 1
    /\ rollback(c)

Init ==
    /\ db = createInitialDomainState
    /\ outbox = {}
    /\ lock = None
    /\ operation = [c \in Calls |-> None]
    /\ stage = [c \in Calls |-> "idle"]
    /\ snapshot = [c \in Calls |-> None]
    /\ view = [c \in Calls |-> None]
    /\ draft = [c \in Calls |-> None]
    /\ queue = [c \in Calls |-> {}]
    /\ faults = 0

Proceed(c) == \/ readStateBookmarks(c) \/ readRows(c) \/ readEvents(c)
              \/ replaceDomainState(c) \/ ForeignKeyViolation(c) \/ Commit(c) \/ Return(c)

Next == \E c \in Calls : \/ \E o \in Operations : Begin(c, o)
                         \/ lockRepository(c)
                         \/ readStateBookmarks(c)
                         \/ readRows(c)
                         \/ readEvents(c)
                         \/ replaceDomainState(c)
                         \/ Commit(c)
                         \/ Return(c)
                         \/ ForeignKeyViolation(c)
                         \/ Fail(c)

Spec == Init /\ [][Next]_vars

\* Statements end, and Postgres grants a lock in the order it was asked for.
Fairness == \A c \in Calls : WF_vars(Proceed(c)) /\ SF_vars(lockRepository(c))
FairSpec == Spec /\ Fairness

(***************************************************************************)
(* Properties.                                                             *)
(***************************************************************************)

\* Type invariant of the tables, the lock and the transactions.
TypeOK ==
    /\ db \in DomainState
    /\ outbox \subseteq Event
    /\ lock \in Calls \union {None}
    /\ operation \in [Calls -> Operations \union {None}]
    /\ stage \in [Calls -> Stages]
    /\ snapshot \in [Calls -> DomainState \union {None}]
    /\ view \in [Calls -> DomainState \union {None}]
    /\ draft \in [Calls -> DomainState \union {None}]
    /\ queue \in [Calls -> SUBSET Event]
    /\ faults \in Nat

\* Every event of the log is queued for publication, also when ids repeat after a reset
\* (postgres-domain-state-repository.ts:218-243, 295-302).
LoggedEventsAreQueued == db.events \subseteq outbox

\* Every call ends: no failure leaves the advisory lock behind (147-173).
CallsEnd == \A c \in Calls : stage[c] # "idle" ~> stage[c] \in Ended

\* repository.ts:37: the in-memory repository is the contract baseline of the durable ones.  It
\* stores whatever a reducer returns, so a call fails only when something broke.
OnlyFaultsFail ==
    [][\A c \in Calls : stage[c] \notin Ended /\ stage'[c] = "failed" => faults' > faults]_vars

(***************************************************************************)
(* The repository is one atomic aggregate.                                 *)
(***************************************************************************)

\* A reader's call takes effect at its snapshot, a writer's at its COMMIT.
TookEffect(c) == \/ stage[c] = "committed"
                 \/ stage[c] # "begun" /\ ReadsOnly(c)

phaseOf(c) == IF stage[c] \in {"idle"} \union Ended THEN stage[c]
              ELSE IF TookEffect(c) THEN "applied" ELSE "pending"

seenBy(c) == IF stage[c] \in {"committed", "done"} THEN view[c]
             ELSE IF phaseOf(c) = "applied" THEN snapshot[c] ELSE None

Aggregate == INSTANCE DomainRepository WITH
    state <- db,
    phase <- [c \in Calls |-> phaseOf(c)],
    seen <- [c \in Calls |-> seenBy(c)]

\* Calls of concurrent processes act as if each had seen and replaced the aggregate at one moment:
\* no update is lost, no read mixes two states, and events and their outbox rows are one
\* (postgres-domain-state-repository.ts:112-173).
ImplementsAggregate == Aggregate!Spec
=============================================================================
