------------------------------- MODULE Outbox -------------------------------
(***************************************************************************)
(* The transactional outbox: rows the repository enqueues, and event       *)
(* workers that claim a batch of them, publish each and mark it published  *)
(* or release it for a retry.  One worker pass is sequential; passes of    *)
(* several processes interleave at every await.                            *)
(*                                                                         *)
(* Every await on the store or the publisher may fail, before or after it  *)
(* took effect, and a process may die at any await.  faults counts the     *)
(* failures and the passes run without a publisher; MaxFaults bounds them. *)
(*                                                                         *)
(* Left out: payloads, error texts, metrics and the CLI around a pass.     *)
(***************************************************************************)
EXTENDS Integers, FiniteSets

CONSTANTS
    OutboxIds,      \* the rows the repository may enqueue
    Passes,         \* worker processes; each runs one pass after another
    WorkerIds, workerId,    \* the --worker-id of each pass; two may share one
    Configured,     \* the passes that have a publisher
    BatchSize, RetryDelay,
    MaxFaults,      \* bound on failures
    None

ASSUME OutboxAssumption ==
    /\ workerId \in [Passes -> WorkerIds]
    /\ Configured \subseteq Passes
    /\ BatchSize \in Nat \ {0} /\ RetryDelay \in Nat \ {0} /\ MaxFaults \in Nat
    /\ None \notin OutboxIds \union WorkerIds

VARIABLES
    rows,           \* the outbox_events table
    pc,             \* the await each pass is at
    current,        \* the event it works on
    claimed,        \* the events of its batch it has not settled, current included
    deliveries,     \* how often consumers received each event
    now,            \* the clock
    lost,           \* the events claimed by a pass that then died
    faults

vars == <<rows, pc, current, claimed, deliveries, now, lost, faults>>
passVars == <<pc, current, claimed>>

Row == [state : {"ABSENT", "UNPUBLISHED", "PUBLISHED"}, lockedBy : WorkerIds \union {None},
        availableAt : Nat, attemptCount : Nat]

\* Mutant: a claim does not look at the lock.
AvailableThoughLocked(o) == rows[o].state = "UNPUBLISHED" /\ rows[o].availableAt <= now
Available(o) == /\ rows[o].state = "UNPUBLISHED"
                /\ rows[o].lockedBy = None
                /\ rows[o].availableAt <= now

\* available_at, created_at, outbox_id: which of two rows of one instant is older is not fixed.
OldestFirst(batch, others) ==
    \A o \in batch, q \in others : rows[o].availableAt <= rows[q].availableAt

Fault == faults < MaxFaults /\ faults' = faults + 1
NoFault == UNCHANGED faults

\* The pass turns to an event of rest, or ends.  Without a publisher it releases what it claimed.
workOn(p, rest) ==
    /\ claimed' = [claimed EXCEPT ![p] = rest]
    /\ \/ /\ rest = {}
          /\ pc' = [pc EXCEPT ![p] = "idle"]
          /\ current' = [current EXCEPT ![p] = None]
       \/ \E o \in rest :
              /\ OldestFirst({o}, rest)
              /\ current' = [current EXCEPT ![p] = o]
              /\ pc' = [pc EXCEPT ![p] = IF p \in Configured THEN "publishing" ELSE "releasing"]

\* The event the pass worked on is done, for this pass.
advance(p) == workOn(p, claimed[p] \ {current[p]})

\* Mutant: the worker is never run again.
abandonForGood(p) ==
    /\ pc' = [pc EXCEPT ![p] = "stopped"]
    /\ current' = [current EXCEPT ![p] = None]
    /\ claimed' = [claimed EXCEPT ![p] = {}]
    /\ lost' = lost \union claimed[p]

\* The pass ends with an exception or its process dies.  What it claimed stays locked.
abandon(p) ==
    /\ pc' = [pc EXCEPT ![p] = "idle"]
    /\ current' = [current EXCEPT ![p] = None]
    /\ claimed' = [claimed EXCEPT ![p] = {}]
    /\ lost' = lost \union claimed[p]

(***************************************************************************)
(* The repository's transaction.                                           *)
(***************************************************************************)

insertOutboxRecord(o) ==
    /\ rows[o].state = "ABSENT"
    /\ rows' = [rows EXCEPT ![o] = [state |-> "UNPUBLISHED", lockedBy |-> None,
                                    availableAt |-> now, attemptCount |-> 0]]
    /\ UNCHANGED <<passVars, deliveries, now, lost, faults>>

(***************************************************************************)
(* The store: postgres-outbox-store.ts.                                    *)
(***************************************************************************)

claimBatch(p) ==
    LET available == {o \in OutboxIds : Available(o)} IN
    \E batch \in SUBSET available :
        /\ batch # {}
        /\ Cardinality(batch) = IF Cardinality(available) < BatchSize
                                THEN Cardinality(available) ELSE BatchSize
        /\ OldestFirst(batch, available \ batch)
        /\ rows' = [o \in OutboxIds |->
               IF o \in batch
               THEN [rows[o] EXCEPT !.lockedBy = workerId[p],
                                    !.attemptCount = rows[o].attemptCount + 1]
               ELSE rows[o]]
        /\ workOn(p, batch)

\* The row is still claimed under the pass's worker id.
StillClaimed(p, o) == rows[o].lockedBy = workerId[p] /\ rows[o].state = "UNPUBLISHED"

markPublished(p, o) ==
    rows' = IF StillClaimed(p, o)
            THEN [rows EXCEPT ![o] = [rows[o] EXCEPT !.state = "PUBLISHED", !.lockedBy = None]]
            ELSE rows

\* Mutant: the row is released whether or not it is still claimed.
recordFailureAnyway(p, o) ==
    rows' = [rows EXCEPT ![o] = [rows[o] EXCEPT !.state = "UNPUBLISHED", !.lockedBy = None,
                                                !.availableAt = now + RetryDelay]]

\* Mutant: the release forgets the lock.
recordFailureKeepsLock(p, o) ==
    rows' = IF StillClaimed(p, o)
            THEN [rows EXCEPT ![o] = [rows[o] EXCEPT !.availableAt = now + RetryDelay]]
            ELSE rows

recordFailure(p, o) ==
    rows' = IF StillClaimed(p, o)
            THEN [rows EXCEPT ![o] = [rows[o] EXCEPT !.lockedBy = None,
                                                     !.availableAt = now + RetryDelay]]
            ELSE rows

(***************************************************************************)
(* One pass: runEventWorkerOnce.                                           *)
(***************************************************************************)

StartPass(p) ==
    /\ pc[p] = "idle"
    /\ claimBatch(p)
    /\ IF p \in Configured THEN NoFault ELSE Fault
    /\ UNCHANGED <<deliveries, now, lost>>

Publish(p) ==
    /\ pc[p] = "publishing"
    /\ deliveries' = [deliveries EXCEPT ![current[p]] = deliveries[current[p]] + 1]
    /\ pc' = [pc EXCEPT ![p] = "marking"]
    /\ NoFault
    /\ UNCHANGED <<rows, current, claimed, now, lost>>

\* The publisher throws, perhaps after the event went out.
PublishFails(p) ==
    /\ pc[p] = "publishing"
    /\ \/ UNCHANGED deliveries
       \/ deliveries' = [deliveries EXCEPT ![current[p]] = deliveries[current[p]] + 1]
    /\ pc' = [pc EXCEPT ![p] = "releasing"]
    /\ Fault
    /\ UNCHANGED <<rows, current, claimed, now, lost>>

Mark(p) ==
    /\ pc[p] = "marking"
    /\ markPublished(p, current[p])
    /\ advance(p)
    /\ NoFault
    /\ UNCHANGED <<deliveries, now, lost>>

\* Mutant: the row is published again at once.
MarkFailsTriesAgain(p) ==
    /\ pc[p] = "marking"
    /\ markPublished(p, current[p]) \/ UNCHANGED rows
    /\ pc' = [pc EXCEPT ![p] = "publishing"]
    /\ Fault
    /\ UNCHANGED <<current, claimed, deliveries, now, lost>>

\* markPublished throws, perhaps after it committed; the catch block releases the row.
MarkFails(p) ==
    /\ pc[p] = "marking"
    /\ markPublished(p, current[p]) \/ UNCHANGED rows
    /\ pc' = [pc EXCEPT ![p] = "releasing"]
    /\ Fault
    /\ UNCHANGED <<current, claimed, deliveries, now, lost>>

recordRetryableFailure(p) ==
    /\ pc[p] = "releasing"
    /\ recordFailure(p, current[p])
    /\ advance(p)
    /\ NoFault
    /\ UNCHANGED <<deliveries, now, lost>>

\* recordFailure throws, perhaps after it committed; nothing catches it.
ReleaseFails(p) ==
    /\ pc[p] = "releasing"
    /\ recordFailure(p, current[p]) \/ UNCHANGED rows
    /\ abandon(p)
    /\ Fault
    /\ UNCHANGED <<deliveries, now>>

Crash(p) ==
    /\ pc[p] # "idle"
    /\ abandon(p)
    /\ Fault
    /\ UNCHANGED <<rows, deliveries, now>>

\* Time matters only to a row that waits for its retry.
Tick ==
    /\ \E o \in OutboxIds : /\ rows[o].state = "UNPUBLISHED" /\ rows[o].lockedBy = None
                            /\ rows[o].availableAt > now
    /\ now' = now + 1
    /\ UNCHANGED <<rows, passVars, deliveries, lost, faults>>

Init ==
    /\ rows = [o \in OutboxIds |-> [state |-> "ABSENT", lockedBy |-> None,
                                    availableAt |-> 0, attemptCount |-> 0]]
    /\ pc = [p \in Passes |-> "idle"]
    /\ current = [p \in Passes |-> None]
    /\ claimed = [p \in Passes |-> {}]
    /\ deliveries = [o \in OutboxIds |-> 0]
    /\ now = 0
    /\ lost = {}
    /\ faults = 0

PublishStep(p) == Publish(p) \/ PublishFails(p)
MarkStep(p) == Mark(p) \/ MarkFails(p)
ReleaseStep(p) == recordRetryableFailure(p) \/ ReleaseFails(p)

Next ==
    \/ \E o \in OutboxIds : insertOutboxRecord(o)
    \/ \E p \in Passes : \/ StartPass(p) \/ PublishStep(p) \/ MarkStep(p) \/ ReleaseStep(p)
                         \/ Crash(p)
    \/ Tick

Spec == Init /\ [][Next]_vars

\* An await settles one way or the other, time passes, and whoever schedules the worker keeps
\* running passes that have a publisher.  Nothing says that a process may not die.
Fairness ==
    /\ WF_vars(Tick)
    /\ \A p \in Passes : /\ WF_vars(PublishStep(p)) /\ WF_vars(MarkStep(p))
                         /\ WF_vars(ReleaseStep(p))
    /\ \A p \in Configured : WF_vars(StartPass(p))

FairSpec == Spec /\ Fairness
-----------------------------------------------------------------------------
TypeOK ==
    /\ rows \in [OutboxIds -> Row]
    /\ pc \in [Passes -> {"idle", "publishing", "marking", "releasing"}]
    /\ current \in [Passes -> OutboxIds \union {None}]
    /\ claimed \in [Passes -> SUBSET OutboxIds]
    /\ deliveries \in [OutboxIds -> Nat]
    /\ now \in Nat
    /\ lost \subseteq OutboxIds
    /\ faults \in Nat

\* No event is in the hands of two passes, even of two that share a worker id: locks carry only
\* the worker id, so the claim query alone keeps passes apart.
OneClaimant ==
    \A p, q \in Passes : p # q => claimed[p] \intersect claimed[q] = {}

\* Consumers receive an event at most once per claim: duplicates are bounded by attempt_count,
\* whatever fails between publishing a row and marking it.
DeliveriesWithinAttempts == \A o \in OutboxIds : deliveries[o] <= rows[o].attemptCount

\* The outbox is an at-least-once queue: a row is marked published only after consumers received
\* the event, and a published row is never delivered again or returned to the queue.
Queue == INSTANCE AtLeastOnceQueue WITH state <- [o \in OutboxIds |-> rows[o].state]
ImplementsQueue == Queue!Spec

\* Every enqueued event is published, unless a pass died that had claimed it: retries,
\* oldest-first batches and passes without a publisher starve no row.
EveryRowSettles ==
    \A o \in OutboxIds : rows[o].state = "UNPUBLISHED" ~> rows[o].state = "PUBLISHED" \/ o \in lost

\* 0001_core_schema.sql, "Transactional outbox queue for at-least-once publication workers": every
\* enqueued event is delivered.
AtLeastOnce == \A o \in OutboxIds : rows[o].state = "UNPUBLISHED" ~> deliveries[o] > 0
=============================================================================
