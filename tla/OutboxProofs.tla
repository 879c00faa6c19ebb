---------------------------- MODULE OutboxProofs ----------------------------
(***************************************************************************)
(* Theorems about Outbox, for any rows, passes, worker ids, batch size and *)
(* number of failures.                                                     *)
(*                                                                         *)
(* OneClaimant is not inductive alone: a claim query sees locks and states *)
(* only, so the proof carries what a pass's claim means in the table       *)
(* (Held), and how far deliveries lag behind attempts at each await        *)
(* (Counted).                                                              *)
(***************************************************************************)
EXTENDS Outbox, TLAPS

\* A pass that is not idle works on one of the events it claimed.
Working ==
    \A p \in Passes : /\ pc[p] = "idle" => claimed[p] = {}
                      /\ pc[p] # "idle" => current[p] \in claimed[p]

\* A claimed row is unpublished and locked under the pass's worker id, but for the row whose mark
\* was reported as failed and had in fact committed.
Held ==
    \A p \in Passes : \A o \in claimed[p] :
        \/ rows[o].state = "UNPUBLISHED" /\ rows[o].lockedBy = workerId[p]
        \/ rows[o].state = "PUBLISHED" /\ o = current[p] /\ pc[p] = "releasing"

\* An event not yet published in this claim was delivered less often than it was claimed.
Counted ==
    /\ \A o \in OutboxIds : /\ deliveries[o] <= rows[o].attemptCount
                            /\ rows[o].state = "ABSENT" => deliveries[o] = 0
    /\ \A p \in Passes :
           /\ \A o \in claimed[p] :
                  o # current[p] \/ pc[p] = "publishing" => deliveries[o] < rows[o].attemptCount
           /\ pc[p] = "marking" => deliveries[current[p]] > 0

OutboxInv == TypeOK /\ Working /\ Held /\ OneClaimant /\ Counted

LEMMA InitInv == Init => OutboxInv
BY OutboxAssumption DEF Init, OutboxInv, TypeOK, Row, Working, Held, OneClaimant, Counted

\* What turning to the next event does to the bookkeeping of the passes.
LEMMA WorkOnFacts ==
    ASSUME TypeOK, NEW p \in Passes, NEW rest \in SUBSET OutboxIds, workOn(p, rest)
    PROVE  /\ pc' \in [Passes -> {"idle", "publishing", "marking", "releasing"}]
           /\ current' \in [Passes -> OutboxIds \union {None}]
           /\ claimed' \in [Passes -> SUBSET OutboxIds]
           /\ claimed'[p] = rest
           /\ pc'[p] = "idle" => rest = {}
           /\ pc'[p] # "idle" => /\ current'[p] \in rest
                                 /\ pc'[p] \in {"publishing", "releasing"}
           /\ rest = {} => pc'[p] = "idle"
           /\ \A q \in Passes : q # p => /\ pc'[q] = pc[q] /\ current'[q] = current[q]
                                         /\ claimed'[q] = claimed[q]
BY DEF TypeOK, workOn

LEMMA AbandonFacts ==
    ASSUME TypeOK, NEW p \in Passes, abandon(p)
    PROVE  /\ pc' \in [Passes -> {"idle", "publishing", "marking", "releasing"}]
           /\ current' \in [Passes -> OutboxIds \union {None}]
           /\ claimed' \in [Passes -> SUBSET OutboxIds]
           /\ lost' \subseteq OutboxIds
           /\ claimed'[p] = {} /\ pc'[p] = "idle"
           /\ \A q \in Passes : q # p => /\ pc'[q] = pc[q] /\ current'[q] = current[q]
                                         /\ claimed'[q] = claimed[q]
BY DEF TypeOK, abandon

\* What the two updates of the store do to a row: nothing, unless it is still claimed.
LEMMA MarkFacts ==
    ASSUME TypeOK, NEW p \in Passes, NEW o \in OutboxIds, markPublished(p, o)
    PROVE  /\ rows' \in [OutboxIds -> Row]
           /\ \A q \in OutboxIds : /\ rows'[q].attemptCount = rows[q].attemptCount
                                   /\ q # o => rows'[q] = rows[q]
           /\ StillClaimed(p, o) => rows'[o].state = "PUBLISHED"
           /\ ~StillClaimed(p, o) => rows' = rows
<1>1. rows[o] \in Row
  BY DEF TypeOK
<1>2. [rows[o] EXCEPT !.state = "PUBLISHED", !.lockedBy = None] \in Row
  BY <1>1 DEF Row
<1> QED
  BY <1>1, <1>2 DEF TypeOK, markPublished, Row

LEMMA ReleaseFacts ==
    ASSUME TypeOK, NEW p \in Passes, NEW o \in OutboxIds, recordFailure(p, o)
    PROVE  /\ rows' \in [OutboxIds -> Row]
           /\ \A q \in OutboxIds : /\ rows'[q].attemptCount = rows[q].attemptCount
                                   /\ rows'[q].state = rows[q].state
                                   /\ q # o => rows'[q] = rows[q]
<1>1. rows[o] \in Row /\ now + RetryDelay \in Nat
  BY OutboxAssumption DEF TypeOK
<1>2. [rows[o] EXCEPT !.lockedBy = None, !.availableAt = now + RetryDelay] \in Row
  BY <1>1 DEF Row
<1> QED
  BY <1>1, <1>2 DEF TypeOK, recordFailure, Row

LEMMA InsertInv ==
    ASSUME OutboxInv, NEW o \in OutboxIds, insertOutboxRecord(o)
    PROVE  OutboxInv'
<1>1. TypeOK'
  BY DEF OutboxInv, TypeOK, Row, insertOutboxRecord, passVars
<1>2. Working' /\ OneClaimant'
  BY DEF OutboxInv, Working, OneClaimant, insertOutboxRecord, passVars
<1>3. \A p \in Passes : o \notin claimed[p]
  BY DEF OutboxInv, Held, insertOutboxRecord
<1>4. /\ rows'[o].state = "UNPUBLISHED" /\ rows'[o].attemptCount = 0
      /\ \A q \in OutboxIds : q # o => rows'[q] = rows[q]
  BY DEF OutboxInv, TypeOK, insertOutboxRecord
<1>5. Held'
  BY <1>3, <1>4 DEF OutboxInv, TypeOK, Held, insertOutboxRecord, passVars
<1>6. Counted'
  <2>1. deliveries[o] = 0 /\ UNCHANGED <<passVars, deliveries>>
    BY DEF OutboxInv, Counted, insertOutboxRecord
  <2> QED
    BY <1>3, <1>4, <2>1 DEF OutboxInv, TypeOK, Counted, passVars
<1> QED
  BY <1>1, <1>2, <1>5, <1>6 DEF OutboxInv

LEMMA StartPassInv ==
    ASSUME OutboxInv, NEW p \in Passes, StartPass(p)
    PROVE  OutboxInv'
<1>1. PICK batch \in SUBSET {o \in OutboxIds : Available(o)} :
          /\ rows' = [o \in OutboxIds |->
                 IF o \in batch
                 THEN [rows[o] EXCEPT !.lockedBy = workerId[p],
                                      !.attemptCount = rows[o].attemptCount + 1]
                 ELSE rows[o]]
          /\ batch # {}
          /\ workOn(p, batch)
  BY DEF StartPass, claimBatch
<1>2. batch \subseteq OutboxIds
  OBVIOUS
<1>3. \A o \in OutboxIds : rows[o] \in Row
  BY DEF OutboxInv, TypeOK
<1>4. \A o \in batch : /\ rows'[o] \in Row
                       /\ rows'[o].state = "UNPUBLISHED"
                       /\ rows'[o].lockedBy = workerId[p]
                       /\ rows'[o].attemptCount = rows[o].attemptCount + 1
                       /\ rows[o].state = "UNPUBLISHED" /\ rows[o].lockedBy = None
  <2> SUFFICES ASSUME NEW o \in batch
               PROVE  /\ rows'[o] \in Row
                      /\ rows'[o].state = "UNPUBLISHED"
                      /\ rows'[o].lockedBy = workerId[p]
                      /\ rows'[o].attemptCount = rows[o].attemptCount + 1
                      /\ rows[o].state = "UNPUBLISHED" /\ rows[o].lockedBy = None
    OBVIOUS
  <2> DEFINE attempts == rows[o].attemptCount + 1
  <2>1. rows[o].state = "UNPUBLISHED" /\ rows[o].lockedBy = None
    BY DEF Available
  <2>2. attempts \in Nat /\ workerId[p] \in WorkerIds
    BY <1>2, <1>3, OutboxAssumption DEF Row
  <2>3. rows'[o] = [rows[o] EXCEPT !.lockedBy = workerId[p], !.attemptCount = attempts]
    BY <1>1, <1>2
  <2> HIDE DEF attempts
  <2>4. rows'[o] \in Row /\ rows'[o].state = rows[o].state /\ rows'[o].lockedBy = workerId[p]
        /\ rows'[o].attemptCount = attempts
    BY <1>2, <1>3, <2>2, <2>3 DEF Row
  <2> QED
    BY <2>1, <2>4 DEF attempts
<1>5. \A o \in OutboxIds : o \notin batch => rows'[o] = rows[o]
  BY <1>1
<1>6. faults' \in Nat /\ UNCHANGED <<deliveries, now, lost>>
  BY DEF StartPass, Fault, NoFault, OutboxInv, TypeOK
<1>7. TypeOK'
  <2>1. rows' \in [OutboxIds -> Row]
    BY <1>1, <1>3, <1>4, <1>5
  <2> QED
    BY <1>1, <1>2, <1>6, <2>1, WorkOnFacts DEF OutboxInv, TypeOK
<1>8. \A q \in Passes : claimed[q] \intersect batch = {}
  BY <1>2, <1>4, OutboxAssumption DEF OutboxInv, Held
<1>9. /\ claimed'[p] = batch /\ pc'[p] \in {"publishing", "releasing"} /\ current'[p] \in batch
      /\ \A q \in Passes : q # p => /\ pc'[q] = pc[q] /\ current'[q] = current[q]
                                    /\ claimed'[q] = claimed[q]
  BY <1>1, <1>2, WorkOnFacts DEF OutboxInv
<1>10. Working' /\ OneClaimant'
  BY <1>8, <1>9 DEF OutboxInv, Working, OneClaimant
<1>11. Held'
  <2> SUFFICES ASSUME NEW q \in Passes, NEW o \in claimed'[q]
               PROVE  \/ rows'[o].state = "UNPUBLISHED" /\ rows'[o].lockedBy = workerId[q]
                      \/ /\ rows'[o].state = "PUBLISHED" /\ o = current'[q]
                         /\ pc'[q] = "releasing"
    BY DEF Held
  <2>1. CASE q = p
    BY <1>4, <1>9, <2>1
  <2>2. CASE q # p
    BY <1>5, <1>8, <1>9, <2>2 DEF OutboxInv, TypeOK, Held
  <2> QED
    BY <2>1, <2>2
<1>12. Counted'
  <2>1. \A o \in OutboxIds : deliveries[o] \in Nat /\ rows[o].attemptCount \in Nat
    BY <1>3 DEF OutboxInv, TypeOK, Row
  <2>2. \A o \in OutboxIds : /\ deliveries'[o] <= rows'[o].attemptCount
                             /\ rows'[o].state = "ABSENT" => deliveries'[o] = 0
    BY <1>4, <1>5, <1>6, <2>1 DEF OutboxInv, Counted
  <2>3. ASSUME NEW q \in Passes
        PROVE  /\ \A o \in claimed'[q] : o # current'[q] \/ pc'[q] = "publishing" =>
                      deliveries'[o] < rows'[o].attemptCount
               /\ pc'[q] = "marking" => deliveries'[current'[q]] > 0
    <3>1. CASE q = p
      BY <1>2, <1>4, <1>6, <1>9, <2>1, <3>1 DEF OutboxInv, Counted
    <3>2. CASE q # p
      BY <1>5, <1>6, <1>8, <1>9, <3>2 DEF OutboxInv, TypeOK, Counted
    <3> QED
      BY <3>1, <3>2
  <2> QED
    BY <2>2, <2>3 DEF Counted
<1> QED
  BY <1>7, <1>10, <1>11, <1>12 DEF OutboxInv

LEMMA PublishInv ==
    ASSUME OutboxInv, NEW p \in Passes, PublishStep(p)
    PROVE  OutboxInv'
<1> DEFINE o == current[p]
<1>1. pc[p] = "publishing" /\ o \in claimed[p] /\ o \in OutboxIds
  BY DEF PublishStep, Publish, PublishFails, OutboxInv, TypeOK, Working
<1>2. /\ pc'[p] \in {"marking", "releasing"}
      /\ pc' \in [Passes -> {"idle", "publishing", "marking", "releasing"}]
      /\ \A q \in Passes : q # p => pc'[q] = pc[q]
      /\ UNCHANGED <<rows, current, claimed, now, lost>>
      /\ faults' \in Nat
  BY DEF PublishStep, Publish, PublishFails, Fault, NoFault, OutboxInv, TypeOK
<1>3. /\ deliveries' \in [OutboxIds -> Nat]
      /\ \A q \in OutboxIds : q # o => deliveries'[q] = deliveries[q]
      /\ deliveries'[o] \in {deliveries[o], deliveries[o] + 1}
      /\ pc'[p] = "marking" => deliveries'[o] > 0
  BY <1>1 DEF PublishStep, Publish, PublishFails, OutboxInv, TypeOK
<1>4. rows[o].state = "UNPUBLISHED" /\ rows[o].lockedBy = workerId[p]
  BY <1>1 DEF OutboxInv, Held
<1>5. TypeOK' /\ Working' /\ OneClaimant'
  BY <1>1, <1>2, <1>3 DEF OutboxInv, TypeOK, Working, OneClaimant
<1>6. Held'
  BY <1>1, <1>2, <1>4 DEF OutboxInv, Held
<1>7. Counted'
  <2>1. deliveries[o] < rows[o].attemptCount
    BY <1>1 DEF OutboxInv, Counted
  <2>2. \A q \in OutboxIds : deliveries[q] \in Nat /\ rows[q].attemptCount \in Nat
    BY DEF OutboxInv, TypeOK, Row
  <2>3. \A q \in OutboxIds : /\ deliveries'[q] <= rows'[q].attemptCount
                             /\ rows'[q].state = "ABSENT" => deliveries'[q] = 0
    BY <1>1, <1>2, <1>3, <1>4, <2>1, <2>2 DEF OutboxInv, Counted
  <2>4. ASSUME NEW q \in Passes
        PROVE  /\ \A e \in claimed'[q] : e # current'[q] \/ pc'[q] = "publishing" =>
                      deliveries'[e] < rows'[e].attemptCount
               /\ pc'[q] = "marking" => deliveries'[current'[q]] > 0
    <3>1. CASE q = p
      BY <1>1, <1>2, <1>3, <3>1 DEF OutboxInv, TypeOK, Counted
    <3>2. CASE q # p
      <4>1. \A e \in claimed[q] : e # o /\ e \in OutboxIds
        BY <1>1, <3>2 DEF OutboxInv, TypeOK, OneClaimant
      <4>2. pc[q] = "marking" => current[q] \in claimed[q]
        BY DEF OutboxInv, Working
      <4> QED
        BY <1>2, <1>3, <3>2, <4>1, <4>2 DEF OutboxInv, Counted
    <3> QED
      BY <3>1, <3>2
  <2> QED
    BY <2>3, <2>4 DEF Counted
<1> QED
  BY <1>5, <1>6, <1>7 DEF OutboxInv

\* The steps that end the pass's work on its event, whatever became of the row.
LEMMA RestInv ==
    ASSUME OutboxInv, NEW p \in Passes, NEW rest \in SUBSET OutboxIds,
           rest \subseteq claimed[p] \ {current[p]},
           workOn(p, rest) \/ (abandon(p) /\ rest = {}),
           rows' \in [OutboxIds -> Row], faults' \in Nat, lost' \subseteq OutboxIds,
           UNCHANGED <<deliveries, now>>,
           \A e \in OutboxIds : /\ rows'[e].attemptCount = rows[e].attemptCount
                                /\ rows'[e].state = "ABSENT" => rows[e].state = "ABSENT"
                                /\ e \notin claimed[p] \ rest => rows'[e] = rows[e]
    PROVE  OutboxInv'
<1>1. /\ pc' \in [Passes -> {"idle", "publishing", "marking", "releasing"}]
      /\ current' \in [Passes -> OutboxIds \union {None}]
      /\ claimed' \in [Passes -> SUBSET OutboxIds]
      /\ claimed'[p] = rest
      /\ pc'[p] = "idle" => rest = {}
      /\ pc'[p] # "idle" => current'[p] \in rest /\ pc'[p] \in {"publishing", "releasing"}
      /\ \A q \in Passes : q # p => /\ pc'[q] = pc[q] /\ current'[q] = current[q]
                                    /\ claimed'[q] = claimed[q]
  <2>1. CASE workOn(p, rest)
    BY <2>1, WorkOnFacts DEF OutboxInv
  <2>2. CASE abandon(p) /\ rest = {}
    BY <2>2, AbandonFacts DEF OutboxInv
  <2> QED
    BY <2>1, <2>2
<1>2. TypeOK' /\ Working' /\ OneClaimant'
  BY <1>1 DEF OutboxInv, TypeOK, Working, OneClaimant
<1>3. \A q \in Passes : \A e \in claimed'[q] : e \in OutboxIds /\ rows'[e] = rows[e]
  <2> SUFFICES ASSUME NEW q \in Passes, NEW e \in claimed'[q]
               PROVE  e \in OutboxIds /\ e \notin claimed[p] \ rest
    OBVIOUS
  <2>1. CASE q = p
    BY <1>1, <2>1
  <2>2. CASE q # p
    BY <1>1, <2>2 DEF OutboxInv, TypeOK, OneClaimant
  <2> QED
    BY <2>1, <2>2
<1>4. Held'
  <2> SUFFICES ASSUME NEW q \in Passes, NEW e \in claimed'[q]
               PROVE  \/ rows'[e].state = "UNPUBLISHED" /\ rows'[e].lockedBy = workerId[q]
                      \/ /\ rows'[e].state = "PUBLISHED" /\ e = current'[q]
                         /\ pc'[q] = "releasing"
    BY DEF Held
  <2> QED
    BY <1>1, <1>3 DEF OutboxInv, Held
<1>5. Counted'
  <2>1. \A e \in OutboxIds : /\ deliveries'[e] <= rows'[e].attemptCount
                             /\ rows'[e].state = "ABSENT" => deliveries'[e] = 0
    BY DEF OutboxInv, Counted
  <2>2. ASSUME NEW q \in Passes
        PROVE  /\ \A e \in claimed'[q] : e # current'[q] \/ pc'[q] = "publishing" =>
                      deliveries'[e] < rows'[e].attemptCount
               /\ pc'[q] = "marking" => deliveries'[current'[q]] > 0
    BY <1>1, <1>3 DEF OutboxInv, Counted
  <2> QED
    BY <2>1, <2>2 DEF Counted
<1> QED
  BY <1>2, <1>4, <1>5 DEF OutboxInv

LEMMA MarkInv ==
    ASSUME OutboxInv, NEW p \in Passes, MarkStep(p)
    PROVE  OutboxInv'
<1> DEFINE o == current[p]
<1>1. pc[p] = "marking" /\ o \in claimed[p] /\ o \in OutboxIds
  BY DEF MarkStep, Mark, MarkFails, OutboxInv, TypeOK, Working
<1>2. /\ rows' \in [OutboxIds -> Row]
      /\ \A e \in OutboxIds : /\ rows'[e].attemptCount = rows[e].attemptCount
                              /\ e # o => rows'[e] = rows[e]
      /\ rows'[o].state = "PUBLISHED" \/ rows'[o] = rows[o]
  BY <1>1, MarkFacts DEF MarkStep, Mark, MarkFails, OutboxInv, TypeOK
<1>3. CASE Mark(p)
  <2>1. workOn(p, claimed[p] \ {o}) /\ UNCHANGED <<deliveries, now, lost, faults>>
    BY <1>3 DEF Mark, advance, NoFault
  <2>2. claimed[p] \ {o} \in SUBSET OutboxIds /\ faults \in Nat /\ lost \subseteq OutboxIds
    BY DEF OutboxInv, TypeOK
  <2> QED
    BY <1>1, <1>2, <2>1, <2>2, RestInv
<1>4. CASE MarkFails(p)
  <2>1. /\ pc' = [pc EXCEPT ![p] = "releasing"] /\ UNCHANGED <<current, claimed, deliveries>>
        /\ now' = now /\ lost' = lost /\ faults' \in Nat
    BY <1>4 DEF MarkFails, Fault, OutboxInv, TypeOK
  <2>2. TypeOK' /\ Working' /\ OneClaimant'
    BY <1>1, <1>2, <2>1 DEF OutboxInv, TypeOK, Working, OneClaimant
  <2>3. \A q \in Passes : q # p => pc'[q] = pc[q] /\ o \notin claimed[q]
    BY <1>1, <2>1 DEF OutboxInv, TypeOK, OneClaimant
  <2>4. pc'[p] = "releasing"
    BY <2>1 DEF OutboxInv, TypeOK
  <2>5. \A q \in Passes : claimed[q] \subseteq OutboxIds
    BY DEF OutboxInv, TypeOK
  <2>6. Held'
    BY <1>1, <1>2, <2>1, <2>3, <2>4, <2>5 DEF OutboxInv, Held
  <2>7. Counted'
    BY <1>1, <1>2, <2>1, <2>3, <2>4, <2>5 DEF OutboxInv, Counted
  <2> QED
    BY <2>2, <2>6, <2>7 DEF OutboxInv
<1> QED
  BY <1>3, <1>4 DEF MarkStep

LEMMA ReleaseInv ==
    ASSUME OutboxInv, NEW p \in Passes, ReleaseStep(p)
    PROVE  OutboxInv'
<1> DEFINE o == current[p]
<1>1. o \in claimed[p] /\ o \in OutboxIds
  BY DEF ReleaseStep, recordRetryableFailure, ReleaseFails, OutboxInv, TypeOK, Working
<1>2. /\ rows' \in [OutboxIds -> Row]
      /\ \A e \in OutboxIds : /\ rows'[e].attemptCount = rows[e].attemptCount
                              /\ rows'[e].state = rows[e].state
                              /\ e # o => rows'[e] = rows[e]
  BY <1>1, ReleaseFacts
  DEF ReleaseStep, recordRetryableFailure, ReleaseFails, OutboxInv, TypeOK
<1>3. CASE recordRetryableFailure(p)
  <2>1. workOn(p, claimed[p] \ {o}) /\ UNCHANGED <<deliveries, now, lost, faults>>
    BY <1>3 DEF recordRetryableFailure, advance, NoFault
  <2>2. claimed[p] \ {o} \in SUBSET OutboxIds /\ faults \in Nat /\ lost \subseteq OutboxIds
    BY DEF OutboxInv, TypeOK
  <2> QED
    BY <1>1, <1>2, <2>1, <2>2, RestInv
<1>4. CASE ReleaseFails(p)
  <2>1. abandon(p) /\ UNCHANGED <<deliveries, now>> /\ faults' \in Nat
    BY <1>4 DEF ReleaseFails, Fault, OutboxInv, TypeOK
  <2>2. lost' \subseteq OutboxIds
    BY <2>1, AbandonFacts DEF OutboxInv
  <2>3. \A e \in OutboxIds : e \notin claimed[p] => rows'[e] = rows[e]
    BY <1>1, <1>2
  <2> DEFINE rest == {}
  <2>4. /\ rest \in SUBSET OutboxIds /\ rest \subseteq claimed[p] \ {current[p]}
        /\ claimed[p] \ rest = claimed[p] /\ rest = {}
    OBVIOUS
  <2> HIDE DEF rest
  <2> QED
    BY <1>2, <2>1, <2>2, <2>3, <2>4, RestInv
<1> QED
  BY <1>3, <1>4 DEF ReleaseStep

LEMMA CrashInv ==
    ASSUME OutboxInv, NEW p \in Passes, Crash(p)
    PROVE  OutboxInv'
<1>1. abandon(p) /\ UNCHANGED <<rows, deliveries, now>> /\ faults' \in Nat
  BY DEF Crash, Fault, OutboxInv, TypeOK
<1>2. lost' \subseteq OutboxIds
  BY <1>1, AbandonFacts DEF OutboxInv
<1>3. rows' \in [OutboxIds -> Row]
  BY <1>1 DEF OutboxInv, TypeOK
<1> DEFINE rest == {}
<1>4. rest \in SUBSET OutboxIds /\ rest \subseteq claimed[p] \ {current[p]} /\ rest = {}
  OBVIOUS
<1> HIDE DEF rest
<1> QED
  BY <1>1, <1>2, <1>3, <1>4, RestInv

LEMMA TickInv == OutboxInv /\ (Tick \/ UNCHANGED vars) => OutboxInv'
BY DEF OutboxInv, TypeOK, Working, Held, OneClaimant, Counted, Tick, vars, passVars

LEMMA NextInv == OutboxInv /\ [Next]_vars => OutboxInv'
BY InsertInv, StartPassInv, PublishInv, MarkInv, ReleaseInv, CrashInv, TickInv DEF Next

\* OutboxInv holds in every reachable state; the theorems after it name its parts.
THEOREM OutboxInvariance == Spec => []OutboxInv
BY InitInv, NextInv, PTL DEF Spec

\* Rows, passes and deliveries keep their types.
THEOREM OutboxTypes == Spec => []TypeOK
<1>1. OutboxInv => TypeOK
  BY DEF OutboxInv
<1> QED
  BY <1>1, OutboxInvariance, PTL

\* No event is in the hands of two passes.
THEOREM ClaimsAreExclusive == Spec => []OneClaimant
<1>1. OutboxInv => OneClaimant
  BY DEF OutboxInv
<1> QED
  BY <1>1, OutboxInvariance, PTL

\* Consumers receive an event at most once per claim.
THEOREM DuplicatesAreBounded == Spec => []DeliveriesWithinAttempts
<1>1. OutboxInv => DeliveriesWithinAttempts
  BY DEF OutboxInv, Counted, DeliveriesWithinAttempts
<1> QED
  BY <1>1, OutboxInvariance, PTL

(***************************************************************************)
(* Outbox implements AtLeastOnceQueue.                                     *)
(***************************************************************************)

rowState == [o \in OutboxIds |-> rows[o].state]

QueueStepOrStutter == Queue!Next \/ UNCHANGED <<rowState, deliveries>>

LEMMA QueueInit == Init => Queue!Init
BY DEF Init, Queue!Init

\* Every step enqueues, delivers or settles one event, or changes nothing the queue shows.
LEMMA QueueStep == OutboxInv /\ [Next]_vars => [Queue!Next]_<<rowState, deliveries>>
<1> SUFFICES ASSUME OutboxInv, [Next]_vars PROVE [Queue!Next]_<<rowState, deliveries>>
  OBVIOUS
<1> USE DEF OutboxInv
<1>1. ASSUME NEW o \in OutboxIds, insertOutboxRecord(o) PROVE Queue!Enqueue(o)
  BY <1>1 DEF TypeOK, insertOutboxRecord, Queue!Enqueue
<1>2. ASSUME NEW p \in Passes, StartPass(p) PROVE UNCHANGED <<rowState, deliveries>>
  <2>1. \A o \in OutboxIds : rows'[o].state = rows[o].state
    BY <1>2 DEF TypeOK, Row, StartPass, claimBatch
  <2> QED
    BY <1>2, <2>1 DEF rowState, StartPass
<1>3. ASSUME NEW p \in Passes, PublishStep(p)
      PROVE  Queue!Deliver(current[p]) \/ UNCHANGED <<rowState, deliveries>>
  <2>1. pc[p] = "publishing" /\ current[p] \in claimed[p] /\ current[p] \in OutboxIds
    BY <1>3 DEF PublishStep, Publish, PublishFails, TypeOK, Working
  <2>2. rows[current[p]].state = "UNPUBLISHED"
    BY <2>1 DEF Held
  <2> QED
    BY <1>3, <2>1, <2>2 DEF PublishStep, Publish, PublishFails, Queue!Deliver, rowState
<1>4. ASSUME NEW p \in Passes, MarkStep(p)
      PROVE  (\E o \in OutboxIds : Queue!Settle(o)) \/ UNCHANGED <<rowState, deliveries>>
  <2>1. /\ pc[p] = "marking" /\ current[p] \in claimed[p] /\ current[p] \in OutboxIds
        /\ deliveries[current[p]] > 0 /\ UNCHANGED deliveries
    BY <1>4 DEF MarkStep, Mark, MarkFails, TypeOK, Working, Counted
  <2>2. CASE rows' = rows
    BY <2>1, <2>2 DEF rowState
  <2>3. CASE markPublished(p, current[p]) /\ StillClaimed(p, current[p])
    <3>1. /\ rows[current[p]].state = "UNPUBLISHED"
          /\ \A q \in OutboxIds : rows'[q].state = IF q = current[p] THEN "PUBLISHED"
                                                     ELSE rows[q].state
      BY <2>1, <2>3, MarkFacts DEF StillClaimed
    <3>2. PICK o \in OutboxIds : o = current[p]
      BY <2>1
    <3>3. Queue!Settle(o)
      BY <2>1, <3>1, <3>2 DEF Queue!Settle
    <3> QED
      BY <3>3
  <2> QED
    BY <1>4, <2>2, <2>3 DEF MarkStep, Mark, MarkFails, markPublished
<1>5. ASSUME NEW p \in Passes, ReleaseStep(p) PROVE UNCHANGED <<rowState, deliveries>>
  <2>1. current[p] \in OutboxIds
    BY <1>5 DEF ReleaseStep, recordRetryableFailure, ReleaseFails, TypeOK, Working
  <2>2. \A o \in OutboxIds : rows'[o].state = rows[o].state
    BY <1>5, <2>1, ReleaseFacts DEF ReleaseStep, recordRetryableFailure, ReleaseFails
  <2> QED
    BY <1>5, <2>2 DEF rowState, ReleaseStep, recordRetryableFailure, ReleaseFails
<1>6. ASSUME NEW p \in Passes, Crash(p) PROVE UNCHANGED <<rowState, deliveries>>
  BY <1>6 DEF Crash, rowState
<1>7. CASE Tick \/ UNCHANGED vars
  BY <1>7 DEF Tick, vars, rowState
<1>8. \A p \in Passes : PublishStep(p) => current[p] \in OutboxIds
  BY DEF PublishStep, Publish, PublishFails, TypeOK, Working
<1>9. ASSUME NEW o \in OutboxIds, insertOutboxRecord(o) PROVE QueueStepOrStutter
  BY <1>1, <1>9 DEF Queue!Next, QueueStepOrStutter
<1>10. ASSUME NEW p \in Passes, PublishStep(p) PROVE QueueStepOrStutter
  BY <1>3, <1>8, <1>10 DEF Queue!Next, QueueStepOrStutter
<1>11. ASSUME NEW p \in Passes, MarkStep(p) PROVE QueueStepOrStutter
  BY <1>4, <1>11 DEF Queue!Next, QueueStepOrStutter
<1>12. ASSUME NEW p \in Passes, StartPass(p) \/ ReleaseStep(p) \/ Crash(p) PROVE QueueStepOrStutter
  BY <1>2, <1>5, <1>6, <1>12 DEF QueueStepOrStutter
<1>13. ASSUME Tick \/ UNCHANGED vars PROVE QueueStepOrStutter
  BY <1>7, <1>13 DEF QueueStepOrStutter
<1>14. ASSUME Next PROVE QueueStepOrStutter
  BY <1>9, <1>10, <1>11, <1>12, <1>13, <1>14 DEF Next
<1>15. QueueStepOrStutter
  BY <1>13, <1>14
<1> QED
  BY <1>15 DEF QueueStepOrStutter

\* The outbox is an at-least-once queue: settled only after a delivery, never delivered after.
THEOREM OutboxIsAtLeastOnce == Spec => ImplementsQueue
BY QueueInit, QueueStep, OutboxInvariance, PTL DEF Spec, ImplementsQueue, Queue!Spec, rowState
=============================================================================
