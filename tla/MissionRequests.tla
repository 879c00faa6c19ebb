-------------------------- MODULE MissionRequests --------------------------
(***************************************************************************)
(* POST /missions of apps/fleet-platform: the idempotency cache of the     *)
(* HTTP layer (InMemoryIdempotencyStore in server.ts) in front of the      *)
(* service's createMission, whose reducer keeps idempotency keys of its    *)
(* own.                                                                    *)
(*                                                                         *)
(* A request stands between two awaits: it owns a reservation and is       *)
(* "checking" freshness, "dispatching" in the repository or "committed"    *)
(* with its answer still to be sent, or it is "waiting" for the answer of  *)
(* the request that owns the reservation.  A retry is another request with *)
(* the same key and body.                                                  *)
(*                                                                         *)
(* The reducer is reduced to its keys: whether a command is refused for    *)
(* another reason is any choice (FleetDomain says which).  The operator's  *)
(* keys are kept by the repository and survive a restart, as they do with  *)
(* the Postgres repository; the cache does not.                            *)
(***************************************************************************)
EXTENDS Integers, FiniteSets

CONSTANTS
    NumRequests,       \* HTTP requests sent
    Keys,              \* idempotency keys, of the header or of the body
    Bodies,            \* request bodies
    ClientMissionIds,  \* mission ids operators choose
    Contents,          \* robot, type and payload of a command
    None,
    Asks,              \* the pairs of header key and body that are sent
    Ttl, MaxEntries,   \* limits of the cache
    MaxTime, MaxFaults, MaxResets   \* bounds

Requests == 1..NumRequests  \* numbered in the order they reach the cache
MissionIds == ClientMissionIds \union Requests  \* a generated id is named after its request
Body == [missionId : ClientMissionIds \union {None},
         idempotencyKey : Keys \union {None}, content : Contents]
Ask == [key : Keys, body : Bodies]
Signature == [missionId : MissionIds, content : Contents]
CacheRecord == [body : Bodies, createdAt : Nat, owner : Requests]

ASSUME RequestAssumption ==
    /\ None \notin Requests \union Keys \union ClientMissionIds \union Signature
    /\ None \notin Ask \union CacheRecord
    /\ Bodies \subseteq Body /\ Asks \subseteq Ask
ASSUME LimitAssumption ==
    /\ Ttl \in Nat \ {0} /\ MaxEntries \in Nat \ {0}
    /\ NumRequests \in Nat /\ MaxTime \in Nat /\ MaxFaults \in Nat /\ MaxResets \in Nat
    /\ IsFiniteSet(Keys)

VARIABLES
    asked,    \* header key and body of each request
    stage,    \* the await a request stands at, or how it ended
    owner,    \* the request that holds the reservation it is answered from
    result,   \* what the repository answered the owner of a reservation
    records,  \* the cache
    keys,     \* DomainState.idempotencyRecords
    created,  \* the era in which a request created a mission, 0 if it did not
    era,      \* resets of the demo state so far, plus 1
    now, faults

requestVars == <<asked, stage, owner, result>>
vars == <<asked, stage, owner, result, records, keys, created, era, now, faults>>

Executing == {"checking", "dispatching", "committed"}
InFlight == Executing \union {"waiting"}
Ended == {"answered", "failed", "conflict", "lost"}

\* The statuses of a dispatch that decide a retry; REFUSED is every other reason to reject.
Statuses == {"ACCEPTED", "IDEMPOTENT_REPLAY", "IDEMPOTENCY_KEY_REUSE_CONFLICT", "REFUSED"}
Result == [status : Statuses, missionId : MissionIds \union {None}]
NoResult == [status |-> "REFUSED", missionId |-> None]

(***************************************************************************)
(* The cache: InMemoryIdempotencyStore.                                    *)
(***************************************************************************)

Expired(r) == r.createdAt + Ttl <= now

pruneExpired == [k \in Keys |-> IF records[k] # None /\ Expired(records[k])
                                THEN None ELSE records[k]]

Cached(cache) == {k \in Keys : cache[k] # None}

\* The oldest records but the protected one; the map breaks ties, here any choice.
oldestEvictable(k, cache) ==
    {e \in Cached(cache) \ {k} :
        \A f \in Cached(cache) \ {k} : cache[e].createdAt <= cache[f].createdAt}

\* Mutant: the limit is off by one.
enforceOneMore(k, cache) ==
    IF Cardinality(Cached(cache)) <= MaxEntries + 1 THEN {cache}
    ELSE {[cache EXCEPT ![e] = None] : e \in oldestEvictable(k, cache)}

\* What the cache may look like once it is within its limit; a reservation adds at most one.
enforceMaxEntries(k, cache) ==
    IF Cardinality(Cached(cache)) <= MaxEntries THEN {cache}
    ELSE {[cache EXCEPT ![e] = None] : e \in oldestEvictable(k, cache)}

\* Mutant: the body is not compared.
SameKey(r, a) == TRUE
SameBody(r, a) == r.body = a.body

\* Request q asks a: it is refused, waits for the owner of the record, or takes a reservation.
reserve(q, a) ==
    LET live == pruneExpired
        existing == live[a.key]
        reserved == [live EXCEPT ![a.key] = [body |-> a.body, createdAt |-> now, owner |-> q]]
    IN /\ stage[q] = "new" /\ \A p \in 1..(q - 1) : stage[p] # "new"
       /\ asked' = [asked EXCEPT ![q] = a]
       /\ \/ /\ existing # None /\ ~SameBody(existing, a)
             /\ stage' = [stage EXCEPT ![q] = "conflict"]
             /\ records' = live
             /\ UNCHANGED owner
          \/ /\ existing # None /\ SameBody(existing, a)
             /\ stage' = [stage EXCEPT ![q] = "waiting"]
             /\ owner' = [owner EXCEPT ![q] = existing.owner]
             /\ records' = live
          \/ /\ existing = None
             /\ stage' = [stage EXCEPT ![q] = "checking"]
             /\ owner' = [owner EXCEPT ![q] = q]
             /\ records' \in enforceMaxEntries(a.key, reserved)
       /\ UNCHANGED <<result, keys, created, era, now, faults>>

\* Mutant: whatever record the key has by now is deleted.
rollbackAny(q) == [records EXCEPT ![asked[q].key] = None]

\* The reservation of q is withdrawn, if the key still stands for it.
rollback(q) ==
    LET k == asked[q].key IN
    IF records[k] # None /\ records[k].owner = q THEN [records EXCEPT ![k] = None] ELSE records

\* Mutant: a failure leaves the promise pending.
SettledByAnswer(o) == stage[o] = "answered"
Settled(o) == stage[o] \in {"answered", "failed"}

(***************************************************************************)
(* The service: createMission.                                             *)
(***************************************************************************)

\* Mutant: a body without a mission id is dispatched as it is.
givenMissionId(q) == asked[q].body.missionId
missionIdOf(q) == IF asked[q].body.missionId # None THEN asked[q].body.missionId ELSE q

keyOf(q) == IF asked[q].body.idempotencyKey # None THEN asked[q].body.idempotencyKey
            ELSE asked[q].key

signatureOf(q) == [missionId |-> missionIdOf(q), content |-> asked[q].body.content]

\* Mutant: only a request that is the same in every detail counts as a reuse.
AnsweredBySignature(q) == keys[keyOf(q)] = signatureOf(q)
AnsweredByKey(q) == keys[keyOf(q)] # None

\* evaluateKnownRobotFreshness has ended.
CheckFreshness(q) ==
    /\ stage[q] = "checking"
    /\ stage' = [stage EXCEPT ![q] = "dispatching"]
    /\ UNCHANGED <<asked, owner, result, records, keys, created, era, now, faults>>

Answers(q, status, missionId) ==
    result' = [result EXCEPT ![q] = [status |-> status, missionId |-> missionId]]

\* repository.update has committed what dispatchMissionCommand decided.
Dispatch(q) ==
    /\ stage[q] = "dispatching"
    /\ stage' = [stage EXCEPT ![q] = "committed"]
    /\ \/ /\ AnsweredByKey(q)
          /\ IF keys[keyOf(q)] = signatureOf(q)
             THEN Answers(q, "IDEMPOTENT_REPLAY", missionIdOf(q))
             ELSE Answers(q, "IDEMPOTENCY_KEY_REUSE_CONFLICT", None)
          /\ UNCHANGED <<keys, created>>
       \/ /\ ~AnsweredByKey(q)
          /\ Answers(q, "ACCEPTED", missionIdOf(q))
          /\ keys' = [keys EXCEPT ![keyOf(q)] = signatureOf(q)]
          /\ created' = [created EXCEPT ![q] = era]
       \/ /\ ~AnsweredByKey(q)
          /\ Answers(q, "REFUSED", None)
          /\ UNCHANGED <<keys, created>>
    /\ UNCHANGED <<asked, owner, records, era, now, faults>>

\* The route commits its reservation and answers.
Respond(q) ==
    /\ stage[q] = "committed"
    /\ stage' = [stage EXCEPT ![q] = "answered"]
    /\ UNCHANGED <<asked, owner, result, records, keys, created, era, now, faults>>

\* createMission throws: the freshness check or the update failed, or the update was committed
\* and its acknowledgement or what follows it failed.
Fail(q) ==
    /\ stage[q] \in Executing
    /\ faults < MaxFaults
    /\ faults' = faults + 1
    /\ stage' = [stage EXCEPT ![q] = "failed"]
    /\ records' = rollback(q)
    /\ UNCHANGED <<asked, owner, result, keys, created, era, now>>

\* The answer q waits for has arrived, or the error of its owner.
Replay(q) ==
    /\ stage[q] = "waiting" /\ Settled(owner[q])
    /\ stage' = [stage EXCEPT ![q] = stage[owner[q]]]
    /\ UNCHANGED <<asked, owner, result, records, keys, created, era, now, faults>>

(***************************************************************************)
(* The surroundings.                                                       *)
(***************************************************************************)

\* The demo reset installs a fresh domain state; the cache is not told.
resetDemo ==
    /\ era <= MaxResets
    /\ era' = era + 1
    /\ keys' = [k \in Keys |-> None]
    /\ UNCHANGED <<requestVars, records, created, now, faults>>

\* The process dies and a new one starts on the same database.
Restart ==
    /\ faults < MaxFaults
    /\ faults' = faults + 1
    /\ stage' = [q \in Requests |-> IF stage[q] \in InFlight THEN "lost" ELSE stage[q]]
    /\ records' = [k \in Keys |-> None]
    /\ UNCHANGED <<asked, owner, result, keys, created, era, now>>

Tick ==
    /\ now < MaxTime
    /\ now' = now + 1
    /\ UNCHANGED <<requestVars, records, keys, created, era, faults>>

Init ==
    /\ asked = [q \in Requests |-> None]
    /\ stage = [q \in Requests |-> "new"]
    /\ owner = [q \in Requests |-> None]
    /\ result = [q \in Requests |-> NoResult]
    /\ records = [k \in Keys |-> None]
    /\ keys = [k \in Keys |-> None]
    /\ created = [q \in Requests |-> 0]
    /\ era = 1
    /\ now = 0
    /\ faults = 0

Proceed(q) == CheckFreshness(q) \/ Dispatch(q) \/ Respond(q) \/ Replay(q)

Next ==
    \/ \E q \in Requests : \/ \E a \in Asks : reserve(q, a)
                           \/ CheckFreshness(q)
                           \/ Dispatch(q)
                           \/ Respond(q)
                           \/ Fail(q)
                           \/ Replay(q)
    \/ resetDemo
    \/ Restart
    \/ Tick

Spec == Init /\ [][Next]_vars

\* Awaits end: the repository answers or fails, and a settled promise resumes who waits on it.
Fairness == \A q \in Requests : WF_vars(Proceed(q))
FairSpec == Spec /\ Fairness

(***************************************************************************)
(* Properties.                                                             *)
(***************************************************************************)

\* Type invariant of the route, the cache and the keys of the repository.
TypeOK ==
    /\ asked \in [Requests -> Ask \union {None}]
    /\ stage \in [Requests -> {"new"} \union InFlight \union Ended]
    /\ owner \in [Requests -> Requests \union {None}]
    /\ result \in [Requests -> Result]
    /\ records \in [Keys -> CacheRecord \union {None}]
    /\ keys \in [Keys -> Signature \union {None}]
    /\ created \in [Requests -> Nat]
    /\ era \in Nat /\ now \in Nat /\ faults \in Nat

\* Two requests with the same header and body never both create a mission between two resets,
\* whatever expired, was evicted, failed after its commit or was lost in a restart between them:
\* where the cache forgets a key (server.ts:357-374, 588) the reducer's key remembers it.
NoSecondMission ==
    \A p, q \in Requests :
        asked[p] = asked[q] /\ created[p] # 0 /\ created[p] = created[q] => p = q

\* Whatever a request is answered from was asked with its own key and body, and by a request
\* that executes or has ended: nobody waits for a reservation without an owner (server.ts:312).
AnsweredFromOwnRequest ==
    \A q \in Requests : owner[q] # None =>
        /\ asked[owner[q]] = asked[q]
        /\ stage[q] = "waiting" => stage[owner[q]] \in Executing \union {"answered", "failed"}

\* The cache holds at most its limit, although pending records count and the new one is
\* protected from eviction (server.ts:366-374).
CacheBounded == Cardinality(Cached(records)) <= MaxEntries

\* A live record leaves the cache only when its own request failed, when a reservation of another
\* key needed its place, or with the process, which fails nobody: the failure of an old owner of
\* the key does not withdraw the reservation of a newer one (server.ts:349).
Fails(q) == stage[q] # "failed" /\ stage'[q] = "failed"
RecordLeavesForCause(k) ==
    records[k] # None /\ ~Expired(records[k]) /\ records'[k] # records[k] =>
        \/ Fails(records[k].owner)
        \/ /\ Cardinality(Cached(records)) >= MaxEntries
           /\ \E j \in Keys \ {k} : records[j] = None /\ records'[j] # None
        \/ records' = [j \in Keys |-> None] /\ \A q \in Requests : ~Fails(q)
LiveRecordsLeaveForCause == [][\A k \in Keys : RecordLeavesForCause(k)]_vars

\* Every request is answered, also one that waits for a request that fails, whose record was
\* evicted or has expired, unless the process dies (server.ts:571, 588).
EveryRequestEnds ==
    \A q \in Requests : stage[q] # "new" ~> stage[q] \in Ended

\* docs/demo-script.md:121: a retry with the same key and body gets the original response.  It is
\* not told that its key was used for something else.
RetryIsNotConflict ==
    \A p, q \in Requests :
        /\ asked[p] = asked[q] /\ created[p] = era
        /\ stage[q] = "answered"
        => result[owner[q]].status # "IDEMPOTENCY_KEY_REUSE_CONFLICT"

\* docs/demo-script.md:80: reset plus idempotency state does not leak between recordings.  No
\* request is handed an old answer that names a mission the reset removed.
NoAnswerFromBeforeReset ==
    [][\A q \in Requests :
          /\ stage[q] = "new" /\ stage'[q] = "waiting"
          /\ stage[owner'[q]] = "answered" /\ result[owner'[q]].missionId # None
          => \E k \in Keys : keys[k] # None /\ keys[k].missionId = result[owner'[q]].missionId]_vars
=============================================================================
