----------------------- MODULE MissionRequestsProofs -----------------------
(***************************************************************************)
(* The safety of MissionRequests for any number of requests, keys and      *)
(* bodies and any limits of the cache.                                     *)
(***************************************************************************)
EXTENDS MissionRequests, FiniteSetTheorems, TLAPS

Cache == [Keys -> CacheRecord \union {None}]

\* A request has a header and a body once it reached the cache; while it executes the reservation
\* is its own.
Progressing ==
    \A q \in Requests : /\ (asked[q] = None) = (stage[q] = "new")
                        /\ stage[q] \in Executing => owner[q] = q
                        /\ stage[q] = "new" => owner[q] = None
                        /\ owner[q] # None => owner[owner[q]] = owner[q]

\* A record stands for a request with its key and body that executes or was answered.
RecordsAreOwned ==
    \A k \in Keys : records[k] # None =>
        /\ asked[records[k].owner] = [key |-> k, body |-> records[k].body]
        /\ stage[records[k].owner] \in Executing \union {"answered"}
        /\ owner[records[k].owner] = records[k].owner

\* A request that created a mission since the last reset has taken its key.
KeysAreTaken ==
    /\ era > 0
    /\ \A q \in Requests :
          /\ created[q] # 0 => stage[q] \notin {"new", "checking", "dispatching"}
          /\ created[q] <= era
          /\ created[q] = era => keys[keyOf(q)] # None

IInv == /\ TypeOK /\ Progressing /\ RecordsAreOwned /\ AnsweredFromOwnRequest
        /\ KeysAreTaken /\ NoSecondMission /\ CacheBounded

(***************************************************************************)
(* The cache.                                                              *)
(***************************************************************************)

\* Pruning only drops records (server.ts:357).
LEMMA PruneDrops ==
    ASSUME TypeOK
    PROVE  /\ pruneExpired \in Cache
           /\ \A k \in Keys : pruneExpired[k] \in {None, records[k]}
           /\ \A k \in Keys : records[k] # None /\ ~Expired(records[k]) =>
                  pruneExpired[k] = records[k]
BY DEF TypeOK, pruneExpired, Cache

\* Enforcing the limit drops at most one record, never the protected one (server.ts:366).
LEMMA EnforceDropsOne ==
    ASSUME NEW k \in Keys, NEW cache \in Cache, NEW kept \in enforceMaxEntries(k, cache)
    PROVE  /\ kept \in Cache
           /\ \A j \in Keys : kept[j] \in {None, cache[j]}
           /\ kept[k] = cache[k]
           /\ kept # cache => Cardinality(Cached(cache)) > MaxEntries
           /\ Cardinality(Cached(cache)) <= MaxEntries + 1 =>
                  Cardinality(Cached(kept)) <= MaxEntries
<1>f. IsFiniteSet(Cached(cache)) /\ Cardinality(Cached(cache)) \in Nat
  BY FS_Subset, FS_CardinalityType, LimitAssumption DEF Cached
<1>m. MaxEntries \in Nat
  BY LimitAssumption
<1>1. CASE Cardinality(Cached(cache)) <= MaxEntries
  BY <1>1, <1>f, <1>m DEF enforceMaxEntries, Cache
<1>2. CASE ~(Cardinality(Cached(cache)) <= MaxEntries)
  <2>1. PICK e \in oldestEvictable(k, cache) : kept = [cache EXCEPT ![e] = None]
    BY <1>2 DEF enforceMaxEntries
  <2>2. e \in Cached(cache) /\ e # k /\ e \in Keys
    BY <2>1 DEF oldestEvictable, Cached
  <2>3. /\ kept \in Cache
        /\ \A j \in Keys : kept[j] \in {None, cache[j]}
        /\ kept[k] = cache[k]
    BY <2>1, <2>2 DEF Cache
  <2>4. Cached(kept) = Cached(cache) \ {e}
    BY <2>1, <2>2 DEF Cached, Cache
  <2>5. Cardinality(Cached(kept)) = Cardinality(Cached(cache)) - 1
    BY <2>2, <2>4, <1>f, FS_RemoveElement
  <2> QED
    BY <2>3, <2>5, <1>2, <1>f, <1>m
<1> QED
  BY <1>1, <1>2

\* A cache with fewer records is smaller.
LEMMA FewerRecords ==
    ASSUME NEW c \in Cache, NEW d \in Cache, \A j \in Keys : d[j] = None \/ c[j] # None
    PROVE  /\ Cardinality(Cached(c)) \in Nat /\ Cardinality(Cached(d)) \in Nat
           /\ Cardinality(Cached(d)) <= Cardinality(Cached(c))
<1>1. IsFiniteSet(Cached(c)) /\ Cached(d) \subseteq Cached(c)
  BY FS_Subset, LimitAssumption DEF Cached
<1> QED
  BY <1>1, FS_Subset, FS_CardinalityType

\* A reservation adds at most one record to a pruned cache.
LEMMA ReservationAddsOne ==
    ASSUME NEW c \in Cache, NEW k \in Keys, NEW r \in CacheRecord, c[k] = None
    PROVE  /\ [c EXCEPT ![k] = r] \in Cache
           /\ Cardinality(Cached([c EXCEPT ![k] = r])) = Cardinality(Cached(c)) + 1
           /\ Cardinality(Cached(c)) \in Nat
<1>1. r # None
  BY RequestAssumption
<1>2. Cached([c EXCEPT ![k] = r]) = Cached(c) \union {k} /\ k \notin Cached(c)
  BY <1>1 DEF Cached, Cache
<1>3. IsFiniteSet(Cached(c))
  BY FS_Subset, LimitAssumption DEF Cached
<1> QED
  BY <1>2, <1>3, FS_AddElement, FS_CardinalityType DEF Cache

(***************************************************************************)
(* Every step preserves the invariant.                                     *)
(***************************************************************************)

\* What a reservation makes of the cache (server.ts:301).
LEMMA ReserveRecords ==
    ASSUME TypeOK, CacheBounded, NEW q \in Requests, NEW a \in Asks, reserve(q, a)
    PROVE  /\ records' \in Cache
           /\ CacheBounded'
           /\ \A k \in Keys \ {a.key} : records'[k] \in {None, records[k]}
           /\ \/ records'[a.key] \in {None, records[a.key]}
              \/ /\ records'[a.key] = [body |-> a.body, createdAt |-> now, owner |-> q]
                 /\ stage'[q] = "checking"
<1> DEFINE r == [body |-> a.body, createdAt |-> now, owner |-> q]
           live == pruneExpired
<1>1. a.key \in Keys /\ r \in CacheRecord
  BY RequestAssumption DEF Ask, CacheRecord, TypeOK
<1>2. /\ live \in Cache /\ records \in Cache
      /\ \A k \in Keys : live[k] \in {None, records[k]}
  BY PruneDrops DEF TypeOK, Cache
<1>3. /\ Cardinality(Cached(live)) \in Nat /\ Cardinality(Cached(records)) \in Nat
      /\ Cardinality(Cached(live)) <= Cardinality(Cached(records))
  <2> HIDE DEF live
  <2>1. \A j \in Keys : live[j] = None \/ records[j] # None
    BY <1>2
  <2> QED
    BY <1>2, <2>1, FewerRecords
<1>m. MaxEntries \in Nat /\ Cardinality(Cached(records)) <= MaxEntries
  BY LimitAssumption DEF CacheBounded
<1>4. CASE records' = live
  <2>1. Cardinality(Cached(records')) <= MaxEntries
    BY <1>4, <1>3, <1>m
  <2> QED
    BY <1>1, <1>2, <1>4, <2>1 DEF CacheBounded
<1>5. CASE /\ live[a.key] = None
           /\ records' \in enforceMaxEntries(a.key, [live EXCEPT ![a.key] = r])
           /\ stage'[q] = "checking"
  <2> DEFINE full == [live EXCEPT ![a.key] = r]
  <2> HIDE DEF live, r
  <2>1. /\ full \in Cache
        /\ Cardinality(Cached(full)) = Cardinality(Cached(live)) + 1
    BY <1>1, <1>2, <1>5, ReservationAddsOne
  <2>2. /\ full[a.key] = r
        /\ \A k \in Keys \ {a.key} : full[k] \in {None, records[k]}
    BY <1>1, <1>2 DEF Cache
  <2> HIDE DEF full
  <2>3. records' \in enforceMaxEntries(a.key, full)
    BY <1>5 DEF full
  <2>4. /\ records' \in Cache
        /\ \A j \in Keys : records'[j] \in {None, full[j]}
        /\ Cardinality(Cached(full)) <= MaxEntries + 1 =>
               Cardinality(Cached(records')) <= MaxEntries
    BY <1>1, <2>1, <2>3, EnforceDropsOne
  <2>5. Cardinality(Cached(records')) <= MaxEntries
    BY <2>1, <2>4, <1>3, <1>m
  <2>6. records'[a.key] \in {None, r}
    BY <1>1, <2>2, <2>4
  <2> QED
    BY <1>1, <1>5, <2>2, <2>4, <2>5, <2>6 DEF CacheBounded, r
<1>6. stage[q] = "new" /\ stage \in [Requests -> {"new"} \union InFlight \union Ended]
  BY DEF reserve, TypeOK
<1> QED
  BY <1>4, <1>5, <1>6 DEF reserve

LEMMA TypePreserved ==
    ASSUME TypeOK, CacheBounded, Progressing, [Next]_vars
    PROVE  TypeOK'
<1>1. ASSUME NEW q \in Requests, NEW a \in Asks, reserve(q, a)
      PROVE  TypeOK'
  <2>1. records' \in Cache
    BY <1>1, ReserveRecords
  <2>2. /\ a \in Ask
        /\ owner' \in [Requests -> Requests \union {None}]
        /\ stage' \in [Requests -> {"new"} \union InFlight \union Ended]
    <3>1. a \in Ask /\ a.key \in Keys
      BY RequestAssumption DEF Ask
    <3>2. pruneExpired[a.key] # None => pruneExpired[a.key].owner \in Requests
      BY <3>1, PruneDrops DEF Cache, CacheRecord
    <3> QED
      BY <1>1, <3>1, <3>2 DEF reserve, TypeOK, InFlight, Executing, Ended
  <2> QED
    BY <1>1, <2>1, <2>2 DEF reserve, TypeOK, Cache
<1>2. ASSUME NEW q \in Requests, CheckFreshness(q) \/ Respond(q)
      PROVE  TypeOK'
  BY <1>2 DEF CheckFreshness, Respond, TypeOK, InFlight, Executing, Ended
<1>3. ASSUME NEW q \in Requests, Dispatch(q)
      PROVE  TypeOK'
  <2>1. /\ keyOf(q) \in Keys /\ missionIdOf(q) \in MissionIds /\ signatureOf(q) \in Signature
    BY <1>3, RequestAssumption
    DEF Dispatch, Progressing, TypeOK, keyOf, missionIdOf, signatureOf, Ask, Body, MissionIds,
        Signature
  <2>2. keys' \in [Keys -> Signature \union {None}] /\ created' \in [Requests -> Nat]
    BY <1>3, <2>1 DEF Dispatch, TypeOK
  <2>3. result' \in [Requests -> Result]
    <3>1. \A status \in Statuses, m \in MissionIds \union {None} :
              Answers(q, status, m) => result' \in [Requests -> Result]
      BY DEF Answers, Result, TypeOK
    <3> QED
      BY <1>3, <2>1, <3>1 DEF Dispatch, Statuses
  <2>4. stage' \in [Requests -> {"new"} \union InFlight \union Ended]
    BY <1>3 DEF Dispatch, TypeOK, InFlight, Executing
  <2> QED
    BY <1>3, <2>2, <2>3, <2>4 DEF Dispatch, TypeOK
<1>4. ASSUME NEW q \in Requests, Fail(q)
      PROVE  TypeOK'
  <2>1. rollback(q) \in Cache
    BY DEF rollback, TypeOK, Cache
  <2> QED
    BY <1>4, <2>1 DEF Fail, TypeOK, Cache, InFlight, Executing, Ended
<1>5. ASSUME NEW q \in Requests, Replay(q)
      PROVE  TypeOK'
  BY <1>5 DEF Replay, Settled, TypeOK, InFlight, Executing, Ended
<1>6. CASE resetDemo
  BY <1>6 DEF resetDemo, requestVars, TypeOK
<1>7. CASE Restart
  BY <1>7 DEF Restart, TypeOK, Ended
<1>8. CASE Tick
  BY <1>8 DEF Tick, requestVars, TypeOK
<1>9. CASE UNCHANGED vars
  BY <1>9 DEF vars, TypeOK
<1> QED
  BY <1>1, <1>2, <1>3, <1>4, <1>5, <1>6, <1>7, <1>8, <1>9 DEF Next

\* Requests and reservations stay matched.
LEMMA ProgressingPreserved ==
    ASSUME TypeOK, Progressing, RecordsAreOwned, AnsweredFromOwnRequest, [Next]_vars
    PROVE  Progressing' /\ AnsweredFromOwnRequest'
<1>1. ASSUME NEW q \in Requests, NEW a \in Asks, reserve(q, a)
      PROVE  Progressing' /\ AnsweredFromOwnRequest'
  <2> DEFINE existing == pruneExpired[a.key]
  <2>1. /\ a \in Ask /\ a.key \in Keys /\ a # None /\ q # None
        /\ a = [key |-> a.key, body |-> a.body]
    BY RequestAssumption DEF Ask
  <2>2. existing \in {None, records[a.key]}
    BY <2>1, PruneDrops
  <2>3. /\ stage[q] = "new" /\ asked[q] = None /\ owner[q] = None
        /\ asked' = [asked EXCEPT ![q] = a]
        /\ \A p \in Requests : owner[p] # q
    BY <1>1, <2>1 DEF reserve, Progressing, AnsweredFromOwnRequest, Executing
  <2>4. CASE stage' = [stage EXCEPT ![q] = "conflict"] /\ UNCHANGED owner
    BY <2>1, <2>3, <2>4 DEF Progressing, AnsweredFromOwnRequest, TypeOK, Executing
  <2>5. CASE /\ existing # None /\ SameBody(existing, a)
             /\ stage' = [stage EXCEPT ![q] = "waiting"]
             /\ owner' = [owner EXCEPT ![q] = existing.owner]
    <3> DEFINE o == existing.owner
    <3>1. /\ o \in Requests /\ o # q /\ asked[o] = a /\ owner[o] = o
          /\ stage[o] \in Executing \union {"answered"}
      BY <2>1, <2>2, <2>3, <2>5 DEF RecordsAreOwned, SameBody, TypeOK, CacheRecord, Executing
    <3> HIDE DEF existing
    <3>2. o # None
      BY <3>1, RequestAssumption
    <3> HIDE DEF o
    <3>3. owner' = [owner EXCEPT ![q] = o] /\ stage' = [stage EXCEPT ![q] = "waiting"]
      BY <2>5 DEF o
    <3> QED
      BY <2>1, <2>3, <3>1, <3>2, <3>3
      DEF Progressing, AnsweredFromOwnRequest, TypeOK, Executing
  <2>6. CASE stage' = [stage EXCEPT ![q] = "checking"] /\ owner' = [owner EXCEPT ![q] = q]
    BY <2>1, <2>3, <2>6 DEF Progressing, AnsweredFromOwnRequest, TypeOK, Executing
  <2> QED
    BY <1>1, <2>4, <2>5, <2>6 DEF reserve
<1>2. ASSUME NEW q \in Requests, CheckFreshness(q) \/ Dispatch(q) \/ Respond(q) \/ Fail(q)
      PROVE  Progressing' /\ AnsweredFromOwnRequest'
  BY <1>2
  DEF CheckFreshness, Dispatch, Respond, Fail, Progressing, AnsweredFromOwnRequest, TypeOK,
      Executing
<1>3. ASSUME NEW q \in Requests, Replay(q)
      PROVE  Progressing' /\ AnsweredFromOwnRequest'
  BY <1>3 DEF Replay, Settled, Progressing, AnsweredFromOwnRequest, TypeOK, Executing
<1>4. CASE Restart
  BY <1>4 DEF Restart, Progressing, AnsweredFromOwnRequest, TypeOK, Executing, InFlight
<1>5. CASE resetDemo \/ Tick \/ UNCHANGED vars
  BY <1>5 DEF resetDemo, Tick, vars, requestVars, Progressing, AnsweredFromOwnRequest
<1> QED
  BY <1>1, <1>2, <1>3, <1>4, <1>5 DEF Next

\* The cache keeps to its own requests, also after a failure.
LEMMA RecordsPreserved ==
    ASSUME TypeOK, Progressing, RecordsAreOwned, CacheBounded, [Next]_vars
    PROVE  RecordsAreOwned' /\ CacheBounded'
<1>1. ASSUME NEW q \in Requests, NEW a \in Asks, reserve(q, a)
      PROVE  RecordsAreOwned' /\ CacheBounded'
  <2>1. /\ a \in Ask /\ a.key \in Keys /\ q # None
        /\ a = [key |-> a.key, body |-> a.body]
    BY RequestAssumption DEF Ask
  <2>2. /\ stage[q] = "new"
        /\ asked' = [asked EXCEPT ![q] = a]
        /\ \A p \in Requests \ {q} : stage'[p] = stage[p] /\ owner'[p] = owner[p]
        /\ stage'[q] = "checking" => owner'[q] = q
    BY <1>1, <2>1 DEF reserve, TypeOK
  <2>3. ASSUME NEW k \in Keys, records'[k] # None, records'[k] = records[k]
        PROVE  /\ asked'[records'[k].owner] = [key |-> k, body |-> records'[k].body]
               /\ stage'[records'[k].owner] \in Executing \union {"answered"}
               /\ owner'[records'[k].owner] = records'[k].owner
    <3>1. records[k] # None /\ records[k] \in CacheRecord
      BY <2>3 DEF TypeOK
    <3>2. records[k].owner \in Requests
      BY <3>1 DEF CacheRecord
    <3>3. records[k].owner # q
      BY <2>2, <3>1 DEF RecordsAreOwned, Executing
    <3> QED
      BY <2>2, <2>3, <3>1, <3>2, <3>3 DEF RecordsAreOwned, TypeOK
  <2>4. ASSUME records'[a.key] = [body |-> a.body, createdAt |-> now, owner |-> q],
               stage'[q] = "checking"
        PROVE  /\ asked'[records'[a.key].owner] = [key |-> a.key, body |-> records'[a.key].body]
               /\ stage'[records'[a.key].owner] \in Executing \union {"answered"}
               /\ owner'[records'[a.key].owner] = records'[a.key].owner
    BY <2>1, <2>2, <2>4 DEF TypeOK, Executing
  <2>5. /\ CacheBounded'
        /\ \A k \in Keys \ {a.key} : records'[k] \in {None, records[k]}
        /\ \/ records'[a.key] \in {None, records[a.key]}
           \/ /\ records'[a.key] = [body |-> a.body, createdAt |-> now, owner |-> q]
              /\ stage'[q] = "checking"
    BY <1>1, ReserveRecords
  <2> QED
    BY <2>3, <2>4, <2>5 DEF RecordsAreOwned
<1>2. ASSUME NEW q \in Requests, CheckFreshness(q) \/ Dispatch(q) \/ Respond(q) \/ Replay(q)
      PROVE  RecordsAreOwned' /\ CacheBounded'
  <2>1. UNCHANGED <<asked, owner, records>>
    BY <1>2 DEF CheckFreshness, Dispatch, Respond, Replay
  <2>2. \A o \in Requests : stage[o] \in Executing \union {"answered"} =>
            stage'[o] \in Executing \union {"answered"}
    BY <1>2 DEF CheckFreshness, Dispatch, Respond, Replay, Executing, TypeOK
  <2> QED
    BY <2>1, <2>2 DEF RecordsAreOwned, CacheBounded, TypeOK, CacheRecord
<1>3. ASSUME NEW q \in Requests, Fail(q)
      PROVE  RecordsAreOwned' /\ CacheBounded'
  <2>1. /\ UNCHANGED <<asked, owner>> /\ records' = rollback(q)
        /\ \A p \in Requests \ {q} : stage'[p] = stage[p]
    BY <1>3 DEF Fail, TypeOK
  <2>k. ASSUME NEW k \in Keys, records[k] # None
        PROVE  asked[records[k].owner].key = k
    <3>1. asked[records[k].owner] = [key |-> k, body |-> records[k].body]
      BY <2>k DEF RecordsAreOwned
    <3> QED
      BY <3>1
  <2>2. ASSUME NEW k \in Keys, records'[k] # None
        PROVE  records'[k] = records[k] /\ records[k].owner # q
    <3>1. CASE records[asked[q].key] # None /\ records[asked[q].key].owner = q
      <4>1. records' = [records EXCEPT ![asked[q].key] = None]
        BY <2>1, <3>1 DEF rollback
      <4>2. k # asked[q].key /\ records'[k] = records[k]
        BY <2>2, <4>1 DEF TypeOK
      <4>3. asked[records[k].owner].key = k
        BY <2>2, <4>2, <2>k
      <4> QED
        BY <4>2, <4>3
    <3>2. CASE ~(records[asked[q].key] # None /\ records[asked[q].key].owner = q)
      <4>1. records' = records
        BY <2>1, <3>2 DEF rollback
      <4>2. asked[records[k].owner].key = k
        BY <2>2, <4>1, <2>k
      <4> QED
        BY <2>2, <3>2, <4>1, <4>2
    <3> QED
      BY <3>1, <3>2
  <2>3. RecordsAreOwned'
    BY <2>1, <2>2 DEF RecordsAreOwned, TypeOK, CacheRecord
  <2>4. records' \in Cache
    BY <2>1 DEF rollback, TypeOK, Cache
  <2>5. Cardinality(Cached(records')) <= MaxEntries
    <3>1. records \in Cache /\ \A j \in Keys : records'[j] = None \/ records[j] # None
      BY <2>2 DEF TypeOK, Cache
    <3> QED
      BY <2>4, <3>1, FewerRecords, LimitAssumption DEF CacheBounded
  <2> QED
    BY <2>3, <2>5 DEF CacheBounded
<1>4. CASE Restart
  <2>1. records' = [k \in Keys |-> None]
    BY <1>4 DEF Restart
  <2>2. Cached(records') = {}
    BY <2>1 DEF Cached
  <2> QED
    BY <2>1, <2>2, FS_EmptySet, LimitAssumption DEF RecordsAreOwned, CacheBounded
<1>5. CASE resetDemo \/ Tick \/ UNCHANGED vars
  BY <1>5 DEF resetDemo, Tick, vars, requestVars, RecordsAreOwned, CacheBounded
<1> QED
  BY <1>1, <1>2, <1>3, <1>4, <1>5 DEF Next

\* A key is taken once between two resets.
LEMMA KeysPreserved ==
    ASSUME TypeOK, Progressing, KeysAreTaken, NoSecondMission, [Next]_vars
    PROVE  KeysAreTaken' /\ NoSecondMission'
<1>1. ASSUME NEW q \in Requests, NEW a \in Asks, reserve(q, a)
      PROVE  KeysAreTaken' /\ NoSecondMission'
  <2>1. /\ stage[q] = "new" /\ UNCHANGED <<keys, created, era>>
        /\ \A p \in Requests \ {q} : stage'[p] = stage[p] /\ asked'[p] = asked[p]
    BY <1>1 DEF reserve, TypeOK
  <2>2. created[q] = 0 /\ era > 0
    BY <2>1 DEF KeysAreTaken
  <2> QED
    BY <2>1, <2>2 DEF KeysAreTaken, NoSecondMission, keyOf, TypeOK
<1>2. ASSUME NEW q \in Requests, Dispatch(q)
      PROVE  KeysAreTaken' /\ NoSecondMission'
  <2>1. /\ stage[q] = "dispatching" /\ stage' = [stage EXCEPT ![q] = "committed"]
        /\ UNCHANGED <<asked, era>>
    BY <1>2 DEF Dispatch
  <2>2. CASE UNCHANGED <<keys, created>>
    BY <2>1, <2>2 DEF KeysAreTaken, NoSecondMission, keyOf, TypeOK
  <2>3. CASE /\ ~AnsweredByKey(q)
             /\ keys' = [keys EXCEPT ![keyOf(q)] = signatureOf(q)]
             /\ created' = [created EXCEPT ![q] = era]
    <3>1. keyOf(q) \in Keys /\ signatureOf(q) # None
      BY <2>1, RequestAssumption
      DEF Progressing, TypeOK, keyOf, missionIdOf, signatureOf, Ask, Body, MissionIds, Signature
    <3>2. \A p \in Requests : asked[p] = asked[q] => created[p] # era
      BY <2>3 DEF KeysAreTaken, AnsweredByKey, keyOf
    <3>3. \A k \in Keys : keys[k] # None => keys'[k] # None
      BY <2>3, <3>1 DEF TypeOK
    <3>4. \A p \in Requests : keyOf(p)' = keyOf(p)
      BY <2>1 DEF keyOf
    <3>5. \A p \in Requests : created[p] = era => keyOf(p) \in Keys
      BY RequestAssumption DEF KeysAreTaken, Progressing, TypeOK, keyOf, Ask, Body
    <3>6. KeysAreTaken'
      BY <2>1, <2>3, <3>1, <3>3, <3>4, <3>5 DEF KeysAreTaken, TypeOK
    <3>7. NoSecondMission'
      BY <2>1, <2>3, <3>2 DEF NoSecondMission, TypeOK
    <3> QED
      BY <3>6, <3>7
  <2> QED
    BY <1>2, <2>2, <2>3 DEF Dispatch
<1>3. ASSUME NEW q \in Requests, CheckFreshness(q) \/ Respond(q) \/ Fail(q) \/ Replay(q)
      PROVE  KeysAreTaken' /\ NoSecondMission'
  BY <1>3
  DEF CheckFreshness, Respond, Fail, Replay, Settled, Executing, KeysAreTaken, NoSecondMission,
      keyOf, TypeOK
<1>4. CASE resetDemo
  BY <1>4 DEF resetDemo, requestVars, KeysAreTaken, NoSecondMission, TypeOK
<1>5. CASE Restart
  BY <1>5 DEF Restart, KeysAreTaken, NoSecondMission, keyOf, TypeOK, InFlight, Executing
<1>6. CASE Tick \/ UNCHANGED vars
  BY <1>6 DEF Tick, vars, requestVars, KeysAreTaken, NoSecondMission, keyOf
<1> QED
  BY <1>1, <1>2, <1>3, <1>4, <1>5, <1>6 DEF Next

LEMMA Inductive ==
    ASSUME IInv, [Next]_vars
    PROVE  IInv'
BY TypePreserved, ProgressingPreserved, RecordsPreserved, KeysPreserved DEF IInv

LEMMA Initially ==
    ASSUME Init
    PROVE  IInv
<1>1. TypeOK
  BY DEF Init, TypeOK, Result, Statuses, NoResult
<1>2. Progressing /\ RecordsAreOwned /\ AnsweredFromOwnRequest /\ NoSecondMission
  BY DEF Init, Progressing, RecordsAreOwned, AnsweredFromOwnRequest, NoSecondMission, Executing
<1>3. KeysAreTaken
  BY DEF Init, KeysAreTaken
<1>4. Cached(records) = {}
  BY DEF Init, Cached
<1>5. CacheBounded
  BY <1>4, FS_EmptySet, LimitAssumption DEF CacheBounded
<1> QED
  BY <1>1, <1>2, <1>3, <1>5 DEF IInv

\* The invariant holds throughout.
THEOREM Invariance == Spec => []IInv
BY Initially, Inductive, PTL DEF Spec

(***************************************************************************)
(* What follows.                                                           *)
(***************************************************************************)

\* The route, the cache and the keys hold values of their types.
THEOREM RequestTypes == Spec => []TypeOK
<1>1. IInv => TypeOK
  BY DEF IInv
<1> QED
  BY <1>1, Invariance, PTL

\* However requests are retried, one key and body create at most one mission between two resets:
\* reserve (server.ts:301) and dispatchMissionCommand (dispatch.ts:87) together.
THEOREM RetriesMakeOneMission == Spec => []NoSecondMission
<1>1. IInv => NoSecondMission
  BY DEF IInv
<1> QED
  BY <1>1, Invariance, PTL

\* A replayed answer was given to the same key and body, and every request that waits does so
\* for one that executes or has ended (server.ts:312).
THEOREM ReplaysAreOwn == Spec => []AnsweredFromOwnRequest
<1>1. IInv => AnsweredFromOwnRequest
  BY DEF IInv
<1> QED
  BY <1>1, Invariance, PTL

\* The cache stays within its limit (server.ts:366).
THEOREM CacheStaysBounded == Spec => []CacheBounded
<1>1. IInv => CacheBounded
  BY DEF IInv
<1> QED
  BY <1>1, Invariance, PTL

\* A live record leaves the cache by its own failure, by eviction or with the process; in
\* particular a rollback spares the reservation of a newer owner of its key (server.ts:349).
THEOREM LiveRecordsStay == Spec => LiveRecordsLeaveForCause
<1> DEFINE Cause(k) == \/ Fails(records[k].owner)
                       \/ /\ Cardinality(Cached(records)) >= MaxEntries
                          /\ \E j \in Keys \ {k} : records[j] = None /\ records'[j] # None
                       \/ /\ records' = [j \in Keys |-> None]
                          /\ \A q \in Requests : ~Fails(q)
           Leaves(k) == records[k] # None /\ ~Expired(records[k]) /\ records'[k] # records[k]
<1>1. ASSUME IInv, NEW k \in Keys, Leaves(k), Next
      PROVE  Cause(k)
  <2>0. TypeOK /\ RecordsAreOwned /\ CacheBounded /\ records \in Cache
    BY <1>1 DEF IInv, TypeOK, Cache
  <2>1. ASSUME NEW q \in Requests, NEW a \in Asks, reserve(q, a)
        PROVE  Cause(k)
    <3> DEFINE live == pruneExpired
               r == [body |-> a.body, createdAt |-> now, owner |-> q]
               full == [live EXCEPT ![a.key] = r]
    <3>1. a.key \in Keys /\ r \in CacheRecord
      BY <2>0, RequestAssumption DEF Ask, CacheRecord, TypeOK
    <3>2. /\ live \in Cache /\ \A j \in Keys : live[j] \in {None, records[j]}
          /\ live[k] = records[k]
      BY <1>1, <2>0, PruneDrops
    <3>3. live[a.key] = None /\ records' \in enforceMaxEntries(a.key, full)
      BY <1>1, <2>1, <3>2 DEF reserve
    <3> HIDE DEF live, r
    <3>4. /\ full \in Cache
          /\ Cardinality(Cached(full)) = Cardinality(Cached(live)) + 1
          /\ Cardinality(Cached(live)) \in Nat
          /\ full[a.key] = r /\ r # None
          /\ a.key # k /\ full[k] = records[k]
      BY <1>1, <3>1, <3>2, <3>3, ReservationAddsOne, RequestAssumption DEF Cache
    <3> HIDE DEF full
    <3>5. /\ records'[a.key] # None
          /\ Cardinality(Cached(full)) > MaxEntries
      BY <1>1, <3>1, <3>3, <3>4, EnforceDropsOne
    <3>6. CASE records[a.key] = None
      <4>1. \A j \in Keys : live[j] = None \/ records[j] # None
        BY <3>2
      <4>2. Cardinality(Cached(live)) <= Cardinality(Cached(records))
        BY <2>0, <3>2, <4>1, FewerRecords
      <4>3. Cardinality(Cached(records)) \in Nat
        BY <2>0, FewerRecords
      <4>4. Cardinality(Cached(records)) >= MaxEntries
        BY <3>4, <3>5, <4>2, <4>3, LimitAssumption
      <4> QED
        BY <3>1, <3>4, <3>5, <3>6, <4>4
    <3>7. CASE records[a.key] # None
      <4>1. \A j \in Keys : full[j] = None \/ records[j] # None
        BY <3>1, <3>2, <3>7 DEF full, Cache
      <4>2. Cardinality(Cached(full)) <= Cardinality(Cached(records))
        BY <2>0, <3>4, <4>1, FewerRecords
      <4> QED
        BY <2>0, <3>4, <3>5, <4>2, FewerRecords, LimitAssumption DEF CacheBounded
    <3> QED
      BY <3>6, <3>7
  <2>2. ASSUME NEW q \in Requests, Fail(q)
        PROVE  Cause(k)
    <3>1. records' = rollback(q)
      BY <2>2 DEF Fail
    <3>2. k = asked[q].key /\ records[k].owner = q
      BY <1>1, <2>0, <3>1 DEF rollback, TypeOK
    <3>3. Fails(q)
      BY <2>0, <2>2 DEF Fail, Fails, Executing, TypeOK
    <3> QED
      BY <3>2, <3>3
  <2>3. CASE Restart
    BY <2>3 DEF Restart, Fails, InFlight, Executing
  <2>4. ASSUME NEW q \in Requests, CheckFreshness(q) \/ Dispatch(q) \/ Respond(q) \/ Replay(q)
        PROVE  Cause(k)
    BY <1>1, <2>4 DEF CheckFreshness, Dispatch, Respond, Replay
  <2>5. CASE resetDemo \/ Tick
    BY <1>1, <2>5 DEF resetDemo, Tick
  <2> QED
    BY <1>1, <2>1, <2>2, <2>3, <2>4, <2>5 DEF Next
<1>2. IInv /\ [Next]_vars => [\A k \in Keys : RecordLeavesForCause(k)]_vars
  BY <1>1 DEF RecordLeavesForCause
<1> QED
  BY <1>2, Invariance, PTL DEF Spec, LiveRecordsLeaveForCause
=============================================================================
