------------------------ MODULE OperatorConsoleProofs ------------------------
(***************************************************************************)
(* Theorems about OperatorConsole, for every number of missions, changes,  *)
(* refreshes and faults.                                                   *)
(***************************************************************************)
EXTENDS OperatorConsole, TLAPS

(***************************************************************************)
(* No change escapes.  The invariant is inductive with the range of wire.  *)
(***************************************************************************)

FollowUp == wire \in Nat /\ EventsAreFollowedUp

LEMMA InitFollowUp == Init => FollowUp
BY DEF Init, FollowUp, EventsAreFollowedUp

\* A commit leaves its actor something to publish.
LEMMA CommitLeavesEvents ==
    ASSUME NEW actor, NEW snapshot, CommitAs(actor, snapshot)
    PROVE  unpublished' # {}
BY DEF CommitAs

\* Beginning a refresh re-establishes the invariant whatever went before.
LEMMA BeginCatchesUp ==
    ASSUME NEW about, BeginRefresh(about), UNCHANGED server
    PROVE  begun' = Version'
BY DEF BeginRefresh, Version

\* Steps that neither commit nor touch the stream.
LEMMA Elsewhere ==
    ASSUME FollowUp, UNCHANGED <<serverVars, streamVars, refreshTimer, begun>>
    PROVE  FollowUp'
BY DEF FollowUp, EventsAreFollowedUp, Version, serverVars, streamVars

LEMMA StreamStep ==
    ASSUME FollowUp,
           (\E actor \in Actors : publish(actor)) \/ openSseStream \/ StreamBreaks
           \/ handleStreamMessage
    PROVE  FollowUp'
<1>1. ASSUME NEW actor \in Actors, publish(actor) PROVE FollowUp'
  BY <1>1 DEF publish, FollowUp, EventsAreFollowedUp, Version, refreshVars
<1>2. CASE openSseStream
  BY <1>2 DEF openSseStream, FollowUp, EventsAreFollowedUp
<1>3. CASE StreamBreaks
  BY <1>3 DEF StreamBreaks, FollowUp, EventsAreFollowedUp
<1>4. CASE handleStreamMessage
  BY <1>4 DEF handleStreamMessage, scheduleRefresh, FollowUp, EventsAreFollowedUp
<1> QED
  BY <1>1, <1>2, <1>3, <1>4

LEMMA RefreshStep ==
    ASSUME FollowUp,
           TimerFires \/ Poll \/ Answered
           \/ \E r \in DOMAIN refreshes : Answer(r) \/ FailRefresh(r)
    PROVE  FollowUp'
<1>1. CASE TimerFires
  BY <1>1, BeginCatchesUp DEF TimerFires, serverVars, streamVars, FollowUp, EventsAreFollowedUp
<1>2. CASE Poll
  BY <1>2, BeginCatchesUp DEF Poll, serverVars, streamVars, FollowUp, EventsAreFollowedUp
<1>3. CASE Answered
  BY <1>3, BeginCatchesUp DEF Answered, actionUnchanged, serverVars, streamVars, FollowUp,
     EventsAreFollowedUp
<1>4. ASSUME NEW r \in DOMAIN refreshes, Answer(r) \/ FailRefresh(r) PROVE FollowUp'
  BY <1>4, Elsewhere DEF Answer, getRobot, listMissions, ApplyRefresh, FailRefresh
<1> QED
  BY <1>1, <1>2, <1>3, <1>4

LEMMA OperatorStep ==
    ASSUME FollowUp, Operator \/ RefusedIsAnError \/ ActionFails PROVE FollowUp'
BY Elsewhere DEF Operator, createMission, cancelSelectedMission, resetDemoState,
   startCleanDemoMission, triggerDemoStaleTelemetry, triggerDemoReconnect, SelectMission,
   BeginAction, RefusedIsAnError, ActionFails, actionUnchanged, refreshVars

LEMMA PlatformStep == ASSUME FollowUp, PlatformChanges PROVE FollowUp'
<1>1. unpublished' # {}
  BY CommitLeavesEvents DEF PlatformChanges
<1> QED
  BY <1>1 DEF PlatformChanges, FollowUp, EventsAreFollowedUp, streamVars

LEMMA ServeStep == ASSUME FollowUp, Serve PROVE FollowUp'
<1>1. UNCHANGED <<streamVars, refreshTimer, begun>>
  BY DEF Serve, ServeCreation, ServeReset, ServeCancel, BeginFault, EndFault, NothingToServe,
     Served, ServeUnchanged, actionUnchanged
<1>2. unpublished' # {} \/ UNCHANGED serverVars
  BY CommitLeavesEvents DEF Serve, ServeCreation, ServeReset, ServeCancel, BeginFault, EndFault,
     NothingToServe
<1>3. CASE UNCHANGED serverVars
  BY <1>1, <1>3, Elsewhere
<1>4. CASE unpublished' # {}
  BY <1>1, <1>4 DEF FollowUp, EventsAreFollowedUp, streamVars
<1> QED
  BY <1>2, <1>3, <1>4

LEMMA CrashStep == ASSUME FollowUp, Crash PROVE FollowUp'
BY DEF Crash, FollowUp, EventsAreFollowedUp

LEMMA NextFollowUp == ASSUME FollowUp, [Next]_vars PROVE FollowUp'
<1>1. CASE Next
  BY <1>1, StreamStep, RefreshStep, OperatorStep, PlatformStep, ServeStep, CrashStep DEF Next
<1>2. CASE UNCHANGED vars
  BY <1>2, Elsewhere DEF vars, refreshVars
<1> QED
  BY <1>1, <1>2

\* Whatever events were lost, while the stream is open and nothing is on its way a refresh has
\* begun since the platform's last change: handleStreamMessage, scheduleRefresh and the
\* stream.ready event together, for any number of changes, refreshes and faults.
THEOREM NoChangeEscapes == Spec => []EventsAreFollowedUp
<1>1. Init => FollowUp
  BY InitFollowUp
<1>2. FollowUp /\ [Next]_vars => FollowUp'
  BY NextFollowUp
<1>3. FollowUp => EventsAreFollowedUp
  BY DEF FollowUp
<1> QED
  BY <1>1, <1>2, <1>3, PTL DEF Spec

(***************************************************************************)
(* Actions.  While an action waits for its refresh, that refresh has read  *)
(* nothing or something as new as what the action committed.  For this     *)
(* only one refresh belongs to an action.                                  *)
(***************************************************************************)

\* The platform's snapshots are a sequence, of whatever they are.
ServerOK == \E S : server \in Seq(S)

Covers(version) == version = 0 \/ version >= busyAction.commit
ActionRefreshOK ==
    \A r \in DOMAIN refreshes :
        refreshes[r].about = "action" =>
            /\ busyAction.step = "answered"
            /\ Covers(refreshes[r].robot) /\ Covers(refreshes[r].missions)
            /\ \A q \in DOMAIN refreshes : refreshes[q].about = "action" => q = r

EffectInv ==
    /\ ServerOK
    /\ faults \in Nat
    /\ refreshes \in Seq(Refresh)
    /\ busyAction.commit \in 0..Version
    /\ ActionRefreshOK

LEMMA VersionIsNat == ASSUME ServerOK PROVE Version \in Nat
BY DEF ServerOK, Version

LEMMA UnreadIsRefresh ==
    ASSUME NEW about \in {"boot", "background", "action"} PROVE Unread(about) \in Refresh
BY DEF Unread, Refresh

\* What is left after one element is removed, and where it was before.
LEMMA RemoveAtKeeps ==
    ASSUME NEW S, NEW s \in Seq(S), NEW r \in DOMAIN s
    PROVE  /\ RemoveAt(s, r) \in Seq(S)
           /\ Len(RemoveAt(s, r)) = Len(s) - 1
           /\ \A i \in DOMAIN RemoveAt(s, r) :
                  LET j == IF i < r THEN i ELSE i + 1 IN
                  j \in DOMAIN s /\ RemoveAt(s, r)[i] = s[j]
<1> DEFINE before == SubSeq(s, 1, r - 1)
           after == SubSeq(s, r + 1, Len(s))
<1>1. r \in 1..Len(s) /\ Len(s) \in Nat
  OBVIOUS
<1>2. /\ before \in Seq(S) /\ Len(before) = r - 1
      /\ \A i \in 1..(r - 1) : before[i] = s[i]
  BY <1>1
<1>3. /\ after \in Seq(S) /\ Len(after) = Len(s) - r
      /\ \A i \in 1..(Len(s) - r) : after[i] = s[r + i]
  BY <1>1
<1>4. RemoveAt(s, r) = before \o after
  BY DEF RemoveAt
<1> HIDE DEF before, after
<1>5. before \o after \in Seq(S) /\ Len(before \o after) = Len(s) - 1
  BY <1>1, <1>2, <1>3
<1>6. ASSUME NEW i \in 1..(Len(s) - 1)
      PROVE  (before \o after)[i] = s[IF i < r THEN i ELSE i + 1]
  <2>1. CASE i < r
    BY <1>1, <1>2, <1>3, <2>1
  <2>2. CASE ~(i < r)
    <3>1. (before \o after)[i] = after[i - (r - 1)]
      BY <1>1, <1>2, <1>3, <2>2
    <3>2. i - (r - 1) \in 1..(Len(s) - r) /\ r + (i - (r - 1)) = i + 1
      BY <1>1, <2>2
    <3> QED
      BY <1>3, <2>2, <3>1, <3>2
  <2> QED
    BY <2>1, <2>2
<1>7. DOMAIN (before \o after) = 1..(Len(s) - 1)
  BY <1>1, <1>5
<1>8. ASSUME NEW i \in 1..(Len(s) - 1) PROVE (IF i < r THEN i ELSE i + 1) \in DOMAIN s
  BY <1>1
<1> QED
  BY <1>4, <1>5, <1>6, <1>7, <1>8

LEMMA InitEffect == Init => EffectInv
<1> SUFFICES ASSUME Init PROVE EffectInv
  OBVIOUS
<1>1. ServerOK /\ Version = 1
  <2>1. PICK x : server = <<x>>
    BY DEF Init
  <2>2. server \in Seq({x}) /\ Len(server) = 1
    BY <2>1
  <2> QED
    BY <2>2 DEF ServerOK, Version
<1>2. refreshes \in Seq(Refresh)
  BY UnreadIsRefresh DEF Init
<1>3. ActionRefreshOK
  BY DEF Init, ActionRefreshOK, Unread
<1> QED
  BY <1>1, <1>2, <1>3 DEF Init, EffectInv, NoAction

\* The snapshots only grow.
LEMMA CommitGrows ==
    ASSUME ServerOK, NEW actor, NEW snapshot, CommitAs(actor, snapshot)
    PROVE  ServerOK' /\ Version' = Version + 1
<1>1. PICK S : server \in Seq(S)
  BY DEF ServerOK
<1>2. server \in Seq(S \union {snapshot}) /\ server' = Append(server, snapshot)
  BY <1>1 DEF CommitAs
<1> QED
  BY <1>2 DEF ServerOK, Version

LEMMA ServerStays ==
    ASSUME ServerOK, UNCHANGED server PROVE ServerOK' /\ Version' = Version
BY DEF ServerOK, Version

\* Without an action that waits there is no refresh of an action.
LEMMA NobodyWaits ==
    ASSUME EffectInv, busyAction.step # "answered"
    PROVE  \A r \in DOMAIN refreshes : refreshes[r].about # "action"
BY DEF EffectInv, ActionRefreshOK

\* Steps that leave the refreshes and the action alone.
LEMMA EffectElsewhere ==
    ASSUME EffectInv, faults' \in Nat, ServerOK', Version' \in Nat, Version' >= Version,
           UNCHANGED <<refreshes, busyAction>>
    PROVE  EffectInv'
BY VersionIsNat DEF EffectInv, ActionRefreshOK, Covers

\* Steps by which an action moves that does not wait for a refresh yet, or will not any more.
LEMMA ActionMoves ==
    ASSUME EffectInv, busyAction.step # "answered", faults' \in Nat, ServerOK',
           UNCHANGED refreshes, busyAction'.commit \in 0..Version'
    PROVE  EffectInv'
BY NobodyWaits DEF EffectInv, ActionRefreshOK

LEMMA BackgroundRefresh ==
    ASSUME EffectInv, BeginRefresh("background"), UNCHANGED <<server, faults, busyAction>>
    PROVE  EffectInv'
<1> DEFINE fresh == Unread("background")
<1>1. refreshes' = Append(refreshes, fresh) /\ fresh \in Refresh /\ fresh.about # "action"
  BY UnreadIsRefresh DEF BeginRefresh, Unread
<1> HIDE DEF fresh
<1>2. /\ refreshes' \in Seq(Refresh) /\ Len(refreshes') = Len(refreshes) + 1
      /\ \A i \in DOMAIN refreshes : refreshes'[i] = refreshes[i]
      /\ refreshes'[Len(refreshes) + 1] = fresh
      /\ DOMAIN refreshes' = DOMAIN refreshes \union {Len(refreshes) + 1}
  BY <1>1 DEF EffectInv
<1>3. ActionRefreshOK'
  BY <1>1, <1>2 DEF EffectInv, ActionRefreshOK, Covers
<1> QED
  BY <1>2, <1>3, ServerStays DEF EffectInv

LEMMA ActionRefresh == ASSUME EffectInv, Answered PROVE EffectInv'
<1> DEFINE fresh == Unread("action")
<1>1. refreshes' = Append(refreshes, fresh) /\ fresh \in Refresh
      /\ fresh.robot = 0 /\ fresh.missions = 0
  BY UnreadIsRefresh DEF Answered, BeginRefresh, Unread
<1> HIDE DEF fresh
<1>2. /\ refreshes' \in Seq(Refresh)
      /\ \A i \in DOMAIN refreshes : refreshes'[i] = refreshes[i]
      /\ refreshes'[Len(refreshes) + 1] = fresh
      /\ DOMAIN refreshes' = DOMAIN refreshes \union {Len(refreshes) + 1}
  BY <1>1 DEF EffectInv
<1>3. \A i \in DOMAIN refreshes : refreshes[i].about # "action"
  BY NobodyWaits DEF Answered, Answerable
<1>4. busyAction'.step = "answered" /\ busyAction'.commit = busyAction.commit
  BY DEF Answered
<1>5. ActionRefreshOK'
  BY <1>1, <1>2, <1>3, <1>4 DEF ActionRefreshOK, Covers
<1>6. UNCHANGED <<server, faults>>
  BY DEF Answered, serverVars, actionUnchanged
<1> QED
  BY <1>2, <1>4, <1>5, <1>6, ServerStays DEF EffectInv

\* A refresh that has read something of this moment.
LEMMA ReplaceEffect ==
    ASSUME EffectInv, NEW r \in DOMAIN refreshes, NEW new \in Refresh,
           new.about = refreshes[r].about,
           new.robot \in {refreshes[r].robot, Version},
           new.missions \in {refreshes[r].missions, Version},
           refreshes' = [refreshes EXCEPT ![r] = new],
           UNCHANGED <<server, faults, busyAction>>
    PROVE  EffectInv'
<1>1. Version \in Nat /\ Version' = Version /\ ServerOK'
  BY ServerStays, VersionIsNat DEF EffectInv
<1>2. /\ DOMAIN refreshes' = DOMAIN refreshes /\ refreshes' \in Seq(Refresh)
      /\ \A q \in DOMAIN refreshes : refreshes'[q] = IF q = r THEN new ELSE refreshes[q]
  BY DEF EffectInv
<1>3. \A q \in DOMAIN refreshes :
          /\ refreshes'[q].about = refreshes[q].about
          /\ refreshes'[q].robot \in {refreshes[q].robot, Version}
          /\ refreshes'[q].missions \in {refreshes[q].missions, Version}
  BY <1>2
<1>4. ActionRefreshOK'
  BY <1>1, <1>2, <1>3 DEF EffectInv, ActionRefreshOK, Covers
<1> QED
  BY <1>1, <1>2, <1>4 DEF EffectInv

\* A read is as new as the platform, which is at least as new as the action's commit.
LEMMA ReadEffect ==
    ASSUME EffectInv, NEW r \in DOMAIN refreshes, getRobot(r) \/ listMissions(r)
    PROVE  EffectInv'
<1> DEFINE got == refreshes[r]
<1>1. got \in Refresh /\ Version \in Nat
  BY VersionIsNat DEF EffectInv
<1>2. UNCHANGED <<server, faults, busyAction>>
  BY DEF getRobot, listMissions, serverVars
<1>3. CASE getRobot(r)
  <2> DEFINE new == [got EXCEPT !.robot = Version]
  <2>1. refreshes' = [refreshes EXCEPT ![r] = new]
    BY <1>3 DEF getRobot
  <2> HIDE DEF got
  <2>2. /\ new \in Refresh /\ new.about = got.about
        /\ new.robot = Version /\ new.missions = got.missions
    BY <1>1 DEF Refresh
  <2> HIDE DEF new
  <2> QED
    BY <1>2, <2>1, <2>2, ReplaceEffect DEF got
<1>4. CASE listMissions(r)
  <2> DEFINE new == [got EXCEPT !.missions = Version]
  <2>1. refreshes' = [refreshes EXCEPT ![r] = new]
    BY <1>4 DEF listMissions
  <2> HIDE DEF got
  <2>2. /\ new \in Refresh /\ new.about = got.about
        /\ new.missions = Version /\ new.robot = got.robot
    BY <1>1 DEF Refresh
  <2> HIDE DEF new
  <2> QED
    BY <1>2, <2>1, <2>2, ReplaceEffect DEF got
<1> QED
  BY <1>3, <1>4

LEMMA EndEffect ==
    ASSUME EffectInv, NEW r \in DOMAIN refreshes, EndRefresh(r), UNCHANGED server,
           faults' \in Nat
    PROVE  EffectInv'
<1> DEFINE old(i) == IF i < r THEN i ELSE i + 1
<1>1. /\ refreshes' \in Seq(Refresh)
      /\ \A i \in DOMAIN refreshes' :
             old(i) \in DOMAIN refreshes /\ refreshes'[i] = refreshes[old(i)]
  BY RemoveAtKeeps DEF EndRefresh, EffectInv
<1>2. \A i \in DOMAIN refreshes' : old(i) # r
  BY <1>1
<1>3. \A i, k \in DOMAIN refreshes' : old(i) = old(k) => i = k
  BY <1>1
<1> HIDE DEF old
<1>4. CASE refreshes[r].about = "action"
  <2>1. \A i \in DOMAIN refreshes' : refreshes'[i].about # "action"
    BY <1>1, <1>2, <1>4 DEF EffectInv, ActionRefreshOK
  <2>2. busyAction'.commit = 0
    BY <1>4 DEF EndRefresh, NoAction
  <2> QED
    BY <1>1, <2>1, <2>2, ServerStays, VersionIsNat DEF EffectInv, ActionRefreshOK
<1>5. CASE refreshes[r].about # "action"
  <2>1. busyAction' = busyAction
    BY <1>5 DEF EndRefresh
  <2>2. ActionRefreshOK'
    BY <1>1, <1>3, <2>1 DEF EffectInv, ActionRefreshOK, Covers
  <2> QED
    BY <1>1, <2>1, <2>2, ServerStays DEF EffectInv
<1> QED
  BY <1>4, <1>5

LEMMA RefreshEffect ==
    ASSUME EffectInv,
           TimerFires \/ Poll \/ \E r \in DOMAIN refreshes : Answer(r) \/ FailRefresh(r)
    PROVE  EffectInv'
<1>1. CASE TimerFires \/ Poll
  BY <1>1, BackgroundRefresh DEF TimerFires, Poll, serverVars
<1>2. ASSUME NEW r \in DOMAIN refreshes, Answer(r) \/ FailRefresh(r) PROVE EffectInv'
  <2>1. CASE getRobot(r) \/ listMissions(r)
    BY <2>1, ReadEffect
  <2>2. CASE ApplyRefresh(r) \/ FailRefresh(r)
    <3>1. EndRefresh(r) /\ UNCHANGED server /\ faults' \in Nat
      BY <2>2 DEF ApplyRefresh, FailRefresh, serverVars, EffectInv
    <3> QED
      BY <3>1, EndEffect
  <2> QED
    BY <1>2, <2>1, <2>2 DEF Answer
<1> QED
  BY <1>1, <1>2

LEMMA StreamEffect ==
    ASSUME EffectInv,
           (\E actor \in Actors : publish(actor)) \/ openSseStream \/ StreamBreaks
           \/ handleStreamMessage
    PROVE  EffectInv'
<1>1. UNCHANGED <<server, refreshes, busyAction>> /\ faults' \in Nat
  BY DEF publish, openSseStream, StreamBreaks, handleStreamMessage, serverVars, refreshVars,
     EffectInv
<1> QED
  BY <1>1, ServerStays, VersionIsNat, EffectElsewhere DEF EffectInv

LEMMA PlatformEffect == ASSUME EffectInv, PlatformChanges PROVE EffectInv'
<1>1. PICK snapshot : CommitAs("events", snapshot)
  BY DEF PlatformChanges
<1>2. ServerOK' /\ Version' = Version + 1 /\ Version \in Nat
  BY <1>1, CommitGrows, VersionIsNat DEF EffectInv
<1>3. UNCHANGED <<refreshes, busyAction, faults>>
  BY DEF PlatformChanges, refreshVars
<1> QED
  BY <1>2, <1>3, EffectElsewhere DEF EffectInv

LEMMA OperatorEffect == ASSUME EffectInv, Operator PROVE EffectInv'
<1>1. UNCHANGED <<server, refreshes, faults>>
  BY DEF Operator, createMission, cancelSelectedMission, resetDemoState, startCleanDemoMission,
     triggerDemoStaleTelemetry, triggerDemoReconnect, SelectMission, BeginAction,
     actionUnchanged, serverVars
<1>2. \/ busyAction' = busyAction
      \/ busyAction.step = "none" /\ busyAction'.commit = 0
  BY DEF Operator, createMission, cancelSelectedMission, resetDemoState, startCleanDemoMission,
     triggerDemoStaleTelemetry, triggerDemoReconnect, SelectMission, BeginAction, NoAction
<1>3. ServerOK' /\ Version' = Version /\ Version \in Nat
  BY <1>1, ServerStays, VersionIsNat DEF EffectInv
<1> QED
  BY <1>1, <1>2, <1>3, EffectElsewhere, ActionMoves DEF EffectInv

\* The platform serves an action that does not wait yet: it commits something, or has nothing to.
LEMMA ServeCommits ==
    ASSUME Serve
    PROVE  \E snapshot, step, selects, commit :
               /\ busyAction.step # "answered"
               /\ Served(step, selects, commit)
               /\ \/ CommitAs("action", snapshot) /\ commit = Version + 1
                  \/ UNCHANGED serverVars /\ commit = Version
<1>1. ASSUME NEW m \in MissionIds, ServeCreation(m)
      PROVE  /\ busyAction.step # "answered" /\ \E step : Served(step, m, Version + 1)
             /\ \E snapshot : CommitAs("action", snapshot)
  BY <1>1 DEF ServeCreation
<1>2. ASSUME ServeReset
      PROVE  /\ busyAction.step # "answered"
             /\ \E step : Served(step, busyAction.selects, Version + 1)
             /\ CommitAs("action", EmptySnapshot)
  BY <1>2 DEF ServeReset
<1>3. ASSUME ServeCancel
      PROVE  /\ busyAction.step # "answered"
             /\ \/ /\ \E snapshot : CommitAs("action", snapshot)
                   /\ Served("served", Unchanged, Version + 1)
                \/ UNCHANGED serverVars /\ \E step : Served(step, Unchanged, Version)
  BY <1>3 DEF ServeCancel
<1>4. ASSUME BeginFault \/ EndFault
      PROVE  /\ busyAction.step # "answered"
             /\ \E step : Served(step, Unchanged, Version + 1)
             /\ \E snapshot : CommitAs("action", snapshot)
  BY <1>4 DEF BeginFault, EndFault
<1>5. ASSUME NothingToServe
      PROVE  /\ busyAction.step # "answered"
             /\ UNCHANGED serverVars /\ Served("served", Unchanged, Version)
  BY <1>5 DEF NothingToServe
<1> QED
  BY <1>1, <1>2, <1>3, <1>4, <1>5, Zenon DEF Serve

LEMMA ServeEffect == ASSUME EffectInv, Serve PROVE EffectInv'
<1>1. PICK snapshot, step, selects, commit :
          /\ busyAction.step # "answered"
          /\ Served(step, selects, commit)
          /\ \/ CommitAs("action", snapshot) /\ commit = Version + 1
             \/ UNCHANGED serverVars /\ commit = Version
  BY ServeCommits
<1>2. busyAction'.commit = commit /\ UNCHANGED <<refreshes, faults>>
  BY <1>1 DEF Served, ServeUnchanged, actionUnchanged
<1>3. Version \in Nat /\ ServerOK /\ faults' \in Nat
  BY <1>2, VersionIsNat DEF EffectInv
<1>4. ServerOK' /\ commit \in 0..Version'
  <2>1. CASE CommitAs("action", snapshot) /\ commit = Version + 1
    BY <1>3, <2>1, CommitGrows
  <2>2. CASE UNCHANGED serverVars /\ commit = Version
    BY <1>3, <2>2, ServerStays DEF serverVars
  <2> QED
    BY <1>1, <2>1, <2>2
<1> QED
  BY <1>1, <1>2, <1>3, <1>4, ActionMoves

LEMMA FailureEffect ==
    ASSUME EffectInv, RefusedIsAnError \/ ActionFails \/ Crash PROVE EffectInv'
<1>1. UNCHANGED server /\ faults' \in Nat /\ busyAction'.commit = 0
  BY DEF RefusedIsAnError, ActionFails, Crash, serverVars, NoAction, EffectInv
<1>2. ServerOK' /\ Version' \in Nat
  BY <1>1, ServerStays, VersionIsNat DEF EffectInv
<1>3. CASE RefusedIsAnError \/ ActionFails
  <2>1. UNCHANGED refreshes /\ busyAction.step # "answered"
    BY <1>3 DEF RefusedIsAnError, ActionFails, refreshVars
  <2> QED
    BY <1>1, <1>2, <2>1, ActionMoves
<1>4. CASE Crash
  <2>1. refreshes' = <<>>
    BY <1>4 DEF Crash
  <2>2. refreshes' \in Seq(Refresh) /\ ActionRefreshOK'
    BY <2>1 DEF ActionRefreshOK
  <2> QED
    BY <1>1, <1>2, <2>2 DEF EffectInv
<1> QED
  BY <1>3, <1>4

LEMMA NextEffect == ASSUME EffectInv, [Next]_vars PROVE EffectInv'
<1>1. CASE Next
  BY <1>1, StreamEffect, RefreshEffect, ActionRefresh, PlatformEffect, OperatorEffect,
     ServeEffect, FailureEffect DEF Next
<1>2. CASE UNCHANGED vars
  <2>1. UNCHANGED <<server, faults, refreshes, busyAction>>
    BY <1>2 DEF vars, serverVars, refreshVars
  <2> QED
    BY <2>1, ServerStays, VersionIsNat, EffectElsewhere DEF EffectInv
<1> QED
  BY <1>1, <1>2

\* Only the refresh that an action waits for ends the action well, and it has read both.
LEMMA RefreshShows ==
    ASSUME EffectInv, NEW r \in DOMAIN refreshes, Answer(r) \/ FailRefresh(r)
    PROVE  ShowsItsEffect
<1>1. CASE getRobot(r) \/ listMissions(r)
  <2>1. busyAction' = busyAction
    BY <1>1 DEF getRobot, listMissions
  <2> QED
    BY <2>1 DEF ShowsItsEffect, EndsWell
<1>2. CASE FailRefresh(r)
  BY <1>2 DEF FailRefresh, EffectInv, ShowsItsEffect, EndsWell
<1>3. CASE ApplyRefresh(r)
  <2>1. /\ refreshes[r].robot > 0 /\ refreshes[r].missions > 0
        /\ shown'.robot = refreshes[r].robot /\ shown'.missions = refreshes[r].missions
    BY <1>3 DEF ApplyRefresh
  <2>2. CASE refreshes[r].about = "action"
    <3>1. Covers(refreshes[r].robot) /\ Covers(refreshes[r].missions)
      BY <2>2 DEF EffectInv, ActionRefreshOK
    <3> QED
      BY <2>1, <3>1 DEF Covers, ShowsItsEffect
  <2>3. CASE refreshes[r].about # "action"
    <3>1. busyAction' = busyAction
      BY <1>3, <2>3 DEF ApplyRefresh, EndRefresh
    <3> QED
      BY <3>1 DEF ShowsItsEffect, EndsWell
  <2> QED
    BY <2>2, <2>3
<1> QED
  BY <1>1, <1>2, <1>3 DEF Answer

\* Every other step leaves the action, moves it on, or loses it by a fault.
LEMMA OthersShow ==
    ASSUME EffectInv,
           \/ PlatformChanges \/ \E actor \in Actors : publish(actor)
           \/ openSseStream \/ StreamBreaks \/ handleStreamMessage \/ TimerFires \/ Poll
           \/ Operator \/ Serve \/ Answered \/ RefusedIsAnError \/ ActionFails \/ Crash
    PROVE  ShowsItsEffect
<1>1. CASE \/ PlatformChanges \/ \E actor \in Actors : publish(actor)
           \/ openSseStream \/ StreamBreaks \/ handleStreamMessage \/ TimerFires \/ Poll
  <2>1. busyAction' = busyAction
    BY <1>1 DEF PlatformChanges, publish, openSseStream, StreamBreaks, handleStreamMessage,
       TimerFires, Poll
  <2> QED
    BY <2>1 DEF ShowsItsEffect, EndsWell
<1>2. CASE Operator
  <2>1. busyAction' = busyAction \/ busyAction.step = "none"
    BY <1>2 DEF Operator, createMission, cancelSelectedMission, resetDemoState,
       startCleanDemoMission, triggerDemoStaleTelemetry, triggerDemoReconnect, SelectMission,
       BeginAction, NoAction
  <2> QED
    BY <2>1 DEF ShowsItsEffect, EndsWell
<1>3. CASE Serve
  <2>1. busyAction.step \notin {"served", "answered"}
    BY <1>3 DEF Serve, ServeCreation, ServeReset, ServeCancel, BeginFault, EndFault,
       NothingToServe, HalfServed
  <2> QED
    BY <2>1 DEF ShowsItsEffect, EndsWell
<1>4. CASE Answered
  BY <1>4 DEF Answered, ShowsItsEffect, EndsWell
<1>5. CASE RefusedIsAnError \/ ActionFails \/ Crash
  BY <1>5 DEF RefusedIsAnError, ActionFails, Crash, EffectInv, ShowsItsEffect, EndsWell
<1> QED
  BY <1>1, <1>2, <1>3, <1>4, <1>5

LEMMA NextShows == ASSUME EffectInv, [Next]_vars PROVE [ShowsItsEffect]_vars
BY RefreshShows, OthersShow DEF Next

\* An action that ends well ends with its effect on the screen: each action of client.ts
\* awaits a refreshSnapshot of its own, sent after the answer, whatever others are under way.
THEOREM ActionsEndWithTheirEffect == Spec => ActionsShowTheirEffect
<1>1. Init => EffectInv
  BY InitEffect
<1>2. EffectInv /\ [Next]_vars => EffectInv'
  BY NextEffect
<1>3. EffectInv /\ [Next]_vars => [ShowsItsEffect]_vars
  BY NextShows
<1> QED
  BY <1>1, <1>2, <1>3, PTL DEF Spec, ActionsShowTheirEffect

(***************************************************************************)
(* Types.  Reads, commits and what is shown never run ahead of the         *)
(* platform.                                                               *)
(***************************************************************************)

LEMMA EmptyTypes == EmptySnapshot \in Snapshot
BY DEF EmptySnapshot, Snapshot, MaybeMission

LEMMA NothingTypes == NoAction \in Action /\ NoAction.commit = 0
BY DEF NoAction, Action

\* The platform has snapshots, and the latest is one.
LEMMA ServerFacts ==
    ASSUME ServerTypes
    PROVE  Version \in Nat /\ Version >= 1 /\ Latest \in Snapshot
<1>1. server \in Seq(Snapshot) /\ server # <<>>
  BY DEF ServerTypes
<1>2. Len(server) \in 1..Len(server)
  BY <1>1
<1> QED
  BY <1>1, <1>2 DEF Version, Latest

LEMMA ReadTypes ==
    ASSUME ServerTypes, NEW version \in 0..Version PROVE Read(version) \in Snapshot
<1>1. CASE version = 0
  BY <1>1, EmptyTypes DEF Read
<1>2. CASE version # 0
  <2>1. version \in 1..Len(server) /\ server \in Seq(Snapshot)
    BY <1>2, ServerFacts DEF ServerTypes, Version
  <2> QED
    BY <1>2, <2>1 DEF Read
<1> QED
  BY <1>1, <1>2

LEMMA SelectionTypes ==
    ASSUME NEW missions \in Snapshot, NEW robot \in Snapshot, NEW selected \in MaybeMission
    PROVE  selectDefaultMission(missions, robot, selected) \in MaybeMission
<1>1. missions.missions \in Seq(MissionIds) /\ robot.activeMissionId \in MaybeMission
  BY DEF Snapshot
<1>2. missions.missions # <<>> => Head(missions.missions) \in MissionIds
  BY <1>1
<1> QED
  BY <1>1, <1>2 DEF selectDefaultMission, MaybeMission

LEMMA SelectedTypes == ASSUME ServerTypes, ViewTypes PROVE selectedMission \in MaybeMission
<1>1. shown.robot \in 0..Version /\ shown.missions \in 0..Version
  BY DEF ViewTypes
<1> QED
  BY <1>1, ReadTypes, SelectionTypes DEF ViewTypes, selectedMission

\* Moving a mission to the front keeps the list one of missions.
LEMMA TouchedTypes ==
    ASSUME ServerTypes, NEW m \in MissionIds PROVE Touched(m) \in Snapshot
<1> DEFINE missions == Latest.missions
           place == CHOOSE i \in DOMAIN missions : missions[i] = m
           moved == [i \in DOMAIN missions |-> IF i = 1 THEN m
                                               ELSE IF i <= place THEN missions[i - 1]
                                               ELSE missions[i]]
<1>1. Latest \in Snapshot /\ missions \in Seq(MissionIds)
  BY ServerFacts DEF Snapshot
<1>2. Touched(m) = [Latest EXCEPT !.missions = moved]
  BY DEF Touched
<1> HIDE DEF missions, place
<1>3. DOMAIN missions = 1..Len(missions) /\ Len(missions) \in Nat
      /\ \A i \in 1..Len(missions) : missions[i] \in MissionIds
  BY <1>1
<1>4. moved \in [1..Len(missions) -> MissionIds]
  BY <1>3
<1> HIDE DEF moved
<1>5. moved \in Seq(MissionIds)
  BY <1>3, <1>4
<1> QED
  BY <1>1, <1>2, <1>5 DEF Snapshot

LEMMA ChangesTypes ==
    ASSUME ServerTypes PROVE Changes \subseteq Snapshot /\ Repainted \in Snapshot
<1>1. Latest \in Snapshot
  BY ServerFacts
<1>2. ASSUME NEW m \in Latest.active PROVE Touched(m) \in Snapshot /\ Settled(m) \in Snapshot
  <2> DEFINE touched == Touched(m)
  <2>1. touched \in Snapshot
    BY <1>1, TouchedTypes DEF Snapshot
  <2>2. Settled(m) = [touched EXCEPT !.active = @ \ {m}]
    BY DEF Settled
  <2> HIDE DEF touched
  <2>3. [touched EXCEPT !.active = @ \ {m}] \in Snapshot
    BY <2>1 DEF Snapshot
  <2> QED
    BY <2>1, <2>2, <2>3 DEF touched
<1>3. ASSUME NEW snapshot \in Snapshot PROVE Released(snapshot) \in Snapshot
  BY <1>3 DEF Released, Snapshot, MaybeMission
<1>4. Changes \subseteq Snapshot
  <2> DEFINE painted == {Latest} \union UNION {{Touched(m), Settled(m)} : m \in Latest.active}
  <2>1. painted \subseteq Snapshot
    BY <1>1, <1>2
  <2>2. Changes = painted \union {Released(snapshot) : snapshot \in painted}
    BY DEF Changes
  <2> HIDE DEF painted
  <2> QED
    BY <1>3, <2>1, <2>2
<1>5. Repainted \in Snapshot
  BY <1>1, <1>2 DEF Repainted
<1> QED
  BY <1>4, <1>5

LEMMA ReconciledTypes == ASSUME ServerTypes PROVE Reconciled \subseteq Snapshot
<1> DEFINE m == Latest.activeMissionId
           touched == Touched(m)
<1>1. Latest \in Snapshot
  BY ServerFacts
<1>2. CASE m \in Listed(Latest)
  <2>1. m \in MissionIds
    BY <1>1, <1>2 DEF Snapshot, Listed, ToSet
  <2>2. touched \in Snapshot
    BY <2>1, TouchedTypes
  <2>3. Reconciled = {[touched EXCEPT !.active = @ \union {m}], [touched EXCEPT !.active = @ \ {m}],
                      IF touched.activeMissionId \in touched.active THEN touched
                      ELSE [touched EXCEPT !.activeMissionId = None]}
    BY <1>2 DEF Reconciled, Settled, Released
  <2> HIDE DEF m, touched
  <2> QED
    BY <2>1, <2>2, <2>3 DEF Snapshot, MaybeMission
<1>3. CASE m \notin Listed(Latest)
  BY <1>1, <1>3 DEF Reconciled
<1> QED
  BY <1>2, <1>3

LEMMA CommitTypes ==
    ASSUME ServerTypes, NEW actor \in Actors, NEW snapshot \in Snapshot,
           CommitAs(actor, snapshot)
    PROVE  ServerTypes' /\ Version' = Version + 1
<1>1. server \in Seq(Snapshot) /\ server' = Append(server, snapshot)
      /\ unpublished' = unpublished \union {actor}
  BY DEF CommitAs, ServerTypes
<1>2. server' \in Seq(Snapshot) /\ server' # <<>> /\ Len(server') = Len(server) + 1
  BY <1>1
<1> QED
  BY <1>1, <1>2 DEF ServerTypes, Version

\* What depends on the platform only by how far it is goes on holding when it goes on.
LEMMA Grown ==
    ASSUME ServerTypes, Version' \in Nat, Version' >= Version
    PROVE  /\ RefreshTypes /\ UNCHANGED <<refreshes, begun>> => RefreshTypes'
           /\ ViewTypes /\ UNCHANGED viewVars => ViewTypes'
           /\ ControlTypes /\ UNCHANGED <<faults, streamVars, booted, refreshTimer>>
              /\ busyAction' \in Action /\ busyAction'.commit <= Version' => ControlTypes'
<1>1. Version \in Nat /\ Version >= 1
  BY ServerFacts
<1>2. ASSUME RefreshTypes, UNCHANGED <<refreshes, begun>> PROVE RefreshTypes'
  <2>1. \A r \in DOMAIN refreshes : refreshes[r].robot \in Nat /\ refreshes[r].missions \in Nat
    <3>1. \A r \in DOMAIN refreshes : refreshes[r] \in Refresh
      BY <1>2 DEF RefreshTypes
    <3> QED
      BY <3>1 DEF Refresh
  <2> QED
    BY <1>1, <1>2, <2>1 DEF RefreshTypes
<1>3. ASSUME ViewTypes, UNCHANGED viewVars PROVE ViewTypes'
  BY <1>1, <1>3 DEF ViewTypes, viewVars
<1>4. ASSUME ControlTypes, UNCHANGED <<faults, streamVars, booted, refreshTimer>>,
             busyAction' \in Action, busyAction'.commit <= Version'
      PROVE  ControlTypes'
  BY <1>4 DEF ControlTypes, streamVars
<1> QED
  BY <1>2, <1>3, <1>4

LEMMA InitTypes == Init => TypeOK
<1> SUFFICES ASSUME Init PROVE TypeOK
  OBVIOUS
<1>1. ServerTypes /\ Version = 1
  <2>1. PICK x \in Snapshot : server = <<x>>
    <3>1. \A m \in MissionIds : Working(m) \in Snapshot
      BY DEF Working, Snapshot, MaybeMission
    <3> QED
      BY <3>1, EmptyTypes DEF Init
  <2>2. server \in Seq(Snapshot) /\ Len(server) = 1
    BY <2>1
  <2> QED
    BY <2>2 DEF ServerTypes, Version, Init
<1>2. RefreshTypes
  <2>1. Unread("boot") \in Refresh /\ Unread("boot").robot = 0 /\ Unread("boot").missions = 0
    BY DEF Unread, Refresh
  <2>2. refreshes \in Seq(Refresh) /\ Len(refreshes) = 1 /\ DOMAIN refreshes = {1}
        /\ refreshes[1] = Unread("boot")
    BY <2>1 DEF Init
  <2> QED
    BY <1>1, <2>1, <2>2, ConsoleAssumption DEF Init, RefreshTypes
<1>3. ViewTypes
  BY <1>1 DEF Init, ViewTypes, MaybeMission
<1>4. ControlTypes
  <2>1. faults \in 0..MaxFaults /\ wire \in Nat /\ busyAction.commit <= Version
    BY <1>1, NothingTypes, ConsoleAssumption DEF Init
  <2>2. booted \in BOOLEAN /\ refreshTimer \in BOOLEAN
    BY DEF Init
  <2>3. streamState \in {"CONNECTING", "OPEN", "RECONNECTING"} /\ busyAction \in Action
    BY NothingTypes DEF Init
  <2> QED
    BY <2>1, <2>2, <2>3 DEF ControlTypes
<1> QED
  BY <1>1, <1>2, <1>3, <1>4 DEF TypeOK

LEMMA SameVersion ==
    ASSUME ServerTypes, UNCHANGED server
    PROVE  Version' = Version /\ Version' \in Nat /\ (unpublished' \subseteq Actors => ServerTypes')
BY ServerFacts DEF ServerTypes, Version

LEMMA StreamTypes ==
    ASSUME TypeOK,
           (\E actor \in Actors : publish(actor)) \/ openSseStream \/ StreamBreaks
           \/ handleStreamMessage
    PROVE  TypeOK'
<1>1. UNCHANGED <<server, refreshes, begun, viewVars, booted, busyAction>>
      /\ unpublished' \subseteq unpublished
  BY DEF publish, openSseStream, StreamBreaks, handleStreamMessage, serverVars, refreshVars
<1>2. ServerTypes' /\ Version' = Version /\ Version' \in Nat
  BY <1>1, SameVersion DEF TypeOK, ServerTypes
<1>3. RefreshTypes' /\ ViewTypes'
  BY <1>1, <1>2, Grown DEF TypeOK
<1>4. ControlTypes'
  <2>1. faults' \in 0..MaxFaults /\ wire' \in Nat
    BY ConsoleAssumption DEF TypeOK, ControlTypes, publish, openSseStream, StreamBreaks,
       handleStreamMessage
  <2>2. booted' \in BOOLEAN
    BY <1>1 DEF TypeOK, ControlTypes
  <2>3. refreshTimer' = refreshTimer \/ refreshTimer' = TRUE
    BY DEF publish, openSseStream, StreamBreaks, handleStreamMessage, scheduleRefresh, refreshVars
  <2>4. refreshTimer' \in BOOLEAN
    BY <2>3 DEF TypeOK, ControlTypes
  <2>5. streamState' \in {"CONNECTING", "OPEN", "RECONNECTING"}
    BY DEF TypeOK, ControlTypes, publish, openSseStream, StreamBreaks, handleStreamMessage
  <2>6. busyAction' \in Action /\ busyAction'.commit <= Version'
    BY <1>1, <1>2 DEF TypeOK, ControlTypes
  <2> QED
    BY <2>1, <2>2, <2>4, <2>5, <2>6 DEF ControlTypes
<1> QED
  BY <1>2, <1>3, <1>4 DEF TypeOK

LEMMA BeginTypes ==
    ASSUME ServerTypes, RefreshTypes, NEW about \in {"boot", "background", "action"},
           BeginRefresh(about), UNCHANGED server
    PROVE  RefreshTypes'
<1> DEFINE fresh == Unread(about)
<1>1. refreshes' = Append(refreshes, fresh) /\ fresh \in Refresh
      /\ fresh.robot = 0 /\ fresh.missions = 0
  BY UnreadIsRefresh DEF BeginRefresh, Unread
<1>2. begun' = Version' /\ Version' = Version /\ Version \in Nat /\ Version >= 1
  BY SameVersion, ServerFacts DEF BeginRefresh
<1> HIDE DEF fresh
<1>3. /\ refreshes' \in Seq(Refresh) /\ Len(refreshes') = Len(refreshes) + 1
      /\ \A i \in DOMAIN refreshes : refreshes'[i] = refreshes[i]
      /\ refreshes'[Len(refreshes) + 1] = fresh
      /\ DOMAIN refreshes' = DOMAIN refreshes \union {Len(refreshes) + 1}
      /\ Len(refreshes) \in Nat
  BY <1>1 DEF RefreshTypes
<1>4. Len(refreshes') <= MaxRefreshes
  BY <1>3, ConsoleAssumption DEF BeginRefresh
<1> QED
  BY <1>1, <1>2, <1>3, <1>4 DEF RefreshTypes

LEMMA BackgroundTypes == ASSUME TypeOK, TimerFires \/ Poll PROVE TypeOK'
<1>1. /\ BeginRefresh("background") /\ refreshTimer' \in BOOLEAN
      /\ UNCHANGED <<serverVars, faults, streamVars, booted, viewVars, busyAction>>
  BY DEF TimerFires, Poll, TypeOK, ControlTypes
<1>2. ServerTypes' /\ Version' = Version /\ Version' \in Nat
  BY <1>1, SameVersion DEF TypeOK, ServerTypes, serverVars
<1>3. RefreshTypes' /\ ViewTypes'
  BY <1>1, <1>2, BeginTypes, Grown DEF TypeOK, serverVars
<1>4. ControlTypes'
  BY <1>1, <1>2 DEF TypeOK, ControlTypes, streamVars
<1> QED
  BY <1>2, <1>3, <1>4 DEF TypeOK

LEMMA ReadRefreshTypes ==
    ASSUME TypeOK, NEW r \in DOMAIN refreshes, getRobot(r) \/ listMissions(r)
    PROVE  TypeOK'
<1> DEFINE got == refreshes[r]
<1>1. /\ UNCHANGED <<serverVars, faults, streamVars, booted, refreshTimer, begun, viewVars,
                     busyAction>>
      /\ \/ refreshes' = [refreshes EXCEPT ![r] = [got EXCEPT !.robot = Version]]
         \/ refreshes' = [refreshes EXCEPT ![r] = [got EXCEPT !.missions = Version]]
  BY DEF getRobot, listMissions
<1>2. ServerTypes' /\ Version' = Version /\ Version' \in Nat
  BY <1>1, SameVersion DEF TypeOK, ServerTypes, serverVars
<1>3. got \in Refresh /\ got.robot <= Version /\ got.missions <= Version
  BY DEF TypeOK, RefreshTypes
<1>4. PICK new \in Refresh : /\ new.robot <= Version /\ new.missions <= Version
                             /\ refreshes' = [refreshes EXCEPT ![r] = new]
  <2> HIDE DEF got
  <2>1. [got EXCEPT !.robot = Version] \in Refresh /\ [got EXCEPT !.missions = Version] \in Refresh
    BY <1>2, <1>3 DEF Refresh
  <2>2. /\ [got EXCEPT !.robot = Version].robot = Version
        /\ [got EXCEPT !.robot = Version].missions = got.missions
        /\ [got EXCEPT !.missions = Version].missions = Version
        /\ [got EXCEPT !.missions = Version].robot = got.robot
    BY <1>3 DEF Refresh
  <2>3. Version <= Version
    BY <1>2
  <2>4. CASE refreshes' = [refreshes EXCEPT ![r] = [got EXCEPT !.robot = Version]]
    BY <1>3, <2>1, <2>2, <2>3, <2>4
  <2>5. CASE refreshes' = [refreshes EXCEPT ![r] = [got EXCEPT !.missions = Version]]
    BY <1>3, <2>1, <2>2, <2>3, <2>5
  <2> QED
    BY <1>1, <2>4, <2>5
<1>5. RefreshTypes'
  <2>1. /\ DOMAIN refreshes' = DOMAIN refreshes /\ refreshes' \in Seq(Refresh)
        /\ Len(refreshes') = Len(refreshes)
        /\ \A q \in DOMAIN refreshes : refreshes'[q] = IF q = r THEN new ELSE refreshes[q]
    BY <1>4 DEF TypeOK, RefreshTypes
  <2> QED
    BY <1>1, <1>2, <1>4, <2>1 DEF TypeOK, RefreshTypes
<1>6. ViewTypes' /\ ControlTypes'
  BY <1>1, <1>2, Grown DEF TypeOK, ControlTypes
<1> QED
  BY <1>2, <1>5, <1>6 DEF TypeOK

LEMMA EndRefreshTypes ==
    ASSUME RefreshTypes, ControlTypes, ServerTypes, NEW r \in DOMAIN refreshes, EndRefresh(r),
           UNCHANGED <<server, begun>>
    PROVE  /\ RefreshTypes' /\ booted' \in BOOLEAN
           /\ busyAction' \in Action /\ busyAction'.commit <= Version'
<1>1. Version' = Version /\ Version \in Nat
  BY SameVersion
<1>2. /\ refreshes \in Seq(Refresh) /\ refreshes' = RemoveAt(refreshes, r)
      /\ refreshes' \in Seq(Refresh) /\ Len(refreshes') = Len(refreshes) - 1
      /\ \A i \in DOMAIN refreshes' : \E j \in DOMAIN refreshes : refreshes'[i] = refreshes[j]
  <2> DEFINE old(i) == IF i < r THEN i ELSE i + 1
  <2>1. /\ refreshes \in Seq(Refresh) /\ refreshes' = RemoveAt(refreshes, r)
        /\ refreshes' \in Seq(Refresh) /\ Len(refreshes') = Len(refreshes) - 1
        /\ \A i \in DOMAIN refreshes' :
               old(i) \in DOMAIN refreshes /\ refreshes'[i] = refreshes[old(i)]
    BY RemoveAtKeeps DEF RefreshTypes, EndRefresh
  <2> HIDE DEF old
  <2> QED
    BY <2>1
<1>3. Len(refreshes') <= MaxRefreshes
  BY <1>2, ConsoleAssumption DEF RefreshTypes
<1>4. RefreshTypes'
  BY <1>1, <1>2, <1>3 DEF RefreshTypes
<1>5. busyAction' \in {busyAction, NoAction} /\ booted' \in BOOLEAN
  BY DEF EndRefresh, ControlTypes
<1> QED
  BY <1>1, <1>4, <1>5, NothingTypes DEF ControlTypes

LEMMA EndTypes ==
    ASSUME TypeOK, NEW r \in DOMAIN refreshes, ApplyRefresh(r) \/ FailRefresh(r)
    PROVE  TypeOK'
<1>1. EndRefresh(r) /\ UNCHANGED <<serverVars, streamVars, refreshTimer, begun>>
      /\ faults' \in 0..MaxFaults
  BY ConsoleAssumption DEF ApplyRefresh, FailRefresh, TypeOK, ControlTypes
<1>2. ServerTypes' /\ Version' = Version /\ Version' \in Nat
  BY <1>1, SameVersion DEF TypeOK, ServerTypes, serverVars
<1>3. RefreshTypes' /\ ControlTypes'
  BY <1>1, EndRefreshTypes DEF TypeOK, ControlTypes, serverVars, streamVars
<1>4. ViewTypes'
  <2>1. CASE ApplyRefresh(r)
    <3> DEFINE robot == refreshes[r].robot
               missions == refreshes[r].missions
    <3>1. robot \in 0..Version /\ missions \in 0..Version
      <4>1. refreshes[r] \in Refresh /\ robot <= Version /\ missions <= Version
        BY DEF TypeOK, RefreshTypes
      <4> QED
        BY <1>2, <4>1 DEF Refresh
    <3>2. Read(robot) \in Snapshot /\ Read(missions) \in Snapshot
      BY <3>1, ReadTypes DEF TypeOK
    <3>3. /\ shown' = [robot |-> robot, missions |-> missions]
          /\ selectedMissionId' = selectDefaultMission(Read(missions), Read(robot),
                                                       selectedMissionId)
      BY <2>1 DEF ApplyRefresh
    <3> HIDE DEF robot, missions
    <3>4. selectedMissionId' \in MaybeMission
      BY <3>2, <3>3, SelectionTypes DEF TypeOK, ViewTypes
    <3> QED
      BY <1>2, <3>1, <3>3, <3>4 DEF ViewTypes
  <2>2. CASE FailRefresh(r)
    BY <1>2, <2>2 DEF FailRefresh, TypeOK, ViewTypes
  <2> QED
    BY <2>1, <2>2
<1> QED
  BY <1>2, <1>3, <1>4 DEF TypeOK

LEMMA PlatformTypes == ASSUME TypeOK, PlatformChanges PROVE TypeOK'
<1>1. PICK snapshot \in Snapshot : CommitAs("events", snapshot)
  BY ChangesTypes DEF TypeOK, PlatformChanges
<1>2. ServerTypes' /\ Version' = Version + 1 /\ Version \in Nat
  BY <1>1, CommitTypes, ServerFacts DEF TypeOK, Actors
<1>3. UNCHANGED <<faults, streamVars, booted, refreshVars, viewVars, busyAction>>
  BY DEF PlatformChanges
<1>4. busyAction' \in Action /\ busyAction'.commit <= Version'
  BY <1>2, <1>3 DEF TypeOK, ControlTypes, Action
<1>5. RefreshTypes' /\ ViewTypes' /\ ControlTypes'
  BY <1>2, <1>3, <1>4, Grown DEF TypeOK, refreshVars
<1> QED
  BY <1>2, <1>5 DEF TypeOK

LEMMA OperatorTypes == ASSUME TypeOK, Operator PROVE TypeOK'
<1>1. UNCHANGED <<serverVars, faults, streamVars, booted, refreshTimer, shown, refreshes, begun>>
  BY DEF Operator, createMission, cancelSelectedMission, resetDemoState, startCleanDemoMission,
     triggerDemoStaleTelemetry, triggerDemoReconnect, SelectMission, BeginAction,
     actionUnchanged
<1>2. ServerTypes' /\ Version' = Version /\ Version' \in Nat
  BY <1>1, SameVersion DEF TypeOK, ServerTypes, serverVars
<1>3. busyAction' \in Action /\ busyAction'.commit <= Version'
  <2>1. ASSUME NEW request \in Requests, NEW selects \in MaybeMission \union {Unchanged},
               BeginAction(request, selects)
        PROVE  busyAction' \in Action /\ busyAction'.commit <= Version'
    BY <1>2, <2>1 DEF BeginAction, Action
  <2>2. selectedMission \in MaybeMission /\ None \in MaybeMission
    BY SelectedTypes DEF TypeOK, MaybeMission
  <2>3. ASSUME NEW m \in MissionIds, SelectMission(m) PROVE busyAction' = busyAction
    BY <2>3 DEF SelectMission
  <2>4. \/ busyAction' = busyAction
        \/ \E request \in Requests, selects \in MaybeMission \union {Unchanged} :
               BeginAction(request, selects)
    BY <2>2, <2>3 DEF Operator, createMission, cancelSelectedMission, resetDemoState,
       startCleanDemoMission, triggerDemoStaleTelemetry, triggerDemoReconnect, Requests
  <2> QED
    BY <1>2, <2>1, <2>4 DEF TypeOK, ControlTypes
<1>4. selectedMissionId' \in MaybeMission
  <2>1. ASSUME NEW m \in MissionIds, SelectMission(m) PROVE selectedMissionId' \in MaybeMission
    BY <2>1 DEF SelectMission, MaybeMission
  <2> QED
    BY <2>1 DEF Operator, createMission, cancelSelectedMission, resetDemoState,
       startCleanDemoMission, triggerDemoStaleTelemetry, triggerDemoReconnect, TypeOK, ViewTypes,
       MaybeMission
<1>5. ViewTypes'
  BY <1>1, <1>2, <1>4 DEF TypeOK, ViewTypes
<1>6. RefreshTypes' /\ ControlTypes'
  BY <1>1, <1>2, <1>3, Grown DEF TypeOK
<1> QED
  BY <1>2, <1>5, <1>6 DEF TypeOK

LEMMA ServeTypes == ASSUME TypeOK, Serve PROVE TypeOK'
<1> DEFINE Answers(commit) == \E step \in HalfServed \union {"served", "refused"},
                                 selects \in MaybeMission \union {Unchanged} :
                                  Served(step, selects, commit)
<1>1. Latest \in Snapshot /\ Version \in Nat
  BY ServerFacts DEF TypeOK
<1>2. busyAction.selects \in MaybeMission \union {Unchanged}
  BY DEF TypeOK, ControlTypes, Action
<1>3. \/ UNCHANGED serverVars /\ Answers(Version)
      \/ (\E snapshot \in Snapshot : CommitAs("action", snapshot)) /\ Answers(Version + 1)
  <2>1. ASSUME NEW m \in MissionIds, ServeCreation(m)
        PROVE  (\E snapshot \in Snapshot : CommitAs("action", snapshot)) /\ Answers(Version + 1)
    <3> DEFINE latest == Latest
               refused == [latest EXCEPT !.missions = <<m>> \o @]
               dispatched == [refused EXCEPT !.active = @ \union {m}, !.activeMissionId = m]
    <3>1. /\ CommitAs("action", refused) \/ CommitAs("action", dispatched)
          /\ \E step \in {"served", "refused"} : Served(step, m, Version + 1)
      BY <2>1 DEF ServeCreation
    <3>2. latest \in Snapshot
      BY <1>1
    <3> HIDE DEF latest
    <3>3. refused \in Snapshot
      <4>1. <<m>> \o latest.missions \in Seq(MissionIds)
        BY <3>2 DEF Snapshot
      <4> QED
        BY <3>2, <4>1 DEF Snapshot
    <3> HIDE DEF refused
    <3>4. dispatched \in Snapshot
      BY <3>3 DEF Snapshot, MaybeMission
    <3> HIDE DEF dispatched
    <3>5. m \in MaybeMission \union {Unchanged}
      BY DEF MaybeMission
    <3> QED
      BY <3>1, <3>3, <3>4, <3>5
  <2>2. ASSUME ServeReset
        PROVE  (\E snapshot \in Snapshot : CommitAs("action", snapshot)) /\ Answers(Version + 1)
    BY <1>2, <2>2, EmptyTypes DEF ServeReset, HalfServed
  <2>3. ASSUME ServeCancel
        PROVE  \/ UNCHANGED serverVars /\ Answers(Version)
               \/ (\E snapshot \in Snapshot : CommitAs("action", snapshot)) /\ Answers(Version + 1)
    <3>1. busyAction.selects \in Latest.active => Touched(busyAction.selects) \in Snapshot
      BY <1>1, TouchedTypes DEF TypeOK, Snapshot
    <3> QED
      BY <2>3, <3>1 DEF ServeCancel
  <2>4. ASSUME BeginFault \/ EndFault
        PROVE  (\E snapshot \in Snapshot : CommitAs("action", snapshot)) /\ Answers(Version + 1)
    <3>1. \E snapshot \in Snapshot : CommitAs("action", snapshot)
      BY <1>1, <2>4, ChangesTypes, ReconciledTypes DEF BeginFault, EndFault, TypeOK
    <3>2. \E step \in HalfServed \union {"served"} : Served(step, Unchanged, Version + 1)
      BY <2>4 DEF BeginFault, EndFault, HalfServed
    <3> QED
      BY <3>1, <3>2
  <2>5. ASSUME NothingToServe PROVE UNCHANGED serverVars /\ Answers(Version)
    BY <2>5 DEF NothingToServe
  <2> QED
    BY <2>1, <2>2, <2>3, <2>4, <2>5 DEF Serve
<1>4. /\ ServerTypes' /\ Version' \in Nat /\ Version' >= Version
      /\ \E commit \in Nat : commit <= Version' /\ Answers(commit)
  <2>1. CASE UNCHANGED serverVars /\ Answers(Version)
    <3>1. ServerTypes' /\ Version' = Version
      BY <2>1, SameVersion DEF TypeOK, ServerTypes, serverVars
    <3>2. Version <= Version'
      BY <1>1, <3>1
    <3> QED
      BY <1>1, <2>1, <3>1, <3>2
  <2>2. CASE (\E snapshot \in Snapshot : CommitAs("action", snapshot)) /\ Answers(Version + 1)
    <3>1. ServerTypes' /\ Version' = Version + 1
      BY <2>2, CommitTypes DEF TypeOK, Actors
    <3>2. Version + 1 \in Nat /\ Version + 1 <= Version' /\ Version' >= Version
      BY <1>1, <3>1
    <3> QED
      BY <2>2, <3>1, <3>2
  <2> QED
    BY <1>3, <2>1, <2>2
<1>5. PICK step \in HalfServed \union {"served", "refused"},
           selects \in MaybeMission \union {Unchanged}, commit \in Nat :
               commit <= Version' /\ Served(step, selects, commit)
  BY <1>4
<1>6. busyAction' \in Action /\ busyAction'.commit <= Version'
  BY <1>5 DEF Served, Action
<1>7. UNCHANGED <<faults, streamVars, booted, refreshTimer, shown, refreshes, begun,
                  selectedMissionId>>
  BY <1>5 DEF Served, ServeUnchanged, actionUnchanged
<1>8. RefreshTypes' /\ ViewTypes' /\ ControlTypes'
  BY <1>4, <1>6, <1>7, Grown DEF TypeOK, viewVars
<1> QED
  BY <1>4, <1>8 DEF TypeOK

LEMMA AnsweredTypes == ASSUME TypeOK, Answered PROVE TypeOK'
<1>1. /\ BeginRefresh("action")
      /\ UNCHANGED <<serverVars, faults, streamVars, booted, refreshTimer, shown>>
      /\ busyAction' = [step |-> "answered", selects |-> Unchanged, commit |-> busyAction.commit]
      /\ selectedMissionId' = IF busyAction.selects = Unchanged THEN selectedMissionId
                              ELSE busyAction.selects
  BY DEF Answered, Answerable, actionUnchanged
<1>2. ServerTypes' /\ Version' = Version /\ Version' \in Nat
  BY <1>1, SameVersion DEF TypeOK, ServerTypes, serverVars
<1>3. RefreshTypes'
  BY <1>1, BeginTypes DEF TypeOK, serverVars
<1>4. busyAction' \in Action /\ busyAction'.commit <= Version'
  BY <1>1, <1>2 DEF TypeOK, ControlTypes, Action
<1>5. ViewTypes'
  <2>1. selectedMissionId' \in MaybeMission
    BY <1>1 DEF TypeOK, ViewTypes, ControlTypes, Action
  <2> QED
    BY <1>1, <1>2, <2>1 DEF TypeOK, ViewTypes
<1>6. ControlTypes'
  BY <1>1, <1>2, <1>4, Grown DEF TypeOK
<1> QED
  BY <1>2, <1>3, <1>5, <1>6 DEF TypeOK

LEMMA FailureTypes == ASSUME TypeOK, RefusedIsAnError \/ ActionFails \/ Crash PROVE TypeOK'
<1>1. /\ UNCHANGED <<server, refreshTimer, begun, shown, selectedMissionId>>
      /\ unpublished' \in {unpublished, {}} /\ busyAction' = NoAction
      /\ \/ faults' = faults
         \/ faults < MaxFaults /\ faults' = faults + 1
  BY DEF RefusedIsAnError, ActionFails, Crash, serverVars, refreshVars, viewVars
<1>2. ServerTypes' /\ Version' = Version /\ Version' \in Nat
  BY <1>1, SameVersion DEF TypeOK, ServerTypes
<1>3. ViewTypes'
  BY <1>1, <1>2 DEF TypeOK, ViewTypes
<1>4. RefreshTypes'
  <2>1. CASE RefusedIsAnError \/ ActionFails
    BY <1>1, <1>2, <2>1, Grown DEF RefusedIsAnError, ActionFails, refreshVars, TypeOK
  <2>2. CASE Crash
    <3>1. refreshes' = <<>>
      BY <2>2 DEF Crash
    <3>2. refreshes' \in Seq(Refresh) /\ Len(refreshes') = 0 /\ DOMAIN refreshes' = {}
      BY <3>1
    <3> QED
      BY <1>1, <1>2, <3>2, ConsoleAssumption DEF TypeOK, RefreshTypes
  <2> QED
    BY <2>1, <2>2
<1>5. faults' \in 0..MaxFaults
  BY <1>1, ConsoleAssumption DEF TypeOK, ControlTypes
<1>6. /\ streamState' \in {"CONNECTING", "OPEN", "RECONNECTING"} /\ wire' \in Nat
      /\ booted' \in BOOLEAN /\ refreshTimer' \in BOOLEAN
  <2>1. booted' \in BOOLEAN /\ refreshTimer' \in BOOLEAN
    BY <1>1 DEF RefusedIsAnError, ActionFails, Crash, TypeOK, ControlTypes
  <2>2. streamState' \in {"CONNECTING", "OPEN", "RECONNECTING"} /\ wire' \in Nat
    BY DEF RefusedIsAnError, ActionFails, Crash, TypeOK, ControlTypes, streamVars
  <2> QED
    BY <2>1, <2>2
<1>7. busyAction' \in Action /\ busyAction'.commit <= Version'
  BY <1>1, <1>2, NothingTypes
<1> QED
  BY <1>2, <1>3, <1>4, <1>5, <1>6, <1>7 DEF TypeOK, ControlTypes

LEMMA NextTypes == ASSUME TypeOK, [Next]_vars PROVE TypeOK'
<1>1. CASE Next
  BY <1>1, StreamTypes, BackgroundTypes, ReadRefreshTypes, EndTypes, PlatformTypes, OperatorTypes,
     ServeTypes, AnsweredTypes, FailureTypes DEF Next, Answer
<1>2. CASE UNCHANGED vars
  BY <1>2 DEF vars, serverVars, streamVars, refreshVars, viewVars, TypeOK, ServerTypes,
     RefreshTypes, ViewTypes, ControlTypes, Version
<1> QED
  BY <1>1, <1>2

\* Type correctness: whatever the console shows, has read or waits for is a snapshot the platform
\* has had, and at most MaxRefreshes refreshes are under way.
THEOREM ConsoleTypes == Spec => []TypeOK
<1> QED
  BY InitTypes, NextTypes, PTL DEF Spec
=============================================================================
