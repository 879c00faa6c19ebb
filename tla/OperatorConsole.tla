--------------------------- MODULE OperatorConsole ---------------------------
(***************************************************************************)
(* The operator's browser: client.ts and the decisions of view-model.ts,   *)
(* with the event stream that tells it of changes (event-hub.ts and        *)
(* openSseStream of server.ts).                                            *)
(*                                                                         *)
(* The console never applies an event.  It reads the robot and the         *)
(* missions anew, in two requests, when it starts, on a poll, a moment     *)
(* after an event and at the end of an action, and shows what the last     *)
(* refresh to finish brought; nothing orders the refreshes.                *)
(*                                                                         *)
(* Fleet Platform is a sequence of snapshots, one per commit, and a read   *)
(* is a place in it.  It is external: it may settle or touch a mission at  *)
(* any time, and answers actions as its reducers do.  Every commit is      *)
(* followed by events.  Texts, the availability of the API, the map, the  *)
(* trail and the event feed are left out.  Bounds: MissionIds, MaxCommits, *)
(* MaxEvents, MaxRefreshes, MaxFaults.                                     *)
(***************************************************************************)
EXTENDS Integers, SequencesExt

CONSTANTS
    MissionIds, None, Unchanged,
    MaxCommits,     \* bound on the changes of the platform's state
    MaxEvents,      \* bound on the events on their way to the browser
    MaxRefreshes,   \* bound on the refreshes under way at once
    MaxFaults       \* bound on failed requests, broken streams and crashes

ASSUME ConsoleAssumption ==
    /\ None \notin MissionIds /\ Unchanged \notin MissionIds \union {None}
    /\ MaxCommits \in Nat /\ MaxFaults \in Nat
    /\ MaxEvents \in Nat \ {0} /\ MaxRefreshes \in Nat \ {0}

VARIABLES
    \* Fleet Platform
    server,         \* its snapshots so far
    unpublished,    \* who committed and has not published yet
    faults,
    \* the event stream
    streamState, wire,   \* wire: the number of events on their way
    \* client.ts
    booted,         \* does the boot's first refresh no longer hold up polling and the stream?
    refreshTimer,   \* is it set?
    refreshes,      \* those under way, oldest first, and what each has been answered so far
    shown,          \* the reads that state.robot and state.missions come from; 0 is undefined
    selectedMissionId,
    busyAction,     \* the action under way
    begun           \* for the properties: how far the platform was when the last refresh began

serverVars == <<server, unpublished>>
streamVars == <<streamState, wire>>
refreshVars == <<refreshTimer, refreshes, begun>>
viewVars == <<shown, selectedMissionId>>
vars == <<serverVars, faults, streamVars, booted, refreshVars, viewVars, busyAction>>

MaybeMission == MissionIds \union {None}
Requests == {"create", "cancel", "demo-reset", "demo-start", "demo-stale", "demo-reconnect"}
Actors == {"events", "action"}   \* who commits: an edge message or a sweep, an action

-----------------------------------------------------------------------------
(***************************************************************************)
(* What Fleet Platform holds, and what the console makes of it.            *)
(***************************************************************************)

\* The missions, last updated first, those of them that are active, and the robot's mission.
Snapshot == [missions : Seq(MissionIds), active : SUBSET MissionIds,
             activeMissionId : MaybeMission]
EmptySnapshot == [missions |-> <<>>, active |-> {}, activeMissionId |-> None]

\* A robot at work.
Working(m) == [missions |-> <<m>>, active |-> {m}, activeMissionId |-> m]

Version == Len(server)
Latest == server[Version]
Listed(snapshot) == ToSet(snapshot.missions)
isActiveMissionState(missions, m) == m \in missions.active

\* Before the first refresh there is no robot and no mission.
Read(version) == IF version = 0 THEN EmptySnapshot ELSE server[version]

missionCreationAvailability(missions, robot) ==
    \/ robot.activeMissionId = None
    \/ /\ robot.activeMissionId \in Listed(missions)
       /\ ~isActiveMissionState(missions, robot.activeMissionId)

selectDefaultMission(missions, robot, selected) ==
    IF selected \in Listed(missions) THEN selected
    ELSE IF robot.activeMissionId \in Listed(missions) THEN robot.activeMissionId
    ELSE IF missions.missions = <<>> THEN None ELSE Head(missions.missions)

selectedMission == selectDefaultMission(Read(shown.missions), Read(shown.robot), selectedMissionId)

-----------------------------------------------------------------------------
Unread(about) == [about |-> about, robot |-> 0, missions |-> 0]
Refresh == [about : {"boot", "background", "action"},
            robot : Nat, missions : Nat]
\* step: the request the platform has not served, or of which it has served the first half
\* ("create-next" after the incident's reset, "stale-next", "reconnect-next"), or its answer:
\* "served", "refused" with an error, and "answered" while the refresh that follows is under way.
\* selects: what the answer will select.  commit: the snapshot that holds what the action did.
HalfServed == {"create-next", "stale-next", "reconnect-next"}
Action == [step : Requests \union HalfServed \union {"none", "served", "refused", "answered"},
           selects : MaybeMission \union {Unchanged}, commit : Nat]
NoAction == [step |-> "none", selects |-> Unchanged, commit |-> 0]

Init ==
    /\ \/ server = <<EmptySnapshot>>
       \/ \E m \in MissionIds : server = <<Working(m)>>
    /\ unpublished = {}
    /\ faults = 0
    /\ streamState = "CONNECTING" /\ wire = 0
    /\ booted = FALSE
    /\ refreshTimer = FALSE
    /\ refreshes = <<Unread("boot")>>
    /\ shown = [robot |-> 0, missions |-> 0]
    /\ selectedMissionId = None
    /\ busyAction = NoAction
    /\ begun = 1

(***************************************************************************)
(* Fleet Platform.                                                         *)
(***************************************************************************)

\* A snapshot is committed, and its events are published before the same actor goes on.  Only the
\* first commit of a demo disconnect has no events of its own and waits for those of the second.
\* What was half served within the bound may end beyond it.
CommitAs(actor, snapshot) ==
    /\ Version <= MaxCommits \/ (actor = "action" /\ busyAction.step \in HalfServed)
    /\ actor \notin unpublished \/ (actor = "action" /\ busyAction.step = "stale-next")
    /\ server' = Append(server, snapshot)
    /\ unpublished' = unpublished \union {actor}

\* A mission that was updated moves to the front of the list.
Touched(m) ==
    LET missions == Latest.missions
        place == CHOOSE i \in DOMAIN missions : missions[i] = m
        moved == [i \in DOMAIN missions |-> IF i = 1 THEN m
                                           ELSE IF i <= place THEN missions[i - 1]
                                           ELSE missions[i]]
    IN [Latest EXCEPT !.missions = moved]

\* Events reach the listeners of that moment; a stream that is not open misses them.
publish(actor) ==
    /\ actor \in unpublished /\ (actor = "action" => busyAction.step # "stale-next")
    /\ wire < MaxEvents
    /\ unpublished' = unpublished \ {actor}
    /\ wire' = IF streamState = "OPEN" THEN wire + 1 ELSE wire
    /\ UNCHANGED <<server, faults, streamState, booted, refreshVars, viewVars, busyAction>>

\* The robot changes, or a mission, which may settle, with or without the robot being released,
\* or the robot is released from a mission that has settled.
Repainted == IF Latest.activeMissionId \in Latest.active THEN Touched(Latest.activeMissionId)
             ELSE Latest
Settled(m) == [Touched(m) EXCEPT !.active = @ \ {m}]
Released(snapshot) ==
    IF snapshot.activeMissionId \in snapshot.active THEN snapshot
    ELSE [snapshot EXCEPT !.activeMissionId = None]
Changes ==
    LET painted == {Latest} \union UNION {{Touched(m), Settled(m)} : m \in Latest.active}
    IN painted \union {Released(snapshot) : snapshot \in painted}

\* An edge message or a sweep.
PlatformChanges ==
    /\ \E snapshot \in Changes : CommitAs("events", snapshot)
    /\ UNCHANGED <<faults, streamVars, booted, refreshVars, viewVars, busyAction>>

(***************************************************************************)
(* The event stream.                                                       *)
(***************************************************************************)

\* The stream begins with a stream.ready event; the browser opens it again by itself.
openSseStream ==
    /\ booted /\ streamState # "OPEN"
    /\ streamState' = "OPEN"
    /\ wire' = 1
    /\ UNCHANGED <<serverVars, faults, booted, refreshVars, viewVars, busyAction>>

StreamBreaks ==
    /\ streamState = "OPEN" /\ faults < MaxFaults
    /\ streamState' = "RECONNECTING"
    /\ wire' = 0
    /\ faults' = faults + 1
    /\ UNCHANGED <<serverVars, booted, refreshVars, viewVars, busyAction>>

\* Mutant: an event that arrives during a refresh sets no timer.
scheduleUnlessRefreshing ==
    refreshTimer' = (refreshTimer \/ refreshes = <<>>)

scheduleRefresh == refreshTimer' = TRUE

handleStreamMessage ==
    /\ wire > 0
    /\ wire' = wire - 1
    /\ scheduleRefresh
    /\ UNCHANGED <<serverVars, faults, streamState, booted, refreshes, begun, viewVars, busyAction>>

(***************************************************************************)
(* Refreshing.                                                             *)
(***************************************************************************)

\* Both requests are sent at once.
BeginRefresh(about) ==
    /\ Len(refreshes) < MaxRefreshes
    /\ refreshes' = Append(refreshes, Unread(about))
    /\ begun' = Version

TimerFires ==
    /\ refreshTimer
    /\ refreshTimer' = FALSE
    /\ BeginRefresh("background")
    /\ UNCHANGED <<serverVars, faults, streamVars, booted, viewVars, busyAction>>

Poll ==
    /\ booted
    /\ BeginRefresh("background")
    /\ UNCHANGED <<serverVars, faults, streamVars, booted, refreshTimer, viewVars, busyAction>>

\* Each request is answered with the state of its own moment.
getRobot(r) ==
    /\ refreshes[r].robot = 0
    /\ refreshes' = [refreshes EXCEPT ![r].robot = Version]
    /\ UNCHANGED <<serverVars, faults, streamVars, booted, refreshTimer, begun, viewVars,
                   busyAction>>

listMissions(r) ==
    /\ refreshes[r].missions = 0
    /\ refreshes' = [refreshes EXCEPT ![r].missions = Version]
    /\ UNCHANGED <<serverVars, faults, streamVars, booted, refreshTimer, begun, viewVars,
                   busyAction>>

\* Mutant: a boot whose refresh fails goes no further.
EndReadRefresh(r) ==
    /\ refreshes' = RemoveAt(refreshes, r)
    /\ booted' = (booted \/ (refreshes[r].about = "boot" /\ refreshes[r].missions > 0))
    /\ busyAction' = IF refreshes[r].about = "action" THEN NoAction ELSE busyAction

\* What waited for the refresh goes on: the boot to the stream and the polling, an action to
\* its end.
EndRefresh(r) ==
    /\ refreshes' = RemoveAt(refreshes, r)
    /\ booted' = (booted \/ refreshes[r].about = "boot")
    /\ busyAction' = IF refreshes[r].about = "action" THEN NoAction ELSE busyAction

\* The snapshots are replaced by whatever this refresh read, newer or older than what is shown.
ApplyRefresh(r) ==
    LET read == refreshes[r] IN
    /\ read.robot > 0 /\ read.missions > 0
    /\ shown' = [robot |-> read.robot, missions |-> read.missions]
    /\ selectedMissionId' = selectDefaultMission(Read(read.missions), Read(read.robot),
                                                 selectedMissionId)
    /\ EndRefresh(r)
    /\ UNCHANGED <<serverVars, faults, streamVars, refreshTimer, begun>>

FailRefresh(r) ==
    /\ faults < MaxFaults
    /\ EndRefresh(r)
    /\ faults' = faults + 1
    /\ UNCHANGED <<serverVars, streamVars, refreshTimer, begun, shown, selectedMissionId>>

(***************************************************************************)
(* Actions.                                                                *)
(***************************************************************************)

actionUnchanged == <<faults, streamVars, booted, refreshTimer, shown>>

\* The buttons are disabled while an action is under way.
BeginAction(request, selects) ==
    /\ busyAction = NoAction
    /\ busyAction' = [step |-> request, selects |-> selects, commit |-> 0]
    /\ UNCHANGED <<actionUnchanged, serverVars, refreshes, begun>>

createMission ==
    /\ missionCreationAvailability(Read(shown.missions), Read(shown.robot))
    /\ BeginAction("create", Unchanged)
    /\ UNCHANGED selectedMissionId

\* The request is about the mission that is selected now, whatever is selected later.
cancelSelectedMission ==
    /\ selectedMission # None
    /\ isActiveMissionState(Read(shown.missions), selectedMission)
    /\ BeginAction("cancel", selectedMission)
    /\ UNCHANGED selectedMissionId

resetDemoState == BeginAction("demo-reset", None) /\ UNCHANGED selectedMissionId
startCleanDemoMission == BeginAction("demo-start", Unchanged) /\ selectedMissionId' = None
triggerDemoStaleTelemetry == BeginAction("demo-stale", Unchanged) /\ UNCHANGED selectedMissionId
triggerDemoReconnect == BeginAction("demo-reconnect", Unchanged) /\ UNCHANGED selectedMissionId

\* Any row of the list may be clicked at any time.
SelectMission(m) ==
    /\ m \in Listed(Read(shown.missions))
    /\ selectedMissionId' = m
    /\ UNCHANGED <<actionUnchanged, serverVars, refreshes, begun, busyAction>>

ServeUnchanged == <<actionUnchanged, refreshes, begun, selectedMissionId>>
Served(step, selects, commit) ==
    /\ busyAction' = [step |-> step, selects |-> selects, commit |-> commit]
    /\ UNCHANGED ServeUnchanged

\* The platform makes up an id nobody has had.  A refused request leaves a mission too; the console
\* takes it for an answer, but that of an incident for an error.
ServeCreation(m) ==
    LET refused == [Latest EXCEPT !.missions = <<m>> \o @]
        dispatched == [refused EXCEPT !.active = @ \union {m}, !.activeMissionId = m] IN
    /\ busyAction.step \in {"create", "create-next"}
    /\ \A i \in DOMAIN server : m \notin Listed(server[i])
    /\ \/ /\ CommitAs("action", refused)
          /\ Served(IF busyAction.step = "create-next" THEN "refused" ELSE "served", m, Version + 1)
       \/ /\ Latest.activeMissionId \notin Latest.active
          /\ CommitAs("action", dispatched)
          /\ Served("served", m, Version + 1)

\* The incident resets and then creates.
ServeReset ==
    /\ busyAction.step \in {"demo-reset", "demo-start"}
    /\ CommitAs("action", EmptySnapshot)
    /\ Served(IF busyAction.step = "demo-start" THEN "create-next" ELSE "served",
              busyAction.selects, Version + 1)

\* A mission that is not active any more is not cancelled, one that is gone is an error.
ServeCancel ==
    LET m == busyAction.selects IN
    /\ busyAction.step = "cancel"
    /\ \/ /\ m \in Latest.active
          /\ CommitAs("action", Touched(m))
          /\ Served("served", Unchanged, Version + 1)
       \/ /\ m \notin Latest.active
          /\ Served(IF m \in Listed(Latest) THEN "served" ELSE "refused", Unchanged, Version)
          /\ UNCHANGED serverVars

\* The first half of a demo fault: a disconnect writes the robot only, a reconnect repaints its
\* mission too.
BeginFault ==
    \/ /\ busyAction.step = "demo-stale"
       /\ CommitAs("action", Latest)
       /\ Served("stale-next", Unchanged, Version + 1)
    \/ /\ busyAction.step = "demo-reconnect" /\ Latest.activeMissionId # None
       /\ CommitAs("action", Repainted)
       /\ Served("reconnect-next", Unchanged, Version + 1)

\* The handshake resumes the robot's mission, whatever has become of it, settles it for review or
\* releases the robot from one that had settled.
Reconciled ==
    LET m == Latest.activeMissionId IN
    IF m \notin Listed(Latest) THEN {Latest}
    ELSE {[Touched(m) EXCEPT !.active = @ \union {m}], Settled(m), Released(Touched(m))}

\* The second half, which meets what has happened meanwhile.
EndFault ==
    \/ /\ busyAction.step = "stale-next" /\ CommitAs("action", Repainted)
       /\ Served("served", Unchanged, Version + 1)
    \/ /\ busyAction.step = "reconnect-next"
       /\ \E snapshot \in Reconciled : CommitAs("action", snapshot)
       /\ Served("served", Unchanged, Version + 1)

\* There is no mission to reconnect, or the robot is as the evaluation finds it already.
NothingToServe ==
    /\ \/ busyAction.step = "demo-reconnect" /\ Latest.activeMissionId = None
       \/ busyAction.step = "stale-next"
    /\ Served("served", Unchanged, Version)
    /\ UNCHANGED serverVars

Serve == (\E m \in MissionIds : ServeCreation(m)) \/ ServeReset \/ ServeCancel
         \/ BeginFault \/ EndFault \/ NothingToServe

\* The answer selects the mission it speaks of; after a reset nothing is selected.
Answerable ==
    /\ busyAction.step = "served" /\ "action" \notin unpublished
    /\ selectedMissionId' = IF busyAction.selects = Unchanged THEN selectedMissionId
                            ELSE busyAction.selects

\* Mutant: the action does not wait for its refresh.
AnsweredAtOnce ==
    /\ Answerable
    /\ BeginRefresh("background")
    /\ busyAction' = NoAction
    /\ UNCHANGED <<serverVars, actionUnchanged>>

Answered ==
    /\ Answerable
    /\ BeginRefresh("action")
    /\ busyAction' = [step |-> "answered", selects |-> Unchanged, commit |-> busyAction.commit]
    /\ UNCHANGED <<serverVars, actionUnchanged>>

\* An error selects nothing and refreshes nothing.
RefusedIsAnError ==
    /\ busyAction.step = "refused" /\ "action" \notin unpublished
    /\ busyAction' = NoAction
    /\ UNCHANGED <<serverVars, faults, streamVars, booted, refreshVars, viewVars>>

\* The request or its answer is lost, or it is answered with an error; what was committed stays.
ActionFails ==
    /\ busyAction.step \notin {"none", "answered"} /\ faults < MaxFaults
    /\ "action" \notin unpublished
    /\ busyAction' = NoAction
    /\ faults' = faults + 1
    /\ UNCHANGED <<serverVars, streamVars, booted, refreshVars, viewVars>>

\* The platform dies and starts again on a durable repository.  Requests under way fail, the
\* stream breaks, what was not published never is.
Crash ==
    /\ faults < MaxFaults
    /\ unpublished' = {}
    /\ streamState' = IF streamState = "OPEN" THEN "RECONNECTING" ELSE streamState
    /\ wire' = 0
    /\ refreshes' = <<>>
    /\ booted' = TRUE
    /\ busyAction' = NoAction
    /\ faults' = faults + 1
    /\ UNCHANGED <<server, refreshTimer, begun, shown, selectedMissionId>>

-----------------------------------------------------------------------------
Operator == createMission \/ cancelSelectedMission \/ resetDemoState \/ startCleanDemoMission
            \/ triggerDemoStaleTelemetry \/ triggerDemoReconnect
            \/ \E m \in MissionIds : SelectMission(m)
Answer(r) == getRobot(r) \/ listMissions(r) \/ ApplyRefresh(r)

Next ==
    \/ PlatformChanges \/ \E actor \in Actors : publish(actor)
    \/ openSseStream \/ StreamBreaks \/ handleStreamMessage
    \/ TimerFires \/ Poll \/ \E r \in DOMAIN refreshes : Answer(r) \/ FailRefresh(r)
    \/ Operator \/ Serve \/ Answered \/ RefusedIsAnError \/ ActionFails \/ Crash

\* The interval fires, and every request of a refresh is answered or fails.  Nothing is assumed of
\* the event stream, the operator or the answers to actions.
Spec == Init /\ [][Next]_vars /\ WF_vars(Poll) /\ WF_vars(\E r \in DOMAIN refreshes : Answer(r))
-----------------------------------------------------------------------------
(***************************************************************************)
(* Properties.                                                             *)
(***************************************************************************)

ServerTypes ==
    /\ server \in Seq(Snapshot) /\ server # <<>>
    /\ unpublished \subseteq Actors

RefreshTypes ==
    /\ refreshes \in Seq(Refresh) /\ Len(refreshes) <= MaxRefreshes
    /\ \A r \in DOMAIN refreshes :
           refreshes[r].robot <= Version /\ refreshes[r].missions <= Version
    /\ begun \in 1..Version

ViewTypes ==
    /\ shown \in [robot : 0..Version, missions : 0..Version]
    /\ selectedMissionId \in MaybeMission

ControlTypes ==
    /\ faults \in 0..MaxFaults
    /\ streamState \in {"CONNECTING", "OPEN", "RECONNECTING"} /\ wire \in Nat
    /\ booted \in BOOLEAN /\ refreshTimer \in BOOLEAN
    /\ busyAction \in Action /\ busyAction.commit <= Version

\* Type invariant: what is shown, read and waited for are snapshots the platform has had.
TypeOK == ServerTypes /\ RefreshTypes /\ ViewTypes /\ ControlTypes

\* No change escapes a console whose stream is open: once the platform has published, no event is
\* on its way and no timer is set, a refresh has begun after the last change.  So it is also after
\* events were lost with a broken stream or a crash, and for events that arrive during a refresh.
EventsAreFollowedUp ==
    streamState = "OPEN" /\ wire = 0 /\ unpublished = {} /\ ~refreshTimer => begun = Version

EndsWell ==
    busyAction.step \in {"served", "answered"} /\ busyAction'.step = "none" /\ faults' = faults

ShowsItsEffect ==
    EndsWell => shown'.robot >= busyAction.commit /\ shown'.missions >= busyAction.commit

\* An action that ends well ends with what it did on the screen: of all the refreshes under way
\* the one that gives the buttons back has read the robot and the missions after the commit.
ActionsShowTheirEffect == [][ShowsItsEffect]_vars

Current == shown = [robot |-> Version, missions |-> Version]

\* Once the platform comes to rest the console shows its state, although an overlapping refresh
\* may put an older state back for a while, and also if the stream never opens or the boot's
\* refresh fails.
CatchesUp == []<>Current
=============================================================================
