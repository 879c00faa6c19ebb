# RoboOps Control Plane: TLA+ specifications and proofs

RoboOps is a control plane for mobile robots. Operators request missions over
HTTP, the platform decides and records them, sends commands to an edge runtime
on each robot over a WebSocket, and follows acknowledgements, telemetry and
reconnects. Reducer-produced events leave through a transactional outbox. The
modules here specify the decision core, the repository and outbox it is stored
with, the idempotent HTTP request in front of it, the service and the WebSocket
link that join it to an edge, the simulated edge and the operator's console,
check them with TLC and prove their safety properties with TLAPS.

## The system

| Component | State | Operations | Interacts with |
|---|---|---|---|
| `packages/fleet-domain` | `DomainState`: missions, robots, commands, idempotency records, processed ids, next sequences, event logs | dispatch, cancel, acknowledgement, timeout, telemetry, freshness, begin reconnect, reconnect handshake | pure functions, run inside `repository.update` |
| `packages/fleet-protocol` | none | types, schemas, payload validation | every boundary |
| `packages/fleet-persistence` repository | the Postgres tables, or one in-memory value | `read`, `write`, `reset`, `update` under an advisory lock | platform service; inserts outbox rows in the same transaction |
| `packages/fleet-persistence` outbox store | `outbox_events` rows: published, locked, available, attempts | `claimBatch`, `markPublished`, `recordFailure` | event worker |
| `apps/event-worker` | the batch in hand | one pass per process: claim, then publish and mark or release each | outbox store, publisher |
| `apps/fleet-platform` service | none of its own | create and cancel missions, edge messages, freshness sweep, demo endpoints | repository, event hub, gateway |
| `apps/fleet-platform` gateway | peers and a task chain per robot, closing flag | upgrade, message, close, `sendCommand`, `closeAll` | edges, service |
| `apps/fleet-platform` HTTP API | mission idempotency cache, SSE listeners | `POST /missions`, cancel, reads, stream | service |
| `apps/cloud-edge-simulator` | robot state, socket, telemetry and reconnect timers | connect, command, telemetry, reconnect | gateway |
| `apps/operator-ui` | last snapshot, pending action | poll, stream, create, cancel | HTTP API |
| `sim/isaac-sim`, `infra` | external scripts, deployment | | gateway, Postgres |

What is hard about it, and what makes each part correct:

- **Domain.** Everything an edge says may come late, twice or out of order,
  clients choose ids and reuse keys, and a refused request overwrites the
  snapshot of its mission id. Correct means: one command per key, unique
  sequences per robot, issued commands are final, a mission names its own
  command, outcomes are applied once, settled missions are left alone.
- **Outbox.** Passes of several processes interleave and die; publishing and
  marking are two steps. Correct means: one claimant per row, settled only after
  delivery, never delivered after, duplicates bounded, no row starves.
- **Repository.** Read-modify-write of the whole state under a lock, foreign
  keys, rollback. Correct means: it is the sequential register the reducers
  assume, and exactly the new events reach the outbox.
- **Service.** A call is several transactions and sends; other calls, time, a drop
  or a crash fall between them, and each may fail. Correct means: only a failed
  call forgets a dispatch, every other is answered in the end, a motion command
  goes to a robot that is fresh, the cloud believes nothing the edge has not seen.
- **Gateway and simulator.** Socket events of old and new connections, timers on
  one side and a chain of tasks on the other. Correct means: one connection at a
  time, it comes back, the service hears of its coming and going, a stop ends.
- **HTTP cache.** Pending entries, eviction, expiry, failure after commit.
  Correct means: a retried request makes no second mission.
- **Console.** Overlapping refreshes of two reads each, lost events, actions
  that wait. Correct means: no change escapes, an action ends with its effect
  shown, the screen catches up.

`PROJECT.json` lists these hazards with the line where each one bites and the
properties that cover it.

## Modules

### FleetDomain

One action per reducer of `packages/fleet-domain/src`, named after it, plus
`handleEdgeConnected`, the only state write of the platform service outside the
reducers and the demo endpoints. A reducer is one action because
`repository.update` runs it atomically on the latest state (in memory it is
synchronous, in Postgres it holds an advisory lock).

- Tables of `DomainState` are functions from ids. An absent record has lifecycle
  `ABSENT`, connection `UNKNOWN` or command type `ABSENT`; an absent sequence or
  time is 0, an absent id is `None`. Lifecycles the schema lists but no reducer
  produces (`CREATED`, `VALIDATED`, `ASSIGNED`, `ACKNOWLEDGED`) do not occur.
- Inputs are constants, sets of records of the protocol types. Nothing is
  assumed of them beyond their type: an acknowledgement may name a command that
  is issued later, a handshake may report any mission and lifecycle.
- The service stamps `issuedAt` and `now` of a request together, so a request
  carries its lifetime; an edge message carries its own times. `now` is the wall
  clock, bounded by `MaxTime`. Dispatch, cancellation and the freshness evaluation
  take the time of their call, which may lie in the past: `FleetDomain` runs them
  with `now`, `FleetPlatform` with the time the request was stamped with.
- Early returns that change nothing (an idempotent replay, an unknown mission)
  are disabled actions; those that only append event records too, because the
  event logs are left out. Early returns that record a processed id are part of
  the action (`AckApplies`).
- Left out: poses, health on snapshots, failure texts, versions, `updatedAt`.
  No reducer reads them. Battery is `LOW`, `OK` or unknown.

`FleetDomainProofs` and `FleetDomainSafety` hold the theorems,
`MCFleetDomain` the inputs for TLC.

### Outbox and AtLeastOnceQueue

`Outbox` has the rows of `outbox_events` and, for each worker process, the await
it stands at: `publishing`, `marking` or `releasing` the event `current` of its
batch. Each await is a step of its own and may fail before or after it took
effect (`PublishFails`, `MarkFails`, `ReleaseFails`); a failed release is
not caught and ends the pass; `Crash` ends it anywhere. A pass without a
publisher releases what it claims, as the CLI does when no publisher is given.
The claim is one SQL statement with `FOR UPDATE SKIP LOCKED` and therefore one
step. Time advances while a row waits for its retry. `lost` remembers which
events were in the batch of a pass that died; no action reads it.

`AtLeastOnceQueue` is what consumers may rely on: an event is enqueued,
delivered any number of times, settled only after a delivery, and not delivered
once settled. `Outbox` implements it, with the state of a row as the mapping.

### MissionRequests

`POST /missions` as it passes two layers of keys: the cache of the HTTP server
(`InMemoryIdempotencyStore`) and the keys of the reducer
(`idempotencyRecords`). Requests are numbered in the order they reach the cache;
a retry is another request with the same key and body. A request stands at an
await: `checking` (freshness), `dispatching` (the repository) or `committed`
(the answer is on its way), or it is `waiting` for the request that owns
the reservation. `Ask` is the synchronous part up to the first await, pruning,
eviction and reservation included. `Fail` throws at any await, `Restart` ends
the process, `resetDemo` empties the reducer's keys, `Tick` expires
reservations. `dispatchMissionCommand` is reduced to what it does with keys and
ids; refusals for other reasons are any choice. The reducer's keys survive a
restart (Postgres mode), the cache never does.

### RepositoryState, DomainRepository, PostgresRepository

`PostgresRepository` runs each method of `PostgresDomainStateRepository` as its
transaction: begin, advisory lock, the reads, the rewrite of all tables with the
new outbox rows, commit, return. Statements of different calls interleave; any
of them, the commit and its answer may fail (`Fail`), and a foreign key may
refuse the rewrite (`ForeignKeyViolation`). A writer's statement sees what is
committed when it runs, a reader's what was committed at its first one
(REPEATABLE READ). The seven reads are three groups: bookmarks, canonical rows,
event logs. `reset` skips the reads and queues nothing.

The aggregate (`RepositoryState`) is what the statements can get wrong: the log
whose length numbers the next event, the events, the robots, and the missions
with their foreign key. The other tables are read and written in the same
statements. An event is its id and the call that logged it, since ids start
over after a reset and the rest of an envelope does not repeat.

`DomainRepository` is the promise of `repository.ts`: one aggregate that each
call sees and replaces at one moment between its beginning and its end, together
with the outbox. `PostgresRepository` implements it; a writer takes effect at
its commit, a reader at its snapshot.

### SimulatorMessages and EdgeLink

`SimulatorMessages` is the simulator's `messages.ts`: functions from its state and
a message to a step, that is the next state, the frames to send and the actions
for the runtime. It has no variables and serves both modules that run a
simulator.

`EdgeLink` is the connection of one robot between the simulator's runtime
(`client.ts`) and the gateway (`websocket.ts`), and the orderly `stop()` of
`server.ts`. A socket has two ends that notice its end each in their own time; a
broken connection (`Cut`) loses the end of what is on the wire. The simulator
has `socket`, its state and three timers; the error and close handlers do not ask
which socket they belong to, and the model does not either. `ErrorWithoutClose`
is the sequence its own test drops a connection with. The gateway has `peers`,
the chain `tasks` with the task that is `running`, and `closing`; `told` is the
last of hello and disconnect that reached the service. A frame that is neither
changes nothing here and is left out, and so are commands' contents beyond what
the simulator decides by. A `WebSocket` object is new each time; a member of
`Sockets` stands for one object after the other. An error without its close is
assumed to be noticed before the reconnect delay is over, which Node does in the
same turn of its loop and the delay is a second.

### FleetPlatform

The calls of `service.ts` over the reducers of `FleetDomain` (which it extends)
and a simulated edge (an instance of `SimulatorMessages`). A call is the list of
steps it has left, one per repository transaction or send, in one of four
slots: a creation, a cancellation, a demo control and the chain of edge messages.
Between two steps any other slot may run, the freshness sweep too, time may pass,
the connection may drop (`Drop`) or the process die and start again on its
database (`Crash`). `inbox` is what the edge sent and the chain has not taken up,
with the disconnect a drop queues; `down` the commands on their way to the edge.

- *Times.* A call keeps the time it was stamped with (`RequestTimes`): any time up
  to now, since it may have waited before its first transaction. A sweep
  is stamped when its interval fires, which is after the sweep before it ended
  (`sweptAt`).
- *Demo controls* are requests beside the others: `disconnectDemoRobot` writes the
  robot and evaluates it in a second transaction, `reconnectDemoRobot` reads,
  begins a reconnect and applies a handshake it made up from what it read, with a
  session of its own (`DemoSession`), `lowBatteryDemo` writes the battery.
- *Failures.* `Throws` ends a call before its next step: that step's transaction
  failed, or the one before it committed and its answer was lost. `LoseFrame` is
  the same for the first transaction of a frame. An operator gets an error; for a
  frame `enqueueRobotTask` catches the error, and the edge stays connected.
- Two variables are only for the properties; no action depends on them. `missed` holds
  the commands that a failing call left unsent or undelivered or whose
  acknowledgement it dropped, until a hello has the pending commands read
  again. `overtaken` says whether, since the creation under way looked at
  freshness, a step took effect that puts the robot online by itself (an edge
  message, a demo control) or an evaluation as of an earlier time.

Pending commands are resent in the order the Postgres repository reads a robot's
commands in, which is by sequence. That the domain's own properties hold of the
composition is proved and not checked by a run.

### OperatorConsole

`client.ts` and the decisions of `view-model.ts` it rests on. The platform is
external: a sequence of snapshots, one per commit, each followed by an event
(`publish`); a read is a place in it. A refresh under way is what its two
requests have been answered so far; each is answered with the state of its own
moment and refreshes end in any order. What waits for a refresh, the boot or an
action, goes on when that one ends, well or not. `busyAction` runs through the
request, the platform's commits (`Serve...`, `BeginFault`, `EndFault`), the answer
and the refresh at the end. The incident and the two demo faults commit twice, and
anything may come between their halves (`HalfServed`). A refused creation is an
answer to the console, a refused incident and a cancellation of a mission that is
gone are errors (`RefusedIsAnError`): nothing is selected and nothing
refreshed. `begun` remembers how far the platform was when the last refresh began.

### How the modules meet

`FleetDomain` takes a reducer as one step on the latest state, which is what
`DomainRepository` promises and `PostgresRepository` is shown to keep. The
events it queues are the rows `Outbox` starts from. `FleetPlatform` composes
`FleetDomain` with the service's calls and, through `SimulatorMessages`, with the
edge; it takes the connection as a pair of queues and hears of its end in order,
and `EdgeLink` runs the same simulator over the sockets, timers and tasks that
make it so. `MissionRequests` shows the awaits and the cache in front of the
dispatch, which `FleetPlatform` takes as one request that is not a retry.
`OperatorConsole` stands at the other side of the HTTP API: what `FleetPlatform`
commits is there a new snapshot.

## Checks

All runs are listed in `PROJECT.json` with their properties.

| Run | Instance | Question |
|---|---|---|
| `domain_one_robot` | 1 robot, 2 missions, 2 commands, 2 keys, 2 acks, telemetry, handshake, hello, clock to 2 | do links, finality, progress and the flow of outcomes survive every order of messages around one robot |
| `domain_two_robots` | 2 robots, requests and acks only, one handshake and hello | do sequences and current commands survive when missions are moved between robots |
| `outbox_workers` | 3 rows, 2 passes with one worker id, one of them without a publisher, batches of 2, 2 failures | are claims exclusive, is the queue implemented, does every row settle |
| `outbox_dead_worker` | the same | expected violation, below |
| `mission_requests` | 3 requests, 2 header keys, cache of 1 record with time to live 1, 1 failure or restart, 1 reset | is there one mission per key and body, is each answer the request's own, does each request end |
| `retry_after_failure` | 2 requests | expected violation, below |
| `replay_after_reset` | 2 requests | expected violation, below |
| `postgres_repository` | 3 calls of any method, 1 robot, 1 mission, 1 failure | are concurrent calls atomic, does every logged event reach the outbox, does every call end |
| `unknown_robot_rolls_back` | 2 calls that refuse a dispatch, no failure | expected violation, below |
| `edge_link` | 1 robot, any scenario, 2 sockets, 1 motion command, 1 broken connection, 1 frame and 1 task waiting, either side stopping at any moment | is there one connection at a time, does the service know of it, does it come back, does a stop end with nothing left running |
| `fleet_platform` | 1 robot in the `reconnect` scenario, 1 mission, its dispatch and cancellation, 1 heartbeat, 1 drop, crash, failed transaction or demo control, clock from 3 to 4 | is every dispatch answered that no failed call forgot, does the cloud know no more than the edge, is a motion command sent only to a robot that is fresh as of the request or was put online since it looked (587,205 states) |
| `operator_console` | 1 mission, 1 change, 1 event on its way, 2 refreshes at once, 1 fault | does an event lead to a refresh after its change, does an action end with its effect shown, does the screen catch up (1,269,067 states) |

Why the bounds suffice. Two missions and two commands are enough for a command
id, a key or an assignment to be taken by another mission; two robots for a
mission to be moved; two acks for an old one to arrive after a new one; one
event and one session id because the question is whether the same message acts
twice. The clock reaches 2 with a time to live of 1, so a command expires and
telemetry turns stale; edge timestamps are 1 or 3, so a handshake can come from
before or after an expiry. For the outbox, three rows with batches of two make a
pass leave a row behind, two failures allow a retry to fail again, and a shared
worker id removes the only thing that tells two passes' locks apart. A cache of
one record with two keys makes eviction, expiry and the reservation of a third
request race for the same slot. Three calls of the repository are an update, a
reset and an update, after which event ids repeat, or a reader between two
writers; one robot serves as the registered and, before its upsert, as the
unknown one.

Two sockets are an old connection that has not ended on both sides and the new
one beside it; one broken connection and the drops the scenarios make
themselves give three connections in a row. In the service one fault falls
between any two steps of a dispatch, a cancellation or a message. The clock starts
where the seeded robot is fresh, with times before it for the eleven seconds the
demo disconnect goes back, and leaves its telemetry stale one tick later, so a
request, a sweep and a demo control may each look as of another time; degraded
is where the demo disconnect puts the robot. That two faults
meet is left to the theorems. For the console two refreshes
overlap in any way, one change of the platform and one action race, and the
fault may be a lost event, a failed request or a crash; two missions and two
changes with one refresh at a time were checked too (safety), with the same result.
One event at a time is on its way: a second one waits unpublished behind it, which
the timer, set or not, cannot tell from one on the wire. Without that bound the run
holds too (1,731,335 states), and the theorems hold for any number of events.

The constants that are bounds are `MaxTime`, `MaxFaults`, `MaxResets`,
`MaxInFlight`, `MaxTasks`, `MaxCuts`, `MaxHeartbeats`, `MaxCommits`, `MaxEvents`
and `MaxRefreshes`; everything else is the size of a set. Symmetry is not used: the
input pools name their members.

Deadlock is checked for the console, which polls for ever, and not elsewhere.
The domain stops when every input was used up and the clock reached its bound;
the outbox stops when every row is published; the requests and the calls of the
repository are finitely many and end; the two ends of a link may both be
stopped; in the service everything may be settled with the clock at its bound.

**Fairness.** In `MissionRequests` and `PostgresRepository` an await that is
under way settles (`WF` on the steps of each request and call); failures,
restarts, resets and time are never forced. The advisory lock has strong
fairness: other calls take and release it again and again, and Postgres serves
those who wait in the order they came. `FleetDomain` has none, its properties
are safety properties.
`Outbox!Fairness` says that an await which is under way settles, one way or the
other (`WF` on each step of a pass, failure included), that time passes, and
that whoever schedules the worker keeps starting passes with a publisher. The
worker is a single-pass program run by a scheduler, so the last point is an
assumption about the deployment and not about the code. Failures are never
forced; `MaxFaults` ends them, which is the usual "eventually the broker is
back". Nothing assumes that a dead pass returns its rows.

In `EdgeLink` the reconnect timers that are set fire, each end of a socket
delivers or reports its end, the handler in the chain settles, and a stop that
was begun goes on: event loops and a TCP stack. Nobody has to stop, send or
break a connection. In `FleetPlatform` requests and the chain run on, the edge
connects again (that it does is `EdgeLink!Reconnects`) and takes what arrives. One
weak fairness condition on the disjunction says so: each of these steps uses
something up, so none can crowd another out for ever. No request, sweep,
heartbeat, demo control, fault or tick of the clock is forced. In
`OperatorConsole` the poll interval fires and each request of a refresh is
answered or fails; nothing is assumed of the event stream, the operator or the
answers to actions.

### What disagrees with the repository's own words

- `outbox_dead_worker`: the schema calls the outbox an at-least-once queue
  (`0001_core_schema.sql:227`). Rows claimed by a pass that died, or whose
  release failed, stay locked and are never delivered. `EveryRowSettles` in
  `outbox_workers` shows that this is the only way to lose a row.
- `retry_after_failure`: `docs/demo-script.md:121` promises that a retry with
  the same key and body returns the original response. Once the cache forgot the
  key, the reducer sees a *new* generated mission id in the signature and
  answers with a conflict, though the mission runs.
- `replay_after_reset`: `docs/demo-script.md:80` wants no idempotency state to
  leak between recordings; the cache of the HTTP layer survives the reset and
  answers with a mission that no longer exists.
- `unknown_robot_rolls_back`: `packages/fleet-persistence/src/repository.ts:37`
  calls the in-memory repository the contract baseline. It records the refusal of
  a dispatch to an unknown robot; the Postgres repository cannot, because the
  mission's foreign key has no row to refer to.

Five more were met while modelling. They follow from the definitions and have
no run of their own.

- `docs/architecture/current-architecture.md:207` describes cancellation as
  `CANCEL_REQUESTED`, then `CANCELLED`. An ACCEPTED acknowledgement of the
  *dispatch* that arrives after the request puts the mission back to `RUNNING`
  (`applyCommandAck`); the cancellation's own acknowledgement still cancels it,
  but until then the console shows a running mission that may be cancelled again.
- `packages/fleet-domain/src/ack.ts:257` calls the timed-out state terminal; a
  late acknowledgement returns it to `RUNNING`. The platform never runs the
  timeout.
- `docs/architecture/current-architecture.md:113` says that delivery after
  `edge.hello` avoids double delivery. A command dispatched while the socket is
  open and its hello still queued is sent at once and again by the hello
  (`Dispatch` and `HandleHello` of `FleetPlatform`; `service.ts:711-712`). The
  edge is not misled by the copy: `CloudKnowsNoMoreThanTheEdge` holds with it.
- `docs/architecture/current-architecture.md:150-153` has the service recheck
  freshness before dispatching. The recheck is a transaction of its own
  (`service.ts:74`) and the dispatch (`service.ts:86`) does not look again. A demo
  disconnect or reconnect, an edge message or an evaluation as of an earlier time
  between the two puts the robot ONLINE, and the motion command goes out to
  telemetry that is stale. `FreshUnlessOvertaken` says that nothing else does.
- A failing transaction can leave a mission DISPATCHED while its edge is connected
  and nothing is under way: an acknowledgement whose handler failed is dropped
  (`websocket.ts:243-258`), and a dispatch whose commit succeeded but whose answer
  was lost never reaches its send (`service.ts:86-93`). Only the next hello
  redelivers, and nothing makes the edge send one. `QuietMeansAnswered` and
  `DispatchesAreAnswered` say that failed calls are the only way to get there;
  `missed` names the commands they left.

## Proofs

The theorems hold for every value of the constants that satisfies the named
assumptions `NoneAssumption`, `InputAssumption`, `ConfigAssumption`
(`FleetDomain`), `OutboxAssumption` (`Outbox`), `RequestAssumption`,
`LimitAssumption` (`MissionRequests`), `StateAssumption` (`RepositoryState`),
`ConsoleAssumption` (`OperatorConsole`), `SocketAssumption`,
`CommandAssumption`, `BoundAssumption` (`EdgeLink`) and `PlatformAssumption`
(`FleetPlatform`): any number of robots, missions, commands, keys, messages,
rows, workers, requests, calls, sockets, refreshes and failures. The last one
says that the platform has its one seeded robot, that generated ids are numbers
(of messages one that no message in use has, of sessions the number of faults) and that the clock can
leave the time it starts at; the sets of missions, commands and requests and the
bounds on faults, heartbeats and time are free. Every invariant and every safety
action property of the passing runs is the statement of a theorem.

**FleetDomainProofs: `TypeCorrect`.** `TypeOK` is not inductive alone: a command
that exists must name a robot and a mission for the tables it indexes to stay
functions of the right type. `TypeInv == TypeOK /\ LinksAreSet` is, with one
lemma per action.

**FleetDomainSafety: `Invariance` and what follows from it.** The invariant
`IInv` is the conjunction of `TypeOK`, `LinksAreSet` and the five
state invariants of the runs; they need each other. A sequence is fresh only
because the counter is above all issued ones (`UniqueSequences`); a
cancellation uses the counter and never its fallbacks because an active mission
has a command (`CancellationFlow`), which is its own and for its robot
(`CurrentCommandMatchesMission`). The proof sorts the actions. Those that
issue no command are shown to change one mission at most, in one of a few quiet
ways (`QuietMissionStep`), and quiet steps preserve `IInv`. Dispatch and
cancellation share one lemma about `Issue`. The four action
properties follow from `IInv` and the same classification.

**OutboxProofs.** `OneClaimant` is strengthened by `Working` (a pass at an await
holds its current event), `Held` (a claimed row is locked under the worker id of
its pass and unpublished) and `Counted` (deliveries are covered by attempts, and
an event being marked was delivered). Each step of a pass touches only rows it
holds, so two passes with one worker id cannot release or publish each other's
rows; this is what the shared id in the run looks for. From this
invariant every step of `Outbox` is a step of `AtLeastOnceQueue` or a stutter
(`OutboxIsAtLeastOnce`).

**MissionRequestsProofs.** `IInv` joins to the properties three facts:
`Progressing` (what a request at each await owns and knows), `RecordsAreOwned`
(a record stands for a request with its key and body that is at work or was
answered) and `KeysAreTaken` (who created a mission in this era left its key in
the reducer). The last is why a lost cache makes no second mission: a
retry finds the key taken. `NoSecondMission` would not be inductive without it,
`AnsweredFromOwnRequest` not without the first two. `CacheBounded` needs a lemma
about cardinality and `LiveRecordsStay` follows from the steps.

**PostgresRepositoryProofs.** The invariant follows each open transaction:
`Staged` (a writer past its lock holds it, a reader past its first statement has
a snapshot), `Viewed` (what it has read so far agrees with its base: the
committed tables for a writer, the snapshot for a reader) and `Drafted` (what it
will commit is the reducer's result on that base, with exactly the new events).
The committed tables change only by a commit of the holder of the lock, so no
other writer's base moves. From this, every step is a step of
`DomainRepository` or a stutter (`RepositoryIsAtomic`).
`LoggedEventsAreQueued` needs in addition that a dedupe key identifies
its event (`KeysAreEvents`) and that resets install no events, which
`StateAssumption` states and `createSeededDomainState` meets.

**OperatorConsoleProofs.** `TypeOK` is inductive by itself: what is read, shown
or waited for never runs ahead of the platform (`ConsoleTypes`). So is
`EventsAreFollowedUp`, with the range of `wire`: a commit leaves something to
publish, an event on an open stream is on the wire or has set the timer, and
the timer's refresh catches up (`NoChangeEscapes`). `ActionsShowTheirEffect`
needs `EffectInv`: only one refresh belongs to the action under way, and its
reads, as far as they came, are as new as the action's commit, because both were
sent after the answer. That the buttons are disabled during an action is what
keeps it to one.

**EdgeLinkProofs.** Three invariants, one on top of the other.

- `OneSocket` is what `OneConnection` needs to be inductive. The handlers of
  `client.ts` do not ask whose event they handle, so it has to say that the
  simulator's socket is *exactly* the one with a live end, and that while there is
  one no other socket still owes its close after an error: that close would take
  the current socket away and schedule a second connection
  (`CurrentSocketIsTheOnlyOne`). It rests on the assumption, stated above, that
  an error's close comes before the reconnect delay is over.
- `HeartbeatInv` adds that a stopped simulator has no connecting or open socket,
  so no late `open` sets a timer again (`HeartbeatsBelongToConnections`).
- `ChainInv` follows hellos and disconnects through the wires and the chain.
  Peers are the sockets open at the gateway's end; the *last* event, whether
  still a task or already told, is a hello when a peer's wire is empty and is not
  one when there are no peers. A disconnect is queued only when the last peer
  leaves, so an old connection's late close cannot be the last word over a new
  one's hello (`LastWordIsTrue`, `ServiceIsToldTheTruth`).

`RepositoryClosesLast` has an invariant of its own, `StopInv`: a closing gateway
takes no new task, so what `closeAll` counted is all there is, and the sweep ended
before.

**FleetPlatformProofs.** `PlatformReduces` sorts the steps of the composition by what
they do to the domain's state: a reducer on an input that a queue or a call
carried, one of the two demo writes, or nothing. The lemmas of
`FleetDomainProofs` and `FleetDomainSafety` are therefore stated for every message of
its type and not only for members of the input constants, and `IInv` carries over
(`DomainInvariantsHold`), as do the action properties of the reducers
(`DomainStepsHold`); for a demo write the proof shows that it touches none of what
they speak about. `PlatformInv` adds what calls and queues hold: a call is one of a
few lists of steps, about a command that was issued or a message of its type; a
frame carries at most what the edge has seen by now (`Frames(n)`); a generated id
is one that is not in use, which exists because the ids in use stay finite
(`PlatformInvariance`, `PlatformTypeCorrect`). On top of it:

- `CloudFollowsTheEdge`: frames on their way, handshakes taken up and the
  reducers' maximum never exceed what the edge has seen, and the edge saw only
  envelopes of issued commands. A handshake made up by the demo is the exception
  the property names.
- `MotionNeedsFreshness`: with `LookedInv`, a robot that is ONLINE while a request
  has looked and nothing overtook it is fresh as of the request's time. Ticks do
  not touch it, since a request keeps its time; an evaluation as of a later time
  that still finds the robot fresh finds it fresh as of the earlier one
  (`FreshEarlier`); the first halves of a handshake leave the robot RECONNECTING
  (`ReconnectIsNotOnline`); every other step that writes the robot sets `overtaken`.
- `DispatchesAreNotForgotten`: `AnswerInv` names what will bring the answer to
  each DISPATCHED mission: the platform is disconnected (the next hello
  redelivers), a send or a redelivery is under way, a hello waits in the
  chain, the command is on its way down or its acknowledgement on its way up; or
  its command is in `missed`. An edge answers every command, seen before or not,
  which is why a duplicate is harmless and a loss is visible as a disconnect
  or as a failed call. `missed` is emptied when the pending commands are
  read, because they are then what is redelivered.

*What a proof attempt found.* The freshness property once said that a dispatch
is to a fresh robot or one of whose messages was *taken up* since the request
looked. `LookedInv` was not inductive for it. A handshake is two transactions: it
is taken up, time passes, a request looks and finds the robot stale, and the
second transaction of the handshake puts it ONLINE before the request dispatches.
The property now counts a message when it takes effect, and speaks of motion
commands: the reducer holds them back from a robot that is not ONLINE, but lets a
harmless command of another type pass. Letting time pass inside a request
brought one more way: a sweep that was stamped before the request and evaluates
after its look may find fresh, as of its own time, what the request found stale.

**Model-checked only.** Liveness, because it is outside the prover's reach:
`EveryRowSettles`, `EveryRequestEnds`, `CallsEnd`, `Reconnects`, `ShutdownEnds`,
`DispatchesAreAnswered` and `CatchesUp`. The four violations, which are
counterexamples and have nothing to prove.

## Not modelled

- Protocol validation (`schemas.ts`, `validation.ts`): inputs range over what it
  admits; a payload is valid or not.
- Audit and domain event records as data; metrics, logs, rendering, map views.
- Two creations, cancellations, demo controls or sweeps at once in the service (a
  creation beside each of the others is modelled), and the demo's duplicate
  command, which is a creation. Conversely a request stamped before a crash may
  still begin after it, which is more than the code does.
- In the console's platform every commit is followed by an event. A demo
  disconnect that fails between its two updates publishes none for the first; its
  change is then shown by the next poll.
- The console's texts, map, pose trail and event feed; its form is any request.
- Frames that do not parse or name another robot: they are answered with an error
  and change nothing. HTTP routing, readiness and request validation likewise.
- Two robots on one gateway: peers and chains are per robot and share only the
  closing flag.
- Resolution of preserved edge facts after a rewrite, and row parsing, in the
  Postgres repository; sanitising of error texts in the outbox.
- Migrations, infrastructure, Isaac Sim scripts.

## Plan

Written: the domain, the outbox and its queue, the mission requests, the
repository and its aggregate, the link, the service and the console, each with
its run and with a proof of every safety property its run checks.

Left, in the order of their weight:

1. Refinements of the composition: `FleetPlatform` over the promises of
   `EdgeLink` (a link that tells the truth in order), stated as an abstract link
   both implement.
2. `FleetPlatform` with two missions as a run, so that a cancelled and a new
   mission meet in one redelivery (the theorems cover it, the liveness property
   does not); `EdgeLink` with two robots and one `closeAll`.
3. The reducers' step relation as an abstract specification of a mission's life
   (requested, with the edge, settled), with `FleetDomain` shown to implement it.
