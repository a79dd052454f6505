# Formal model of cleany's mission control

cleany is a mobile manipulator that drives to a seat, clears the desk and drives
home. This directory models the part of it that decides whether the robot may
move, what moves it, and what is told about it: the Mission Runtime with its
ports (`cleany_mission_manager`), the System Supervisor
(`cleany_system_supervisor`), the single-arm executor (`cleany_skill_executor`,
its `manipulation` package) and the control bridge to the Backend
(`cleany_control_bridge`). The modules are checked with TLC; the safety
properties and the refinements of every module are also proved with TLAPS, for
every value of their constants.

Paths below are relative to `src/ros2_ws/src/`.

## 1. Inventory

### Components

| Component | Code | State | Operations |
|---|---|---|---|
| Mission Runtime | `cleany_mission_manager/.../core/runtime.py` | state of the machine, active request, operation id, stop result, flags (cancel, return, revoked, authorised), error code | `offer`, `cancel`, `reset_error`, `safety_fault`, `safety_released`, `supervisor_stop`, `tick`, start |
| Mission journal | `core/journal.py` | SQLite: a row per mission (request, report), metadata (error code, recovery blobs) | `accept`, `finish`, `set`, each its own commit |
| Cleaning tree | `core/cleaning.py` | scene, proposal, records, failures per object, action budget | observe, plan, validate, execute one, observe again, verify, halt, settle |
| Manipulation boundary | `core/manipulation.py`, `adapters/manipulation.py` | goal, outcome, pending futures, persisted blob | start (save, then send), maintain, cancel, lookup |
| Navigation adapters | `adapters/nav2.py`, `core/staged_navigation.py`, `adapters/desk_approach.py` | current operation, goal handle and result, durable goal id | start, poll, cancel, stopped, restart recovery |
| Lease client | `adapters/supervision.py` | epoch, heartbeat, lease id and version, deadline, pending request | acquire, renew, release, abandon, reply, heartbeat, snapshot |
| Execution permission | `cleany_system_supervisor/.../permissions.py` | leases: granted, stopped, stop request, dispatch, restored | `check` (acquire, renew, release), `update`, `prune`, `restore` |
| Supervisor core | `supervisor.py`, `faults.py`, `store.py` | faults, operating state, the persisted copy | `tick`, `check_permission`, `reset_fault`, `_persist`, `_restore` |
| Action transport | `ros_transport.py` | a call per lease or job: running, accepted, result | send, accepted, result, poll, cancel |
| Recovery | `recovery.py`, and the owner `cleany_navigation/.../lifecycle_recovery_node.py` | jobs: attempts, held resource, cancel and verify clocks; the owner's one goal | request, dispatch, cancel, quarantine, verify, execute |
| Health and capabilities | `health.py`, `capabilities.py` | last reports per source, debounce | observe, healthy, operating state |
| Skill executor | `cleany_skill_executor/.../manipulation/` | execution: stage, object, cancellation, pending result; journal in memory and in SQLite; inhibition | accept, cancel, tick (begin, poll, stop, recover, finalize), lookup, restart |
| Control bridge | `cleany_control_bridge/.../node.py`, `session.py` | SQLite outbox: events, applied commands; connection, deferred commands | receive, call the Runtime, observe, record, send, acknowledge, reconnect |

The other packages (coordinators, manipulation tree, logger, teleoperation,
drivers, perception, navigation plugins, simulators, monitors) are listed with
their status in `PROJECT.json`.

### How they interact

* The Backend talks to the control bridge over a WebSocket. The bridge's worker
  calls the services of the Runtime's node, one at a time and with a timeout, to
  offer or cancel a mission and to read a snapshot; events leave through a durable
  outbox and are acknowledged.
* One timer of the Runtime's node calls `tick()`. The timer and the services run
  on one executor thread, so a handler of the Runtime is never interrupted by another.
* The Runtime asks its ports (navigator, perception, planner, executor) to
  start, poll, cancel, and to say whether they have stopped. Answers come later,
  or not at all; an adapter may raise at any call.
* The navigator port is two action clients in sequence; the manipulation port is an
  action client, a lookup service and a cancel service of the executor's process.
* The executor ticks one execution through its stages and asks the arm's adapter
  to begin, poll and stop each of them; it refuses new work (inhibition) while an
  object or a stop is in doubt; nothing in its interface lifts that.
* Before the first motion the Runtime needs a lease of the Supervisor, and it
  asks `authorization()` before every active tick. The lease client talks to the
  Supervisor by asynchronous service calls, heartbeats and snapshots.
* The Supervisor revokes a lease on expiry, an operation lock or a lost
  capability, and then asks the Runtime to stop by the action `mission/stop`
  until a stopped result confirms it. Without one it raises a fault that locks
  operation. Its services, subscriptions and timer hold one lock.
* For some faults the Supervisor asks the owner of a component to reset it, by an
  action, when nothing moves.
* Runtime, Supervisor, executor and bridge each keep part of their state on disk
  (three SQLite databases and an atomically replaced JSON file) and go on from it
  when they are started again; the Supervisor's launch file respawns it.

### What is hard, and what makes it correct

| Component | Hard behaviour | Correct when |
|---|---|---|
| Runtime | stops from four sources in any order, halts that raise, stale feedback, exceptions inside a tick, deadlines that new reasons could renew | one part moves at a time, only under authority; a mission whose authority is lost only stops; every mission ends with one report |
| Journal | a crash between any two commits | an admission is kept, a report is final, an unfinished mission is interrupted once, a fatal outcome keeps its latch |
| Cleaning tree | a halt at any moment, late results, retries and two budgets | the report has every execution once; work starts only on a scene newer than the last action |
| Manipulation boundary | unknown acceptance, results against lookups, restarts of either side | no replay; the base drives only when the arm is home, empty and idle |
| Navigation adapters | cancel before acceptance, between two stages, answers that raise, goals of a former process | "stopped" means that no goal can move the base (but see section 6 for an acknowledged cancel); a cancel takes effect |
| Permission | renewal against revocation, a stop server that is missing, slow or refuses, late confirmations | no second lease while a stop is unconfirmed; a revoked lease stays revoked and is pursued |
| Persistence | failing saves, unreadable files, a crash right after a reply | a lease a client holds is on disk; nothing unverified counts as nothing |
| Lease protocol | lost, late and duplicated replies, two epochs, crashes at both ends | the client never believes longer than the Supervisor grants; motion is always under a lease somebody will confirm |
| Recovery | unconfirmed cancels, timeouts against operator cancels, an owner that is still busy | one owner of the hardware at a time, bounded attempts, every request answered |
| Executor | cancellation between or inside stages and in the recovery, failed writes, progress that never ends | no progress after a cancellation; "stopped" and "safe" are true of the arm; every execution ends |
| Control bridge | calls that time out and are served later, ids offered again with other contents, lost connections, restarts between a call and its record | what is told is so, what is called applied was done |

`PROJECT.json` lists each hazard at its line with the properties that cover it.

## 2. Modules

Abstract specifications say what a component promises in a few lines; the
detailed modules implement them (a `PROPERTY ContractIsKept` through
`INSTANCE ... WITH`).

| Module | Models |
|---|---|
| `MissionRuntime` | the Runtime and its journal, with its ports as surroundings |
| `MissionRuntimeProof` | theorems about `MissionRuntime` |
| `LeaseContract` | what the Supervisor promises about leases |
| `MissionPermission` | leases, stop faults, state fault, persistence and restart of the Supervisor; implements `LeaseContract` |
| `MissionPermissionProof` | theorems about `MissionPermission` |
| `LeaseProtocol` | lease client, wire, Supervisor (`MissionPermission` by INSTANCE), stop action and the moving robot together |
| `LeaseProtocolProof` | theorems about `LeaseProtocol` |
| `ExecutionContract` | what the executor promises about every execution |
| `ExecutionCore` | the executor, its journal, its action server and the arm; implements `ExecutionContract` |
| `ExecutionCoreProof` | theorems about `ExecutionCore` |
| `ManipulationBoundary` | the Runtime's manipulation port composed with `ExecutionContract` |
| `Navigator` | both navigation clients and their composition, with their servers and the base |
| `NavigatorProof` | theorems about `Navigator` |
| `CleaningTree` | the desk tree inside a mission |
| `DeskProof` | theorems about `ManipulationBoundary` and about `CleaningTree`, which uses it |
| `RecoveryContract` | what the Supervisor promises about the resets it asks for |
| `Recovery` | the recovery coordinator, its calls, the operator and the owner; implements `RecoveryContract` |
| `RecoveryProof` | theorems about `Recovery` |
| `BridgeContract` | what the bridge promises to the Backend |
| `ControlBridge` | the bridge's worker and outbox against the Runtime's services; implements `BridgeContract` |
| `ControlBridgeProof` | theorems about `ControlBridge` |
| `MCMissionRuntime`, `MCMissionPermission`, `MCLeaseProtocol`, `MCControlBridge` | instances for TLC (configurations, symmetry); the other modules are instantiated by their `.cfg` alone |

### `MissionRuntime`

The variables carry the names of the fields (`state`, `request`, `stopResult`,
`returnAfterCancel`, `revoked`, `errorCode`, ...). `op` says whether
`operation_id` is set, `tree` whether a `CleaningTree` exists, `elapsed` is
`clock() - started_at` and saturates at `Horizon`. `journal` and `savedError` are
the durable rows. `nav` and `desk` are the physical parts: they stay as they are
through a crash and through a halt that raised. `lease` is the client's answer.
`unacknowledged` and `stopAsked` (the Supervisor's stop of the active mission was
accepted, whatever it did) are history that only properties read.

Each request is one action and `tick()` is one action per state of the machine
(`TickStartDrive`, `TickArrived`, `TickWork`, `TickStopped`, ...), with
`TickRaises` for an adapter exception inside it. `_begin_stop` and `_finish` are
operators that the handlers use, as in the code. `_finish` and `__init__` make
two commits each; the phases `closing` and `booting` stand between them, so that
`Crash` can fall there. `config` is chosen anew at every start, because the node
reads its parameters then.

Abstracted: the content of missions, messages and scenes; failure codes the
Runtime never branches on (`"FAILURE"`); `PARTIAL_SUCCESS` is counted as
`SUCCESS`; the cleaning tree is a sequence of desk operations that end, time out
or fail (its inside is `CleaningTree`); rejected requests and replays of known
missions change nothing and are no step. A port's `stopped()` is truthful but may
be late (`fresh`): `Navigator` and `ManipulationBoundary` are about that. For the
drive client there is one exception, a goal of a former process whose cancel was only
acknowledged (section 6); until that goal is terminal, what is shown here of the base
does not hold.

### `MissionPermission`

The process and its file are one record `sup`; every handler is a composition of
operators on it in the order of the code: `check_permission` is
`Ticked`, the decision, `Granted`, `Persist`, `Withdrawn`. A lease is `free`
before its id is drawn, `granted`, `revoked` (neither granted nor stopped),
`stopped`, and `gone` once pruned or forgotten. `left` and `waited` are
`expires_at - now` and `now - stop_requested_at`. Health, the presence of the stop
server, the success of a save and the age of ended leases are inputs of each
handler. A crash keeps the file; a start reads it, or fails to and raises the
state fault. A request that is denied is its tick and nothing else. The Runtime's
answer to the stop goal is any of the answers `ActionCalls` can record, in an
order that the action protocol allows.

### `LeaseProtocol`

`cl` is the record of `RosSupervision`'s fields, with `fresh` and `left` as the
time until the heartbeat is stale and the lease's deadline is over. Requests lie
on the wire in slots until they are served or lost; the one reply a client waits
for may come at any time or never, and the client gives it up after
`RequestTimeout`. The Supervisor's steps are those of `MissionPermission`, with a
file that can be read and written. `mover` is the mission whose motion the robot
executes: it begins while the Runtime moves, and outlives the Runtime.

Abstracted: an acquire that finds no lease id left is denied; both clocks run at
one rate; the operating state and the capability list, which only refuse
admissions, are the environment's choice; lease versions are one to one with ids.

### `ExecutionCore` and `ManipulationBoundary`

`core` has the fields of the current execution (`stage`, `object`, `mode`,
`result`, `pending`, ...), `known` is the journal in memory and `durable` the
database; a write may fail, and then only memory has the record. `tick()` is one
action per branch, in the code's order of precedence (`TickFault`, `TickCancel`,
`TickBegin`, `TickProgress`, `TickEvidence`, `TickOverdue`, `TickStopping`,
`TickRaises`, `TickCloses`). The arm's adapter answers late, wrongly or not at all;
what it claims of the arm and of the object is so, and the evidence of a placement may
be incomplete. A plain cancel may fall between the acceptance of a goal and
`_accepted`, when there is no handle yet; the goal's transition to canceling then waits
for it. `arm` and `hand` are physical and move on by themselves.

Abstracted: the mode service's forward to the action server and the cancel callback it
leads to are one step; substages, messages and published events.

`ManipulationBoundary` does not contain that machine but its contract: the
executor's steps are those of `ExecutionContract`, which `ExecutionCore` is
proved to implement. The two modules compose by assumption and guarantee: the
contract promises a clear arm after a "safe" end only if the arm was clear at the
start (`clean`), and the boundary's `EveryStartIsClean` shows that it always was.
Futures of the port are `None`, pending, expired (older than a second) or
answered. Goals and cancel requests on the wire may be lost.

### `Navigator`

`port["nav"]` and `port["desk"]` are `Nav2Navigator` and `DeskApproachPort`,
`stage` is `StagedNavigator`. A server knows of every goal whether it was sent,
runs, is canceling or is terminal; a goal that is canceling still drives the base.
Acceptance and results are callbacks at any
later time, and may raise. After a crash the clients cancel the goals their
journal has before they call themselves stopped; `acknowledged` is history: the goals
that a client gave up on an accepted cancel.

### `CleaningTree`

A tick runs from the answer a leaf waited for to the next leaf that waits, with
all checks in between. The Runtime may halt the tree between any two ticks, waits
while late outcomes are still settled, and reports at the stop or at its timeout.

Abstracted: scene ids are numbers in the order of acceptance, and a scene is fresh when
its id is new; the comparison of `captured_at` with the clock (`cleaning.py:174-175`) is
left out, so a new id on an old picture is not told apart.

### `Recovery`

A job holds the resource in the phases `reset`, `cancel` (the call was asked to
end and has not confirmed it: the quarantine) and `verify`. `goal` is the goal of
the last attempt at the client and at the owner, which serves one goal at a time
for all components and outlives a restart of the Supervisor (`orphan`).

Abstracted: one severity and one policy for all faults; the two lifecycle
commands of a reset are one; a goal on its way at a restart is taken or lost; the
times of jobs that are over; `prune`, which changes nothing that is read again.

### `ControlBridge`

`state` and `admitted` are what the Runtime's journal and snapshot show of a mission:
where it is, and with which contents it was admitted. An offer of a known id with other
contents is refused (`DecideOffer`, `runtime.py:117-120`), for a mission that runs as
for one that is over. `told`, `pending` and `applied` are the outbox tables. `call` is the call the
worker waits for, with the answer and, for a snapshot, what the Runtime showed when
it was served (`seen`). A call that times out moves to `late` and may be served
twice or never. The Backend repeats commands at will, with the same event id.

A refusal is the event `mission.rejected` whatever its reason (`node.py:104-105`); the
kinds `"rejected"` and `"conflict"` separate it by the reason in its message. A conflict
is told of a mission that runs or is over: `mission.md:18` announces it, and it says
nothing of the mission that has the id. The contract therefore lets a conflict come at
any time, and every other event only in its turn. An event that is told once more (a
phase that returned, a refusal of a repeated offer) enters `pending` again; `told`
keeps what was told ever.

Abstracted: `"working"` and `"cancelling"` collapse the phases of `MissionRuntime`;
heartbeats, other payloads and sequence numbers; the bound of 100 reports in a
snapshot; an offer of a known id with blank fields is one with other contents.

## 3. Runs

| Run | Instance | States | Shows |
|---|---|---|---|
| `runtime` | 2 missions, all 4 configurations, budgets 2/1/2/1, horizon 2 | 740 k | all safety and action properties of the Runtime, `MissionEnds` |
| `permission_safety` | 2 missions, 2 leases, one restart, lease and stop time 1 | 76 k | safety of the permission, and `LeaseContract` |
| `permission_stop` | 1 mission, 1 lease, two restarts, lease and stop time 2 | 7 k | `StopIsPursued` |
| `lease_protocol` | 2 missions, 2 leases, lease time 2, other times 1, one slot, one restart of the Supervisor, any number of the Runtime | 1.4 M | `MotionIsCovered`, `ClientWithinSupervisor` |
| `executor` | 2 executions, timeouts 2 | 376 k | `ExecutionContract`, no progress after a cancel, `ExecutionEnds` |
| `boundary` | 2 executions | 131 k | the drive gate, clean starts, `CancelReaches` |
| `navigator` | 3 goals | 133 k | what stopped and cancelled mean, `CancelTakesEffect` |
| `cleaning` | 2 objects, 3 actions, 1 retry, 4 observations | 218 k | report, fresh scenes, done means clean |
| `recovery` | 2 faults (one latched and automatic, one requested), 2 attempts, timeouts 1, total 2, one restart | 145 k | `RecoveryContract`, `RequestIsAnswered` |
| `bridge` | 1 mission, 2 contents, 1 deferred command, restarts of both processes unbounded | 1.9 M | `BridgeContract` |
| `runtime_crash_latch`, `runtime_stop_ignored` | minimal | | disagreements of code and documents, section 6 |

### Bounds, and why they are enough

* Two missions: one whose report is committed and one that runs after it or is
  unfinished at a restart. A mission id is used once, so two missions bound the
  number of admissions; the properties relate at most two rows.
* Budgets of one or two units of the clock: each budget is only compared with
  an elapsed time, so what matters is whether it is reached before, with or after
  another event, and each of these happens.
* Crashes of the Runtime, of the executor and of the bridge are unbounded. Crashes
  of the Supervisor are bounded by `MaxEpoch` and `MaxRestarts`: a restart forgets
  everything but the file, so a second one differs from the first only in what the
  file holds, which the runs reach with one.
* Two leases suffice for two missions and for a second lease of one mission.
  Leases interact only through the locks and the mission id. `permission_stop`
  uses one lease, because the stop of a lease reads nothing of another but the lock.
* `lease_protocol`: one request on the wire besides the reply that is waited for.
  The client has at most one call pending; the slot is free for the next request
  only when the last one was served or lost, and a request that finds none is lost.
  A lease lives two units, so that a renewal can come with time left.
* `executor`: a second execution starts with what the first left (the arm, the
  inhibition, the journal). `boundary`: likewise, an execution of a former process
  and the current one.
* `navigator`: a drive, an approach and one goal of the next operation.
* `cleaning`: three actions allow a failure, its retry and an action on the other
  object, with an observation before and after each.
* `recovery`: the resource is one, so two jobs are enough to compete for it.
* `bridge`: missions share only the worker, which serves one call at a time, and
  the limit of deferred commands. Contents are only compared for equality, so two
  suffice: the admitted ones and others.
* What section 5 proves needs none of these bounds: the theorems hold for any number
  of missions, leases, executions, goals, faults, slots and restarts and for any
  budget.
* Symmetry (missions, lease ids, contents) is used in runs of safety properties only.

Only `cleaning` disables the deadlock check: its mission ends. Elsewhere feedback
may always change or a process may always tick or restart. After the last allowed
start the Supervisor can no longer crash.

### Fairness

`MissionRuntime`: weak fairness of `Due`, the ticks that need no answer of a port
(start, timeouts, stopped, revoked), of `FinishCommit` (the rest of a running
handler) and of `Elapse` (the clock). The node's timer justifies it: while such a
tick stays enabled, the next tick takes it. The ticks that carry a result
(`TickDriveFailed`, `TickArrived`, `TickWork`) and `TickRaises` are not fair, since
`poll()` may return nothing for ever; nor are the ports, the feedback, the
Supervisor, the operators and the restart. `MissionEnds` is therefore a claim about
the Runtime's own budgets.

`MissionPermission`: weak fairness of `Elapse` and of a `Tick` that is `Due`, that
is, that changes something under every input. Fairness of `Tick` alone would let
TLC assume that the stop server is found in the end, because a tick that does not
find it may change nothing. No answer of the stop server and no restart is fair.
`StopIsPursued` excepts a process that is down.

`ExecutionCore`: the timer's ticks that need no answer of the arm (`TickDue`), the
clock, and the transitions of the action server that follow a callback. No stage
and no stop ever has to answer.

`ManipulationBoundary`: `maintain` is called by every tick, calls expire with time,
and a cancel request that is sent again and again arrives in the end (strong
fairness, the only one: the port repeats it every second while the execution is
open). Goals, results and lookups may be lost for ever.

`Navigator`: callbacks are delivered and requests arrive (reliable action
transport on one machine). No goal has to end.

`Recovery`: ticks that are `Due` (as above), the clock, and woken service requests.
The owner and the sensors owe nothing.

`LeaseProtocol`, `CleaningTree` and `ControlBridge` are checked for safety only
and assume no fairness.

## 4. Properties

* `MissionRuntime`: `JournalMatchesRequest` (the unfinished row is the running
  mission), `BaseOrArm` (base and arm never move together, restarts and failed halts
  included), `StopLeavesOnlyTheReturn` (a revoked or faulted mission only stops; once
  the Supervisor's stop was accepted, all that may follow is the drive home of a mission
  that was being cancelled already), `ReturnedLeaseIsStill`,
  `MotionNeedsAuthority`, `JournalIsMonotone`, `UnreviewedMeansStill` (no human
  review means that all stood still), `LostAuthorityIsReported`, `MissionEnds`.
* `MissionPermission`: `WriteAhead`, `StopFaultResolvable` (every stop fault has a
  lease that can still confirm it), `ContractIsKept` (nothing revoked is granted
  again, a mission has one unconfirmed lease, a lease a client holds is accounted
  for through a restart), `StopFaultNeedsConfirmation`, `StopIsPursued`.
* `LeaseProtocol`: `MotionIsCovered` (while a motion of a mission goes on, the
  Supervisor has an unconfirmed lease of it in memory and on disk),
  `ClientWithinSupervisor` (a lease the client acts on ends no later here than there).
* `ExecutionCore`: `ContractIsKept`, `CancelStopsProgress`, `ExecutionEnds`.
* `ManipulationBoundary`: `DriveGateIsTrue` (the base may drive only with an arm that
  is home, empty, idle and about to stay so), `EveryStartIsClean`, `CancelReaches`.
* `Navigator`: `StoppedLeavesOnlyAcknowledged` (while `stopped()` holds, a goal on its
  way, canceling ones included, is one of a former process that its server accepted to
  cancel), `CancelledSendsNothing`, `CancelTakesEffect`.
* `CleaningTree`: `ReportIsComplete` (every execution once, late ones included),
  `StartsOnFreshScene`, `DoneMeansClean`; `TreeTypeOK` has the two budgets.
* `Recovery`: `ContractIsKept` (one reset at a time, bounded attempts, none after a
  cancellation), `RequestIsAnswered`.
* `ControlBridge`: `ContractIsKept` (an event is true when it is told and comes in its
  turn, acceptance and outcome once; an applied offer is the admitted one or was
  refused, an applied cancellation stops; an outcome the Backend knows is final).
* Violated, see section 6: `FatalOutcomeLatches`, `StopIsObeyed`.

Each property is listed with a mutant: an operator of the same module that
changes one definition the way a plausible mistake in the code would, under which
TLC finds the property violated.

## 5. Proofs

### `MissionRuntimeProof`

For every set of missions, every set of configurations and all budgets within
`Horizon` (assumption `RuntimeAssumption`, the only one), `Spec` implies each
safety and action property of `runtime`.

`BaseOrArm` alone is not inductive: `TickWork` starts the desk while the base is
assumed idle, which only the state of the machine tells. The invariant is

    Inv == TypeOK /\ RunInv /\ JournalInv /\ BodyInv /\ RevokedInv /\ LeaseInv

* `RunInv`: an active or cancelling state has a request and no other state has.
* `JournalInv`: the journal agrees with the request, also between two commits.
* `BodyInv`: while driving or after the work the desk is idle; while working the
  base is idle. It holds because a state is entered only after `stopped()`.
* `RevokedInv`: `StopLeavesOnlyTheReturn` itself, and what makes it inductive: only a
  cancelled mission wants to return, an active state does not, and the result of a
  revoked mission is BLOCKED or worse.
* `LeaseInv`: with a returned lease nothing moves and the mission is over.

The proof has one lemma per part (`RunInvStep`, `JournalInvStep`, ...), each with
one step per action; `BeginStopEffect`, `StopEffect`, `FinishEffect` and
`ReportEffect` say once what the two helpers of the code do. The action
properties follow from `Inv` by `MotionLemma`, `JournalLemma`, `UnreviewedLemma`
and `LostAuthorityLemma`.

### `ControlBridgeProof`

For every set of missions, of contents and every limit of deferred commands (assumptions
`DeferredAssumption`, and `NoneAssumption`: `None` is no contents and no answer), `Spec`
implies `TypeOK` and implements `BridgeContract`. What the bridge tells is decided
on an answer that may be old, so the refinement needs an invariant that says for
how long an answer stays true:

    Inv == TypeOK /\ IsFiniteSet(deferred) /\ AdmitInv
           /\ ToldInv /\ SeenInv /\ OfferInv /\ CommandInv /\ KnownInv

* `AdmitInv`: the Runtime has contents of exactly the missions it knows.
* `ToldInv`: the outbox is true of the Runtime now. Missions only move onward
  (`StateMoves`), so an accepted mission stays known and an outcome stays final.
* `SeenInv`: what a served snapshot shows has not been undone, and no outcome was told
  of a mission that it shows active.
* `OfferInv`: a rejection that was served stays true until it is told. This is the
  step that could fail: a given-up offer of the same mission, served later, would
  accept it. Calls of one service are served in order, so none is left behind a
  served one. A conflict needs no such argument: a known mission stays known, with the
  contents it was admitted with.
* `CommandInv`: a cancellation that was answered is being done, and a command that
  only waits for its snapshot has been decided; `KnownInv`: the Backend acknowledges,
  and a snapshot repeats, only outcomes that are in the outbox.

`InvStep` has one lemma per part; `TruthIsTold`, `ApplicableStep` and the lemmas
before them give the steps of the contract.

### `MissionPermissionProof`

For every set of leases and missions, every number of restarts and every stop time
(`PermissionAssumption`), `Spec` implies `TypeOK`, `WriteAhead`,
`StopFaultResolvable` and `StopFaultNeedsConfirmation`, and implements
`LeaseContract`. `WriteAhead` is not inductive: what a restart makes of the file
must be right again, so the file needs an invariant of its own. `Inv` bounds `epoch`
and says that `sup` is `Good` for the leases in `handed`:

* `MemoryInv`: unconfirmed leases have missions, no two the same, and every stop
  fault has its revoked lease.
* `FileInv`, `IssuedInv`: the same of the file, whose leases were all issued. A failed
  save leaves an old file, which is still good by itself.
* `HandedInv`: an unconfirmed lease that a client was given is in the file under its
  mission. `check_permission` withdraws a grant whose save failed; without that the
  step would not go through.

The handlers compose operators on one record, and so does the proof: a lemma per
operator (`UpdatedEffect`, `UpdateEffect`, ...) says what it may do to a lease
(`Onward`), to the record (`Kept`) and to the file (`Written`), and a handler is a
chain of them (`Served`). The steps of the contract follow from the same facts.

### `LeaseProtocolProof`

For every set of missions and leases, every number of slots, epochs and time units
(`ProtocolAssumption`: times are positive, and a request is given up before a lease
could be over: 1.0 s against 1.5 s in the parameters), `Spec` implies
`TypeOK`, `MotionIsCovered` and `ClientWithinSupervisor`. Both properties relate ends
that never see each other, so the invariant follows a lease through the wire:

    Inv == TypeOK /\ LeaseInv /\ DiskInv /\ RuntimeInv /\ EpochInv
           /\ ClientInv /\ RequestInv /\ MotionInv

* `LeaseInv`: a lease is issued once, to a mission the Runtime has admitted; if it can
  be confirmed (a stopped result is on its way or has arrived) its mission is over. This is the centre of the argument: a lease ends only when its mission is
  over, so no moving mission loses its lease.
* `DiskInv`: the file has what the memory has, so a restart forgets no lease.
* `ClientInv`: what the client holds, or what the reply it waits for will give it, is
  an unconfirmed lease of its mission, with no more time than the Supervisor has
  left for it (`Held`). A reply's time counts from the request (`LeaseTime -
  cl.waited`), which is why a late one is harmless.
* `RequestInv`: a renewal or release on the wire names a lease of its mission, and a
  release is of a mission that is over, however late it is served.
* `EpochInv`: nobody knows an epoch to come; `RuntimeInv`, `MotionInv`: the client asks
  for the mission that runs, and a motion has a lease.

`Frame` says that when each lease only moves onward, `LeaseInv` is kept and the leases of
missions that are not over last; `QuietStep` (the Supervisor, the stop action, the
robot), `ClientStep`, `GoingStep` and `LeftStep` (client and Runtime) turn it into `Inv'`. The invariant was first checked with TLC on
the instance of `lease_protocol`.

### `ExecutionCoreProof`

For every set of executions and every timeout (`TimeoutAssumption`,
`NoneAssumption`), `Spec` implies `TypeOK` and `CancelStopsProgress` and implements
`ExecutionContract`. What a journal record promises of the arm must follow from what
the core believes, so the invariant says that its beliefs are so:

* `CoreInv`: an execution without a result either runs a stage or has its next one; a
  running stop knows the result it will end with, a recovery has the cancellation that
  asked for it, and a stage fits what is known of the object (`Fits`).
* `BodyInv`: a core that has seen the stop has an arm that stands, one that has
  recovered has it at home; a core whose object is loose and that met no fault has an
  empty hand and no atomic stage in the arm.
* `JournalInv`: memory has what the core is, and the database what memory has or less,
  never an end that memory does not have.
* a transition of the action server belongs to a cancelled goal, which may have no
  handle yet, and a process that is down has no core.

Every branch of `tick()` is a lemma about the core it returns; whether the write that
follows succeeds is one lemma for all of them.

### `DeskProof`: the manipulation boundary

For every set of executions and both values of `InitialSafe` (`NoneAssumption`,
`InitialSafeAssumption`), `Spec` implies `TypeOK`, `DriveGateIsTrue` and
`EveryStartIsClean`. The gate reads the port, the port was loaded from the journal,
and the arm belongs to the executor:

* `SentInv`: only the saved execution without an outcome runs or is on its way. The
  port saves before it sends and never sends again, and nothing is replayed.
* `JournalInv`: without a saved goal the arm is clear, and a saved or recorded end is
  over and true of the arm (`Over`).
* while the process is up, the port agrees with its journal and the answers it has
  received are true (`Saved`), or its goal was never sent because the save failed
  (`Unsaved`).

With `ExecutorKeepsContract` the argument by assumption and guarantee is two
theorems: here `clean` is an invariant under the steps of the contract, and there the
contract is kept by the executor.

### `DeskProof`: the cleaning tree

For every set of objects, every policy and every number of observations
(`PolicyAssumption`, and `NothingAssumption`: `Nothing` is no execution, outcome or
leaf), `TreeSpec` implies `TreeTypeOK`, `ReportIsComplete`, `DoneMeansClean` and
`StartsOnFreshScene`. The budgets in `TreeTypeOK` are the first thing that is not
inductive: a second failure beyond the limit is excluded only because the tree that
has exhausted an object stops after its next observation. The invariant is

    TreeInv == TreeTypeOK /\ ContextInv /\ LeafInv /\ WorkInv /\ ReportInv

* `ContextInv`: records are what the executor answered, no execution has two, and an
  unsafe one asks for a review (`Faithful`); executions are numbered by the actions
  taken; while the tree need not stop, no object is exhausted.
* `LeafInv`: the leaf has consumed its execution exactly when a record has it. An
  execution that it has not consumed is the one the tree waits for, or waited for when
  it was halted, on the current scene.
* `WorkInv`: while the tree works, its records are of older scenes than the one it
  plans on (or of the current one, when it observes again), and none of them should
  have ended it.
* `ReportInv`: a report is faithful, and one of a confirmed stop is the whole context,
  with nothing pending.

`SettledEffect` is the step that both the leaf and `settle` make of an outcome; it is
why an outcome that arrives before, at or after a halt is recorded once. TLC checked
`TreeInv` on the instance of `cleaning` first. The names of `CleaningTree`'s
specification begin with `Tree`, so that one module can extend both it and the
boundary.

### `NavigatorProof`

For every number of goals (`MaxGoalAssumption`, `NoneAssumption`), `Spec` implies
`TypeOK`, `StoppedLeavesOnlyAcknowledged` and `CancelledSendsNothing`. The invariant adds
to the types: ids are issued in order (`IdInv`); a process that still cancels former
goals, or is down, has no operation (`RecoveryInv`); a recovery ends on an answer that
is true of its goal, where an accepted cancel only says that the goal is canceling or
terminal (`AnswerInv`, `IsTrue`); and a goal that is on its way and was not given up on
an accepted cancel (`Busy`) is in the journal of a client which, while the process is up,
works on it or recovers it (`GoalInv`). The last is what "stopped" rests on after a
crash: a process that starts finds every goal that may move the base, but those.

### `RecoveryProof`

For every set of faults and policies, every number of attempts and restarts and all
timeouts (`FaultAssumption`, `RecoveryTimeAssumption`), `Spec` implies `TypeOK` and
implements `RecoveryContract`. A goal that the owner has must be of the job that holds
the resource, across quarantine, cancellation and restart: `JobInv` and `GoalInv` say it
of each job, and `Inv` adds that at most one job holds the resource and that a job in
progress has an active fault. The proof has one lemma per operator on a job.

### What is only model-checked

Liveness, fairness and whatever is about `ENABLED`, outside of what the prover can do:
`MissionEnds`, `StopIsPursued`, `ExecutionEnds`, `CancelReaches`,
`CancelTakesEffect`, `RequestIsAnswered`.

## 6. Where code and documents disagree

Two runs end with a violated property, and TLC prints the trace; the quoted lines are
in `PROJECT.json`.

* `runtime_crash_latch`, `FatalOutcomeLatches`: `_finish` and `__init__` commit the
  report before the error code; a crash between them starts IDLE after a fatal outcome.
* `runtime_stop_ignored`, `StopIsObeyed`: a Supervisor stop accepted in CANCELLING does
  nothing (`runtime.py:219`), so `return_after_cancel` stays set and the base drives home
  (`mission.md:119`, `:116`). The window is the time in which the client still believes
  its lease: once it has noticed the loss, no return begins and one in progress stops.
  What the code does guarantee is `StopLeavesOnlyTheReturn`.

Met while modelling, without a run of their own:

* After a restart `nav2.py:138` forgets the saved goal on the acknowledged cancel and
  stopped odometry, though the goal need not be terminal (`mission.md:132`: no
  transition to IDLE on an ACK alone; `desk_approach.py:39` waits for more). TLC shows
  that such a goal may still drive the base: the invariant "stopped means that no goal
  is on its way" fails with one goal and one restart. What the code does guarantee is
  `StoppedLeavesOnlyAcknowledged`, which names this exception.
* A tick that raises replaces `E_STOP` by `UNKNOWN_ERROR`, which an operator can
  reset without the safety owner's release (`runtime.py:243`).
* A safety latch that was saved without a Supervisor can be lifted by nothing once
  the node is started with one (`runtime.py:171`).
* A lease is granted by the handler whose own tick found the state file unwritable
  (`supervisor.py:178`).
* A quarantined recovery that the owner reports FAILED returns to IDLE and is
  dispatched again on a late terminal result (`recovery.py:43`, `:85`). The owner's own
  call timeout (`lifecycle_recovery_node.py:61`) reports FAILED while the lifecycle
  manager may still work, against the comment at `recovery.py:89`.
* A cancel that reaches a job which has just SUCCEEDED makes it CANCELED; a start that
  fails consumes an attempt per tick (`recovery.py`).
* A cleaning outcome that arrives after the stop timed out is settled in ERROR but
  never in the report (`cleaning.py:153`). This is why `ReportIsComplete` says less of
  such a report.
* `retryable` is set by the single-arm executor only for BLOCKED, so the tree's retry
  after FAILED occurs only with the local mock executor.
* A cancel that the Runtime refuses (`NO_ACTIVE_MISSION`) raises in the bridge and ends
  the connection before pending events are sent; a Backend that repeats it right after
  every snapshot starves its events. Outcomes still arrive by the snapshot, which
  holds the last 100 reports.

## 7. Not modelled, and the plan

Next, in this order:

1. The manipulation behaviour tree and the coordinators' sequence above the MoveIt
   adapter (failure, recovery and stop ordering inside one execution).
2. Teleoperation: controller ownership of the web control, the MCU's watchdog.
3. Health debounce and capability table; the logger's recording states.

Left out of modelled components: ROS wiring, message conversion and parameter
parsing of the nodes; execution profiles and the status sequence of the journal;
audit events; poses, lifecycle queries and the measured arrival of navigation;
progress texts, substage names and event publishing of the executor; liveness of
the bridge, whose state graph with fairness is too large for TLC.

Not planned: numerical code (odometry, perception, grasping, planners,
calibration), the motion planning of the arm, drivers and serial I/O, vendored
plugins, simulators, displays, benchmark and launch files. They hold most of the
repository's lines, and what they compute has no finite model; where their answers
matter they are the environment's choice in the modules above.

## 8. Running

    tlc -workers 2 -config runtime.cfg MCMissionRuntime      (also runtime_crash_latch, runtime_stop_ignored)
    tlc -workers 2 -config permission_safety.cfg MCMissionPermission   (also permission_stop)
    tlc -workers 2 -config lease_protocol.cfg MCLeaseProtocol
    tlc -workers 2 -config executor.cfg ExecutionCore
    tlc -workers 2 -config boundary.cfg ManipulationBoundary
    tlc -workers 2 -config navigator.cfg Navigator
    tlc -workers 2 -config cleaning.cfg CleaningTree
    tlc -workers 2 -config recovery.cfg Recovery
    tlc -workers 2 -config bridge.cfg MCControlBridge
    tlapm MissionRuntimeProof.tla
    tlapm ControlBridgeProof.tla
    tlapm MissionPermissionProof.tla
    tlapm LeaseProtocolProof.tla
    tlapm ExecutionCoreProof.tla
    tlapm DeskProof.tla
    tlapm NavigatorProof.tla
    tlapm RecoveryProof.tla
