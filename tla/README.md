# hop: a TLA+ verification project

hop is a cluster scheduler: agents run jobs (processes, containers, HopOS
applications), one of them leads, and the leader keeps every job at its count.
This directory holds TLA+ modules of the parts of hop whose difficulty is in the
order in which things happen, TLC configurations that check them on small
instances, and proofs, checked by TLAPS, of what holds for instances of any size.

Paths below are those of the repository.

## 1. The system

Every node runs an **agent**. Agents find a leader through a **lease** kept in a
lock store (`internal/discovery`); the holder of the lease starts a **leader**
next to its agent (`internal/agentloop/becomeleader.go`). Clients talk to the
leader's HTTP API; the leader talks to the agents' HTTP API; agents register,
send heartbeats and notify. There is no consensus protocol: what keeps the cluster
together is the lease, the leader's books, which every agent's registration
corrects, and a reconciliation that repairs what is missing.

Two things make it hard. Both the agent and the leader keep their maps in one
goroutine (the *state loop*) and every other goroutine works on them through
`do`/`query`, one operation at a time: each operation is atomic, and *nothing* that
takes two is. And between two operations there are calls that take seconds to
minutes: `/run`, `/stop`, a download, a kill with its grace period.

### Inventory

| Component | State | Operations | Talks to | Hard because | Correct when |
|---|---|---|---|---|---|
| Agent: life of a task (`internal/agent`) | jobs, tasks with state and restart count | `/run` (also `?replace=1`), `/stop`, `/stop-task`, `/delete`, start, restart, monitor, shutdown | runner, leader (`/v1/notify`) | a start takes minutes and holds pointers; stops, deletes and restarts cross it | no process without an owner; GONE is final; a crash restarts once; the budget holds; claims are carried out |
| Agent: admission | the task map is the reservation | check and add in one operation | task map | replaces, sharegroups, block rounding, restarts that change the definition | the sum never exceeds the node |
| Agent: health checks | failure counts | probe, threshold, restart | runner | races with restarts | no restart of a task already replaced |
| Agent: flip and handoff | snapshot of tasks | snapshot, restore, adopt | runner | goroutines in flight are lost | every running task adopted once |
| Agent loop | registered, failure count, leading or not | Tick: claim, renew, register, heartbeat, step down, isolate | discovery, leader | slow leader, unreachable store | one leader per lease; an isolated node stops its tasks |
| Discovery | the lease, its cached holder | claim, renew, release, read | lock store (external) | conditional writes, expiry | at most one holder |
| Leader: dispatch and reconciliation (`internal/leader`) | agents, placed, dispatching, settled, tombstones, round robin | dispatch, reconcile, preempt, count, trim, hand-back, delete | agents, JobStore | many goroutines, each of many operations, with HTTP calls in between | books match reality; flags exclude and are cleared; jobs reach their count; deleted jobs stop |
| Leader: updates | the dispatching flag as a lock | rolling, recreate, blue-green | dispatch | fails half-way; agents die | old or new runs, never neither or both |
| Leader: committed state | dirty mark, snapshot in a store | save loop, load, seed | store | crash between change and save; load that fails | a new leader knows what the old one promised |
| Leader: event bus | one-slot channels | subscribe, notify | API streams | slow readers | the last event arrives |
| Leader: API (`internal/api`) | none | handlers | all of the leader | - | - |
| Runner: exec | processes, task directories, their binds | Run, Stop, Status | OS | Stop against Run, cleanups against each other, process groups that outlive their leader | what is up can be stopped; no cleanup reaches the host's files |
| Runner: HopOS | slots, plumbing of starts, quarantine | allocate, Run, Stop, adopt | HopOS node | release not confirmed, Stop against a download, flips | a cage has one owner and runs its app |
| Runner: docker | none; the daemon's containers | pull, create, start, stop, rm, logs | docker daemon | calls that are given up and still carried out | nothing of a task is left |
| Runner: logs | last lines, subscribers, retention | write, subscribe, retire | API streams | slow readers, closing | writers never block; a reader gets the log in order |
| Runner: downloads, archives | - | I/O | HTTP, S3 | - | - |
| Transport, configuration, boot, CLI, usage | - | I/O and parsing | - | - | - |

`PROJECT.json` lists the same components with what is modelled of each, and, under
`hazards`, what can go wrong in each of them and a unit test would hardly reach.

## 2. Modules

| Module | Models | Proofs | TLC instance |
|---|---|---|---|
| `AgentTasks` | the tasks of one agent: start, restart, stop, delete, replace, monitor, shutdown | `AgentTasksProofs` | `MCAgentTasks` |
| `LeaderDispatch` | the leader's books and everything that changes them, with the agents as the leader can see them | `LeaderDispatchProofs` | `MCLeaderDispatch` |
| `Update` | an update of a job that runs, by each policy, beside what else works on the job | `UpdateProofs` | `MCUpdate` |
| `Lease` | the abstract lease: what a claim to lead is worth | | |
| `Election` | agent loop and discovery over a lock store and failing links; implements `Lease` | `ElectionProofs` | `MCElection` |
| `Persist` | the committed state over any number of leaders, with a remote store or a file | `PersistProofs` | `MCPersist` |
| `HopSlots` | the HopOS driver and the handoff of a kernel flip | `HopSlotsProofs` | `MCHopSlots` |
| `TaskLog` | the log of a task and a client that follows it | `TaskLogProofs` | (part of `HostRunners`) |
| `HostRunners` | the exec and docker drivers, with `TaskLog` | `HostRunnersProofs` | `MCHostRunners` |

The modules cut the system where its code is cut. `AgentTasks` decides *that* a
process is run or stopped, with the runner abstracted to what `Run` and `Stop` can come
to; `HopSlots` and `HostRunners` are the runners, with the agent abstracted to the calls
it makes. `LeaderDispatch` sees an agent as what `/run`, `/stop` and a registration
tell the leader; `Update` is the longest of the leader's operations and has a module
of its own because it needs versions and tells instances apart, which the books do not.
`Election` decides who is leader and when a term ends, `Persist` what one term
hands to the next.

### AgentTasks

One step is one state-loop operation or one call of the runner. A task's ID stands
for its `*types.Task`: `status` and `restarts` stay readable after the record left
`tasks`, as they do through a pointer in Go.

- `pc[t]`, `loc[t]` are the goroutine that starts (`handleRun`'s `start`, `startJob`)
  or restarts (`restartTask`) task `t`; the locals are those it uses after an
  operation: the definition it will write back, whether the attempt really ran, the
  predecessors it must still stop.
- `reqs` are stop requests in flight (`markAllStopping`, then `stopTasks`: remove,
  then `runner.Stop` each); `monSnap` is what is left of `checkTasks`' snapshot;
  `life`, `snap` are `shutdown`.
- `proc[t]` is the runner's side: nothing, a live process, or the bookkeeping of one
  that ended. The drivers are abstracted to `Run` succeeds, fails with or without
  something held, or cannot place the task; `Stop` frees what is there.
- A restart *swaps* the task for one with a new ID in the code; the model keeps
  that as a step (`Swap`), followed by the second look at `shutdownCh`.
- `claimed`, `newest` are history.

Left out: admission, health probes, logs, notifications to the leader, the time a
backoff takes.

### LeaderDispatch

`agents, placed, dispatching, settled, tombstones, roundRobin` are the fields of
`leaderState`; `store` is the JobStore, the job map of the agent on the leader's own
node (so an accepted `/run` on `Home` writes to it, which is how a dispatch can
bring back a deleted job). `real[a][j]` is how many instances of `j` agent `a` has;
`reach` is who the network lets through.

- Each `Worker` is a goroutine of the leader: an API handler or a
  `go reconcileJobs()`. Its `pc` names the operation it does next, the other
  variables its locals: the snapshot of jobs still to reconcile (`todo`), the
  snapshot of agents (`seen`), the count still missing (`need`), the attempts left
  in a pass (`tries`), the agents that were full (`cand`).
- `do` does not wait for its operation. Where the same goroutine goes on with
  another operation, the loop's queue keeps the order, so taking the step at the
  place of the call loses nothing.
- `SendRun` is `/run` as the agent sees it: accepted, accepted with the answer lost,
  503 for want of room, 406 or unreachable. The tombstone check of `sendRunToAgent` is the step
  before it (`Offer`, `NextMissing`): that the two are apart matters.
- `due` stands for `go reconcileJobs()` calls that have not begun; several merge
  into one, which delays but loses nothing, as each begins with a fresh snapshot.
- Jobs are numbered by priority. `normalizePriorities` keeps their order, so its
  only effect here is the reset of the round robin that follows it. That it writes
  whole definitions back is in `Update`.
- The reads of the JobStore inside `trimReturningAgentSurplus` and `findVictim` are
  taken with the operation on the books they belong to; full agents are tried for
  preemption in any order, which includes the code's.

The bounds of this module: `Worker` (goroutines at once), `Wrap` (the round-robin
counter is kept modulo a multiple of every possible number of agents, which selects the same
agents), `Bound` (how often each event of the environment happens, and how many
happen in all), and one or no instance of each earlier job per agent when a leader begins.

- `Patch` is `PatchJobPriority`, reached by a PATCH and by a create that asks for a priority. Like a delete,
  a hand-back and a DELETE of an agent it starts a reconciliation whether or not the leader has settled;
  `Asked` says that one of these has happened.

Left out: the update that a POST of a running job becomes (in `Update`, of a leader that has settled), the
rejection of a second agent with the same ID, tombstone expiry (`tombstoneTTL` is longer than any dispatch
in flight), the leader losing its lease, answers of `/stop` and `/delete` that are
lost, and the second write of the definition when a start ends on the leader's own
node (that is in `AgentTasks`).

### Update

A definition is its version, 1 before the update and 2 after it; `[ver, deploying]` is
what the job store holds. The module has one goroutine of each kind that touches the
job while it is being updated:

- `upd` is `UpdateJob`: take the flag (`LockJob`), ask each agent for its tasks (`AskAgents`,
  `FetchTasks`), store the new definition as deploying (`StoreNew`), then one of `updateRolling`
  (new before old, one at a time, `InPlace` when an agent is full), `updateBlueGreen` (all new, then all
  old) and recreate (`WipePlaced` ... `Resubmit`), and `UnlockJob`, `Finish`.
- `rec` is a reconciliation: renumbering, the look at the flag, the count, and the
  dispatch of what is missing, from the copy of the definition it read first.
- `patch` is the copy a PATCH of a priority will write back; `del` is `DeleteJobByName`.
- An agent answers `/run` when the task is in its map, and `/stop-task` when the task is told to stop. So an
  instance is in `starting` from the answer until it runs (`Start`), one that replaces others in place
  until those are gone as well, and its start may fail (`StartFails`); one that is told to stop takes
  room until it is gone (`Removed`). `Standing` are the instances that were accepted and not told to stop,
  `Up` those of them that run.
- A call on a live agent may fail, with or without having been carried out: the stop of an old instance,
  which is then unbooked all the same, and the question which tasks it has, which the update does without.
- An agent may die (`Die`, then `CheckDeadAgent`), other jobs come and go on it (`NeighbourMoves`).

Left out: the delay between instances, the shutdown of the leader inside an update.

### Election and Lease

One loop per node. A tick of a leader renews (`RenewRead`, `RenewWrite`: the read and the
conditional write are two steps, between which other nodes act); a tick of another node
registers or sends a heartbeat (`FollowTick`), or counts that it could not; after
`TakeOverAfter` failed ticks it tries to claim (`TakeOverWrite`), after `IsolateAfter` it stops
its tasks. `Start` and `FirstWrite` are the claim at boot, `BecomeLeader` the moment the leader's server is
up, `Done` and `Release` an orderly end, `Crash` any other. `Dispatch` puts a task on a
registered node, `CheckDeadAgent` forgets one that is silent: all that the properties need
of a leader.

The store is an object and two operations, `GetLeader`'s read and a write that succeeds if the
object is unchanged; ETags are reduced to *is what this node remembers still the object's*
(`current`). A write may be carried out and its answer lost. `offline` nodes do not reach
the store, links in `cut` are down. Time is counted in tick intervals: in each every node that is
up begins one tick, and a lease is good for `TTL` of them; clocks are taken to agree
to within an interval, which is what `discovery.go` relies on as well.

`Lease` says what a lease is good for whatever store keeps it: at most one claim is valid,
and who serves without a valid claim had one that ran out under it. `Election` maps
its owner, its remaining time and the history of lapsed leases to it and every step of
`Election` is a step of `Lease` or leaves it alone.

### Persist

What is known of a job is a stamp: a submit gives the next odd one, a delete the next
even one. The code tells only odd from even (there, not there); the properties use their order.
`leader` and `phase` are how far `BecomeLeader` has got: load, seed, serve. A mutation
changes the job map of the leader's own agent and marks it dirty in a second step (`Mark`). The flusher
waits for the token, debounces, takes an image and saves it: a PUT, or write, sync,
rename and sync of the directory for a file. `rest` is the set of snapshots that may be
found after a power failure; `late` are PUTs given up that may still land. Loads
and saves fail; leaders step down, crash and lose power. When the sync of the directory fails, `Save`
returns nil all the same (`SyncDir`): the file stays renamed, and a power failure may undo that.

Three things write what the leader's API was not asked for:

- The leader's agent is an agent as well. What it is sent, and the definition a start writes back when it
  ends, goes into the same job map past the mark (`Arrive`), and may be older than what the leader has by then.
- Definitions that were read earlier are written back whole, and marked: by the renumbering of priorities
  where the job still has one (`Renumber`), by the end of an update even where it has none any more (`EndUpdate`).
- A leader whose lease ran out goes on until it notices (`Displace`, `OldEnds`). Beside its successor it
  takes changes, and saves what it has over what the other loaded or saved (`OldSave`).

`confirmed` is history: what a `Save` of which nothing failed has reported. So are the three exceptions of the properties.
`passed` are the jobs the leader's agent wrote past the mark since the flusher last read the map; `undone` those of
which an older copy was written into the leader's map; `excused` marks the terms in which the snapshot is not the
leader's to answer for: it could not load one, it found none and goes on with what its own agent has, or a displaced
leader or a PUT given up wrote over it.

Left out: the encodings and the validation of configured jobs.

### HopSlots

A cage is given out before the image is downloaded (`AllocateSlot`), the start then waits for
a turn to download, streams the image into the cage, arms it and publishes its `Pid`. `Stop`
cancels a start and waits for it, stops the app, and gives the cage back when the node has let go of it;
otherwise the cage stays with the task (quarantine, `kept`). Each task has the `Stop` of its own
goroutine (a failed start, a crash, a ghost) and one of a request beside it. `Flip` is the
kernel flip: `Snapshot`, the end of every goroutine, `Restore` and `AdoptRunning` over the apps
that are still on. The node is external: apps that are on, crash or do not stop.

Left out: a snapshot that cannot be read (the agent then starts empty), usage, logs, progress.

### HostRunners and TaskLog

`Run` of the exec driver is a step for each thing it makes (directory, binds, files, cgroup, process,
log, registration), each of which may fail and is then rolled back; `Stop` is a step for each
thing it takes away; the cleanup of a failed `Run` (`"run"` in `Caller`) crosses both. The process group
ends when its last member does (`GroupEnds`), which may be long after its leader (`LeaderExits`), is
observed later (`Observe`), and its number may be given away by then (`Reuse`). `hist.through` records a
removal that went through a bind into the host. For docker each call to the daemon is
carried out or not, answered or not, and a create that was given up may be carried out
later (`late`). What stays behind is meant of the process group: a process that leaves it with `setsid` is
not the driver's to find.

`TaskLog` is the broadcaster with its last lines, the store that retires it after a time,
and one client that subscribes, reads and leaves. A line is its number; the two streams
of a task are one.

## 3. What is checked

Runs are in `PROJECT.json` with one sentence each; mutants show, for every
property of a passing run, a plausible bug in the code that breaks it. Every run
explores its state space to the end.

| Run | Instance | Shows |
|---|---|---|
| `AgentTasks` | 2 tasks, 1 stop request, shutdown; fair | `NoStrayProcess`: whatever the runner holds has a record, a goroutine about to decide, or a Stop owed. `GoneIsFinal`, `NoRestartPastShutdown`, `OneGoroutinePerTask`, `RestartBudget`, `ReservationKept`, the inductive invariant `IndInv`, and `NothingStaysOwed`: claimed tasks end, accepted ones leave Queued |
| `LeaderDispatchBooks` | 2 agents, a job pinned to agent 2 that ran before, a settling leader, a daemon submitted and a priority patched at any moment | Without faults and deletes: `OneDispatcher`, `DaemonOnce`, `BooksMatch` (what runs is what is counted plus what is about to be), `NothingSentUnasked` (before the leader has settled, nothing is sent unless a PATCH was made) |
| `LeaderDispatchFaults` | 2 agents with room for one instance, 2 jobs; any two of: a submit, a delete, a hand-back, a restart of a node, a cut, an agent that leaves | `FlagHasHolder`, through preemption, deletion, re-submission and faults; no count below zero (in `TypeOK`) |
| `LeaderDispatchFailover` | 1 job submitted while the leader settles; a cut of the network that may or may not heal, a lost answer; fair | `StoredJobsRun`, counted on agents that can be reached |
| `UpdatePolicies` | 4 agents with room for one, 2 instances, three policies, one of: an agent that dies, a call that fails or whose answer is lost, a start that fails, a PATCH, a delete | With no fault: `KeepsInstances`, `HonestStatus`, `BooksBalance`. With one: `FlagHasOwner` |
| `ElectionLease` | 2 nodes, lease of 2 intervals, take-over after 2, isolation after 3, any 3 faults; fair | `SplitOnlyByLapse`, `LeaseImplemented`, `Converges`, `IsolatedStops` |
| `PersistFailover` | 2 nodes, 1 job with at most 3 stamps, both kinds of store, any 2 of: a load or save that fails or is given up, a step down, a power failure, a displaced leader, an older copy written back or sent late; fair | `UnsavedIsMarked`, `CommittedStays`, `SnapshotIsWhole`, `ChangesGetCommitted` |
| `HopSlots` | 2 tasks of 4 shapes, 2 cores, 5 cages, 1 download at a time, 1 fault or flip | `OneOwner`, `OwnsWhereItRuns`, `GoneIsFree` |
| `HostRunners` | 1 task of either driver, a required and an optional bind, any 2 faults, 4 lines of log | `HostFilesSafe`, `NothingLeft`, `LogInOrder` |
| `UpdateInPlace`, `HopStaleAdoption`, `HostRemoval` | smallest that show it | disagreements, section 5 |

### Bounds

`AgentTasks`: two tasks are enough for a task and its replacement, or two that a delete takes
together. One stop request crosses starts, restarts, the monitor and shutdown's own stops; the
proofs cover any number.

`LeaderDispatch`: two workers are the least that can disturb each other, and every disagreement found
needs no more; two agents give a job a place to go and one to come from; two jobs a victim and a preemptor.
`SettleDelay = FALSE` begins with a leader that has just settled and has heard from no
other agent yet: a state of the other runs, reached by `Settle`. `StoredJobsRun` is *not* claimed of
everything: section 5 names states from which a job never gets its count back (a stop
that hits an instance counted afterwards), and a job that fits one agent only can be missed
again and again by an unlucky, if improbable, schedule of the shared counter. The fair run leaves out
those ingredients (an agent that unregisters, preemption, a pinned job) and keeps the rest.

`Update`: four agents with room for one are the least on which an update of two instances can place
both new ones beside both old ones; neighbours then take that room away, which makes the update
fail half-way or replace in place. `MaxTasks` numbers the instances that somebody knows of
(`FreshIDs`); an agent accepts none while all numbers are in use.

`Election`: two nodes race for a lease, split and follow each other; a third adds a second
follower, which acts on the others only through the lease. The intervals (2, 2, 3) are
scaled down from 3, 4 and 7, a lease of 30 s on a tick of 10 s, and keep their order: a lease runs out
no later than a take-over is tried, and that comes before isolation. Three faults are enough to cut a leader off, have its lease taken over
and cut the new one off as well.

`Persist`: three stamps are a submit, a delete and a re-submit. Two faults are two terms that go wrong in a row, or a
fault in one and an old copy in the next: what the exceptions of the properties
are about; the proofs cover any number. Two nodes are a leader
and the next, whose agents have different job maps, or a displaced leader and its successor.

`HopSlots`: two tasks are a cage's tenant and the next. The four shapes are a dedicated core, a core
of a class, two cores, and a member of a sharegroup; cage numbers beyond the cores exist for
sharegroups. `HostRunners`: tasks share nothing on the host, so one suffices; two binds so that a setup
stops between them; a tail of one line, a channel of two and four lines so that a
subscriber joins late and falls behind.

Deadlock is checked in the runs of `LeaderDispatch`. The others may stop: with its task IDs, faults, stamps
or versions used up there is nothing left to do.

### Fairness

`AgentTasks`: goroutines are scheduled, and every call they make returns: `Stop`
has a budget of 10 s and a second, a download times out after 5 minutes. Shutdown, once begun, goes on. Nothing is
assumed of clients, crashes, the monitor or the signal to shut down; a process that has ended owes nothing.

`LeaderDispatch`: the same of the leader's goroutines (HTTP clients have timeouts);
timers fire (`Settle`, the tick, `CheckDeadAgent`); an agent that is not registered
tries again on every tick of its loop until it succeeds (`Register`). Strong
fairness of `StartReconcile` and `Register` says only that they do not wait for one of
the few `Worker`s for good: in the code each has a goroutine of its own. Nothing is
assumed of clients or the network: a cut need not heal.

`Election`: each node's loop goes on (`Loop(n)`: a ticker, and calls with timeouts) and time passes
(`Interval`). Nothing is assumed of the network; `Converges` is about behaviours in which it
heals and stays healed, `IsolatedStops` about those in which it does not.

`Persist`: the flusher is a goroutine of its own and every call it makes has a timeout; a
mutation that has changed the store goes on to mark it. Nothing is assumed of leaders or of
the store; `ChangesGetCommitted` is about a leader that stays, and the bound on faults is what
makes some save succeed in the end.

## 4. What is proved

Each theorem is `Spec => []Property` (or `[][Property]_vars`, or the abstract specification) for every value
of the constants that satisfies the module's assumption: they have their types, special
values are distinct, sets that are counted are finite, and `IsolateAfter > TakeOverAfter`. Where more is assumed the
table says so: of the constants (*where*), or of the behaviour (*while*: the theorem is `Spec /\ []H => []Property`, and
says nothing of a behaviour in which `H` fails). *Up to the first kernel flip* is of the second kind, with `[][~Flip]_vars`:
the part of a behaviour before its first flip is such a behaviour, if it stutters from there on.

Every invariant and every action property that the passing runs check is stated by a theorem.

| Module | Theorem | Property | Assumed besides |
|---|---|---|---|
| `AgentTasksProofs` | `TypeCorrect` | `TypeOK` | |
| | `NoStray` | `NoStrayProcess` | |
| | `Inductive` | `IndInv` | |
| | `GoneForever` | `GoneIsFinal` | |
| | `SingleGoroutine` | `OneGoroutinePerTask` | |
| | `BudgetKept` | `RestartBudget` | |
| | `ShutdownSeesAll` | `NoRestartPastShutdown` | |
| | `ReservationHeld` | `ReservationKept` | |
| `LeaderDispatchProofs` | `TypeCorrect` | `TypeOK` | |
| | `NoFlagStranded` | `FlagHasHolder` | |
| | `FlagExcludesWithoutDeletes` | `OneDispatcher` | while no job is deleted |
| | `SettlesFirst` | `NothingSentUnasked` | (the property ends at the first PATCH of a priority or create with one, delete, hand-back or DELETE of an agent) |
| | `BooksKeepPace` | `BooksMatch` | where there are no faults and deletes (`FaultFree`), while no instance is stopped to make room or as surplus (`Spared`) |
| | `DaemonsOnce` | `DaemonOnce` | where there are no faults and deletes, while no daemon is stopped to make room (`DaemonsSpared`) |
| | `DaemonsOnceWhenFirst` | `DaemonOnce` | where there are no faults and deletes and daemons are the most important jobs (`DaemonsFirst`) |
| `UpdateProofs` | `TypeCorrect` | `TypeOK` | |
| | `FlagIsGivenBack` | `FlagHasOwner` | |
| | `InstancesKept` | `KeepsInstances` | while an instance that is replaced in place is the only one of the job on its agent (`Alone`) |
| | `BooksBalanceAfter` | `BooksBalance` | the same |
| | `StatusIsHonest` | `HonestStatus` | the same, and where `OldCount <= NewCount` |
| | `AloneWhereOneFits` | (`Alone`) | where no agent has room for more than one instance |
| `ElectionProofs` | `TypeCorrect` | `TypeOK` | |
| | `SplitNeedsLapse` | `SplitOnlyByLapse` | |
| | `LeaseIsImplemented` | `LeaseImplemented` | |
| `PersistProofs` | `TypeCorrect` | `TypeOK` | |
| | `NoChangeForgotten` | `UnsavedIsMarked` | |
| | `ConfirmedStays` | `CommittedStays` | |
| | `NeverTorn` | `SnapshotIsWhole` | |
| `HopSlotsProofs` | `TypeCorrect` | `TypeOK` | |
| | `CagesHaveOneOwner` | `OneOwner` | up to the first kernel flip |
| | `AppsRunInOwnCages` | `OwnsWhereItRuns` | up to the first kernel flip |
| | `WhatIsGoneIsFree` | `GoneIsFree` | up to the first kernel flip |
| `HostRunnersProofs` | `TypeCorrect` | `TypeOK` | |
| | `BindsSpareTheHost` | `HostFilesSafe` | |
| | `LogsInOrder` | `LogInOrder` | |
| | `TasksLeaveNothing` | `NothingLeft` | |

The assumptions of the last column are needed, not convenient. Section 5 has the behaviours that break
`OneDispatcher`, `BooksMatch` and `OneOwner` without them: a delete clears the
flag of another goroutine, a late
hand-back is booked against a newer instance, a flip adopts a cage twice. Of the others:

- `Spared`, which holds in every state of the run `LeaderDispatchBooks`: between the stop of a victim and
  the operation that strikes it out (`StopVictim`, `Unbook`), and between the same two in the other order
  when surplus is trimmed (`TrimDrop`, `TrimStop`), books and agent differ by design. `DaemonsSpared` asks this of daemons only, and `DaemonsFirst` is enough for it, since
  `findVictim` looks for jobs that are less important than the one to be placed.
- `Alone`: `handleRun` with `replace=1` stops all of the job's instances on the agent, and the update counts
  one: the finding `InPlaceIsNeutral`. `AloneWhereOneFits` shows that where one instance fits on an
  agent, as in the run `UpdatePolicies`, the three theorems hold of every behaviour.
- `OldCount <= NewCount`: with fewer, a reconciliation that read the old definition finds instances missing
  after the update and sends one of the old version, while the status says that the new one is deployed.

The three properties of updates themselves speak of undisturbed ones (`Undisturbed`): section 5 says what a
fault, a delete or a PATCH does to them.

### The arguments

`AgentTasks`. `NoStrayProcess` is not inductive: that a start in flight notices a stop
that crossed it rests on the stop's mark still being in its state when `Run` returns
(`ClaimIsSeen`); that a restart does rests on its record still being in the map, or its being
claimed (`ReservationKept`); that a stop owes its Stop to claimed tasks only, on `WorkIsClaimed`;
that nothing is held before `Run`, on `NothingHeld`; that the monitor does not
start a second goroutine, on `MonitorKnows` and `OneGoroutinePerTask`; that shutdown
misses no restart, on the two looks at `shutdownCh` around the swap. `BudgetLeft`
carries the check of the budget over the backoff to the swap. `IndInv` is their
conjunction: TLC checks it (run `AgentTasks`), one lemma per conjunct
(`NoStrayStep`, ...) shows that a step from `IndInv` keeps it, action by action, and `Inductive` states it.

`LeaderDispatch`. Every action is first shown to be of one of four kinds: a goroutine keeps what it has
(`Keeps`), takes the flag of its job (`Takes`), gives it back (`Gives`), or has nothing to do with it
(`Rests`). Each invariant is then shown once per kind. That a goroutine holding a job still
finds its flag set (`HoldersFlagged`) is what makes the flag exclusive, and it is true only while nobody
deletes; `Calm` carries what keeps a reconciliation from beginning before `Settle`, as long as nobody has `Asked`.

Its types rest on `Set`: a goroutine at a place that uses an agent, a victim or a number has one. That what is
missing is a number needs a lemma about `Total`, which is written as the cardinality of the instances in the
books, and not by recursion, for that reason. The books (`BooksInv`) are kept pair by pair
of agent and job: what runs is what is booked and what the goroutines in `Placers` are about to
book. Every step leaves the pair alone (`Elsewhere`), starts an instance and puts a goroutine among
its placers (`Accepted`), books it and takes that goroutine out (`Tracked`), or registers an agent on
which nobody was placing anything (`Joined`; `ReportsTruly` says that the report on its way is still what
the agent has). A daemon is on an agent once because who is about to send it there has the flag
and saw, having it, a zero in the books (`Fits`, `Lacks`), and the books keep pace.

`Update`. That a flag has an owner is argued as in `LeaderDispatch`, with two goroutines. Types (`TypeInv`) need
that a dispatch has an agent to count and a version to send. The other three come from `Calm`, what is
true as long as nothing disturbs: of the update and a reconciliation one dispatches, and has the flag (`Exclusive`); the
instances that the update still has to stop were not told to and are on its list once (`Known`); the books of an agent
are what stands there, but for what is coming, going or being wiped (`Books`); what was gained and what is
still to be stopped is enough (`Serving`); instances of the old version are on the list (`Honest`).
Every step is first shown to have one of a few shapes (`UpdateStep`: `Gains` an instance, `Counts` it, `Swaps`
in place, `Stops` one, `Strikes` it from the books, ...; `RecStep` likewise), and each part of `Calm`
is then shown once per shape. `Honest` rests on one fact that is not local, `NoneMissing`: whenever a
reconciliation counts, the books have at least what the old version wanted. It follows from
`BooksCover`, which compares the sum of the books with the number of instances that stand, agent by agent. That an instance is queued or
runs plays no part, and `ZeroDowntime` (section 5) is the reason why no theorem speaks of it.

`Election`. `SplitOnlyByLapse` rests on `ServesByRight` (who serves, or is about to, has the lease or lost it to
the clock). That a conditional write keeps it rests on what the writer knows: who has read
an unchanged object found it claimable, and it still is (`ReadIsClaimable`); who knows the ETag of
its last write still owns it (`WrittenIsOwn`). `FreeHasNoTime` and `ReleasesStopped` say that a free
lease has no time left and that a release comes after stepping down. The refinement
uses the same invariant: every step is one of a few kinds, each of which is a step of `Lease`.

`Persist`. What is confirmed must be in everything a reader may find: the snapshot, whatever a power failure
may leave in its place (`rest`), the image being saved, and the leader's own map (`ConfirmedEverywhere`, of jobs
that are not in `undone`, in a term that is not `excused`). An image may be out of date only if another save is to follow, or
in what the leader's agent wrote past the mark (`ImageCurrent`, `UnsavedIsMarked`, of jobs that are not in `passed`). `FoundWhole`
says that nothing torn is ever in the place of the snapshot, `Places` which parts can be
under way at once, and `NoneAhead` that no stamp exceeds the newest, which makes every new one an advance.

`HopSlots`. One cage, one owner follows from `Owned`: a task's cages are marked as its own, and a
mark names one task. That a `Stop` frees only what is its own rests on `Settled`: it acts when the start has
ended, with a cage that is still the task's or was given back before. `Whole`, `Unstarted` and `Underway` say where
a start can be when it has an app, a cage, or neither. `GoneIsFree` adds what a finished start must have marked (`Marked`)
and what a finished Stop must have tidied (`Tidied`). The types are shown over flips as well, and need less: a start
that has not ended is in the driver's maps, and a Stop that is past waiting for it has seen it end (`InHand`).

`HostRunners`. No removal goes through a bind, because whoever removes a directory either has unmounted
everything bound there or knows of nothing bound; that what it knows is complete rests on where the start stands
(`NotYet`, `SetUp`) and on the list of mounts being published before and kept as long as the directory
(`Listed`, `ReadList`).

`NothingLeft` comes from `LeftOver`: whatever a task that does not serve still has, somebody is on the way to
take away (`Owed`): the start that fails or returns, a Stop at a place that comes to it
(`Comes`), or a Stop that failed and said so. It needs what each side knows: a start has only what it has made
(`NotMade`), a task only what its driver makes (`ByDriver`), a process group that is alive is
somebody's and one that is taken for gone is gone (`GroupKnown`), a directory is in the maps until it is removed
(`DirKnown`).

`TaskLogProofs` has the invariants of the log, kept by each of its steps: what waits in a channel comes after
what the client took, in order (`Rising`), and without a gap up to the last line if none was dropped
(`Follows`); who still listens, listens to a log that is live (`Ends`).

### Only model-checked

- Liveness (`NothingStaysOwed`, `StoredJobsRun`, `Converges`, `IsolatedStops`, `ChangesGetCommitted`):
  out of the prover's reach.
- `OneOwner`, `OwnsWhereItRuns` and `GoneIsFree` over a flip, which the run `HopSlots` has. What else the passing runs
  check of safety is within the theorems.

## 5. Where code and repository disagree

Three of these are runs that TLC finds violated, and entries under `findings` with the
line of the code and the sentence it disagrees with.

- `UpdateInPlace`: a rolling update on a full agent replaces in place and takes that for one old
  instance exchanged for one new one; the agent replaces *all* its instances of the job by one
  (`update.go:130`).
- `HopStaleAdoption`: a task that is out of restarts has given its cage back but keeps its number;
  after a flip it and the cage's next tenant both own it (`handoff.go:120`).
- `HostRemoval`: where a bind survives its unmount, the documentation has the removal of the directory go on
  (`docs/lifecycles.md:236-238`); the code leaves the directory where it is (`process.go:439-451`). The code is right:
  what the documentation says is the mutant of `HostFilesSafe`.

The same models have further behaviours of this kind, for which no run is kept. Nearly all need a
second goroutine between two operations of the first; some windows are
as short as the time between an HTTP answer and the next operation, others
are as long as a download, a kill or an update.
Those with a definition of their own can be seen by giving it to TLC: `DeleteCleansUp` and
`NewestDefinitionWins` (`AgentTasks`), `NotOverScheduled`, `SettleHoldsBack`, `FlagExcludes` and `TrimKeepsDesired`
(`LeaderDispatch`), `ZeroDowntime` (`Update`), `CutOffStops` (`Election`), `EveryWriteMarks` and `SnapshotIsTruth` (`Persist`).

Agent:

- A delete marks and removes a job's tasks in two operations; a restart's swap in
  between leaves a replacement that runs without a job (`handlers.go:766`).
- A slow start of an old version writes it back over the newer (`handlers.go:582`).
- The agent's process exits when shutdown's own stops are done; a claimed start that
  is still inside `runner.Run` never gets to stop its ghost (`agent.go:374`).

Leader:

- The shortfall is counted before the flag is taken, so the flag does not keep two
  reconciliations from dispatching it twice (`health.go:198`).
- While the leader settles, jobs are stored and not dispatched, say `docs/api.md:74` and `docs/lifecycles.md:258-259`
  (`SettleHoldsBack`). A PATCH of a priority (`server.go:423-441`), a create with a priority (`server.go:303-305`),
  a delete (`dispatch.go:397`), a hand-back and a DELETE of an agent start a reconciliation that
  does not look; a POST of an existing job (`server.go:268-287`) is an update, which does not look either.
- A delete clears a flag that another goroutine holds (`dispatch.go:394`).
- Two returning agents are trimmed against each other (`dispatch.go:175`).
- A hand-back that arrives after its agent re-registered is booked against a newer
  instance (`dispatch.go:122`); one that overtakes `trackPlacement` is not booked
  at all (`dispatch.go:105`).
- The sweep of a delete has seen the tombstone when a re-submit lifts it, and
  removes the job submitted since (`dispatch.go:377`); a dispatch past the tombstone
  check outlives the delete (`dispatch.go:431`).
- The stop of a late trim (`dispatch.go:196`) or of a preemption (`dispatch.go:268`)
  hits an instance that is counted afterwards: the books stay too high, and no
  reconciliation retries.
- A reconciliation resets the counter of a pass under way, which then tries one
  agent twice and another never (`health.go:133`).

Updates (`KeepsInstances` says *accepted* for the first of these reasons, and it and the others are claimed of
undisturbed updates for the rest):

- A rolling update claims zero downtime (`update.go:117-118`), but stops the old instance when the new one is accepted, which is
  before it is downloaded and started: nothing may run in between, with nothing having gone wrong. Replaced in place it
  is interrupted anyway, as the code says.
- The stop of an old instance that failed is unbooked all the same (`dispatch.go:494-497`): it runs on beside the new ones,
  uncounted.
- An agent that does not say which tasks it has is passed over (`health.go:298-302`): the update succeeds and leaves the old
  instances there.
- Recreate gives the flag back before the new definition is stored (`update.go:198`): a
  reconciliation in between dispatches the old version.
- After an update that lowers the count, a reconciliation that still has the old copy
  dispatches an old instance more.
- The renumbering of priorities and a PATCH write whole definitions back from a copy, and
  undo the update in it; the definition stored at the end of an update (`update.go:93`)
  brings back a job that was deleted meanwhile.

Lease and committed state:

- A leader cut off from everything goes on serving and keeps its tasks; the documentation has an
  isolated agent stop them (`docs/architecture.md`, "Agent isolated").
- A PUT that was given up and lands late, or a leader that could not load, puts an older snapshot in the
  place of a newer one, which the comment in `becomeleader.go:54` rules out. So does a displaced leader, which saves beside its
  successor until it notices (`SnapshotIsTruth`; `persist.go:14-18` has its snapshot come too late to matter).
- Every mutation marks the state dirty, says `persist.go:53-56` (`EveryWriteMarks`). The leader's own agent does not:
  `/run`, the end of a start and `/delete` write the same job map (`handlers.go:363`, `543`, `582`, `885`) past the mark. A
  `/run` that was past the tombstone check brings a deleted job back there, and the next save, whatever it
  is for, commits it.
- `FileStateStore.Save` does not look at what became of the directory (`discovery.go:211-215`): it may report a save that a
  power failure undoes.

Runners:

- A second Stop of a HopOS task uses the cage it looked up before the first gave it back, which
  may have a new tenant (`hopos.go:270`); on a flip, the cages of a member of a sharegroup are counted
  by its cores, and a record that was still queued is not started again.
- Between the end of a process group and its first observation its number may be given to
  another; Stop and Status then take the stranger for the task.
- `cmd.Wait` closes the pipe of the output, so that the last lines of a process may be lost
  (`process.go:464`); an extraction that is still running when its task is removed
  puts the directory back; a `docker create` that is carried out after it was given up leaves a
  container until the next boot; and a `docker inspect` that is not answered is taken for a crash.

## 6. Not modelled

- Agent, admission and capacity: check and reservation are one operation on a sum, so nothing comes between them.
  That the reservation is kept is `ReservationKept`; agents with limited room are in
  `LeaderDispatch` and `Update`, cages in `HopSlots`.
- Leader, event bus: one mutex covers each operation and no send waits.
- Runner, downloads and archives; usage and system information; HTTP transport and signing; the
  command-line client: I/O without shared state. What a call can come to (carried out and answered,
  carried out only, neither) is in every model that makes one.
- Configuration, boot and wiring: parsing; what it decides are constants.

In part:

- Health checks: a check that failed often enough is one outcome of the monitor's look at a task. The
  probes and the counting to the threshold are left out.
- HTTP API: the handlers that change state are where the actions of `LeaderDispatch` begin; those that
  read (status, proxies, streams) are left out.
- Dispatch: the rejection of a second agent with the same ID is left out.

Election, dispatch and persistence are not composed into one model: the product of their states is beyond
TLC, and what one hands to the other is small. A term begins with what `Persist` loads, no agent
registered and a settle delay (`Init` of `LeaderDispatch`), and ends when `Election` steps down; that a leader
whose lease ran out goes on until its next tick is in `SplitOnlyByLapse`.
