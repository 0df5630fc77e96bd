# A TLA+ model of proccie

proccie runs the services of a Procfile: it starts them in dependency order,
watches their readiness, retries, stops and restarts them, shuts everything down
on a signal or a failure, and shows their logs in a terminal UI. This directory
holds TLA+ modules of its supervisor, of the output on its way to the log, of its
log viewer, of a whole session behind the terminal UI and of its configuration's
dependency graph, TLC configurations that check them on small instances, and proofs
that TLAPS checks for every instance. Paths below are
relative to `src/src/` in the repository.

## 1. The system

Everything runs in one process on a multi-threaded tokio runtime. One mutex
(`runner::State`) orders the supervisor's decisions; what is *not* under it (the
gates, the status cells, the cancellation token, the `Notify`, the log stores) is
where the interleavings are.

| Component | State it keeps | Operations | Talks to |
|---|---|---|---|
| Run loop, shared state (`runner/mod.rs`) | process groups, flags, stop marks, strays, exit code, restart batches, the JoinSet | spawn and join tasks, register and deregister groups, fail the run, recover a panicked task | tasks (join), UI and handler (lock), `Notify` |
| Stop and restart (`runner/control.rs`) | stop marks, `restarts_arming`, `restart_batches` | `stop_service`, `restart_service`, merge and claim batches, end the run | called by the UI, claimed by the run loop |
| Gates (`runner/deps.rs`) | one watch channel per service: Pending, Ready, Failed, Stopped | first result wins; three-way wait | tasks, pollers, stops |
| Service lifecycle (`runner/lifecycle.rs`) | attempt, child, poller handle | wait, launch, retry, release, reap, sweep | groups, gates, status cells |
| Exit classification (`runner/exit.rs`) | - | expected exit, asked-for end, retry, failure, completion | status, gate, exit code |
| Readiness (`runner/readiness.rs`, `probe.rs`) | incarnation of the child, deadline | probe, output watch, delay, timeout | gates, status, exit code |
| Shutdown and timers (`runner/shutdown.rs`) | `shutting_down`, `killed`, SIGKILL timers, strays | graceful and forced shutdown, escalation, stray sweep | every process group |
| Output pump (`runner/pump.rs`) | scanner tail, drain deadlines | pump lines, watch for a needle, drain | log store, readiness |
| Signals and process exit (`main.rs`) | signals received | graceful, forced, hard exit | shutdown |
| Status cell (`service/`) | one status per service | set, finish if active | tasks, stops, UI |
| Keys (`tui/app/input.rs`) | global stop and quit flags | Ctrl+C, q, r, navigation, search | stop, restart, shutdown |
| UI state and loop (`tui/app/mod.rs`, `tui/mod.rs`, `tui/search.rs`) | tabs, scroll, seen counts, search, last fingerprint, coalesce window | one round per key, ping or end of the run | log stores, status cells |
| Rendering (`tui/view/`) | - | clamp, tab bar, viewport, footer | log stores |
| Log store (`logger/store.rs`) | capped lines, total, shared clock | push, tail, merge, search | pumps, notes, UI (`Notify`) |
| Log writer (`logger/writer.rs`, `line.rs`, `level.rs`) | partial line, log file | split, prefix, route | stores, stdout |
| Dependency graph, filters (`config/graph.rs`, `config/mod.rs`) | adjacency | DFS, reachable, dependents, filter | validation, runner |
| Validation (`config/validate.rs`) | - | issues per process, cycle | load |
| Schema, parsing, environment (`config/`) | - | parse, layer environments | load |
| Theme (`theme/`), lock recovery (`sync.rs`) | - | colours; recovers a poisoned lock | everything |

What makes each correct, and what is hard about it:

* **Stop and shutdown.** Every process must get the signal, also one that is
  spawned but not registered, also one that ignores SIGTERM; nobody else may. A
  kill that was asked for is not a failure.
* **Restart.** A restart marks, signals and queues in three critical sections;
  the last task may exit, or another restart run, between any two. It may not be
  dropped, sleep for ever, overlap another or run a service twice.
* **Gates.** A completion, a failure, a stop and a poller race for the one result
  that counts; a parked task must always see something that lets it go.
* **Panics and leftovers.** A task that dies, and a command that leaves group
  members behind, must leave nothing unaccounted for.
* **Readiness.** A timeout races a stop, an exit and the abort of the poller.
* **Output.** Reads cut lines and escape sequences anywhere, a grandchild may keep the
  pipe open, the consumer of a stream may stall: nothing may be lost or joined, and the
  exit waits for output neither too short nor for ever.
* **Log viewer.** Writers on other threads count, buffer and notify in three
  steps while a frame reads counts and buffers in several: no wake-up may be lost
  and the merged view may have no hole.
* **Session.** The UI outlives its run for review. It must leave when a key or a signal
  says so, from wherever the run is, not otherwise, and leave no process behind.
* **Configuration.** What validation and the filters let through must be acyclic
  and closed under dependencies, since the runner waits on every gate named.

`PROJECT.json` lists these hazards at their lines with the properties aimed at
each; the ones without a property say why.

## 2. The modules

| Module | Contents |
|---|---|
| `Supervisor` | what the supervisor promises, with no task, lock or timer: the abstract specification |
| `Runner` | the supervisor as it is written: state, one action per critical section or channel access, fairness, type invariant |
| `RunnerProps` | its safety, action and liveness properties, and the mapping to `Supervisor` |
| `MCRunner` | topologies and behaviours of services for TLC |
| `RunnerProofs`, `PromiseProofs` | its theorems: types, restarts, gates; that it implements `Supervisor` |
| `DeliveryProofs` | that signals reach every process they concern, leftovers too |
| `OutcomeProofs` | completions, kills and failures, stops, quits and timeouts: what a run settles and reports |
| `Pump`, `MCPump`, `PumpProofs` | the output pump, its scanner and sink, the writer's line buffer, the drain |
| `Session`, `MCSession`, `SessionProofs` | keys, event loop, review, signals and exit, over the steps of `Supervisor` |
| `LogView`, `MCLogView`, `LogViewProofs` | log stores, redraw `Notify`, the UI's event loop and tabs |
| `Config`, `ConfigProofs` | dependency validation, DFS, filters, start order |

### Supervisor

Six variables: each service's process (`none`, `up`, `told`, `killed`), the services the
user has stopped, those with a restart to come, whether the run shuts down, its phase and
its exit code. `Runner` implements it under the mapping in `RunnerProps`: a process is the
child's state, an exited one being gone; `marked` the stop marks; `wanted` the union of the
restart batches; the run is over from `end_run_if_idle` on. What this says is what no
invariant of one state does: nothing is signalled but the stopped, the shut down and
the lost (by whatever timer, captured list or late registration), a stop and a restart cover
all dependents, a restart takes up whole subtrees that are quiet, nothing is
launched over a process or after the end, and the first exit code stays.

### Runner

The variables are the fields of `State` and of `Shared` under the source's names
(`groups`, `shutting_down`, `killed`, `stopped`, `strays`, `exit_code`,
`restart_batches`, `restarts_arming`, `ended`, `gate`, `status`, `cancelled`,
`notified`), a program counter for every thread, and what the threads hold between
two steps: a task's dependency index, attempt and exit status, the flag
it read at deregistration (`was_down`), the UI's call (`op`, `root`, `todo`,
`pids`), the timers armed. Threads are the service tasks, the readiness pollers,
the run loop, the UI, the signal handler; timers and the processes
themselves are actions of their own. One step is one critical section of the
mutex or one access to a gate, a status cell, the token or the `Notify`, with the local
work around it; where the code drops the lock between a snapshot and its use, the
model has two steps (a stop between its marks, its notes and its signals; a
registration and the late signal; `classify_exit` and `fail_terminally`; a stray
taken and killed). `any_running` is read as the code reads it: the groups and the restarts
under the lock (`LookForRunning`), then, without it, one status per step (`ReadStatus`, in any
order), with everything else going on in between. A task may panic anywhere
(`TaskPanics`): its child is dropped, which kills the leader and not the rest of its
group. Panics of the pollers and of the UI are left out. A `child.wait()` that fails is an
exit of a kind of its own, "lost", which is never an expected one.

Abstracted: the process group number is the count of launches of the service; an
exit is a code or a signal from a set per service; the output drain is time that
passes between an exit and its classification; whether a probe passes is
nondeterministic, and so is when; time does not exist, a timer may fire at any
moment after it was armed; log output is left out. What may be external:
`ChildExits` and `LeftoverExits`, the processes as `wait` and `killpg` see them.

### LogView

`push` is four steps, as in `store.rs`: the sequence number from the shared clock,
the count, the insertion under the lock, the ping. One round of the event loop is:
clamp, mark seen, fingerprint, tab bar, `merge_tail`'s first pass store by store,
its second pass, draw, `select!`. A line is its sequence number and takes one row.
A status is written by a task as the code writes it: `set_status`, whatever the cell holds (a launch,
the claim of a queued restart), or `finish_if_active`, which a status that is terminal already
refuses; and r stops a service that is active and queues it. So a status goes back and forth as often
as `Loads` and the keys let it. The dependents that r takes along are left out.
The atomic counters that one phase of the loop reads are read in one step: they only
grow, so a later comparison that finds them equal cannot tell when each was read; the
clamp's measurement is one step too, a later frame clamps again. The search
filter, wrapping, resizes and the end of the run are left out. `WindowHasNoHole` supposes that no
two writers share a store: two would take their numbers before the lock and may append the other way
round, and the code promises nothing of their order. The system's store really has several writers, and
a service's has its notes: for those the property is not claimed (see the hazards).

### Pump

One launch of a command, in either mode of the writer. Bytes are positions in the text
that the process group will write, so that emitted lines tell which bytes they carry; an
escape sequence is two bytes. `ReadChunk` is a read of any size up to the buffer with the
scanner's `feed`; `WriteChunk` the inline write of store mode; `SendChunk` and the
`Sink...` actions the bounded channel and the blocking task of stream mode, which takes as
long as its consumer lets it. `drain_output` is the window it opens, the join, the
timeout, the abort and the flush, each a step of its own; time counts from the leader's exit
and passes only in the window. The abort takes effect where the pump awaits, at once if it is
parked there. `Tick` waits for an inline write, which touches memory only; everything else
may take any time, which is why no fairness is assumed. The inputs include a read error, and
leave out a sink that dies.

### Session

`tui::run` from the first frame to the end of the process, with the supervisor's steps
taken from `Supervisor` (`Run == INSTANCE Supervisor`), which `Runner` implements: what
the session sees of it is whether anything runs or is in flight (`active`, `wanted`), the
shutdown, and the oneshot. It adds the task that supervises being lost to a panic
(`RunPanics`), which `tui::run` has a branch for. `handle_key` is one action per key:
Ctrl+C, q, r (armed and stopped, then queued: the two halves around which the run may
end), tabs, and the search box with its committed filter. The event loop is the round, the
ping and its coalesce window, the end of the run, the end of the key reader, and leaving.
An error of `terminal.size()` or `draw()` leaves the loop too (`TerminalFails`);
the run is shut down and awaited as ever, but `tui::run` then returns the error in place of its
code, and `main` fails with 1 (`reported` is the code the process ends with). Here `any_running`
is one step; what may come between its reads is `Runner`'s. Scroll keys and what a frame shows are
`LogView`'s. The exit code a run fails with is 3 for any.

### Config

The recursion of `visit` is an explicit stack; names are numbers in alphabetical
order and one more name is undefined, so that all inputs are enumerated, rather
than chosen. The relation is read as a set per process (a duplicate is a
validation issue of its own). `topo_order`'s fallback for a cyclic graph is the
phase `"unordered"`, which `TypeOK` excludes.

## 3. What the runs check

| Run | Instance | What it shows |
|---|---|---|
| `Stop` | a completes, may panic anywhere and leave group members, b depends on it and may fail to spawn; two stops, Ctrl+C on All or q | `StopMissesNobody`, `EscalationPending`, `KillsDoNotTaint`, `ReadyMeansCompleted`, `FinishedMeansResolved`, `StopSeen`, `SweepMissesNobody`, `FailureReported`, `LeftoversTracked` |
| `Restart` | a completes, b depends on it; two restarts or stops | `TypeOK`, `LaunchedAfterDeps`, `BatchesSound`, `NoRestartDropped`, `NoLostWakeup`, and `KeepsPromise`: the refinement |
| `Relaunch` | under fairness; a ignores SIGTERM, b fails and retries once; a restart and two signals | `RestartRelaunches`, `StoppedProcessEnds`, `ShutdownCompletes` |
| `Ready` | under fairness; a has a probe, b a delay; a may fail, its HTTP client too; one stop, Ctrl+C on All or q | `TimeoutHasCulprit`, `QuitStopsAll`, `ReadinessResolves` |
| `Pump` | six texts of five bytes, reads of up to three, a queue of one, lines of up to three; a grandchild or none, both modes | `TypeOK`, `OutputKept`, `NeedleExact`, `TailFlushed`, `DrainBounded`, `DrainPatient` |
| `Session` | under fairness; any four keys, up to two signals, failure and loss of the run, end and errors of the terminal | `TypeOK`, `LeavesInOrder`, `SessionEnds` |
| `View` | two services; a pump with three lines for a buffer of two and the system logger with one, or a service that runs, completes and is re-armed, with two lines; any three keys | `TypeOK`, `RedrawNotLost`, `UnreadCurrent`, `WindowHasNoHole`, `ScrollStaysWithTab` |
| `Graph` | every relation of up to three dependencies on four names and an undefined one; filters of up to two names | `TypeOK`, `CycleReported`, `DepsKept`, `FilterDropsNoMore`, `StartOrder` |
| `ParkedStop`, `QueuedLive`, `StaleReadiness`, `SkippedRepaint` | see section 6 | one property each, violated |

**Bounds.** `MaxOps` counts the user's calls and `MaxSignals` the signals;
`Pollers` are the readiness pollers alive at once (two: one that outlives its task
and the one of the relaunch); `Loads` and `MaxKeys` bound the log viewer. Two
services suffice for the races of a stop or restart with its root and one
dependent: every handler treats the services of a subtree alike and the
properties relate a service to one dependency or to one batch at most. A batch merge
needs two restarts, which two operations give; two overlapping subtrees that are not
nested need three services and are covered by the proof of `BatchesSound` rather than
by TLC. `ParkedStop` needs three services and three operations, and has them. Two signals are
all the handler distinguishes. In `Stop` two
operations are a stop and its repeat, or a stop and a quit; what shuts the run down beside the user is the failed spawn or the panic.
`Ready` has one quit, whose reads a registration and a poller that fails may come between, with one poller at
a time; a stop before it is covered by the proof of `QuitStopsAll`. In `View` three lines against
`MaxLines = 2` evict; three keys are what it takes to scroll a tab, and close it under another one, or
to restart a service that has ended or is yet to launch; with
`Height = 1` and a scrolled tab the depth of the merge is one and two. In `Graph` four
names hold a diamond, a cycle with a tail and two components. In `Pump` the samples hold the
needle whole, after a false start, across an escape sequence and across one that hides a byte
of it, empty lines, lines that share a read and one past the limit; `DrainMax` is no multiple
of `Grace`, so the cap cuts the last window. In `Session` four keys are a tab, a restart, a quit
and its repeat, or a search box opened, written, moved in and deleted from; subtrees
are `Runner`'s matter, so one service does.

**Deadlock** is checked in every run: `Runner` steps on by itself until the
process has exited, and the explicit stuttering steps are those of an exited process, of an idle
user, of a drained pump and of a configuration that is loaded or refused.

**Fairness** (`Fairness` in `Runner`) is weak fairness of each thread, while the
process lives: tokio polls every ready task, and timers elapse. A process is only
promised to end once it got SIGKILL; users and signals promise nothing; a
probe need not ever pass, a delay elapses. Every conjunct is guarded by the process not
having exited, since a hard exit stops all threads. `Session` assumes the same of the supervisor (what
was asked to end is killed in the end and settles; `Runner` has this as `StoppedProcessEnds` and
`ShutdownCompletes`), of the event loop and of the handler. The loop's taking up of the
end of the run has a fairness of its own, since `select!` chooses among ready branches at random
and redraw pings may keep coming. `Pump` assumes none.

Each property of a passing run has a mutant in `PROJECT.json`: a definition of
the module with one plausible slip (suffixed, just before the definition it
changes), under which TLC finds the property violated.

## 4. What is proved

All theorems hold for every finite set of services, every dependency relation and
every bound that satisfies the modules' named assumptions, which are what
`validate.rs` guarantees (dependencies are services, no retries with readiness) and that
threads are distinct.

* `TypeCorrect` (`RunnerProofs`): `Spec => []TypeOK`. The lemmas, one per
  action, prove the inductive `TypeInv`: `TypeOK` and the facts on labels and
  captured groups it needs.
* `BatchesStaySound`, `RestartsHoldTheRun`, `NoWakeupLost` (`RunnerProofs`) rest on
  `HandshakeInv`, which is inductive given `TypeInv`. `NoRestartDropped`
  alone is not inductive: the loop decides that it is idle in one step and ends in a later one, so
  `EndedIsIdle` also says that an idle loop has no tasks. Nor is `NoLostWakeup`:
  the permit must survive from the claim, so `WakeUpLeft` covers the
  steps between a claim and the sleep. `MergeSound` proves that merging
  overlapping closed batches keeps them closed and disjoint.
* `LaunchesFollowDependencies`: `LaunchedAfterDeps` from `GateInv`, which adds that
  a task still waiting has gone past Ready gates only and that an unjoined task is
  in `names`. The step that could break it is the claim, which re-arms gates:
  `HandshakeInv` (batches are closed under dependents and a claimed one has no live task)
  shows that no live dependent is behind them. Steps that open no task and close no gate are
  handled together by the lemma `OrderlyKeeps`.
* `RunnerKeepsPromise` (`PromiseProofs`): `Spec => Promise!Spec`, the refinement. One lemma
  per action maps its step to one of `Supervisor` or to none, given `TypeInv`, `HandshakeInv`,
  `GateInv` and a fourth inductive invariant, `SignalInv`. That is what the signals need:
  a process that lives has its task, or a task about to be recovered (`LiveHasTask`); a
  registered group is that of the latest launch (`GroupsKnown`); and whatever is held to be
  signalled later, a captured list, a timer or a late registration, concerns a process already
  asked to end or one that is gone (`TargetsAsked`, `LateAsked`). The step that could break the
  last is the claim of a batch, which takes stop marks off: its members have no task.
* `NobodyMissedByStop`, `NobodyMissedBySweep`, `TermIsEscalated` (`DeliveryProofs`) rest on
  `DeliveryInv`, which says what has reached a process by where its task is. None of the three
  is inductive. A process is safe from being missed because it is in the registry from the lock that
  registers it to the one that deregisters it (`GroupsCurrent`), and before that nobody can know it
  (`EarlyUntold`): so a sweep or a stop either captures it or is seen by its registration, which
  then sends the signal itself. While a stop is between its mark and its signals the process it
  missed so far is in the captured list (`StopReached`). A SIGTERM sent late is safe from having no
  SIGKILL to follow since after the sweep only a SIGKILL is sent late to a process that
  lives (`SweepReached`, `FlagsInOrder`). Steps that signal nobody and bring nobody up are handled
  together by the lemma `GentleKeeps`.
* `LeftoversStayTracked` (`DeliveryProofs`): a step property, as a panic may lose sight of a
  group for good. What answers for a group may change hands in any step (the task, the recovery of
  its panic, the strays, a timer); where a task panics its group members are accounted for if the group
  was registered, which `GroupsCurrent` provides for all of the task but the two windows that the
  property excepts by name: from the spawn to `register_group`, and from `deregister_group` to the sweep.
* `ReadyOnlyIfCompleted` (`OutcomeProofs`): `CompletedFirst` adds that a completion is not
  taken back while the task is alive or claimed, and that a poller, which opens gates too,
  never watches a service that is to complete.
* `KillsNeverTaint`: `KillsDoNotTaint` where no service ends by itself as SIGTERM or SIGKILL would
  end it (`NoneRaises`; the code could not tell such an end from a kill). `ProcessesTasked` comes
  first: a process never outlives its task but for a panic that ends the run, so that a relaunch
  finds none of the last instance. `TaintInv` follows an end that was asked for from the process to
  the classification, over the flag read at deregistration.
* `FailuresRecorded`, `FailuresReported`: whoever settles a status Failed is about to record a code
  (`FailureRecorded`: its task, the recovery of a panic, a poller), and the run loop cannot
  finish under a task. A poller can be late, so without readiness (`NoReadiness`) `FailureReported`
  holds, and with readiness the poller is the only exception (see the end of section 6).
* `StopsSeen`, `FinishedResolved`: `StopInv` says that without restarts the marks are a set closed
  under dependents that only grows, that who is marked is settled and its gate resolved but for what
  the stop under way still has to note, and that a task which ends with its gate pending ends for
  a stop or a shutdown.
* `QuitsStopAll`: `QuitInv` says that a service that may still start a process, or has one up, looks
  active by its status unless it has been asked to end (or its poller is failing the run). The reads
  come apart in time, so it also says that a service whose status has been read is `Cleared` and stays
  so: without restarts no status becomes active again and no stop mark goes, so whatever registers or
  relaunches under a status that was terminal when it was read has been asked to end (`StatusesSeen`).
* `TimeoutsHaveCulprits`: in runs in which nothing but a timeout reports 1 (`OnlyTimeoutsEndInOne`:
  no spawn failure, panic, second signal, restart or global stop, at most one call of the user, no
  service that exits with 1 or whose wait fails),
  the poller that records it has failed its service, and that status stays.
* `DrainStaysBounded`, `DrainStaysPatient` (`PumpProofs`) rest on `DrainInv`: what an open
  window still owes, by whether the count has moved since it opened. The bound is two graces,
  since a read early in a window is only noticed at its end.
* `TailsFlushed` (`PumpProofs`): `PlaceInv`, where the pump, its sink and the drain stand to each
  other, among it that an inline write takes no time, so that a store is given up with a line in hand
  only if that line was read at that very moment.
* `NeedleSeen` (`PumpProofs`): `ScanInv` says that the scanner has tripped, or carries exactly the
  last bytes shown, one less than a needle, with the state of the escape sequence they end in. That
  needs two lemmas on overlaps: a needle that spans two reads lies in the carry and the new bytes,
  and stripping two reads one after the other is stripping them at once.
* `OutputNotLost` (`PumpProofs`): `OrderInv` cuts the bytes read by four bounds: the log's lines reach
  up to the first, the partial line to the second, the sink and the queue to the third, the chunk in
  hand to the fourth, which is the last byte read unless a stream was given up. Every step moves one bound. `WriteCovers`
  is what it takes to show that splitting at the last newline, and at the limit, loses and joins nothing.
* `TypeCorrect` (`PumpProofs`): `SizeInv` with all of the above, as what the parts hold are bytes of
  the text because they lie between those bounds.
* `TypeCorrect`, `ScrollsStayWithTabs` (`LogViewProofs`): `ViewInv` adds that tabs are distinct.
* `RedrawsNotLost` (`LogViewProofs`): `DrawnInv`, that a compared fingerprint stands until a line
  is counted or a status set, whose writer still has the permit to leave.
* `UnreadMarksCurrent` (`LogViewProofs`): the bar is read after the fingerprint, so it may be newer. The
  invariant says that the fingerprint is of totals that were true once, and that a bar whose marks have since
  become wrong is doomed: counts only grow, so every later state differs from the fingerprint, and
  it will be repainted. A status goes back and forth, and of it this does not hold (`BarCurrent`, see section 6).
* `NoHoles` (`LogViewProofs`): `MergeInv` says that each sequence number has an owner, the store its line
  goes to, and counts: of a store still to be read, the tail now holds as many lines from any number on as
  were pooled of it, since an eviction takes the oldest (`TailGrows`); of those read, the frame holds as
  many as were pooled from the cutoff on. So what is below the cutoff has a screenful above it, and a line
  above it that the second pass missed was evicted, or stands behind a full tail. A step takes a tail of
  one store from the first count to the second, and the tails of two stores are disjoint by owner.
* `SessionLeavesInOrder` (`SessionProofs`): `LeaveInv` adds to the property why `quit` may be
  set, and that nothing runs in a run that is over. The exits left out of "in order" are named: a forced one, and that of a run lost to a panic.
  `TypeCorrect` is of the same module.
* `FilterKeepsDependencies` (`ConfigProofs`): `DepsKept` for any number of
  processes. The invariant says what the stack loops of `reachable` and
  `dependents` still owe while names are on the stack. It is the assumption
  `DependsOn \in [Service -> Seq(Service)]` of `Runner`, discharged.
* `CyclesReported`, `StartsInOrder`, `TypeCorrect` (`ConfigProofs`): `SearchInv` is the depth-first
  search: each name of the stack depends on the next, a name that has been left
  comes after all it needs, every name smaller than a root has been visited. A graph
  the search accepts is acyclic because a least position among the members of a cycle would contradict the order.
  What a name needs is defined apart from the search, as the least set closed under dependencies.
* `FiltersDropNoMore` (`ConfigProofs`): `SelectInv`, that the two walks meet only names that are needed
  or need one; that they meet all is `FilterInv`.

Recursive functions (`Strip`, `Lines`, `SumOf`) are proved about without induction over an operator:
if what a lemma says failed for some length it would fail for a least one, which
`NatLessThanWellFounded` and `WFMin` of the library provide, and the step before it contradicts that.

Only model-checked: liveness (`RestartRelaunches`, `StoppedProcessEnds`, `ShutdownCompletes`,
`ReadinessResolves`, `SessionEnds`), which is outside what this prover does with fairness and
ENABLED. Every invariant and action property that a passing run checks is stated by a theorem.

Six theorems have a hypothesis about the constants, and the runs that check the properties
satisfy it. `StopSeen` and `FinishedMeansResolved` are about runs without restarts: with them they
fail, in the ways that `ParkedStop` and `QueuedLive` show. `QuitStopsAll` leaves restarts out by name.
`FailureReported` is about runs without readiness, for the reason at the end of section 6.
`KillsDoNotTaint` and `TimeoutHasCulprit` are about exit codes that only the supervisor
brings about. `QuitStopsAll` excepts a service whose poller has settled it Failed and has yet to shut
the run down: a quit in between finds nothing to stop, and the poller's next steps stop it.
`LeftoversTracked` is about the time until the process exits, since
a hard exit leaves what it finds.

## 5. Not modelled

* Prefixes, styles, levels and the log file of the log writer; the text of the rendering, wrapping
  and resizes; themes: formatting and I/O without state.
* The matching of a search filter against lines (`merge_tail_matching`), of which `Session` has
  only the box: the same two passes as `merge_tail`, over the lines that match.
* Parsing, defaults and environment layers: pure functions of files, run once before anything
  starts; of `main.rs` also the command line.
* Of readiness the ticker and per-check timeouts; a poller may check at any moment.
* Two launches of one service whose outputs meet: `Pump` follows one launch.

## 6. Where the code does something else than it says

* `ParkedStop`: a stop repeated on a root whose dependent has been restarted takes
  the repeat path, which signals but does not note: the dependent, parked on
  another dependency, is marked stopped and told nothing.
* `QueuedLive`: a claim clears the stop mark of all its members, also one that a
  second restart has just set; the second batch then waits for a process that nobody
  stops. A mark that a stop of a dependency has put on it is lost the same way, and the
  dependent relaunches by the Ready that the stopped service's gate still has.
* `StaleReadiness`: an aborted poller past its last `select!` may still write the gate,
  of the relaunched service as well, against the comment above the reset.
* `SkippedRepaint`: a line is counted before it is buffered; a frame in between
  makes the fingerprint claim a line that is not on the screen, and the ping that
  follows is answered with no repaint.

Also seen, but stated in the hazards rather than run: a group taken by the stray timer
as the process exits is not killed; and a readiness timeout settles the status and records its
exit code in two steps, so a clean exit of the service in between lets the run end with 0
(`FailureReported`, asked of a service with a probe), although a timeout is said to fail it. And
the fingerprint and the tab bar read a status at different moments: of a silent job that completes in
between and is run again (r) before the next round, the fingerprint is that of the frame on
screen, so that the repaint is skipped and the bar says Completed of a job that runs (`BarCurrent`,
asked of `MCLogView` with `Loads <- RunTwice`).

A supervising task that panics leaves its groups registered and its statuses active:
`any_running` stays true, so q and Ctrl+C go on escalating and only a signal closes the UI.
`SessionEnds` excludes this case by name.
