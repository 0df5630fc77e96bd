------------------------------- MODULE Runner -------------------------------
(***************************************************************************)
(* The supervisor of proccie: the state behind one mutex, the task that    *)
(* drives each service, its readiness poller, the run loop that joins and  *)
(* relaunches tasks, the user's stop/restart calls, the signal handler and *)
(* the SIGKILL timers.                                                     *)
(*                                                                         *)
(* A step of a thread is one critical section of the state mutex, or one   *)
(* access to a channel or to a status cell, with the local work around it. *)
(* Signals are sent in the step that takes the snapshot of the groups when *)
(* nothing can be seen in between, and in a step of their own otherwise.   *)
(***************************************************************************)
EXTENDS Naturals, Sequences, FiniteSets

CONSTANTS
  Service,     \* the configured services
  DependsOn,   \* service -> the sequence of its depends_on
  ReadyWhen,   \* service -> when it releases its dependents
  MaxRetries,  \* service -> max_retries
  Allowed,     \* service -> the exit codes an ExpectedExit service may have
  SelfExits,   \* service -> the ways its process may end unsignalled
  TermExits,   \* service -> the ways it may end after SIGTERM ({}: ignored)
  SpawnFails,  \* services whose spawn may fail
  ClientFails, \* probes whose HTTP client may fail to build
  Leftovers,   \* services whose command may leave group members behind
  Panics,      \* services whose task may panic
  Pollers,     \* bound: readiness pollers alive at the same time
  Ui, Sig, Loop, \* the UI task, the signal handler and the run loop
  NoOne,
  Ops,         \* which of "stop", "restart", "global" the user asks for
  MaxOps,      \* bound: user operations
  MaxSignals   \* bound: signals delivered to proccie

Modes == {"Launched", "ExpectedExit", "Probe", "Output", "Delay"}
\* "lost" is a wait that failed: the end of the process with no status to go by.
ExitStatus == [kind : {"code", "signal"}, n : Nat] \cup [kind : {"lost"}, n : {1}]

Thread == Service \cup Pollers \cup {Ui, Sig, Loop}

(* The validated configuration (validate.rs): dependencies are services,   *)
(* and a service with readiness has no retries.                            *)
ASSUME ConfigAssumption ==
  /\ IsFiniteSet(Service)
  /\ DependsOn \in [Service -> Seq(Service)]
  /\ ReadyWhen \in [Service -> Modes]
  /\ MaxRetries \in [Service -> Nat]
  /\ \A s \in Service : ReadyWhen[s] \in {"Probe", "Output", "Delay"} => MaxRetries[s] = 0
  /\ Allowed \in [Service -> SUBSET Nat]
  /\ \A s \in Service : SelfExits[s] \subseteq ExitStatus
  /\ \A s \in Service : TermExits[s] \subseteq ExitStatus
  /\ SpawnFails \subseteq Service
  /\ ClientFails \subseteq Service
  /\ Leftovers \subseteq Service
  /\ Panics \subseteq Service
  /\ MaxOps \in Nat
  /\ MaxSignals \in 0..2

ASSUME ThreadAssumption ==
  /\ Service \cap Pollers = {}
  /\ {Ui, Sig, Loop} \cap (Service \cup Pollers) = {}
  /\ Ui # Sig /\ Ui # Loop /\ Sig # Loop
  /\ NoOne \notin Thread

-----------------------------------------------------------------------------
VARIABLES
  \* State, the fields behind the mutex
  groups, shutting_down, killed, stopped, strays, exit_code,
  restart_batches, restarts_arming, ended,
  \* the cancellation token, the Notify permit, the gates and status cells
  cancelled, notified, gate, status,
  \* where each thread is
  pc,
  \* the run loop: services whose task is not joined, claimed by a restart, panicked
  names, claimed, reaping,
  \* the tasks: dependency waited for, attempt, exit status, shutdown flag, poller
  at, attempt, exit, was_down, poller,
  \* the processes: launches so far (the current pgid), the leader, leftover groups
  pid, child, orphans,
  \* the pollers: service polled, whether its child is live
  owner, live,
  \* the UI's current call
  op, root, todo, pids, ops, global_stopped, quit_requested,
  \* timers: armed (service, pgid) SIGKILLs, the shutdown's, the strays'
  sigkills, grace, stray_timers, stray_kills,
  force_exit   \* the hard exit of a process told to go twice

flagVars    == <<shutting_down, killed, force_exit>>
restartVars == <<restart_batches, restarts_arming, ended>>
svcVars     == <<gate, status>>
loopVars    == <<names, claimed, reaping>>
taskVars    == <<at, attempt, exit, was_down, poller>>
procVars    == <<groups, pid, child, orphans>>
pollVars    == <<owner, live>>
quitVars    == <<global_stopped, quit_requested>>
uiVars      == <<op, root, todo, pids, ops, quitVars>>
timerVars   == <<sigkills, grace>>
strayVars   == <<strays, stray_timers, stray_kills>>

vars == <<flagVars, restartVars, svcVars, loopVars, taskVars, procVars, pollVars, uiVars,
          timerVars, strayVars, stopped, exit_code, cancelled, notified, pc>>

\* What no step of the thread concerned changes (or few do).
taskFrame  == <<flagVars, restartVars, stopped, exit_code, cancelled, notified, loopVars,
                uiVars, grace>>
pollFrame  == <<flagVars, restartVars, stopped, exit_code, cancelled, notified, loopVars,
                taskVars, procVars, pollVars, uiVars, timerVars, strayVars>>
uiFrame    == <<flagVars, exit_code, cancelled, loopVars, taskVars, pid, pollVars, grace,
                strayVars>>
loopFrame  == <<flagVars, exit_code, cancelled, exit, was_down, poller, pid, pollVars,
                uiVars, timerVars, stray_timers, stray_kills>>
downFrame  == <<restartVars, groups, stopped, notified, svcVars, loopVars, taskVars, pid,
                pollVars, sigkills>>
timerFrame == <<flagVars, restartVars, groups, stopped, exit_code, cancelled, notified,
                svcVars, pc, loopVars, taskVars, pid, pollVars, uiVars, grace>>

-----------------------------------------------------------------------------
(* Helpers.                                                                *)

DepsOf(s) == {DependsOn[s][i] : i \in 1..Len(DependsOn[s])}

\* A set of services that holds every dependent of its members.
Closed(S) == \A s \in Service : DepsOf(s) \cap S # {} => s \in S

\* A service with everything that transitively depends on it: the least closed set.
Subtree(s) == {t \in Service : \A S \in SUBSET Service : s \in S /\ Closed(S) => t \in S}

Goto(t, label) == pc' = [pc EXCEPT ![t] = label]

IsActive(st) == st \in {"Waiting", "Running"}
FinishIfActive(s, st) ==
  status' = [status EXCEPT ![s] = IF IsActive(@) THEN st ELSE @]
SignalDep(s, result) ==
  gate' = [gate EXCEPT ![s] = IF @ = "Pending" THEN result ELSE @]

LiveGroups == {<<s, groups[s]>> : s \in {t \in Service : groups[t] # 0}}

\* killpg on each (service, pgid) of S: a leader that is gone is not hit, and
\* SIGKILL takes the group's other members too (SIGTERM may).
Hit(c, sig) ==
  CASE c = "alive" -> IF sig = "SIGKILL" THEN "killed" ELSE "termed"
    [] c = "termed" /\ sig = "SIGKILL" -> "killed"
    [] OTHER -> c
SignalGroups(S, sig) ==
  /\ child' = [s \in Service |-> IF <<s, pid[s]>> \in S THEN Hit(child[s], sig) ELSE child[s]]
  /\ orphans' = IF sig = "SIGKILL" THEN orphans \ S ELSE orphans

RestartInFlight_Unarmed == restart_batches # {}
RestartInFlight == restarts_arming > 0 \/ restart_batches # {}

\* The code a run ends with after an unexpected exit, 1 for a lost one; 0 is a completion.
ResultCode(s) ==
  LET e == exit[s] IN
  IF e.kind = "signal" THEN 128 + e.n
  ELSE IF e.n = 0 /\ ReadyWhen[s] = "ExpectedExit" THEN 1 ELSE e.n

\* Where a thread goes on once shutdown() has returned to it.
AfterShutdown(t) ==
  IF t \in Service THEN "fin"
  ELSE IF t \in Pollers THEN "off"
  ELSE IF t = Ui THEN "idle"
  ELSE IF t = Sig THEN "second"
  ELSE "top"

FailCode_TasksOnly(t) == IF t \in Service THEN ResultCode(t) ELSE 0

\* The code a thread that fails the run records: a task its own, the others 1.
FailCode(t) == IF t \in Service THEN ResultCode(t) ELSE 1

-----------------------------------------------------------------------------
Init ==
  /\ groups = [s \in Service |-> 0]
  /\ shutting_down = FALSE /\ killed = FALSE
  /\ stopped = [s \in Service |-> "no"]
  /\ strays = {} /\ stray_timers = {} /\ stray_kills = {}
  /\ exit_code = 0
  /\ restart_batches = {} /\ restarts_arming = 0 /\ ended = FALSE
  /\ cancelled = FALSE /\ notified = FALSE
  /\ gate = [s \in Service |-> "Pending"]
  /\ status = [s \in Service |-> "Waiting"]
  /\ pc = [t \in Thread |-> IF t \in Service THEN "none"
                            ELSE IF t \in Pollers THEN "off"
                            ELSE IF t = Ui THEN "idle"
                            ELSE IF t = Sig THEN "first" ELSE "spawn"]
  /\ names = {} /\ claimed = Service /\ reaping = NoOne
  /\ at = [s \in Service |-> 1] /\ attempt = [s \in Service |-> 1]
  /\ exit = [s \in Service |-> [kind |-> "code", n |-> 0]]
  /\ was_down = [s \in Service |-> FALSE]
  /\ poller = [s \in Service |-> NoOne]
  /\ pid = [s \in Service |-> 0] /\ child = [s \in Service |-> "none"] /\ orphans = {}
  /\ owner = [p \in Pollers |-> NoOne] /\ live = [p \in Pollers |-> FALSE]
  /\ op = "none" /\ root = NoOne /\ todo = {} /\ pids = {} /\ ops = 0
  /\ global_stopped = FALSE /\ quit_requested = FALSE
  /\ sigkills = {} /\ grace = "off" /\ force_exit = FALSE

-----------------------------------------------------------------------------
(* fail_run and shutdown, run by whichever thread gets there.              *)

RecordedCode(t) == IF exit_code = 0 THEN FailCode(t) ELSE exit_code

\* set_exit_code: the first non-zero code stays.
SetExitCode(t) ==
  /\ pc[t] = "code"
  /\ exit_code' = RecordedCode(t)
  /\ Goto(t, "shutdown")
  /\ UNCHANGED <<downFrame, flagVars, uiVars, strayVars, child, orphans, grace, cancelled>>

\* Only the first call goes on past the lock.
BeginShutdown(t) ==
  /\ pc[t] = "shutdown"
  /\ shutting_down' = TRUE
  /\ Goto(t, IF shutting_down THEN AfterShutdown(t) ELSE "cancel")
  /\ UNCHANGED <<downFrame, uiVars, strayVars, killed, force_exit, child, orphans, grace, exit_code,
                 cancelled>>

\* Cancel the token, SIGTERM every group, arm the SIGKILL timer.
CancelAndTerm(t) ==
  /\ pc[t] = "cancel"
  /\ cancelled' = TRUE
  /\ SignalGroups(LiveGroups, "SIGTERM")
  /\ grace' = "armed"
  /\ Goto(t, AfterShutdown(t))
  /\ UNCHANGED <<downFrame, flagVars, uiVars, strayVars, exit_code>>

\* The timer: the flag makes a group that registers later kill itself.
ShutdownTimer ==
  /\ grace = "armed"
  /\ grace' = "fired"
  /\ killed' = TRUE
  /\ SignalGroups(LiveGroups, "SIGKILL")
  /\ UNCHANGED <<downFrame, uiVars, strayVars, shutting_down, force_exit, exit_code,
                 cancelled, pc>>

\* force_shutdown: SIGKILL every group, and the strays with them.
ForceShutdown ==
  /\ killed' = TRUE
  /\ SignalGroups(LiveGroups \cup strays, "SIGKILL")
  /\ strays' = {}
  /\ UNCHANGED <<downFrame, shutting_down, grace, stray_timers, stray_kills, exit_code,
                 cancelled>>

-----------------------------------------------------------------------------
(* The signal handler: the first signal shuts down, the second forces.     *)

FirstSignal ==
  /\ pc[Sig] = "first" /\ MaxSignals >= 1
  /\ Goto(Sig, "shutdown")
  /\ UNCHANGED <<pollFrame, svcVars>>

SecondSignal ==
  /\ pc[Sig] = "second" /\ MaxSignals = 2
  /\ Goto(Sig, "forced")
  /\ ForceShutdown
  /\ force_exit' = TRUE
  /\ UNCHANGED uiVars

-----------------------------------------------------------------------------
(* run_process: one task per service.                                      *)

WaitIsOff_Uncancelled(s) == gate[DependsOn[s][at[s]]] \in {"Failed", "Stopped"}

\* The branches of a wait that end in a launch abandoned.
WaitIsOff(s) ==
  \/ cancelled
  \/ gate[DependsOn[s][at[s]]] \in {"Failed", "Stopped"}
  \/ gate[s] = "Stopped"

\* wait_for_dep: the select! takes any branch that is ready.
AwaitDep(s) ==
  /\ pc[s] = "deps" /\ at[s] <= Len(DependsOn[s])
  /\ \/ /\ gate[DependsOn[s][at[s]]] = "Ready"
        /\ at' = [at EXCEPT ![s] = @ + 1]
        /\ UNCHANGED pc
     \/ /\ WaitIsOff(s)
        /\ Goto(s, "abandon")
        /\ UNCHANGED at
  /\ UNCHANGED <<taskFrame, svcVars, procVars, pollVars, strayVars, attempt, exit, was_down,
                 poller, sigkills>>

\* Dependencies met: launch unless stopped or shutting down, with a poller of
\* its own when the service has readiness.
BeginAttempts(s) ==
  /\ pc[s] = "deps" /\ at[s] > Len(DependsOn[s])
  /\ \/ /\ stopped[s] # "no" \/ cancelled
        /\ Goto(s, "abandon")
        /\ UNCHANGED <<pollVars, poller>>
     \/ /\ stopped[s] = "no" /\ ~cancelled
        /\ ReadyWhen[s] \in {"Launched", "ExpectedExit"}
        /\ Goto(s, "attempt")
        /\ UNCHANGED <<pollVars, poller>>
     \/ /\ stopped[s] = "no" /\ ~cancelled
        /\ ReadyWhen[s] \in {"Probe", "Output", "Delay"}
        /\ \E p \in Pollers :
             /\ pc[p] = "off" /\ \A t \in Service : poller[t] # p
             /\ pc' = [pc EXCEPT ![s] = "attempt", ![p] = "launch"]
             /\ poller' = [poller EXCEPT ![s] = p]
             /\ owner' = [owner EXCEPT ![p] = s]
             /\ live' = [live EXCEPT ![p] = FALSE]
  /\ UNCHANGED <<taskFrame, svcVars, procVars, strayVars, at, attempt, exit, was_down,
                 sigkills>>

Abandon_GatePending(s) ==
  /\ pc[s] = "abandon"
  /\ FinishIfActive(s, "Stopped")
  /\ Goto(s, "fin")
  /\ UNCHANGED <<pollFrame, gate>>

\* The status it keeps if a concurrent exit set one; its waiters fail.
Abandon(s) ==
  /\ pc[s] = "abandon"
  /\ FinishIfActive(s, "Stopped")
  /\ SignalDep(s, "Failed")
  /\ Goto(s, "fin")
  /\ UNCHANGED pollFrame

\* The check at the head of the attempt loop, and the one after the back-off.
Attempt(s) ==
  /\ pc[s] \in {"attempt", "backoff"}
  /\ Goto(s, IF stopped[s] # "no" \/ cancelled THEN "abandon"
             ELSE IF pc[s] = "attempt" /\ attempt[s] > 1 THEN "backoff" ELSE "spawn")
  /\ UNCHANGED <<pollFrame, svcVars>>

\* An unexpected exit is retried while attempts remain.
RetryOrSettle(s) ==
  /\ attempt' = [attempt EXCEPT ![s] = IF @ <= MaxRetries[s] THEN @ + 1 ELSE @]
  /\ Goto(s, IF attempt[s] <= MaxRetries[s] THEN "attempt" ELSE "terminal")

SpawnChild(s) ==
  /\ pc[s] = "spawn"
  /\ pid' = [pid EXCEPT ![s] = @ + 1]
  /\ child' = [child EXCEPT ![s] = "alive"]
  /\ Goto(s, "register")
  /\ UNCHANGED <<taskFrame, svcVars, taskVars, pollVars, strayVars, groups, orphans,
                 sigkills>>

\* A spawn that fails counts as a failure with code 1, whatever stopped meanwhile.
SpawnFailure(s) ==
  /\ pc[s] = "spawn" /\ s \in SpawnFails
  /\ exit' = [exit EXCEPT ![s] = [kind |-> "code", n |-> 1]]
  /\ RetryOrSettle(s)
  /\ UNCHANGED <<taskFrame, svcVars, procVars, pollVars, strayVars, at, was_down, poller,
                 sigkills>>

OnRegistration_StopUnseen(s) ==
  IF killed THEN "send_kill" ELSE IF shutting_down THEN "send_term" ELSE "release"

OnRegistration_SweepUnseen(s) ==
  IF stopped[s] = "Kill" THEN "send_kill"
  ELSE IF shutting_down THEN "send_term"
  ELSE IF stopped[s] = "Term" THEN "send_term_escalate" ELSE "release"

\* What a registering group finds under way: the signal to send itself, if any.
OnRegistration(s) ==
  IF killed \/ stopped[s] = "Kill" THEN "send_kill"
  ELSE IF shutting_down THEN "send_term"
  ELSE IF stopped[s] = "Term" THEN "send_term_escalate" ELSE "release"

\* register_group: the lock decides between Running and a racing signal.
RegisterGroup(s) ==
  /\ pc[s] = "register"
  /\ groups' = [groups EXCEPT ![s] = pid[s]]
  /\ Goto(s, OnRegistration(s))
  /\ status' = IF OnRegistration(s) = "release" THEN [status EXCEPT ![s] = "Running"] ELSE status
  /\ UNCHANGED <<taskFrame, taskVars, pollVars, strayVars, gate, pid, child, orphans,
                 sigkills>>

SignalLate_NoTimer(s) ==
  /\ pc[s] \in {"send_kill", "send_term", "send_term_escalate"}
  /\ SignalGroups({<<s, pid[s]>>}, IF pc[s] = "send_kill" THEN "SIGKILL" ELSE "SIGTERM")
  /\ Goto(s, "release")
  /\ UNCHANGED <<taskFrame, svcVars, taskVars, pollVars, strayVars, groups, pid, sigkills>>

\* The signal a racing stop or shutdown left to the group, and its own timer
\* when the stop's timer has captured the groups already.
SignalLate(s) ==
  /\ pc[s] \in {"send_kill", "send_term", "send_term_escalate"}
  /\ SignalGroups({<<s, pid[s]>>}, IF pc[s] = "send_kill" THEN "SIGKILL" ELSE "SIGTERM")
  /\ sigkills' = IF pc[s] = "send_term_escalate" THEN sigkills \cup {<<s, pid[s]>>} ELSE sigkills
  /\ Goto(s, "release")
  /\ UNCHANGED <<taskFrame, svcVars, taskVars, pollVars, strayVars, groups, pid>>

ReadyOnLaunch_AnyTask(s) == ReadyWhen[s] \in {"Launched", "ExpectedExit"}
ReadyOnLaunch(s) == ReadyWhen[s] = "Launched"

\* set_liveness(Some), the output pump, and the gate of a launch-ready service.
ReleaseDependents(s) ==
  /\ pc[s] = "release"
  /\ live' = [p \in Pollers |-> live[p] \/ p = poller[s]]
  /\ IF ReadyOnLaunch(s) THEN SignalDep(s, "Ready") ELSE UNCHANGED gate
  /\ Goto(s, "wait")
  /\ UNCHANGED <<taskFrame, taskVars, procVars, strayVars, status, owner, sigkills>>

\* child.wait: the leader is reaped.
ReapChild(s) ==
  /\ pc[s] = "wait" /\ child[s] = "dead"
  /\ child' = [child EXCEPT ![s] = "none"]
  /\ Goto(s, "deregister")
  /\ UNCHANGED <<downFrame, flagVars, uiVars, strayVars, orphans, grace, exit_code,
                 cancelled>>

\* deregister_group, which also says whether a stop or a shutdown is under way,
\* then set_liveness(None).
DeregisterGroup(s) ==
  /\ pc[s] = "deregister"
  /\ groups' = [groups EXCEPT ![s] = 0]
  /\ was_down' = [was_down EXCEPT ![s] = shutting_down \/ stopped[s] # "no"]
  /\ live' = [p \in Pollers |-> live[p] /\ p # poller[s]]
  /\ Goto(s, IF s \in Leftovers THEN "sweep" ELSE "settle")
  /\ UNCHANGED <<taskFrame, svcVars, strayVars, at, attempt, exit, poller, pid, child,
                 orphans, owner, sigkills>>

\* sweep_group: SIGTERM what the leader left behind, if anything, and record it
\* with a timer of its own.
SweepGroup(s) ==
  /\ pc[s] = "sweep"
  /\ IF <<s, pid[s]>> \in orphans
     THEN /\ strays' = strays \cup {<<s, pid[s]>>}
          /\ stray_timers' = stray_timers \cup {<<s, pid[s]>>}
     ELSE UNCHANGED <<strays, stray_timers>>
  /\ Goto(s, "settle")
  /\ UNCHANGED <<taskFrame, svcVars, taskVars, procVars, pollVars, sigkills, stray_kills>>

\* settle_expected: an allowed exit, known to be one, of a service that is not stopped
\* completes.
SettleExpected(s) ==
  /\ pc[s] = "settle"
  /\ LET expected == /\ exit[s].kind = "code" /\ exit[s].n \in Allowed[s]
                     /\ ReadyWhen[s] = "ExpectedExit"
                     /\ stopped[s] = "no" /\ IsActive(status[s])
     IN /\ status' = IF expected THEN [status EXCEPT ![s] = "Completed"] ELSE status
        /\ Goto(s, IF expected THEN "ready" ELSE "classify")
  /\ UNCHANGED <<pollFrame, gate>>

\* The dependents of a completion go before its output drains.
ReleaseCompleted(s) ==
  /\ pc[s] = "ready"
  /\ SignalDep(s, "Ready")
  /\ Goto(s, "fin")
  /\ UNCHANGED <<pollFrame, status>>

EndWasAsked_StopOnly(s) == stopped[s] # "no"
EndWasAsked(s) == was_down[s] \/ stopped[s] # "no"

\* classify_exit, once the output has drained: the shutdown flag is the one
\* read at deregistration, the stop mark is read now.
ClassifyExit(s) ==
  /\ pc[s] = "classify"
  /\ \/ /\ EndWasAsked(s)
        /\ FinishIfActive(s, "Stopped")
        /\ Goto(s, "fin")
        /\ UNCHANGED attempt
     \/ /\ ~EndWasAsked(s)
        /\ RetryOrSettle(s)
        /\ UNCHANGED status
  /\ UNCHANGED <<taskFrame, procVars, pollVars, strayVars, gate, at, exit, was_down, poller,
                 sigkills>>

\* complete_terminally and fail_terminally up to fail_run's gate signal.
SettleTerminally(s) ==
  /\ pc[s] = "terminal"
  /\ FinishIfActive(s, IF ResultCode(s) = 0 THEN "Completed" ELSE "Failed")
  /\ SignalDep(s, "Failed")
  /\ Goto(s, "code")
  /\ UNCHANGED pollFrame

\* The task's end aborts its poller, which takes effect only at an await: a
\* poller past its select! runs its synchronous tail to the end.
FinishTask(s) ==
  /\ pc[s] = "fin"
  /\ pc' = [t \in Thread |->
              IF t = s THEN "done"
              ELSE IF t = poller[s] /\ pc[t] \in {"launch", "poll"} THEN "off" ELSE pc[t]]
  /\ poller' = [poller EXCEPT ![s] = NoOne]
  /\ UNCHANGED <<taskFrame, svcVars, procVars, pollVars, strayVars, at, attempt, exit,
                 was_down, sigkills>>

\* A panic may unwind from anywhere in the task. It drops the child, which kills the
\* leader and not what else is in its group (kill_on_drop), and leaves the poller running.
TaskPanics(s) ==
  /\ s \in Panics /\ pc[s] \notin {"none", "done", "panicked"}
  /\ child' = [child EXCEPT ![s] = IF @ \in {"alive", "termed"} THEN "killed" ELSE @]
  /\ \/ UNCHANGED orphans
     \/ /\ s \in Leftovers /\ child[s] \in {"alive", "termed"}
        /\ orphans' = orphans \cup {<<s, pid[s]>>}
  /\ Goto(s, "panicked")
  /\ poller' = [poller EXCEPT ![s] = NoOne]
  /\ UNCHANGED <<taskFrame, svcVars, pollVars, strayVars, at, attempt, exit, was_down,
                 groups, pid, sigkills>>

TaskStep(s) ==
  \/ AwaitDep(s) \/ BeginAttempts(s) \/ Abandon(s) \/ Attempt(s)
  \/ SpawnChild(s) \/ SpawnFailure(s) \/ RegisterGroup(s) \/ SignalLate(s)
  \/ ReleaseDependents(s) \/ ReapChild(s) \/ DeregisterGroup(s) \/ SweepGroup(s)
  \/ SettleExpected(s) \/ ReleaseCompleted(s) \/ ClassifyExit(s)
  \/ SettleTerminally(s) \/ FinishTask(s)

-----------------------------------------------------------------------------
(* poll_readiness: one poller per launched task with readiness.            *)

\* The window opens at the first launch; a client that cannot be built fails the run.
AwaitFirstLaunch(p) ==
  /\ pc[p] = "launch" /\ live[p]
  /\ \/ Goto(p, "poll")
     \/ /\ ReadyWhen[owner[p]] = "Probe" /\ owner[p] \in ClientFails
        /\ Goto(p, "fail")
  /\ UNCHANGED <<pollFrame, svcVars>>

\* A check, a match or the delay comes through; a probe only while its child is live.
CheckPasses(p) ==
  /\ pc[p] = "poll"
  /\ ReadyWhen[owner[p]] = "Probe" => live[p]
  /\ Goto(p, "passed")
  /\ UNCHANGED <<pollFrame, svcVars>>

\* A stop that landed meanwhile withholds the release; so does an exit, except
\* that the probe loop has looked at that already.
WithholdOrRelease(p) ==
  /\ pc[p] = "passed"
  /\ Goto(p, IF \/ stopped[owner[p]] # "no"
                \/ (ReadyWhen[owner[p]] # "Probe" /\ ~live[p])
             THEN "cancelled" ELSE "release")
  /\ UNCHANGED <<pollFrame, svcVars>>

\* A probe that does not pass is tried again, unless a stop has landed.
CheckFails(p) ==
  /\ pc[p] = "poll" /\ ReadyWhen[owner[p]] = "Probe" /\ stopped[owner[p]] # "no"
  /\ Goto(p, "cancelled")
  /\ UNCHANGED <<pollFrame, svcVars>>

ReportReady(p) ==
  /\ pc[p] = "release"
  /\ SignalDep(owner[p], "Ready")
  /\ Goto(p, "off")
  /\ UNCHANGED <<pollFrame, status>>

\* readiness_cancelled, from the token or from a stop seen earlier.
ReadinessCancelled(p) ==
  /\ pc[p] = "cancelled" \/ (pc[p] \in {"launch", "poll"} /\ cancelled)
  /\ SignalDep(owner[p], "Failed")
  /\ Goto(p, "off")
  /\ UNCHANGED <<pollFrame, status>>

DeadlineElapses(p) ==
  /\ pc[p] = "poll" /\ ReadyWhen[owner[p]] # "Delay"
  /\ Goto(p, "expired")
  /\ UNCHANGED <<pollFrame, svcVars>>

OnReadinessDeadline(p) ==
  /\ pc[p] = "expired"
  /\ Goto(p, IF stopped[owner[p]] # "no" THEN "cancelled" ELSE "fail")
  /\ UNCHANGED <<pollFrame, svcVars>>

FailReadinessStartup_Blind(p) ==
  /\ pc[p] = "fail"
  /\ FinishIfActive(owner[p], "Failed")
  /\ SignalDep(owner[p], "Failed")
  /\ Goto(p, "code")
  /\ UNCHANGED pollFrame

FailReadinessStartup_Silent(p) ==
  /\ pc[p] = "fail"
  /\ FinishIfActive(owner[p], "Failed")
  /\ Goto(p, "off")
  /\ UNCHANGED <<pollFrame, gate>>

\* fail_readiness_startup: the status cell decides against a racing stop or exit.
FailReadinessStartup(p) ==
  /\ pc[p] = "fail"
  /\ IF IsActive(status[owner[p]])
     THEN /\ FinishIfActive(owner[p], "Failed")
          /\ SignalDep(owner[p], "Failed")
          /\ Goto(p, "code")
     ELSE /\ Goto(p, "cancelled")
          /\ UNCHANGED svcVars
  /\ UNCHANGED pollFrame

PollStep(p) ==
  \/ AwaitFirstLaunch(p) \/ WithholdOrRelease(p) \/ ReportReady(p) \/ ReadinessCancelled(p)
  \/ DeadlineElapses(p) \/ OnReadinessDeadline(p) \/ FailReadinessStartup(p)

-----------------------------------------------------------------------------
(* run: the loop that spawns, joins and relaunches the tasks.              *)

\* Where the loop waits: nothing to supervise, or a task or a wake-up to come.
AwaitNext(tasks) == IF tasks = {} THEN "idle" ELSE "select"

\* spawn_process for every claimed service, in start order (no task of the
\* batch can tell in which order: each waits for its gates).
SpawnClaimed ==
  /\ pc[Loop] = "spawn"
  /\ names' = names \cup claimed
  /\ claimed' = {}
  /\ pc' = [t \in Thread |-> IF t \in claimed THEN "deps"
                             ELSE IF t = Loop THEN AwaitNext(names \cup claimed) ELSE pc[t]]
  /\ at' = [s \in Service |-> IF s \in claimed THEN 1 ELSE at[s]]
  /\ attempt' = [s \in Service |-> IF s \in claimed THEN 1 ELSE attempt[s]]
  /\ UNCHANGED <<loopFrame, restartVars, svcVars, reaping, groups, child, orphans, strays,
                 stopped, notified>>

Quiesced_InPart(b) == ~(b \subseteq names)
Quiesced(b) == b \cap names = {}

\* take_ready_restarts: every batch without a live task is claimed and re-armed
\* under one lock; a shutdown discards all batches.
TakeReadyRestarts ==
  /\ pc[Loop] = "top"
  /\ LET ready == IF shutting_down THEN {} ELSE {b \in restart_batches : Quiesced(b)}
         batch == UNION ready
     IN /\ restart_batches' = IF shutting_down THEN {} ELSE restart_batches \ ready
        /\ claimed' = batch
        /\ stopped' = [s \in Service |-> IF s \in batch THEN "no" ELSE stopped[s]]
        /\ gate' = [s \in Service |-> IF s \in batch THEN "Pending" ELSE gate[s]]
        /\ status' = [s \in Service |-> IF s \in batch THEN "Waiting" ELSE status[s]]
        /\ Goto(Loop, IF batch = {} THEN AwaitNext(names) ELSE "spawn")
  /\ UNCHANGED <<loopFrame, restarts_arming, ended, names, reaping, at, attempt, groups,
                 child, orphans, strays, notified>>

\* end_run_if_idle: a restart that has armed holds the run open.
EndRunIfIdle ==
  /\ pc[Loop] = "idle"
  /\ ended' = ~RestartInFlight
  /\ Goto(Loop, IF RestartInFlight THEN "sleep" ELSE "reap")
  /\ UNCHANGED <<uiFrame, svcVars, uiVars, restart_batches, restarts_arming, groups, child,
                 orphans, sigkills, stopped, notified>>

Notified ==
  /\ pc[Loop] \in {"sleep", "select"} /\ notified
  /\ notified' = FALSE
  /\ Goto(Loop, "top")
  /\ UNCHANGED <<uiFrame, restartVars, svcVars, uiVars, groups, child, orphans, sigkills,
                 stopped>>

\* reap_joined: the finished task is live no more; a panic is recovered.
ReapJoined(s) ==
  /\ pc[Loop] = "select" /\ pc[s] \in {"done", "panicked"}
  /\ names' = names \ {s}
  /\ IF pc[s] = "panicked"
     THEN /\ pc' = [pc EXCEPT ![s] = "none", ![Loop] = "recover"]
          /\ reaping' = s
     ELSE /\ pc' = [pc EXCEPT ![s] = "none", ![Loop] = "top"]
          /\ UNCHANGED reaping
  /\ UNCHANGED <<loopFrame, restartVars, svcVars, claimed, at, attempt, groups, child,
                 orphans, strays, stopped, notified>>

RecoverPanic_GroupKept ==
  /\ pc[Loop] = "recover"
  /\ FinishIfActive(reaping, "Failed")
  /\ Goto(Loop, "drop")
  /\ UNCHANGED <<pollFrame, gate>>

\* recover_panic: settle the dead task and SIGKILL the group it left.
RecoverPanic ==
  /\ pc[Loop] = "recover"
  /\ FinishIfActive(reaping, "Failed")
  /\ SignalGroups({x \in LiveGroups : x[1] = reaping}, "SIGKILL")
  /\ Goto(Loop, "drop")
  /\ UNCHANGED <<taskFrame, taskVars, pollVars, strayVars, gate, groups, pid, sigkills>>

\* ... then drop the group and fail the dependents; fail_run follows.
DropPanicked ==
  /\ pc[Loop] = "drop"
  /\ groups' = [groups EXCEPT ![reaping] = 0]
  /\ SignalDep(reaping, "Failed")
  /\ reaping' = NoOne
  /\ Goto(Loop, "code")
  /\ UNCHANGED <<loopFrame, restartVars, status, names, claimed, at, attempt, child,
                 orphans, strays, stopped, notified>>

\* reap_strays at the end of the run, which returns the exit code.
ReapStrays ==
  /\ pc[Loop] = "reap"
  /\ orphans' = orphans \ strays
  /\ strays' = {}
  /\ Goto(Loop, "returned")
  /\ UNCHANGED <<downFrame, flagVars, uiVars, child, grace, stray_timers, stray_kills,
                 exit_code, cancelled>>

\* main exits the process once the run has returned (and the UI, if any, closed).
Exit ==
  /\ pc[Loop] = "returned"
  /\ Goto(Loop, "exited")
  /\ UNCHANGED <<pollFrame, svcVars>>

\* exit(1), the force delay after a second signal or a repeated quit.
HardExit ==
  /\ force_exit
  /\ exit_code' = 1
  /\ Goto(Loop, "exited")
  /\ UNCHANGED <<downFrame, flagVars, uiVars, strayVars, child, orphans, grace, cancelled>>

LoopStep ==
  \/ SpawnClaimed \/ TakeReadyRestarts \/ EndRunIfIdle \/ Notified
  \/ \E s \in Service : ReapJoined(s)
  \/ RecoverPanic \/ DropPanicked \/ ReapStrays \/ Exit

-----------------------------------------------------------------------------
(* The UI task: one call at a time, run to its end before the next key.    *)

\* any_running: the groups and the restarts, under the lock, decide if there are any;
\* without the lock the statuses follow, one service at a time.
LookForRunning(found) ==
  IF LiveGroups # {} \/ RestartInFlight
  THEN Goto(Ui, found) /\ UNCHANGED todo
  ELSE Goto(Ui, "statuses") /\ todo' = Service

\* What a key that found something running does: stop_service, or the global stop.
WhenRunning == IF op = "stop" THEN "mark" ELSE "stop_all"

ReadStatus_RunningOnly(s) ==
  /\ pc[Ui] = "statuses" /\ s \in todo
  /\ todo' = IF status[s] = "Running" THEN {} ELSE todo \ {s}
  /\ Goto(Ui, IF status[s] = "Running" THEN WhenRunning ELSE "statuses")
  /\ UNCHANGED <<uiFrame, restartVars, svcVars, groups, child, orphans, op, root, pids, ops,
                 quitVars, sigkills, stopped, notified>>

ReadStatus(s) ==
  /\ pc[Ui] = "statuses" /\ s \in todo
  /\ todo' = IF IsActive(status[s]) THEN {} ELSE todo \ {s}
  /\ Goto(Ui, IF IsActive(status[s]) THEN WhenRunning ELSE "statuses")
  /\ UNCHANGED <<uiFrame, restartVars, svcVars, groups, child, orphans, op, root, pids, ops,
                 quitVars, sigkills, stopped, notified>>

\* Ctrl+C on a service's tab: its stop, if anything runs.
UiStop(s) ==
  /\ pc[Ui] = "idle" /\ ops < MaxOps /\ "stop" \in Ops
  /\ op' = "stop" /\ root' = s /\ ops' = ops + 1
  /\ LookForRunning("mark")
  /\ UNCHANGED <<uiFrame, restartVars, svcVars, groups, child, orphans, pids, quitVars,
                 sigkills, stopped, notified>>

UiRestart_Unarmed(s) ==
  /\ pc[Ui] = "idle" /\ ops < MaxOps /\ "restart" \in Ops
  /\ ~shutting_down /\ ~ended
  /\ op' = "restart" /\ root' = s /\ ops' = ops + 1
  /\ Goto(Ui, "mark")
  /\ UNCHANGED <<uiFrame, restartVars, svcVars, groups, child, orphans, todo, pids,
                 quitVars, sigkills, stopped, notified>>

\* r on a service's tab: restart_service arms under the lock or is refused.
UiRestart(s) ==
  /\ pc[Ui] = "idle" /\ ops < MaxOps /\ "restart" \in Ops
  /\ ~shutting_down /\ ~ended
  /\ restarts_arming' = restarts_arming + 1
  /\ op' = "restart" /\ root' = s /\ ops' = ops + 1
  /\ Goto(Ui, "mark")
  /\ UNCHANGED <<uiFrame, svcVars, restart_batches, ended, groups, child, orphans, todo,
                 pids, quitVars, sigkills, stopped, notified>>

\* mark_subtree_stopped: a stopped root means a repeat. The kind is written over
\* whatever each target had; the live groups are captured under the same lock.
MarkSubtreeStopped ==
  /\ pc[Ui] = "mark"
  /\ LET already == stopped[root] # "no"
         targets == Subtree(root)
     IN /\ stopped' = [s \in Service |->
                         IF s \in targets THEN IF already THEN "Kill" ELSE "Term" ELSE stopped[s]]
        /\ pids' = {x \in LiveGroups : x[1] \in targets}
        /\ todo' = IF already THEN {} ELSE targets
        /\ Goto(Ui, IF already THEN "kill" ELSE "note")
  /\ UNCHANGED <<uiFrame, restartVars, svcVars, groups, child, orphans, op, root, ops,
                 quitVars, sigkills, notified>>

NoteTarget_GateKept(s) ==
  /\ pc[Ui] = "note" /\ s \in todo
  /\ FinishIfActive(s, "Stopped")
  /\ todo' = todo \ {s}
  /\ Goto(Ui, IF todo = {s} THEN "term" ELSE "note")
  /\ UNCHANGED <<uiFrame, restartVars, gate, groups, child, orphans, op, root, pids, ops,
                 quitVars, sigkills, stopped, notified>>

\* note_subtree, one target after the other, without the lock.
NoteTarget(s) ==
  /\ pc[Ui] = "note" /\ s \in todo
  /\ FinishIfActive(s, "Stopped")
  /\ SignalDep(s, "Stopped")
  /\ todo' = todo \ {s}
  /\ Goto(Ui, IF todo = {s} THEN "term" ELSE "note")
  /\ UNCHANGED <<uiFrame, restartVars, groups, child, orphans, op, root, pids, ops,
                 quitVars, sigkills, stopped, notified>>

\* SIGKILL at once on a repeat; otherwise SIGTERM, with a SIGKILL timer for the
\* captured groups. A stop ends here, a restart goes on to queue its batch.
SignalSubtree ==
  /\ pc[Ui] \in {"term", "kill"}
  /\ SignalGroups(pids, IF pc[Ui] = "kill" THEN "SIGKILL" ELSE "SIGTERM")
  /\ sigkills' = IF pc[Ui] = "kill" THEN sigkills ELSE sigkills \cup pids
  /\ pids' = {}
  /\ Goto(Ui, IF op = "restart" THEN "queue" ELSE "idle")
  /\ UNCHANGED <<uiFrame, restartVars, svcVars, groups, op, root, todo, ops, quitVars,
                 stopped, notified>>

MergedBatches_Unfolded(targets) == restart_batches \cup {targets}

\* merge_restart_batch: the new batch takes in every batch it overlaps.
MergedBatches(targets) ==
  LET overlapping == {b \in restart_batches : b \cap targets # {}}
  IN (restart_batches \ overlapping) \cup {targets \cup UNION overlapping}

QueueRestart_NoWakeUp ==
  /\ pc[Ui] = "queue"
  /\ restart_batches' = MergedBatches(Subtree(root))
  /\ restarts_arming' = restarts_arming - 1
  /\ Goto(Ui, "idle")
  /\ UNCHANGED <<uiFrame, svcVars, uiVars, ended, groups, child, orphans, sigkills,
                 stopped, notified>>

QueueRestart ==
  /\ pc[Ui] = "queue"
  /\ restart_batches' = MergedBatches(Subtree(root))
  /\ restarts_arming' = restarts_arming - 1
  /\ notified' = TRUE
  /\ Goto(Ui, "idle")
  /\ UNCHANGED <<uiFrame, svcVars, uiVars, ended, groups, child, orphans, sigkills,
                 stopped>>

\* q ("quit"), which asks to exit whatever runs, or Ctrl+C on the All tab ("all").
UiQuit ==
  /\ pc[Ui] = "idle" /\ ops < MaxOps /\ "global" \in Ops
  /\ op' \in {"quit", "all"} /\ ops' = ops + 1
  /\ quit_requested' = (quit_requested \/ op' = "quit")
  /\ LookForRunning("stop_all")
  /\ UNCHANGED <<uiFrame, restartVars, svcVars, groups, child, orphans, root, pids,
                 global_stopped, sigkills, stopped, notified>>

\* escalate_global_stop: shut down, force on a repeat.
EscalateGlobalStop ==
  /\ pc[Ui] = "stop_all"
  /\ IF global_stopped
     THEN /\ ForceShutdown
          /\ Goto(Ui, "idle")
          /\ UNCHANGED <<global_stopped, force_exit>>
     ELSE /\ global_stopped' = TRUE
          /\ Goto(Ui, "shutdown")
          /\ UNCHANGED <<downFrame, flagVars, strayVars, child, orphans, grace, exit_code,
                         cancelled>>
  /\ UNCHANGED <<op, root, todo, pids, ops, quit_requested>>

\* Nothing left to stop: quit, and a Ctrl+C once quitting is under way arms a hard exit.
UiRequestExit ==
  /\ pc[Ui] = "statuses" /\ todo = {}
  /\ Goto(Ui, "idle")
  /\ quit_requested' = TRUE
  /\ force_exit' = (force_exit \/ (op # "quit" /\ quit_requested))
  /\ UNCHANGED <<downFrame, shutting_down, killed, strayVars, child, orphans, grace, exit_code,
                 cancelled, op, root, todo, pids, ops, global_stopped>>

UiWork ==
  \/ MarkSubtreeStopped \/ SignalSubtree \/ QueueRestart
  \/ EscalateGlobalStop \/ UiRequestExit
  \/ \E s \in Service : NoteTarget(s) \/ ReadStatus(s)

-----------------------------------------------------------------------------
(* Timers and the world outside.                                           *)

SigkillTimer_ByName(x) ==
  /\ x \in sigkills
  /\ sigkills' = sigkills \ {x}
  /\ SignalGroups({y \in LiveGroups : y[1] = x[1]}, "SIGKILL")
  /\ UNCHANGED <<timerFrame, strayVars>>

\* schedule_sigkill: only a group still registered under its name is killed.
SigkillTimer(x) ==
  /\ x \in sigkills
  /\ sigkills' = sigkills \ {x}
  /\ SignalGroups({x} \cap LiveGroups, "SIGKILL")
  /\ UNCHANGED <<timerFrame, strayVars>>

\* escalate_stray: whoever takes the group from strays kills it, in a step of
\* its own after the lock.
StrayTimer(x) ==
  /\ x \in stray_timers
  /\ stray_timers' = stray_timers \ {x}
  /\ strays' = strays \ {x}
  /\ stray_kills' = IF x \in strays THEN stray_kills \cup {x} ELSE stray_kills
  /\ UNCHANGED <<timerFrame, child, orphans, sigkills>>

KillStray(x) ==
  /\ x \in stray_kills
  /\ stray_kills' = stray_kills \ {x}
  /\ orphans' = orphans \ {x}
  /\ UNCHANGED <<timerFrame, child, sigkills, strays, stray_timers>>

TimerStep ==
  \/ ShutdownTimer \/ HardExit
  \/ \E x \in sigkills : SigkillTimer(x)
  \/ \E x \in stray_timers : StrayTimer(x)
  \/ \E x \in stray_kills : KillStray(x)

\* A leader ends: by itself, in answer to SIGTERM, or killed. Members of its
\* group may stay behind. What wait makes of the end is decided here too.
ChildExits(s) ==
  /\ child[s] \in {"alive", "termed", "killed"}
  /\ child' = [child EXCEPT ![s] = "dead"]
  /\ \E e \in CASE child[s] = "alive" -> SelfExits[s]
                [] child[s] = "termed" -> TermExits[s]
                [] OTHER -> {[kind |-> "signal", n |-> 9]} :
       exit' = [exit EXCEPT ![s] = e]
  /\ \/ UNCHANGED orphans
     \/ /\ s \in Leftovers /\ child[s] # "killed"
        /\ orphans' = orphans \cup {<<s, pid[s]>>}
  /\ UNCHANGED <<taskFrame, svcVars, pollVars, strayVars, at, attempt, was_down, poller,
                 groups, pid, sigkills, pc>>

\* A leftover group ends on its own, or obeys a SIGTERM.
LeftoverExits(x) ==
  /\ x \in orphans
  /\ orphans' = orphans \ {x}
  /\ UNCHANGED <<timerFrame, strayVars, child, sigkills>>

\* A supervisor with a service that runs undisturbed, or that has exited, may
\* stay as it is for ever; anything else that stands still is a deadlock.
Rest ==
  /\ \/ pc[Loop] = "exited"
     \/ \E s \in Service : pc[s] = "wait" /\ child[s] = "alive"
  /\ UNCHANGED vars

-----------------------------------------------------------------------------
Next ==
  \/ /\ pc[Loop] # "exited"
     /\ \/ \E s \in Service : TaskStep(s) \/ TaskPanics(s)
        \/ \E p \in Pollers : PollStep(p) \/ CheckPasses(p) \/ CheckFails(p)
        \/ \E t \in Thread : SetExitCode(t) \/ BeginShutdown(t) \/ CancelAndTerm(t)
        \/ LoopStep
        \/ \E s \in Service : UiStop(s) \/ UiRestart(s)
        \/ UiQuit \/ UiWork
        \/ FirstSignal \/ SecondSignal
        \/ TimerStep
        \/ \E s \in Service : ChildExits(s)
        \/ \E x \in orphans : LeftoverExits(x)
  \/ Rest

Spec == Init /\ [][Next]_vars

\* The tokio scheduler runs every task that can go on, timers fire, a killed
\* process dies, a child told to end by a signal it obeys does; nothing makes a
\* user press a key, a service exit, a probe pass or a task panic.
Fairness ==
  /\ \A s \in Service : WF_vars(pc[Loop] # "exited" /\ TaskStep(s))
  /\ \A p \in Pollers : WF_vars(pc[Loop] # "exited" /\ PollStep(p))
  /\ \A p \in Pollers :
       WF_vars(pc[Loop] # "exited" /\ pc[p] = "poll" /\ ReadyWhen[owner[p]] = "Delay" /\ CheckPasses(p))
  /\ \A t \in Thread :
       WF_vars(pc[Loop] # "exited" /\ (SetExitCode(t) \/ BeginShutdown(t) \/ CancelAndTerm(t)))
  /\ WF_vars(pc[Loop] # "exited" /\ LoopStep)
  /\ WF_vars(pc[Loop] # "exited" /\ UiWork)
  /\ WF_vars(pc[Loop] # "exited" /\ TimerStep)
  /\ \A s \in Service : WF_vars(pc[Loop] # "exited" /\ child[s] = "killed" /\ ChildExits(s))

FairSpec == Spec /\ Fairness

-----------------------------------------------------------------------------
(* Types.                                                                  *)

TaskLabels == {"none", "deps", "abandon", "attempt", "backoff", "spawn", "register",
               "send_kill", "send_term", "send_term_escalate", "release", "wait",
               "deregister", "sweep", "settle", "ready", "classify", "terminal", "code",
               "shutdown", "cancel", "fin", "done", "panicked"}
PollerLabels == {"off", "launch", "poll", "passed", "release", "cancelled", "expired", "fail",
                 "code", "shutdown", "cancel"}
UiLabels == {"idle", "statuses", "stop_all", "mark", "note", "term", "kill", "queue",
             "shutdown", "cancel"}
SigLabels == {"first", "second", "forced", "shutdown", "cancel"}
LoopLabels == {"spawn", "top", "idle", "sleep", "select", "recover", "drop", "code", "shutdown",
               "cancel", "reap", "returned", "exited"}
Gates == {"Pending", "Ready", "Failed", "Stopped"}
Statuses == {"Waiting", "Running", "Completed", "Failed", "Stopped"}
Groups == Service \X (Nat \ {0})

\* Every thread is at a label of its own.
LabelsOK ==
  /\ pc \in [Thread -> TaskLabels \cup PollerLabels \cup UiLabels \cup SigLabels \cup LoopLabels]
  /\ \A s \in Service : pc[s] \in TaskLabels
  /\ \A p \in Pollers : pc[p] \in PollerLabels
  /\ pc[Ui] \in UiLabels /\ pc[Sig] \in SigLabels /\ pc[Loop] \in LoopLabels

SharedOK ==
  /\ groups \in [Service -> Nat] /\ stopped \in [Service -> {"no", "Term", "Kill"}]
  /\ exit_code \in Nat
  /\ shutting_down \in BOOLEAN /\ killed \in BOOLEAN /\ force_exit \in BOOLEAN
  /\ cancelled \in BOOLEAN /\ notified \in BOOLEAN
RestartsOK ==
  /\ restart_batches \subseteq SUBSET Service /\ restarts_arming \in Nat /\ ended \in BOOLEAN
ServicesOK == gate \in [Service -> Gates] /\ status \in [Service -> Statuses]
LoopOK == names \subseteq Service /\ claimed \subseteq Service /\ reaping \in Service \cup {NoOne}
TasksOK ==
  /\ at \in [Service -> Nat \ {0}] /\ attempt \in [Service -> Nat \ {0}]
  /\ exit \in [Service -> ExitStatus] /\ was_down \in [Service -> BOOLEAN]
  /\ poller \in [Service -> Pollers \cup {NoOne}]
ProcessesOK ==
  /\ pid \in [Service -> Nat] /\ orphans \subseteq {x \in Groups : x[1] \in Leftovers}
  /\ child \in [Service -> {"none", "alive", "termed", "killed", "dead"}]
PollersOK == owner \in [Pollers -> Service \cup {NoOne}] /\ live \in [Pollers -> BOOLEAN]
UiOK ==
  /\ op \in {"none", "stop", "restart", "quit", "all"} /\ root \in Service \cup {NoOne}
  /\ todo \subseteq Service /\ pids \subseteq Groups /\ ops \in Nat
  /\ global_stopped \in BOOLEAN /\ quit_requested \in BOOLEAN
TimersOK ==
  /\ sigkills \subseteq Groups /\ grace \in {"off", "armed", "fired"}
  /\ strays \subseteq Groups /\ stray_timers \subseteq Groups /\ stray_kills \subseteq Groups

\* Every variable holds a value of its kind, and every thread is at a label of its own.
TypeOK ==
  /\ LabelsOK /\ SharedOK /\ RestartsOK /\ ServicesOK /\ LoopOK /\ TasksOK
  /\ ProcessesOK /\ PollersOK /\ UiOK /\ TimersOK
=============================================================================
