----------------------------- MODULE RunnerProps -----------------------------
(* What the supervisor promises. *)
EXTENDS Runner

-----------------------------------------------------------------------------
(* Safety.                                                                 *)

Launching == {"attempt", "backoff", "spawn", "register", "send_kill", "send_term",
              "send_term_escalate", "release", "wait", "deregister", "sweep", "settle", "ready",
              "classify", "terminal"}
Launched == {"register", "send_kill", "send_term", "send_term_escalate", "release", "wait"}
SendsLate(s) == pc[s] \in {"send_kill", "send_term", "send_term_escalate"}

\* A task that has got past its dependencies runs with every one of their gates
\* still Ready: no restart re-arms a gate under a live dependent.
LaunchedAfterDeps ==
  \A s \in Service : pc[s] \in Launching => \A d \in DepsOf(s) : gate[d] = "Ready"

\* Restart batches never share a service, hold every dependent of their members,
\* and a claimed service has no task: none is ever run twice at once.
BatchesSound ==
  /\ \A x, y \in restart_batches : x = y \/ x \cap y = {}
  /\ \A x \in restart_batches : Closed(x)
  /\ pc[Loop] = "spawn" => claimed \cap names = {}

\* The run ends only with no task left and no restart under way, so none is dropped.
NoRestartDropped == ended => names = {} /\ ~RestartInFlight

\* A batch that can relaunch never waits behind a loop asleep without a wake-up.
NoLostWakeup ==
  pc[Loop] \in {"sleep", "select"} /\ (\E x \in restart_batches : x \cap names = {}) => notified

\* After the SIGKILL sweep no registered process is left running, the ones that
\* registered around the sweep included.
SweepMissesNobody ==
  killed => \A s \in Service :
    groups[s] # 0 /\ ~SendsLate(s) => child[s] \notin {"alive", "termed"}

\* Once a stop's own work is done, or the shutdown's, every registered process
\* it concerns has had its signal, however it raced the registration.
StopMissesNobody ==
  \A s \in Service :
    /\ groups[s] # 0 /\ ~SendsLate(s)
    /\ \/ stopped[s] # "no" /\ pc[Ui] \notin {"note", "term", "kill"}
       \/ grace # "off"
    => child[s] # "alive"

\* A process that has had SIGTERM and may ignore it always has a SIGKILL coming.
EscalationPending ==
  \A s \in Service :
    child[s] = "termed" /\ ~SendsLate(s) =>
      \/ <<s, pid[s]>> \in sigkills
      \/ shutting_down /\ grace # "fired"

\* A kill by the supervisor is never reported as a failure of the service: the
\* exit code is no 128 + SIGTERM or 128 + SIGKILL (services here do not raise them).
KillsDoNotTaint == exit_code \notin {143, 137}

\* Dependents of a completing service go ahead only if it did complete.
ReadyMeansCompleted ==
  \A s \in Service : ReadyWhen[s] = "ExpectedExit" /\ gate[s] = "Ready" => status[s] = "Completed"

\* A finished task leaves nobody parked on it: its gate has resolved, is about to
\* be by the stop under way, or the shutdown's token releases the waiters.
FinishedMeansResolved ==
  \A s \in Service :
    pc[s] = "done" => gate[s] # "Pending" \/ shutting_down \/ (pc[Ui] = "note" /\ s \in todo)

\* A stop reaches every service it covers, a task parked on a dependency too:
\* when the call is over none of them looks active or waits unaware (restarts aside,
\* which relaunch services next to stopped ones).
StopSeen ==
  pc[Ui] = "idle" /\ "restart" \notin Ops =>
    \A s \in Service : stopped[s] # "no" =>
      ~IsActive(status[s]) /\ gate[s] # "Pending"

\* A queued restart stops what it waits for: no member of a batch runs on
\* unmarked once the call is over.
QueuedMeansStopping ==
  pc[Ui] = "idle" =>
    \A x \in restart_batches : \A s \in x \cap names : stopped[s] # "no"

\* A stopped service parked on a dependency sees the stop at once: once the call
\* is over, some branch of its wait can fire.
ParkedSeesStop ==
  pc[Ui] = "idle" =>
    \A s \in Service :
      stopped[s] # "no" /\ pc[s] = "deps" /\ at[s] <= Len(DependsOn[s]) =>
        cancelled \/ gate[s] = "Stopped" \/ gate[DependsOn[s][at[s]]] # "Pending"

\* A run that ends with a failed service reports it: the exit code is not 0 (checked of
\* services without readiness: a poller settles the status before it records the code).
FailureReported ==
  pc[Loop] \in {"returned", "exited"} /\ (\E s \in Service : status[s] = "Failed") =>
    exit_code # 0

\* A quit that finds nothing running has missed nothing, though it reads the groups and then
\* one status after the other while tasks go on: no process is up that nobody asked to end,
\* but one whose readiness has just failed, on the way to a shutdown (and what a restart
\* brings up later: none is asked for here).
QuitStopsAll ==
  quit_requested /\ pc[Ui] = "idle" /\ ~shutting_down /\ "restart" \notin Ops =>
    \A s \in Service : child[s] = "alive" =>
      \/ stopped[s] # "no"
      \/ \E p \in Pollers : owner[p] = s /\ pc[p] \in {"code", "shutdown"}

\* A stop or an exit that races a readiness timeout wins: no service here ends with
\* code 1, so a run that reports it has a service that failed to get ready.
TimeoutHasCulprit == exit_code = 1 => \E s \in Service : status[s] = "Failed"

-----------------------------------------------------------------------------
(* Action properties.                                                      *)

\* Who answers for a leftover group: the task that has yet to sweep it, the recovery of a
\* panicked one whose group is registered, a timer, or the timer that has taken it.
Tracked(x) ==
  \/ pid[x[1]] = x[2] /\ pc[x[1]] \in Launched \cup {"deregister", "sweep"}
  \/ groups[x[1]] = x[2] /\ (pc[x[1]] = "panicked" \/ (reaping = x[1] /\ pc[Loop] = "recover"))
  \/ x \in strays \cap stray_timers
  \/ x \in stray_kills

\* A leftover group does not get out of sight before it is gone or the process exits: not
\* over exits, sweeps, timers or the recovery of a panic. Only a panic that unwinds the task
\* while the group is in no registry loses it: before register_group, or past deregister_group.
LeftoversTracked ==
  [][\A x \in orphans' :
       (x \in orphans => Tracked(x)) /\ pc'[Loop] # "exited" =>
         \/ Tracked(x)'
         \/ pc[x[1]] \in {"register", "sweep"} /\ pc'[x[1]] = "panicked"]_vars

\* A poller's verdict is about the instance it polled: it changes the gate of its
\* service only while that instance's task is the one alive, or none is.
NoStaleReadiness ==
  [][\A p \in Pollers :
       pc[p] \in {"release", "cancelled", "fail"} /\ pc'[p] # pc[p] /\ gate'[owner[p]] # gate[owner[p]] =>
         \/ poller[owner[p]] = p
         \/ pc[owner[p]] \in {"none", "done", "panicked"} /\ owner[p] \notin claimed]_vars

-----------------------------------------------------------------------------
(* Liveness.                                                               *)

\* A shutdown, whoever begins it and whatever else goes on, ends the run.
ShutdownCompletes == shutting_down ~> pc[Loop] \in {"returned", "exited"}

\* A process whose service is stopped ends, even one that ignores SIGTERM.
StoppedProcessEnds ==
  \A s \in Service : \A n \in 1..((MaxOps + 1) * (MaxRetries[s] + 1)) :
    (stopped[s] # "no" /\ groups[s] = n) ~> (groups[s] # n \/ pc[Loop] = "exited")

\* A service with readiness does not keep its dependents waiting for ever once it
\* has launched: its gate resolves or the run shuts down.
ReadinessResolves ==
  \A s \in Service :
    ReadyWhen[s] \in {"Probe", "Output", "Delay"} /\ pc[s] = "wait" ~>
      gate[s] # "Pending" \/ shutting_down \/ pc[Loop] = "exited"

\* A queued restart is relaunched, unless a shutdown discards it.
RestartRelaunches ==
  \A s \in Service : (s \in UNION restart_batches) ~> (shutting_down \/ (s \in names /\ stopped[s] = "no"))

-----------------------------------------------------------------------------
(* The promise of Supervisor.                                              *)

\* What Supervisor says of a leader's process: an exited one is gone.
ProcOf(c) ==
  CASE c = "alive" -> "up" [] c = "termed" -> "told" [] c = "killed" -> "killed"
    [] OTHER -> "none"

\* The run is over from the decision to end it, before the strays are reaped.
PhaseOfRun == IF pc[Loop] = "exited" THEN "exited" ELSE IF ended THEN "over" ELSE "running"

Promise == INSTANCE Supervisor WITH
  Needs <- [s \in Service |-> DepsOf(s)],
  MayPanic <- Panics,
  proc <- [s \in Service |-> ProcOf(child[s])],
  marked <- {s \in Service : stopped[s] # "no"},
  wanted <- UNION restart_batches,
  down <- shutting_down,
  phase <- PhaseOfRun,
  code <- exit_code

\* The tasks, locks and timers of the supervisor do no more than Supervisor allows:
\* one process per service at a time and none once the run is over, signals for the
\* stopped or lost only, whole subtrees relaunched, and not before they are quiet.
KeepsPromise == Promise!Spec
=============================================================================
