---------------------------- MODULE PromiseProofs ----------------------------
(* That Runner keeps the promise of Supervisor, for every configuration,     *)
(* topology and bound.                                                       *)
EXTENDS RunnerProofs

-----------------------------------------------------------------------------
(* Who may be signalled, and what the supervisor remembers of it.          *)

AskedFor(s) == stopped[s] # "no" \/ shutting_down
Lives(s) == child[s] \in {"alive", "termed"}

\* Every road to a signal for all has set the flag first.
DownFirst ==
  /\ killed \/ grace # "off" => shutting_down
  /\ \A t \in Thread : pc[t] = "cancel" => shutting_down
  /\ pc[Sig] \in {"second", "forced"} => shutting_down
  /\ global_stopped => shutting_down \/ pc[Ui] = "shutdown"

\* A process that runs has its task between spawn and reap.
LiveHasTask == \A s \in Service : Lives(s) => pc[s] \in Launched

\* No pgid is remembered from the future; the current one only if it was asked to end.
GroupsKnown == \A s \in Service : groups[s] <= pid[s]
LateAsked == \A s \in Service : SendsLate(s) => AskedFor(s)
TargetsAsked ==
  \A x \in sigkills \cup pids :
    /\ x[2] <= pid[x[1]]
    /\ x[2] = pid[x[1]] /\ Lives(x[1]) => AskedFor(x[1])

\* The loop reaps at the end of the run only, and recovers a task that is gone.
LoopInPlace ==
  /\ pc[Loop] \in {"reap", "returned"} => ended
  /\ pc[Loop] = "recover" => reaping \in Service /\ pc[reaping] = "none"

SignalInv == DownFirst /\ LiveHasTask /\ GroupsKnown /\ LateAsked /\ TargetsAsked /\ LoopInPlace

LEMMA SignalInit == Init => SignalInv
  BY ThreadAssumption
  DEF Init, SignalInv, DownFirst, LiveHasTask, GroupsKnown, LateAsked, TargetsAsked, LoopInPlace,
      Lives, SendsLate, Thread

USE DEF taskFrame, pollFrame, uiFrame, loopFrame, downFrame, timerFrame, flagVars, restartVars,
        svcVars, loopVars, taskVars, procVars, pollVars, quitVars, uiVars, timerVars, strayVars

\* A step that signals nobody, asks nothing and moves no task out of its place.
Calm ==
  /\ UNCHANGED <<shutting_down, killed, grace, global_stopped, stopped, child, groups, pid,
                 sigkills, pids>>
  /\ pc[Loop] \notin {"reap", "returned"} => pc'[Loop] \notin {"reap", "returned"}
  /\ ended' = ended
  /\ pc'[Loop] = "recover" => pc[Loop] = "recover" /\ reaping' = reaping
  /\ \A t \in Thread : pc'[t] = "cancel" => pc[t] = "cancel"
  /\ pc'[Sig] \in {"second", "forced"} => pc[Sig] \in {"second", "forced"}
  /\ pc[Ui] = "shutdown" => pc'[Ui] = "shutdown"
  /\ \A s \in Service :
       /\ pc[s] \in Launched => pc'[s] \in Launched \/ ~Lives(s)
       /\ pc'[s] \in {"send_kill", "send_term", "send_term_escalate"} => pc'[s] = pc[s]
       /\ pc[s] = "none" => pc'[s] = "none" \/ pc[Loop] # "recover"

LEMMA CalmKeeps ==
  ASSUME TypeInv, SignalInv, Calm
  PROVE  SignalInv'
<1>1. DownFirst'
  BY DEF SignalInv, DownFirst, Calm
<1>2. LiveHasTask'
  BY DEF SignalInv, LiveHasTask, Lives, Calm
<1>3. GroupsKnown' /\ LateAsked' /\ TargetsAsked'
  BY DEF SignalInv, GroupsKnown, LateAsked, TargetsAsked, AskedFor, Lives, SendsLate, Calm
<1>4. LoopInPlace'
  BY DEF SignalInv, LoopInPlace, Calm
<1> QED
  BY <1>1, <1>2, <1>3, <1>4 DEF SignalInv

\* The types the lemmas below rest on.
LEMMA PcTyped ==
  ASSUME TypeInv
  PROVE  /\ pc \in [Thread -> TaskLabels \cup PollerLabels \cup UiLabels \cup SigLabels \cup LoopLabels]
         /\ Service \subseteq Thread /\ Pollers \subseteq Thread
         /\ Ui \in Thread /\ Sig \in Thread /\ Loop \in Thread
         /\ Service \cap Pollers = {} /\ {Ui, Sig, Loop} \cap (Service \cup Pollers) = {}
         /\ Ui # Sig /\ Ui # Loop /\ Sig # Loop
         /\ \A s \in Service : poller[s] \in Thread => poller[s] \in Pollers
  BY ThreadAssumption DEF Thread, TypeInv, TypeOK, LabelsOK, TasksOK

LEMMA CalmTask ==
  ASSUME TypeInv, SignalInv, NEW s \in Service,
         \/ AwaitDep(s) \/ BeginAttempts(s) \/ Abandon(s) \/ Attempt(s) \/ SpawnFailure(s)
         \/ ReleaseDependents(s) \/ SweepGroup(s) \/ SettleExpected(s) \/ ReleaseCompleted(s)
         \/ ClassifyExit(s) \/ SettleTerminally(s) \/ FinishTask(s)
  PROVE  Calm
<1>1. UNCHANGED <<shutting_down, killed, grace, global_stopped, stopped, child, groups, pid,
                  sigkills, pids, ended, reaping>>
  BY DEF AwaitDep, BeginAttempts, Abandon, Attempt, SpawnFailure, ReleaseDependents, SweepGroup,
     SettleExpected, ReleaseCompleted, ClassifyExit, SettleTerminally, FinishTask
<1>2. \A t \in Thread : t # s => pc'[t] = pc[t] \/ (pc'[t] \in {"off", "launch"} /\ t \in Pollers)
  <2>1. CASE BeginAttempts(s)
    BY <2>1, PcTyped DEF BeginAttempts, Goto
  <2>2. CASE FinishTask(s)
    BY <2>2, PcTyped DEF FinishTask
  <2>3. CASE ~(BeginAttempts(s) \/ FinishTask(s))
    BY <2>3, PcTyped
    DEF AwaitDep, Abandon, Attempt, SpawnFailure, ReleaseDependents, SweepGroup, SettleExpected,
        ReleaseCompleted, ClassifyExit, SettleTerminally, RetryOrSettle, Goto
  <2> QED
    BY <2>1, <2>2, <2>3
<1>3. /\ pc'[s] \notin {"cancel", "send_kill", "send_term", "send_term_escalate"}
      /\ pc[s] \in Launched => pc'[s] \in Launched
      /\ pc[s] # "none"
  BY PcTyped
  DEF AwaitDep, BeginAttempts, Abandon, Attempt, SpawnFailure, ReleaseDependents, SweepGroup,
     SettleExpected, ReleaseCompleted, ClassifyExit, SettleTerminally, FinishTask, RetryOrSettle,
     Goto, Launched
<1> QED
  BY <1>1, <1>2, <1>3, PcTyped DEF Calm
LEMMA CalmPoller ==
  ASSUME TypeInv, NEW p \in Pollers, PollStep(p) \/ CheckPasses(p) \/ CheckFails(p)
  PROVE  Calm
<1>1. UNCHANGED <<shutting_down, killed, grace, global_stopped, stopped, child, groups, pid,
                  sigkills, pids, ended, reaping>>
  BY DEF PollStep, AwaitFirstLaunch, CheckPasses, WithholdOrRelease, CheckFails, ReportReady,
      ReadinessCancelled, DeadlineElapses, OnReadinessDeadline, FailReadinessStartup
<1>2. /\ \A t \in Thread : t # p => pc'[t] = pc[t]
      /\ pc'[p] # "cancel"
  BY PcTyped
  DEF PollStep, AwaitFirstLaunch, CheckPasses, WithholdOrRelease, CheckFails, ReportReady,
      ReadinessCancelled, DeadlineElapses, OnReadinessDeadline, FailReadinessStartup, Goto
<1> QED
  BY <1>1, <1>2, PcTyped DEF Calm

LEMMA CalmWorld ==
  ASSUME TypeInv, SignalInv,
         \/ FirstSignal \/ UiQuit \/ UiRequestExit \/ QueueRestart \/ Rest \/ UNCHANGED vars
         \/ \E s \in Service : UiStop(s) \/ UiRestart(s) \/ NoteTarget(s) \/ ReadStatus(s)
         \/ \E x \in stray_timers : StrayTimer(x)
         \/ \E x \in stray_kills : KillStray(x)
         \/ \E x \in orphans : LeftoverExits(x)
         \/ Notified \/ HardExit
  PROVE  Calm
<1>1. UNCHANGED <<shutting_down, killed, grace, global_stopped, stopped, child, groups, pid,
                  sigkills, pids, ended, reaping>>
  BY DEF FirstSignal, UiQuit, UiRequestExit, QueueRestart, Rest, vars, UiStop, UiRestart, NoteTarget,
     ReadStatus, StrayTimer, KillStray, LeftoverExits, Notified, HardExit
<1>2. /\ \A t \in Thread \ {Ui, Sig, Loop} : pc'[t] = pc[t]
      /\ pc'[Loop] = pc[Loop] \/ pc'[Loop] \in {"top", "exited"}
      /\ pc'[Ui] = pc[Ui] \/ (pc[Ui] # "shutdown" /\ pc'[Ui] # "cancel")
      /\ pc'[Sig] = pc[Sig] \/ pc'[Sig] = "shutdown"
  BY PcTyped
  DEF FirstSignal, UiQuit, UiRequestExit, QueueRestart, Rest, vars, UiStop, UiRestart, NoteTarget,
     ReadStatus, LookForRunning, WhenRunning, StrayTimer, KillStray, LeftoverExits, Notified, HardExit, Goto
<1> QED
  BY <1>1, <1>2, PcTyped DEF Calm

\* The loop's own steps: only the end of a run and a panic need the place.
LEMMA SignalLoop ==
  ASSUME TypeInv, HandshakeInv, GateInv, SignalInv,
         \/ SpawnClaimed \/ EndRunIfIdle \/ DropPanicked \/ ReapStrays \/ Exit
         \/ \E s \in Service : ReapJoined(s)
  PROVE  SignalInv'
<1>1. UNCHANGED <<shutting_down, killed, grace, global_stopped, stopped, child, pid,
                  sigkills, pids>>
  BY DEF SpawnClaimed, EndRunIfIdle, DropPanicked, ReapStrays, Exit, ReapJoined
<1>2. ASSUME NEW s \in Service
      PROVE  /\ groups'[s] = groups[s] \/ groups'[s] = 0
             /\ pc'[s] = pc[s] \/ (~Lives(s) /\ pc'[s] \in {"none", "deps"})
  <2>1. CASE SpawnClaimed
    <3>1. s \in claimed => pc[s] = "none"
      BY <2>1 DEF SpawnClaimed, HandshakeInv, BatchesSound, GateInv, TasksJoined
    <3> QED
      BY <2>1, <3>1, PcTyped DEF SpawnClaimed, SignalInv, LiveHasTask, Launched
  <2>2. CASE \E q \in Service : ReapJoined(q)
    BY <2>2, PcTyped DEF ReapJoined, SignalInv, LiveHasTask, Launched
  <2>3. CASE EndRunIfIdle \/ DropPanicked \/ ReapStrays \/ Exit
    BY <2>3, PcTyped DEF EndRunIfIdle, DropPanicked, ReapStrays, Exit, Goto, TypeInv, TypeOK, SharedOK
  <2> QED
    BY <2>1, <2>2, <2>3
<1>3. /\ pc'[Ui] = pc[Ui] /\ pc'[Sig] = pc[Sig] /\ pc'[Loop] # "cancel"
      /\ \A p \in Pollers : pc'[p] = pc[p]
  <2>1. claimed \subseteq Service
    BY DEF TypeInv, TypeOK, LoopOK
  <2>2. CASE SpawnClaimed
    BY <2>1, <2>2, PcTyped DEF SpawnClaimed, AwaitNext
  <2>3. CASE ~SpawnClaimed
    BY <2>3, PcTyped DEF EndRunIfIdle, DropPanicked, ReapStrays, Exit, ReapJoined, Goto
  <2> QED
    BY <2>2, <2>3
<1>4. DownFirst'
  BY <1>1, <1>2, <1>3 DEF SignalInv, DownFirst, Thread
<1>5. LiveHasTask' /\ LateAsked' /\ TargetsAsked'
  BY <1>1, <1>2 DEF SignalInv, LiveHasTask, LateAsked, TargetsAsked, AskedFor, Lives, SendsLate
<1>6. GroupsKnown'
  BY <1>1, <1>2 DEF SignalInv, GroupsKnown, TypeInv, TypeOK, ProcessesOK
<1>7. LoopInPlace'
  <2>1. CASE SpawnClaimed
    BY <2>1, PcTyped DEF SpawnClaimed, AwaitNext, TypeInv, TypeOK, LoopOK, LoopInPlace
  <2>2. CASE \E s \in Service : ReapJoined(s)
    BY <2>2, PcTyped DEF ReapJoined, LoopInPlace
  <2>3. CASE EndRunIfIdle \/ DropPanicked \/ ReapStrays \/ Exit
    BY <2>3, PcTyped
    DEF EndRunIfIdle, DropPanicked, ReapStrays, Exit, Goto, SignalInv, LoopInPlace
  <2> QED
    BY <2>1, <2>2, <2>3
<1> QED
  BY <1>4, <1>5, <1>6, <1>7 DEF SignalInv

\* A step under which processes only fade: none starts, no stop is undone, no group
\* is newly remembered.
Fading ==
  /\ pid' = pid /\ \A s \in Service : groups'[s] \in {groups[s], 0}
  /\ shutting_down => shutting_down'
  /\ \A s \in Service :
       /\ Lives(s)' => Lives(s) /\ pc'[s] \in Launched
       /\ SendsLate(s)' => SendsLate(s)
       /\ stopped[s] # "no" => stopped'[s] # "no"
  /\ \A x \in sigkills' \cup pids' : x \in sigkills \cup pids

LEMMA FadingKeeps ==
  ASSUME TypeInv, SignalInv, Fading
  PROVE  LiveHasTask' /\ GroupsKnown' /\ LateAsked' /\ TargetsAsked'
<1>1. LiveHasTask' /\ LateAsked'
  BY DEF SignalInv, Fading, LiveHasTask, LateAsked, AskedFor, SendsLate, Lives
<1>2. GroupsKnown'
  BY DEF SignalInv, Fading, GroupsKnown, TypeInv, TypeOK, ProcessesOK
<1>3. TargetsAsked'
  <2> SUFFICES ASSUME NEW x \in sigkills' \cup pids'
               PROVE  /\ x[2] <= pid[x[1]]
                      /\ x[2] = pid[x[1]] /\ Lives(x[1])' => AskedFor(x[1])'
    BY DEF TargetsAsked, Fading, Lives, AskedFor
  <2>1. x \in sigkills \cup pids /\ x[1] \in Service
    BY DEF Fading, TypeInv, TypeOK, TimersOK, UiOK, Groups
  <2> QED
    BY <2>1 DEF SignalInv, Fading, TargetsAsked, AskedFor
<1> QED
  BY <1>1, <1>2, <1>3

\* A signal brings nobody back to life.
LEMMA HitsFade ==
  ASSUME TypeInv, NEW S, NEW sig \in {"SIGTERM", "SIGKILL"}, SignalGroups(S, sig)
  PROVE  \A s \in Service :
           /\ Lives(s)' => Lives(s)
           /\ child'[s] = child[s] \/ (<<s, pid[s]>> \in S /\ Lives(s))
  BY DEF SignalGroups, Hit, Lives, TypeInv, TypeOK, ProcessesOK

LEMMA FadingTask ==
  ASSUME TypeInv, SignalInv, NEW s \in Service,
         \/ ReapChild(s) \/ DeregisterGroup(s) \/ TaskPanics(s) \/ ChildExits(s)
  PROVE  SignalInv'
<1>1. UNCHANGED <<shutting_down, killed, grace, global_stopped, stopped, pid, sigkills, pids,
                  ended, reaping>>
  BY DEF ReapChild, DeregisterGroup, TaskPanics, ChildExits
<1>2. /\ \A t \in Thread : t # s => pc'[t] = pc[t]
      /\ pc'[s] = pc[s] \/ (pc[s] # "none" /\ pc'[s] \in {"deregister", "sweep", "settle", "panicked"})
  BY PcTyped DEF ReapChild, DeregisterGroup, TaskPanics, ChildExits, Goto
<1>3. \A q \in Service : groups'[q] \in {groups[q], 0} /\ (Lives(q)' => Lives(q))
  BY DEF ReapChild, DeregisterGroup, TaskPanics, ChildExits, Lives, TypeInv, TypeOK, SharedOK, ProcessesOK
<1>4. Lives(s)' => pc'[s] = pc[s]
  BY DEF ReapChild, DeregisterGroup, TaskPanics, ChildExits, Lives, TypeInv, TypeOK, ProcessesOK,
     SignalInv, LiveHasTask, Launched
<1>5. Fading
  <2> SUFFICES ASSUME NEW q \in Service
               PROVE  /\ Lives(q)' => Lives(q) /\ pc'[q] \in Launched
                      /\ SendsLate(q)' => SendsLate(q)
    BY <1>1, <1>3 DEF Fading
  <2>1. q \in Thread
    BY DEF Thread
  <2> QED
    BY <1>2, <1>3, <1>4, <2>1 DEF SignalInv, LiveHasTask, SendsLate
<1>6. DownFirst' /\ LoopInPlace'
  BY <1>1, <1>2, PcTyped DEF SignalInv, DownFirst, LoopInPlace
<1> QED
  BY <1>5, <1>6, FadingKeeps DEF SignalInv

LEMMA FadingShutdown ==
  ASSUME TypeInv, SignalInv, NEW t \in Thread, SetExitCode(t) \/ BeginShutdown(t) \/ CancelAndTerm(t)
  PROVE  SignalInv'
<1>1. /\ UNCHANGED <<killed, global_stopped, stopped, pid, groups, sigkills, pids, ended, reaping>>
      /\ shutting_down => shutting_down'
  BY DEF SetExitCode, BeginShutdown, CancelAndTerm
<1>2. pc[t] \in {"code", "shutdown", "cancel"} /\ \A u \in Thread : u # t => pc'[u] = pc[u]
  BY PcTyped DEF SetExitCode, BeginShutdown, CancelAndTerm, Goto
<1>3. pc'[t] \in {"shutdown", "cancel", AfterShutdown(t)}
  BY PcTyped DEF SetExitCode, BeginShutdown, CancelAndTerm, Goto
<1>4. \A s \in Service : Lives(s)' => Lives(s)
  BY HitsFade DEF SetExitCode, BeginShutdown, CancelAndTerm, Lives
<1>5. Fading
  <2> SUFFICES ASSUME NEW s \in Service
               PROVE  /\ Lives(s)' => Lives(s) /\ pc'[s] \in Launched
                      /\ SendsLate(s)' => SendsLate(s)
    BY <1>1 DEF Fading
  <2>1. s \in Thread
    BY DEF Thread
  <2>2. Lives(s) => s # t
    BY <1>2 DEF SignalInv, LiveHasTask, Launched
  <2>3. s = t => pc'[s] \in {"shutdown", "cancel", "fin"}
    BY <1>3, <2>1 DEF AfterShutdown
  <2> QED
    BY <1>2, <1>4, <2>1, <2>2, <2>3 DEF SignalInv, LiveHasTask, SendsLate
<1>6. LoopInPlace'
  <2>1. t = Loop => AfterShutdown(t) = "top"
    BY PcTyped DEF AfterShutdown
  <2> QED
    BY <1>1, <1>2, <1>3, <2>1, PcTyped DEF SignalInv, LoopInPlace
<1>7. DownFirst'
  <2>1. CASE SetExitCode(t)
    BY <1>1, <1>2, <2>1, PcTyped DEF SetExitCode, Goto, SignalInv, DownFirst
  <2>2. CASE BeginShutdown(t)
    <3>1. shutting_down'
      BY <2>2 DEF BeginShutdown
    <3> QED
      BY <3>1 DEF DownFirst
  <2>3. CASE CancelAndTerm(t)
    <3>1. shutting_down'
      BY <2>3 DEF CancelAndTerm, SignalInv, DownFirst
    <3> QED
      BY <3>1 DEF DownFirst
  <2> QED
    BY <2>1, <2>2, <2>3
<1> QED
  BY <1>5, <1>6, <1>7, FadingKeeps DEF SignalInv

LEMMA FadingSignals ==
  ASSUME TypeInv, SignalInv,
         \/ SecondSignal \/ EscalateGlobalStop \/ ShutdownTimer \/ SignalSubtree \/ RecoverPanic
         \/ \E x \in sigkills : SigkillTimer(x)
  PROVE  SignalInv'
<1>1. UNCHANGED <<shutting_down, stopped, groups, pid, ended, reaping>>
  BY DEF SecondSignal, EscalateGlobalStop, ShutdownTimer, SignalSubtree, RecoverPanic, SigkillTimer, ForceShutdown
<1>2. \A s \in Service : Lives(s)' => Lives(s)
  BY HitsFade
  DEF SecondSignal, EscalateGlobalStop, ShutdownTimer, SignalSubtree, RecoverPanic, SigkillTimer,
      ForceShutdown, Lives
<1>3. /\ \A t \in Thread \ {Ui, Sig, Loop} : pc'[t] = pc[t]
      /\ pc'[Loop] = pc[Loop] \/ pc'[Loop] = "drop"
      /\ pc'[Ui] = pc[Ui] \/ pc'[Ui] \in {"shutdown", "queue", "idle"}
      /\ pc'[Sig] = pc[Sig] \/ (pc[Sig] = "second" /\ pc'[Sig] = "forced")
  BY PcTyped
  DEF SecondSignal, EscalateGlobalStop, ShutdownTimer, SignalSubtree, RecoverPanic, SigkillTimer, Goto
<1>4. \A x \in sigkills' \cup pids' : x \in sigkills \cup pids
  BY DEF SecondSignal, EscalateGlobalStop, ShutdownTimer, SignalSubtree, RecoverPanic, SigkillTimer, ForceShutdown
<1>5. Fading
  BY <1>1, <1>2, <1>3, <1>4, PcTyped DEF Fading, SignalInv, LiveHasTask, SendsLate
<1>6. LoopInPlace'
  BY <1>1, <1>3, PcTyped DEF SignalInv, LoopInPlace
<1>7. DownFirst'
  <2>1. killed' \/ grace' # "off" => shutting_down
    BY PcTyped
    DEF SecondSignal, EscalateGlobalStop, ShutdownTimer, SignalSubtree, RecoverPanic, SigkillTimer,
        ForceShutdown, SignalInv, DownFirst
  <2>2. global_stopped' => shutting_down \/ pc'[Ui] = "shutdown"
    BY PcTyped
    DEF SecondSignal, EscalateGlobalStop, ShutdownTimer, SignalSubtree, RecoverPanic, SigkillTimer,
        ForceShutdown, SignalInv, DownFirst, Goto
  <2> QED
    BY <1>1, <1>3, <2>1, <2>2, PcTyped DEF SignalInv, DownFirst
<1> QED
  BY <1>5, <1>6, <1>7, FadingKeeps DEF SignalInv

\* A launch is of a pgid nobody remembers yet.
LEMMA SignalSpawnChild ==
  ASSUME TypeInv, SignalInv, NEW s \in Service, SpawnChild(s)
  PROVE  SignalInv'
<1>1. UNCHANGED <<shutting_down, killed, grace, global_stopped, stopped, groups, sigkills, pids,
                  ended, reaping>>
  BY DEF SpawnChild
<1>2. /\ pc[s] = "spawn" /\ pc'[s] = "register" /\ \A t \in Thread : t # s => pc'[t] = pc[t]
      /\ pid'[s] = pid[s] + 1 /\ \A q \in Service : q # s => pid'[q] = pid[q] /\ child'[q] = child[q]
      /\ pid \in [Service -> Nat] /\ groups \in [Service -> Nat]
  BY PcTyped DEF SpawnChild, Goto, TypeInv, TypeOK, ProcessesOK, SharedOK
<1>3. DownFirst' /\ LoopInPlace'
  BY <1>1, <1>2, PcTyped DEF SignalInv, DownFirst, LoopInPlace
<1>4. LiveHasTask' /\ LateAsked' /\ GroupsKnown'
  <2>1. \A q \in Service : q \in Thread
    BY PcTyped
  <2> QED
    BY <1>1, <1>2, <2>1
    DEF SignalInv, LiveHasTask, Lives, Launched, LateAsked, AskedFor, SendsLate, GroupsKnown
<1>5. TargetsAsked'
  <2> SUFFICES ASSUME NEW x \in sigkills \cup pids
               PROVE  /\ x[2] <= pid'[x[1]]
                      /\ x[2] = pid'[x[1]] /\ Lives(x[1])' => AskedFor(x[1])'
    BY <1>1 DEF TargetsAsked, Lives, AskedFor
  <2>1. x[1] \in Service /\ x[2] \in Nat /\ x[2] <= pid[x[1]]
    BY DEF SignalInv, TargetsAsked, TypeInv, TypeOK, TimersOK, UiOK, Groups
  <2> QED
    BY <1>1, <1>2, <2>1 DEF SignalInv, TargetsAsked, AskedFor, Lives
<1> QED
  BY <1>3, <1>4, <1>5 DEF SignalInv

LEMMA SignalRegisterGroup ==
  ASSUME TypeInv, SignalInv, NEW s \in Service, RegisterGroup(s)
  PROVE  SignalInv'
<1>1. UNCHANGED <<shutting_down, killed, grace, global_stopped, stopped, child, pid, sigkills, pids,
                  ended, reaping>>
  BY DEF RegisterGroup
<1>2. /\ pc[s] = "register" /\ pc'[s] = OnRegistration(s) /\ \A t \in Thread : t # s => pc'[t] = pc[t]
      /\ groups' = [groups EXCEPT ![s] = pid[s]]
      /\ pid \in [Service -> Nat] /\ groups \in [Service -> Nat]
  BY PcTyped DEF RegisterGroup, Goto, TypeInv, TypeOK, ProcessesOK, SharedOK
<1>3. /\ pc'[s] \in {"send_kill", "send_term", "send_term_escalate", "release"}
      /\ pc'[s] # "release" => AskedFor(s)
  BY <1>2 DEF OnRegistration, AskedFor, SignalInv, DownFirst
<1>4. DownFirst' /\ LoopInPlace'
  BY <1>1, <1>2, <1>3, PcTyped DEF SignalInv, DownFirst, LoopInPlace
<1>5. LiveHasTask' /\ LateAsked' /\ GroupsKnown' /\ TargetsAsked'
  BY <1>1, <1>2, <1>3, PcTyped
  DEF SignalInv, LiveHasTask, Lives, Launched, LateAsked, AskedFor, SendsLate, GroupsKnown, TargetsAsked
<1> QED
  BY <1>4, <1>5 DEF SignalInv

LEMMA SignalSignalLate ==
  ASSUME TypeInv, SignalInv, NEW s \in Service, SignalLate(s)
  PROVE  SignalInv'
<1>1. UNCHANGED <<shutting_down, killed, grace, global_stopped, stopped, groups, pid, pids, ended,
                  reaping>>
  BY DEF SignalLate
<1>2. /\ SendsLate(s) /\ pc'[s] = "release" /\ \A t \in Thread : t # s => pc'[t] = pc[t]
      /\ sigkills' \subseteq sigkills \cup {<<s, pid[s]>>}
      /\ \A q \in Service : Lives(q)' => Lives(q)
  BY PcTyped, HitsFade DEF SignalLate, SendsLate, Goto, Lives
<1>3. DownFirst' /\ LoopInPlace'
  BY <1>1, <1>2, PcTyped DEF SignalInv, DownFirst, LoopInPlace, SendsLate
<1>4. LiveHasTask' /\ LateAsked' /\ GroupsKnown'
  BY <1>1, <1>2, PcTyped
  DEF SignalInv, LiveHasTask, Launched, LateAsked, AskedFor, SendsLate, GroupsKnown
<1>5. TargetsAsked'
  <2> SUFFICES ASSUME NEW x \in sigkills' \cup pids
               PROVE  /\ x[2] <= pid[x[1]]
                      /\ x[2] = pid[x[1]] /\ Lives(x[1])' => AskedFor(x[1])
    BY <1>1 DEF TargetsAsked, Lives, AskedFor
  <2>1. CASE x \in sigkills \cup pids
    <3>1. x[1] \in Service
      BY <2>1 DEF TypeInv, TypeOK, TimersOK, UiOK, Groups
    <3> QED
      BY <1>2, <2>1, <3>1 DEF SignalInv, TargetsAsked
  <2>2. CASE x = <<s, pid[s]>>
    BY <1>2, <2>2 DEF SignalInv, LateAsked, TypeInv, TypeOK, ProcessesOK
  <2> QED
    BY <1>2, <2>1, <2>2
<1> QED
  BY <1>3, <1>4, <1>5 DEF SignalInv

\* The claim forgives only services without a task, hence without a process.
LEMMA SignalClaim ==
  ASSUME TypeInv, HandshakeInv, GateInv, SignalInv, TakeReadyRestarts
  PROVE  SignalInv'
<1>1. UNCHANGED <<shutting_down, killed, grace, global_stopped, child, groups, pid, sigkills, pids,
                  ended, reaping>>
  BY DEF TakeReadyRestarts
<1>2. /\ pc[Loop] = "top" /\ pc'[Loop] \in {"idle", "select", "spawn"}
      /\ \A t \in Thread : t # Loop => pc'[t] = pc[t]
  BY PcTyped DEF TakeReadyRestarts, Goto, AwaitNext
<1>3. \A s \in Service : stopped'[s] = stopped[s] \/ pc[s] = "none"
  BY DEF TakeReadyRestarts, Quiesced, GateInv, TasksJoined, TypeInv, TypeOK, SharedOK
<1>4. \A s \in Service : AskedFor(s) /\ pc[s] # "none" => AskedFor(s)'
  BY <1>1, <1>3 DEF AskedFor
<1>5. DownFirst' /\ LoopInPlace'
  BY <1>1, <1>2, PcTyped DEF SignalInv, DownFirst, LoopInPlace
<1>6. LiveHasTask' /\ LateAsked' /\ GroupsKnown'
  BY <1>1, <1>2, <1>4, PcTyped
  DEF SignalInv, LiveHasTask, Lives, Launched, LateAsked, SendsLate, GroupsKnown
<1>7. TargetsAsked'
  <2> SUFFICES ASSUME NEW x \in sigkills \cup pids
               PROVE  /\ x[2] <= pid[x[1]]
                      /\ x[2] = pid[x[1]] /\ Lives(x[1]) => AskedFor(x[1])'
    BY <1>1 DEF TargetsAsked, Lives
  <2>1. x[1] \in Service
    BY DEF TypeInv, TypeOK, TimersOK, UiOK, Groups
  <2> QED
    BY <1>4, <2>1 DEF SignalInv, TargetsAsked, LiveHasTask, Launched
<1> QED
  BY <1>5, <1>6, <1>7 DEF SignalInv

\* The stop marks what it captures, and captures groups that are registered.
LEMMA SignalMark ==
  ASSUME TypeInv, SignalInv, MarkSubtreeStopped
  PROVE  SignalInv'
<1>1. UNCHANGED <<shutting_down, killed, grace, global_stopped, child, groups, pid, sigkills,
                  ended, reaping>>
  BY DEF MarkSubtreeStopped
<1>2. /\ pc[Ui] = "mark" /\ pc'[Ui] \in {"kill", "note"}
      /\ \A t \in Thread : t # Ui => pc'[t] = pc[t]
  BY PcTyped DEF MarkSubtreeStopped, Goto
<1>3. \A s \in Service : AskedFor(s) => AskedFor(s)'
  BY <1>1 DEF MarkSubtreeStopped, AskedFor
<1>4. \A x \in pids' : x \in LiveGroups /\ AskedFor(x[1])'
  BY DEF MarkSubtreeStopped, AskedFor, LiveGroups
<1>5. DownFirst' /\ LoopInPlace'
  BY <1>1, <1>2, PcTyped DEF SignalInv, DownFirst, LoopInPlace
<1>6. LiveHasTask' /\ LateAsked' /\ GroupsKnown'
  BY <1>1, <1>2, <1>3, PcTyped
  DEF SignalInv, LiveHasTask, Lives, Launched, LateAsked, SendsLate, GroupsKnown
<1>7. TargetsAsked'
  <2> SUFFICES ASSUME NEW x \in sigkills \cup pids'
               PROVE  /\ x[2] <= pid[x[1]]
                      /\ x[2] = pid[x[1]] /\ Lives(x[1]) => AskedFor(x[1])'
    BY <1>1 DEF TargetsAsked, Lives
  <2>1. CASE x \in sigkills
    <3>1. x[1] \in Service
      BY <2>1 DEF TypeInv, TypeOK, TimersOK, Groups
    <3> QED
      BY <1>3, <2>1, <3>1 DEF SignalInv, TargetsAsked
  <2>2. CASE x \in pids'
    BY <1>4, <2>2 DEF SignalInv, GroupsKnown, LiveGroups
  <2> QED
    BY <2>1, <2>2
<1> QED
  BY <1>5, <1>6, <1>7 DEF SignalInv

LEMMA SignalStep == TypeInv /\ HandshakeInv /\ GateInv /\ SignalInv /\ [Next]_vars => SignalInv'
<1> SUFFICES ASSUME TypeInv, HandshakeInv, GateInv, SignalInv, [Next]_vars PROVE SignalInv'
  OBVIOUS
<1>1. ASSUME NEW s \in Service, TaskStep(s) \/ TaskPanics(s) \/ ChildExits(s) PROVE SignalInv'
  BY <1>1, CalmTask, CalmKeeps, FadingTask, SignalSpawnChild, SignalRegisterGroup, SignalSignalLate
  DEF TaskStep
<1>2. ASSUME NEW p \in Pollers, PollStep(p) \/ CheckPasses(p) \/ CheckFails(p) PROVE SignalInv'
  BY <1>2, CalmPoller, CalmKeeps
<1>3. ASSUME NEW t \in Thread, SetExitCode(t) \/ BeginShutdown(t) \/ CancelAndTerm(t)
      PROVE  SignalInv'
  BY <1>3, FadingShutdown
<1>4. CASE LoopStep
  BY <1>4, SignalLoop, SignalClaim, FadingSignals, CalmWorld, CalmKeeps DEF LoopStep
<1>5. CASE TimerStep
  BY <1>5, FadingSignals, CalmWorld, CalmKeeps DEF TimerStep
<1>6. CASE UiWork \/ UiQuit \/ \E s \in Service : UiStop(s) \/ UiRestart(s)
  BY <1>6, FadingSignals, SignalMark, CalmWorld, CalmKeeps DEF UiWork
<1>7. CASE \/ FirstSignal \/ SecondSignal \/ \E x \in orphans : LeftoverExits(x)
           \/ Rest \/ UNCHANGED vars
  BY <1>7, FadingSignals, CalmWorld, CalmKeeps
<1> QED
  BY <1>1, <1>2, <1>3, <1>4, <1>5, <1>6, <1>7 DEF Next

\* Every signal in flight, timer and captured group is for a process already asked to end or
\* one that is gone: what lets each step that signals be one that Supervisor allows.
THEOREM SignalInvariant == Spec => []SignalInv
<1> QED
  BY TypeInvariant, HandshakeInvariant, GateInvariant, SignalInit, SignalStep, PTL DEF Spec

-----------------------------------------------------------------------------
(* Every step is one of Supervisor's, or none.                             *)

PromiseStep == [Promise!Next]_(Promise!promiseVars)

\* What Supervisor sees of the run, besides the processes.
Settled == UNCHANGED <<stopped, restart_batches, shutting_down, exit_code, PhaseOfRun>>

LEMMA MapStutter ==
  ASSUME Settled, child' = child
  PROVE  PromiseStep
  BY DEF PromiseStep, Promise!promiseVars, Settled, ProcOf

LEMMA ProcRuns ==
  ASSUME TypeInv, NEW s \in Service
  PROVE  /\ ProcOf(child[s]) \in {"up", "told"} <=> Lives(s)
         /\ ProcOf(child[s]) = "up" <=> child[s] = "alive"
         /\ ProcOf(child[s]) = "none" <=> child[s] \in {"none", "dead"}
  BY DEF ProcOf, Lives, TypeInv, TypeOK, ProcessesOK

\* A signal that reaches only what was asked to end.
LEMMA MapSignal ==
  ASSUME TypeInv, Settled, PhaseOfRun # "exited", NEW S, NEW sig \in {"SIGTERM", "SIGKILL"},
         SignalGroups(S, sig),
         \A s \in Service : <<s, pid[s]>> \in S /\ Lives(s) => AskedFor(s)
  PROVE  PromiseStep
<1> DEFINE killed_now == {s \in Service : <<s, pid[s]>> \in S /\ Lives(s)}
           told_now == {s \in Service : <<s, pid[s]>> \in S /\ child[s] = "alive"}
<1>1. CASE sig = "SIGKILL"
  <2>1. Promise!Becomes(killed_now, "killed")
    BY <1>1 DEF Promise!Becomes, SignalGroups, Hit, ProcOf, Lives, TypeInv, TypeOK, ProcessesOK
  <2>2. \A s \in killed_now : Promise!Runs(s) /\ Promise!Asked(s)
    BY ProcRuns DEF Promise!Runs, Promise!Asked, AskedFor
  <2>3. Promise!Kill(killed_now)
    BY <2>1, <2>2 DEF Promise!Kill, Settled
  <2> QED
    BY <2>3 DEF PromiseStep, Promise!Next
<1>2. CASE sig = "SIGTERM"
  <2>1. Promise!Becomes(told_now, "told")
    BY <1>2 DEF Promise!Becomes, SignalGroups, Hit, ProcOf, TypeInv, TypeOK, ProcessesOK
  <2>2. \A s \in told_now : ProcOf(child[s]) = "up" /\ Promise!Asked(s)
    BY ProcRuns DEF Promise!Asked, AskedFor, Lives
  <2>3. Promise!Tell(told_now)
    BY <2>1, <2>2 DEF Promise!Tell, Settled
  <2> QED
    BY <2>3 DEF PromiseStep, Promise!Next
<1> QED
  BY <1>1, <1>2

\* Most of what the threads do is none of Supervisor's business.
LEMMA MapTask ==
  ASSUME TypeInv, NEW s \in Service,
         \/ AwaitDep(s) \/ BeginAttempts(s) \/ Abandon(s) \/ Attempt(s) \/ SpawnFailure(s)
         \/ RegisterGroup(s) \/ ReleaseDependents(s) \/ DeregisterGroup(s) \/ SweepGroup(s)
         \/ SettleExpected(s) \/ ReleaseCompleted(s) \/ ClassifyExit(s) \/ SettleTerminally(s)
         \/ FinishTask(s)
  PROVE  PromiseStep
<1>1. UNCHANGED <<stopped, restart_batches, shutting_down, exit_code, ended, child>>
  BY DEF AwaitDep, BeginAttempts, Abandon, Attempt, SpawnFailure, RegisterGroup, ReleaseDependents,
     DeregisterGroup, SweepGroup, SettleExpected, ReleaseCompleted, ClassifyExit, SettleTerminally,
     FinishTask
<1>2. pc'[Loop] = pc[Loop]
  <2>1. CASE BeginAttempts(s) \/ FinishTask(s)
    BY <2>1, PcTyped DEF BeginAttempts, FinishTask, Goto
  <2>2. CASE ~(BeginAttempts(s) \/ FinishTask(s))
    BY <2>2, PcTyped
    DEF AwaitDep, Abandon, Attempt, SpawnFailure, RegisterGroup, ReleaseDependents,
       DeregisterGroup, SweepGroup, SettleExpected, ReleaseCompleted, ClassifyExit, SettleTerminally,
       RetryOrSettle, Goto
  <2> QED
    BY <2>1, <2>2
<1> QED
  BY <1>1, <1>2, MapStutter DEF Settled, PhaseOfRun

LEMMA MapUnseen ==
  ASSUME TypeInv,
         \/ \E s \in Service : UiStop(s) \/ UiRestart(s) \/ NoteTarget(s) \/ ReadStatus(s) \/ ReapJoined(s)
         \/ FirstSignal \/ UiQuit \/ UiRequestExit \/ SpawnClaimed \/ Notified \/ DropPanicked
         \/ ReapStrays /\ pc[Loop] # "exited"
         \/ \E x \in stray_timers : StrayTimer(x)
         \/ \E x \in stray_kills : KillStray(x)
         \/ \E x \in orphans : LeftoverExits(x)
  PROVE  PromiseStep
<1>1. UNCHANGED <<stopped, restart_batches, shutting_down, exit_code, ended, child>>
  BY DEF UiStop, UiRestart, NoteTarget, ReadStatus, ReapJoined, FirstSignal, UiQuit, UiRequestExit, SpawnClaimed,
     Notified, DropPanicked, ReapStrays, StrayTimer, KillStray, LeftoverExits
<1>2. pc[Loop] = "exited" <=> pc'[Loop] = "exited"
  <2>1. CASE SpawnClaimed
    BY <2>1, PcTyped DEF SpawnClaimed, AwaitNext, TypeInv, TypeOK, LoopOK
  <2>2. CASE ~SpawnClaimed
    BY <2>2, PcTyped
    DEF UiStop, UiRestart, NoteTarget, ReadStatus, LookForRunning, WhenRunning, ReapJoined,
        FirstSignal, UiQuit, UiRequestExit, Notified,
        DropPanicked, ReapStrays, StrayTimer, KillStray, LeftoverExits, Goto
  <2> QED
    BY <2>1, <2>2
<1> QED
  BY <1>1, <1>2, MapStutter DEF Settled, PhaseOfRun

LEMMA MapPoller ==
  ASSUME TypeInv, NEW p \in Pollers, PollStep(p) \/ CheckPasses(p) \/ CheckFails(p)
  PROVE  PromiseStep
<1>1. UNCHANGED <<stopped, restart_batches, shutting_down, exit_code, ended, child>>
  BY DEF PollStep, AwaitFirstLaunch, CheckPasses, WithholdOrRelease, CheckFails, ReportReady,
      ReadinessCancelled, DeadlineElapses, OnReadinessDeadline, FailReadinessStartup
<1>2. pc'[Loop] = pc[Loop]
  BY PcTyped
  DEF PollStep, AwaitFirstLaunch, CheckPasses, WithholdOrRelease, CheckFails, ReportReady,
      ReadinessCancelled, DeadlineElapses, OnReadinessDeadline, FailReadinessStartup, Goto
<1> QED
  BY <1>1, <1>2, MapStutter DEF Settled, PhaseOfRun

\* Launches and exits; a reaped leader was gone already.
LEMMA MapProcess ==
  ASSUME TypeInv, HandshakeInv, GateInv, SignalInv, pc[Loop] # "exited", NEW s \in Service,
         SpawnChild(s) \/ ReapChild(s) \/ TaskPanics(s) \/ ChildExits(s)
  PROVE  PromiseStep
<1>1. UNCHANGED <<stopped, restart_batches, shutting_down, exit_code, ended>> /\ pc'[Loop] = pc[Loop]
  BY PcTyped DEF SpawnChild, ReapChild, TaskPanics, ChildExits, Goto
<1>2. Settled /\ PhaseOfRun # "exited"
  BY <1>1 DEF Settled, PhaseOfRun
<1>3. child \in [Service -> {"none", "alive", "termed", "killed", "dead"}]
  BY DEF TypeInv, TypeOK, ProcessesOK
<1>4. CASE SpawnChild(s)
  <2>1. PhaseOfRun = "running"
    BY <1>4, <1>2 DEF SpawnChild, GateInv, TasksJoined, HandshakeInv, EndedIsIdle, PhaseOfRun
  <2>2. ~Promise!Runs(s)
    BY <1>4, ProcRuns DEF SpawnChild, SignalInv, LiveHasTask, Launched, Promise!Runs
  <2>3. Promise!Becomes({s}, "up")
    BY <1>3, <1>4 DEF SpawnChild, Promise!Becomes, ProcOf
  <2>4. Promise!Launch(s)
    BY <1>2, <2>1, <2>2, <2>3 DEF Promise!Launch, Settled
  <2> QED
    BY <1>2, <2>4 DEF PromiseStep, Promise!Next
<1>5. CASE ReapChild(s)
  <2>1. \A q \in Service : ProcOf(child'[q]) = ProcOf(child[q])
    BY <1>3, <1>5 DEF ReapChild, ProcOf
  <2> QED
    BY <1>2, <2>1 DEF PromiseStep, Promise!promiseVars, Settled
<1>6. CASE TaskPanics(s)
  <2>1. CASE Lives(s)
    <3>1. Promise!Runs(s) /\ s \in Panics
      BY <1>6, <2>1, ProcRuns DEF Promise!Runs, TaskPanics
    <3>2. Promise!Becomes({s}, "killed")
      BY <1>3, <1>6, <2>1 DEF TaskPanics, Promise!Becomes, ProcOf, Lives
    <3>3. Promise!Lose(s)
      BY <1>2, <3>1, <3>2 DEF Promise!Lose, Settled
    <3> QED
      BY <1>2, <3>3 DEF PromiseStep, Promise!Next
  <2>2. CASE ~Lives(s)
    <3>1. child' = child
      BY <1>3, <1>6, <2>2 DEF TaskPanics, Lives
    <3> QED
      BY <1>2, <3>1, MapStutter
  <2> QED
    BY <2>1, <2>2
<1>7. CASE ChildExits(s)
  <2>1. ProcOf(child[s]) # "none" /\ Promise!Becomes({s}, "none")
    BY <1>3, <1>7 DEF ChildExits, Promise!Becomes, ProcOf
  <2>2. Promise!Ends(s)
    BY <1>2, <2>1 DEF Promise!Ends, Settled
  <2> QED
    BY <1>2, <2>2 DEF PromiseStep, Promise!Next
<1> QED
  BY <1>4, <1>5, <1>6, <1>7

LEMMA MapSignals ==
  ASSUME TypeInv, SignalInv, pc[Loop] # "exited",
         \/ \E s \in Service : SignalLate(s)
         \/ \E t \in Thread : CancelAndTerm(t)
         \/ SecondSignal \/ EscalateGlobalStop \/ ShutdownTimer \/ SignalSubtree \/ RecoverPanic
         \/ \E x \in sigkills : SigkillTimer(x)
  PROVE  PromiseStep
<1>1. UNCHANGED <<stopped, restart_batches, shutting_down, exit_code, ended>>
  BY DEF SignalLate, CancelAndTerm, SecondSignal, EscalateGlobalStop, ShutdownTimer, SignalSubtree,
     RecoverPanic, SigkillTimer, ForceShutdown
<1>2. pc'[Loop] # "exited"
  <2>1. ASSUME NEW t \in Thread, CancelAndTerm(t) PROVE pc'[Loop] # "exited"
    BY <2>1, PcTyped DEF CancelAndTerm, Goto, AfterShutdown
  <2> QED
    BY <2>1, PcTyped
    DEF SignalLate, SecondSignal, EscalateGlobalStop, ShutdownTimer, SignalSubtree, RecoverPanic,
        SigkillTimer, Goto
<1>3. Settled /\ PhaseOfRun # "exited"
  BY <1>1, <1>2 DEF Settled, PhaseOfRun
<1>4. ASSUME NEW s \in Service, SignalLate(s) PROVE PromiseStep
  <2>1. AskedFor(s)
    BY <1>4 DEF SignalLate, SignalInv, LateAsked, SendsLate
  <2>2. \A q \in Service : <<q, pid[q]>> \in {<<s, pid[s]>>} /\ Lives(q) => AskedFor(q)
    BY <2>1
  <2>3. \/ SignalGroups({<<s, pid[s]>>}, "SIGKILL")
        \/ SignalGroups({<<s, pid[s]>>}, "SIGTERM")
    BY <1>4 DEF SignalLate
  <2> QED
    BY <1>3, <2>2, <2>3, MapSignal
<1>5. CASE (\E t \in Thread : CancelAndTerm(t)) \/ ShutdownTimer
  <2>1. shutting_down
    BY <1>5 DEF CancelAndTerm, ShutdownTimer, SignalInv, DownFirst
  <2> QED
    BY <1>3, <1>5, <2>1, MapSignal DEF CancelAndTerm, ShutdownTimer, AskedFor
<1>6. CASE SecondSignal \/ (EscalateGlobalStop /\ global_stopped)
  <2>1. shutting_down
    BY <1>6 DEF SecondSignal, EscalateGlobalStop, SignalInv, DownFirst
  <2>2. SignalGroups(LiveGroups \cup strays, "SIGKILL")
    BY <1>6 DEF SecondSignal, EscalateGlobalStop, ForceShutdown
  <2> QED
    BY <1>3, <2>1, <2>2, MapSignal DEF AskedFor
<1>7. CASE EscalateGlobalStop /\ ~global_stopped
  BY <1>3, <1>7, MapStutter DEF EscalateGlobalStop
<1>8. CASE SignalSubtree
  <2>1. \A s \in Service : <<s, pid[s]>> \in pids /\ Lives(s) => AskedFor(s)
    BY DEF SignalInv, TargetsAsked
  <2> QED
    BY <1>3, <1>8, <2>1, MapSignal DEF SignalSubtree
<1>9. CASE RecoverPanic
  <2>1. ~Lives(reaping)
    BY <1>9 DEF RecoverPanic, SignalInv, LoopInPlace, LiveHasTask, Launched
  <2>2. \A s \in Service : <<s, pid[s]>> \in {x \in LiveGroups : x[1] = reaping} /\ Lives(s) => AskedFor(s)
    BY <2>1
  <2> QED
    BY <1>3, <1>9, <2>2, MapSignal DEF RecoverPanic
<1>10. ASSUME NEW x \in sigkills, SigkillTimer(x) PROVE PromiseStep
  <2>1. \A s \in Service : <<s, pid[s]>> \in {x} \cap LiveGroups /\ Lives(s) => AskedFor(s)
    BY DEF SignalInv, TargetsAsked
  <2> QED
    BY <1>3, <1>10, <2>1, MapSignal DEF SigkillTimer
<1> QED
  BY <1>4, <1>5, <1>6, <1>7, <1>8, <1>9, <1>10

\* The run: codes, the flag, the claim, the end.
LEMMA MapRun ==
  ASSUME TypeInv, TypeInv', HandshakeInv, GateInv, SignalInv, pc[Loop] # "exited",
         \/ \E t \in Thread : SetExitCode(t) \/ BeginShutdown(t)
         \/ EndRunIfIdle \/ Exit \/ HardExit
  PROVE  PromiseStep
<1>1. UNCHANGED <<stopped, restart_batches, child>>
  BY DEF SetExitCode, BeginShutdown, EndRunIfIdle, Exit, HardExit
<1>2. ASSUME NEW t \in Thread, SetExitCode(t) \/ BeginShutdown(t)
      PROVE  pc'[Loop] # "exited" /\ ended' = ended
  BY <1>2, PcTyped DEF SetExitCode, BeginShutdown, Goto, AfterShutdown
<1>3. ASSUME NEW t \in Thread, SetExitCode(t) PROVE PromiseStep
  <2>1. exit_code' = exit_code \/ (exit_code = 0 /\ exit_code' \in Nat)
    BY <1>3 DEF SetExitCode, RecordedCode, TypeInv, TypeOK, SharedOK
  <2>2. UNCHANGED <<shutting_down, PhaseOfRun>> /\ PhaseOfRun # "exited"
    BY <1>2, <1>3 DEF SetExitCode, PhaseOfRun
  <2>3. CASE exit_code' = exit_code
    BY <1>1, <2>2, <2>3, MapStutter DEF Settled
  <2>4. CASE exit_code = 0 /\ exit_code' \in Nat
    BY <1>1, <2>2, <2>4 DEF Promise!Record, PromiseStep, Promise!Next
  <2> QED
    BY <2>1, <2>3, <2>4
<1>4. ASSUME NEW t \in Thread, BeginShutdown(t) PROVE PromiseStep
  <2>1. UNCHANGED <<exit_code, PhaseOfRun>> /\ PhaseOfRun # "exited" /\ shutting_down'
    BY <1>2, <1>4 DEF BeginShutdown, PhaseOfRun
  <2> QED
    BY <1>1, <2>1 DEF Promise!ShutDown, PromiseStep, Promise!Next
<1>5. CASE EndRunIfIdle
  <2>1. /\ pc[Loop] = "idle" /\ ~ended /\ ended' = ~RestartInFlight /\ pc'[Loop] \in {"sleep", "reap"}
        /\ UNCHANGED <<exit_code, shutting_down>>
    BY <1>5, PcTyped DEF EndRunIfIdle, Goto, HandshakeInv, EndedIsIdle
  <2>2. CASE RestartInFlight
    <3>1. UNCHANGED PhaseOfRun
      BY <2>1, <2>2 DEF PhaseOfRun
    <3> QED
      BY <1>1, <2>1, <3>1, MapStutter DEF Settled
  <2>3. CASE ~RestartInFlight
    <3>1. PhaseOfRun = "running" /\ PhaseOfRun' = "over"
      BY <2>1, <2>3 DEF PhaseOfRun
    <3>2. UNION restart_batches = {}
      BY <2>3 DEF RestartInFlight
    <3>3. \A s \in Service : ~Promise!Runs(s)
      <4> TAKE s \in Service
      <4>1. pc[s] = "none"
        BY <2>1 DEF HandshakeInv, EndedIsIdle, GateInv, TasksJoined
      <4> QED
        BY <4>1, ProcRuns DEF SignalInv, LiveHasTask, Launched, Promise!Runs
    <3>4. Promise!Over
      BY <1>1, <2>1, <3>1, <3>2, <3>3 DEF Promise!Over
    <3> QED
      BY <3>1, <3>4 DEF PromiseStep, Promise!Next
  <2> QED
    BY <2>2, <2>3
<1>6. CASE Exit
  <2>1. PhaseOfRun = "over" /\ PhaseOfRun' = "exited" /\ UNCHANGED <<exit_code, shutting_down>>
    BY <1>6, PcTyped DEF Exit, Goto, PhaseOfRun, SignalInv, LoopInPlace
  <2> QED
    BY <1>1, <2>1 DEF Promise!Exit, PromiseStep, Promise!Next
<1>7. CASE HardExit
  <2>1. PhaseOfRun # "exited" /\ PhaseOfRun' = "exited" /\ exit_code' = 1 /\ UNCHANGED shutting_down
    BY <1>7, PcTyped DEF HardExit, Goto, PhaseOfRun
  <2> QED
    BY <1>1, <2>1 DEF Promise!HardExit, PromiseStep, Promise!Next
<1> QED
  BY <1>3, <1>4, <1>5, <1>6, <1>7

\* Stops and restarts: whole subtrees are marked, queued and claimed.
LEMMA MapRestarts ==
  ASSUME TypeInv, TypeInv', HandshakeInv, GateInv, SignalInv, pc[Loop] # "exited",
         MarkSubtreeStopped \/ QueueRestart \/ TakeReadyRestarts
  PROVE  PromiseStep
<1>1. UNCHANGED <<child, shutting_down, exit_code, ended>> /\ pc'[Loop] # "exited"
  BY PcTyped DEF MarkSubtreeStopped, QueueRestart, TakeReadyRestarts, Goto, AwaitNext
<1>2. UNCHANGED PhaseOfRun /\ PhaseOfRun # "exited"
  BY <1>1 DEF PhaseOfRun
<1>3. ASSUME NEW S, Closed(S) PROVE Promise!HoldsDependents(S)
  BY <1>3 DEF Closed, Promise!HoldsDependents
<1>4. Promise!HoldsDependents(Subtree(root)) /\ Subtree(root) \subseteq Service
  <2>1. Closed(Subtree(root)) /\ Subtree(root) \subseteq Service
    BY DEF Closed, Subtree
  <2> QED
    BY <1>3, <2>1
<1>5. CASE MarkSubtreeStopped
  <2>1. PICK S \in SUBSET Service : S = Subtree(root)
    BY <1>4
  <2>2. {s \in Service : stopped'[s] # "no"} = {s \in Service : stopped[s] # "no"} \cup S
    BY <1>5, <2>1 DEF MarkSubtreeStopped
  <2>3. UNCHANGED restart_batches
    BY <1>5 DEF MarkSubtreeStopped
  <2>4. Promise!Stop(S)
    BY <1>1, <1>2, <1>4, <2>1, <2>2, <2>3 DEF Promise!Stop
  <2> QED
    BY <1>2, <2>4 DEF PromiseStep, Promise!Next
<1>6. CASE QueueRestart
  <2>1. (UNION restart_batches') = (UNION restart_batches) \cup Subtree(root)
    BY <1>6 DEF QueueRestart, MergedBatches
  <2>2. UNCHANGED stopped
    BY <1>6 DEF QueueRestart
  <2>3. PhaseOfRun = "running"
    <3>1. restarts_arming = 1
      BY <1>6 DEF QueueRestart, TypeInv, ArmingMatchesUi, InRestart
    <3> QED
      BY <1>2, <3>1 DEF HandshakeInv, EndedIsIdle, RestartInFlight, PhaseOfRun
  <2>4. Promise!Want(Subtree(root))
    BY <1>1, <1>2, <1>4, <2>1, <2>2, <2>3 DEF Promise!Want
  <2> QED
    BY <1>2, <1>4, <2>4 DEF PromiseStep, Promise!Next
<1>7. CASE TakeReadyRestarts /\ shutting_down
  <2>1. restart_batches' = {} /\ UNCHANGED stopped
    BY <1>7 DEF TakeReadyRestarts, TypeInv, TypeOK, SharedOK
  <2>2. Promise!Discard
    BY <1>1, <1>2, <1>7, <2>1 DEF Promise!Discard
  <2> QED
    BY <1>2, <2>2 DEF PromiseStep, Promise!Next
<1>8. CASE TakeReadyRestarts /\ ~shutting_down
  <2> DEFINE ready == {b \in restart_batches : Quiesced(b)}
             batch == UNION ready
  <2>1. restart_batches' = restart_batches \ ready
    BY <1>8 DEF TakeReadyRestarts
  <2>2. batch \subseteq (UNION restart_batches) /\ batch \in SUBSET Service
    BY DEF TypeInv, TypeOK, RestartsOK
  <2>3. (UNION restart_batches') = (UNION restart_batches) \ batch
    <3>1. \A x \in restart_batches \ ready : x \cap batch = {}
      BY DEF HandshakeInv, BatchesSound
    <3> QED
      BY <2>1, <3>1
  <2>4. {s \in Service : stopped'[s] # "no"} = {s \in Service : stopped[s] # "no"} \ batch
    BY <1>8 DEF TakeReadyRestarts
  <2>5. Closed(batch)
    BY DEF HandshakeInv, BatchesSound, Closed
  <2>6. \A s \in batch : ~Promise!Runs(s)
    <3> TAKE s \in batch
    <3>1. s \in Service /\ pc[s] = "none"
      BY <2>2 DEF Quiesced, GateInv, TasksJoined
    <3> QED
      BY <3>1, ProcRuns DEF SignalInv, LiveHasTask, Launched, Promise!Runs
  <2>7. PhaseOfRun = "running"
    BY <1>2, <1>8 DEF TakeReadyRestarts, HandshakeInv, EndedIsIdle, PhaseOfRun
  <2> HIDE DEF batch
  <2>8. PICK S \in SUBSET Service : S = batch
    BY <2>2
  <2>9. Promise!Relaunch(S)
    BY <1>1, <1>2, <1>3, <1>8, <2>2, <2>3, <2>4, <2>5, <2>6, <2>7, <2>8 DEF Promise!Relaunch
  <2> QED
    BY <1>2, <2>9 DEF PromiseStep, Promise!Next
<1> QED
  BY <1>5, <1>6, <1>7, <1>8

LEMMA EveryStepPromised ==
  TypeInv /\ TypeInv' /\ HandshakeInv /\ GateInv /\ SignalInv /\ [Next]_vars => PromiseStep
<1> SUFFICES ASSUME TypeInv, TypeInv', HandshakeInv, GateInv, SignalInv, [Next]_vars
             PROVE  PromiseStep
  OBVIOUS
<1>1. CASE Rest \/ UNCHANGED vars
  BY <1>1, MapStutter DEF Rest, vars, Settled, PhaseOfRun
<1> SUFFICES ASSUME Next, ~Rest PROVE PromiseStep
  BY <1>1
<1>2. pc[Loop] # "exited"
  BY DEF Next
<1>3. ASSUME NEW s \in Service, TaskStep(s) \/ TaskPanics(s) \/ ChildExits(s) PROVE PromiseStep
  BY <1>2, <1>3, MapTask, MapProcess, MapSignals DEF TaskStep
<1>4. ASSUME NEW p \in Pollers, PollStep(p) \/ CheckPasses(p) \/ CheckFails(p) PROVE PromiseStep
  BY <1>4, MapPoller
<1>5. ASSUME NEW t \in Thread, SetExitCode(t) \/ BeginShutdown(t) \/ CancelAndTerm(t)
      PROVE  PromiseStep
  BY <1>2, <1>5, MapRun, MapSignals
<1>6. CASE LoopStep
  BY <1>2, <1>6, MapUnseen, MapRestarts, MapRun, MapSignals DEF LoopStep
<1>7. CASE TimerStep
  BY <1>2, <1>7, MapUnseen, MapRun, MapSignals DEF TimerStep
<1>8. CASE UiWork \/ UiQuit \/ \E s \in Service : UiStop(s) \/ UiRestart(s)
  BY <1>2, <1>8, MapUnseen, MapRestarts, MapSignals DEF UiWork
<1>9. CASE FirstSignal \/ SecondSignal \/ \E x \in orphans : LeftoverExits(x)
  BY <1>2, <1>9, MapUnseen, MapSignals
<1> QED
  BY <1>3, <1>4, <1>5, <1>6, <1>7, <1>8, <1>9 DEF Next

\* The initial state is Supervisor's.
LEMMA InitPromised == Init => Promise!Init
  BY ThreadAssumption DEF Init, Promise!Init, ProcOf, PhaseOfRun, Thread

\* Tasks, locks, timers and channels together implement Supervisor: one process per
\* service at a time and none after the end, signals for nobody but the stopped, the
\* shut down and the lost, restarts of whole quiet subtrees, the first exit code kept.
THEOREM RunnerKeepsPromise == Spec => KeepsPromise
<1>1. Spec => [](TypeInv /\ HandshakeInv /\ GateInv /\ SignalInv)
  BY TypeInvariant, HandshakeInvariant, GateInvariant, SignalInvariant, PTL
<1>2. TypeInv /\ HandshakeInv /\ GateInv /\ SignalInv /\ TypeInv' /\ [Next]_vars
        => [Promise!Next]_(Promise!promiseVars)
  BY EveryStepPromised DEF PromiseStep
<1> QED
  BY <1>1, <1>2, InitPromised, PTL DEF Spec, KeepsPromise, Promise!Spec

=============================================================================
