----------------------------- MODULE OutcomeProofs ----------------------------
(* What a run tells, and whom it leaves waiting: dependents go ahead only of  *)
(* a service that completed, the exit code names a failure and never a kill,  *)
(* a stop or a quit that is over has missed nobody; for every configuration,  *)
(* topology and bound.                                                        *)
EXTENDS DeliveryProofs

USE DEF taskFrame, pollFrame, uiFrame, loopFrame, downFrame, timerFrame, flagVars, restartVars,
        svcVars, loopVars, taskVars, procVars, pollVars, quitVars, uiVars, timerVars, strayVars

-----------------------------------------------------------------------------
(* A gate that opens for a completion.                                     *)

Expected == {s \in Service : ReadyWhen[s] = "ExpectedExit"}
Watched == {s \in Service : ReadyWhen[s] \in {"Probe", "Output", "Delay"}}

\* Pollers watch services with readiness only.
PollersWatch == \A p \in Pollers : pc[p] # "off" => owner[p] \in Watched

\* Where a task is once it has nothing left to tell.
Told == {"fin", "done", "none", "panicked"}
USE DEF Told

\* The status comes before the gate, and neither is taken back while the task is alive.
CompletedFirst ==
  \A s \in Expected :
    /\ pc[s] = "ready" => status[s] = "Completed"
    /\ gate[s] = "Ready" => /\ status[s] = "Completed" /\ s \notin claimed
                            /\ pc[s] \in Told

\* A claimed service has no task yet.
ClaimedIdle == claimed \subseteq Service /\ \A s \in claimed : pc[s] = "none"

CompletionInv == PollersWatch /\ CompletedFirst /\ ClaimedIdle

LEMMA CompletionInit == Init => CompletionInv
  BY ThreadAssumption
  DEF Init, CompletionInv, PollersWatch, CompletedFirst, ClaimedIdle, Expected, Thread

\* A step that opens no gate of theirs, takes back no completion and starts nothing.
Modest ==
  /\ \A p \in Pollers : pc'[p] # "off" => pc[p] # "off" /\ owner'[p] = owner[p]
  /\ claimed' \subseteq claimed
  /\ \A s \in Service : pc[s] = "none" => pc'[s] = "none"
  /\ \A s \in Expected :
       /\ gate'[s] = "Ready" => gate[s] = "Ready"
       /\ status[s] = "Completed" => status'[s] = "Completed"
       /\ pc'[s] = "ready" => pc[s] = "ready"
       /\ pc[s] \in Told => pc'[s] \in Told

LEMMA ModestKeeps ==
  ASSUME CompletionInv, Modest
  PROVE  CompletionInv'
<1>1. PollersWatch'
  BY DEF CompletionInv, PollersWatch, Modest, Expected
<1>2. CompletedFirst'
  BY DEF CompletionInv, CompletedFirst, Modest, Expected
<1>3. ClaimedIdle'
  BY DEF CompletionInv, ClaimedIdle, Modest
<1> QED
  BY <1>1, <1>2, <1>3 DEF CompletionInv

\* A completion stays, and a gate changes to the result signalled, if at all.
LEMMA CompletedStays ==
  ASSUME TypeInv, NEW s, NEW st, FinishIfActive(s, st), NEW q \in Service, status[q] = "Completed"
  PROVE  status'[q] = "Completed"
  BY DEF FinishIfActive, IsActive, TypeInv, TypeOK, ServicesOK

LEMMA GateStays ==
  ASSUME TypeInv, NEW s, NEW result, SignalDep(s, result), NEW q \in Service
  PROVE  gate'[q] = gate[q] \/ (q = s /\ gate'[q] = result)
  BY DEF SignalDep, TypeInv, TypeOK, ServicesOK

LEMMA ModestTask ==
  ASSUME TypeInv, NEW s \in Service,
         \/ AwaitDep(s) \/ Abandon(s) \/ Attempt(s) \/ SpawnFailure(s) \/ SpawnChild(s)
         \/ SignalLate(s) \/ ReleaseDependents(s) \/ ReapChild(s) \/ DeregisterGroup(s)
         \/ SweepGroup(s) \/ ClassifyExit(s) \/ SettleTerminally(s) \/ FinishTask(s)
         \/ TaskPanics(s) \/ ChildExits(s)
  PROVE  Modest
<1>1. UNCHANGED <<owner, claimed>>
  BY DEF AwaitDep, Abandon, Attempt, SpawnFailure, SpawnChild, SignalLate, ReleaseDependents,
     ReapChild, DeregisterGroup, SweepGroup, ClassifyExit, SettleTerminally, FinishTask, TaskPanics,
     ChildExits
<1>2. /\ \A p \in Pollers : pc'[p] = pc[p] \/ pc'[p] = "off"
      /\ \A q \in Service : q # s => pc'[q] = pc[q]
      /\ pc'[s] # "ready" \/ pc'[s] = pc[s]
      /\ pc[s] \in Told => pc'[s] \in Told
      /\ pc[s] = "none" => pc'[s] = "none"
  BY PcTyped
  DEF AwaitDep, Abandon, Attempt, SpawnFailure, SpawnChild, SignalLate, ReleaseDependents,
     ReapChild, DeregisterGroup, SweepGroup, ClassifyExit, SettleTerminally, FinishTask, TaskPanics,
     ChildExits, RetryOrSettle, Goto
<1>3. \A q \in Service : status[q] = "Completed" => status'[q] = "Completed"
  BY CompletedStays
  DEF AwaitDep, Abandon, Attempt, SpawnFailure, SpawnChild, SignalLate, ReleaseDependents,
     ReapChild, DeregisterGroup, SweepGroup, ClassifyExit, SettleTerminally, FinishTask, TaskPanics,
     ChildExits
<1>4. \A q \in Expected : gate'[q] = "Ready" => gate[q] = "Ready"
  BY GateStays
  DEF AwaitDep, Abandon, Attempt, SpawnFailure, SpawnChild, SignalLate, ReleaseDependents, ReadyOnLaunch,
     ReapChild, DeregisterGroup, SweepGroup, ClassifyExit, SettleTerminally, FinishTask, TaskPanics,
     ChildExits, Expected
<1> QED
  BY <1>1, <1>2, <1>3, <1>4 DEF Modest, Expected

LEMMA ModestPoller ==
  ASSUME TypeInv, CompletionInv, NEW p \in Pollers, PollStep(p) \/ CheckPasses(p) \/ CheckFails(p)
  PROVE  Modest
<1>1. UNCHANGED <<owner, claimed>>
  BY DEF PollStep, AwaitFirstLaunch, CheckPasses, WithholdOrRelease, CheckFails, ReportReady,
      ReadinessCancelled, DeadlineElapses, OnReadinessDeadline, FailReadinessStartup
<1>2. pc[p] # "off" /\ \A t \in Thread : t # p => pc'[t] = pc[t]
  BY PcTyped
  DEF PollStep, AwaitFirstLaunch, CheckPasses, WithholdOrRelease, CheckFails, ReportReady,
      ReadinessCancelled, DeadlineElapses, OnReadinessDeadline, FailReadinessStartup, Goto
<1>3. owner[p] \in Service \ Expected
  BY <1>2 DEF CompletionInv, PollersWatch, Watched, Expected
<1>4. \A q \in Service : status[q] = "Completed" => status'[q] = "Completed"
  BY CompletedStays
  DEF PollStep, AwaitFirstLaunch, CheckPasses, WithholdOrRelease, CheckFails, ReportReady,
      ReadinessCancelled, DeadlineElapses, OnReadinessDeadline, FailReadinessStartup
<1>5. \A q \in Expected : gate'[q] = gate[q] \/ gate'[q] = "Failed"
  BY <1>3, GateStays
  DEF PollStep, AwaitFirstLaunch, CheckPasses, WithholdOrRelease, CheckFails, ReportReady,
      ReadinessCancelled, DeadlineElapses, OnReadinessDeadline, FailReadinessStartup, Expected
<1> QED
  BY <1>1, <1>2, <1>4, <1>5, PcTyped DEF Modest, Expected


LEMMA ModestElsewhere ==
  ASSUME TypeInv,
         \/ \E t \in Thread : SetExitCode(t) \/ BeginShutdown(t) \/ CancelAndTerm(t)
         \/ FirstSignal \/ SecondSignal \/ UiQuit \/ UiWork \/ TimerStep
         \/ \E s \in Service : UiStop(s) \/ UiRestart(s)
         \/ \E x \in orphans : LeftoverExits(x)
         \/ EndRunIfIdle \/ Notified \/ RecoverPanic \/ DropPanicked \/ ReapStrays \/ Exit
         \/ \E s \in Service : ReapJoined(s)
         \/ Rest \/ UNCHANGED vars
  PROVE  Modest
<1>1. ASSUME NEW t \in Thread, SetExitCode(t) \/ BeginShutdown(t) \/ CancelAndTerm(t) PROVE Modest
  <2>1. UNCHANGED <<owner, claimed, gate, status>>
    BY <1>1 DEF SetExitCode, BeginShutdown, CancelAndTerm
  <2>2. /\ pc[t] \in {"code", "shutdown", "cancel"} /\ \A u \in Thread : u # t => pc'[u] = pc[u]
        /\ pc'[t] \in {"shutdown", "cancel", AfterShutdown(t)}
    BY <1>1, PcTyped DEF SetExitCode, BeginShutdown, CancelAndTerm, Goto
  <2>3. t \in Service => AfterShutdown(t) = "fin"
    BY DEF AfterShutdown
  <2> QED
    BY <2>1, <2>2, <2>3, PcTyped DEF Modest, Expected
<1>2. CASE UiWork
  <2>1. UNCHANGED <<owner, claimed>>
    BY <1>2 DEF UiWork, MarkSubtreeStopped, NoteTarget, SignalSubtree, QueueRestart,
        EscalateGlobalStop, UiRequestExit, ReadStatus, WhenRunning, ForceShutdown, SignalGroups
  <2>2. \A t \in Thread : t # Ui => pc'[t] = pc[t]
    BY <1>2, PcTyped DEF UiWork, MarkSubtreeStopped, NoteTarget, SignalSubtree, QueueRestart, Goto,
        EscalateGlobalStop, UiRequestExit, ReadStatus, WhenRunning, ForceShutdown, SignalGroups
  <2>3. \A q \in Service :
          /\ status[q] = "Completed" => status'[q] = "Completed"
          /\ gate'[q] = gate[q] \/ gate'[q] = "Stopped"
    BY <1>2, CompletedStays, GateStays
    DEF UiWork, MarkSubtreeStopped, NoteTarget, SignalSubtree, QueueRestart, EscalateGlobalStop,
        UiRequestExit, ReadStatus, WhenRunning, ForceShutdown, SignalGroups
  <2> QED
    BY <2>1, <2>2, <2>3, PcTyped DEF Modest, Expected
<1>3. CASE TimerStep
  <2>1. UNCHANGED <<owner, claimed, gate, status>> /\ \A t \in Thread : t # Loop => pc'[t] = pc[t]
    BY <1>3, PcTyped DEF TimerStep, ShutdownTimer, HardExit, SigkillTimer, StrayTimer, KillStray, Goto
  <2> QED
    BY <2>1, PcTyped DEF Modest, Expected
<1>4. CASE \/ FirstSignal \/ SecondSignal \/ UiQuit
           \/ \E s \in Service : UiStop(s) \/ UiRestart(s)
           \/ \E x \in orphans : LeftoverExits(x)
           \/ Rest \/ UNCHANGED vars
  <2>1. UNCHANGED <<owner, claimed, gate, status>>
    BY <1>4
    DEF FirstSignal, SecondSignal, EscalateGlobalStop, UiRequestExit, UiStop, UiRestart,
        LeftoverExits, Rest, vars, ForceShutdown, UiQuit, LookForRunning
  <2>2. \A t \in Thread \ {Ui, Sig, Loop} : pc'[t] = pc[t]
    BY <1>4, PcTyped
    DEF FirstSignal, SecondSignal, EscalateGlobalStop, UiRequestExit, UiStop, UiRestart,
        LeftoverExits, Rest, vars, ForceShutdown, Goto, UiQuit, LookForRunning
  <2> QED
    BY <2>1, <2>2, PcTyped DEF Modest, Expected
<1>5. CASE \/ EndRunIfIdle \/ Notified \/ RecoverPanic \/ DropPanicked \/ ReapStrays \/ Exit
           \/ \E s \in Service : ReapJoined(s)
  <2>1. UNCHANGED <<owner, claimed>>
    BY <1>5 DEF EndRunIfIdle, Notified, RecoverPanic, DropPanicked, ReapStrays, Exit, ReapJoined
  <2>2. \A t \in Thread \ {Loop} : pc'[t] = pc[t] \/ (t \in Service /\ pc'[t] = "none")
    BY <1>5, PcTyped
    DEF EndRunIfIdle, Notified, RecoverPanic, DropPanicked, ReapStrays, Exit, ReapJoined, Goto
  <2>3. \A q \in Service :
          /\ status[q] = "Completed" => status'[q] = "Completed"
          /\ gate'[q] = gate[q] \/ gate'[q] = "Failed"
    BY <1>5, CompletedStays, GateStays
    DEF EndRunIfIdle, Notified, RecoverPanic, DropPanicked, ReapStrays, Exit, ReapJoined
  <2> QED
    BY <2>1, <2>2, <2>3, PcTyped DEF Modest, Expected
<1> QED
  BY <1>1, <1>2, <1>3, <1>4, <1>5

\* A launch happens behind a closed gate, and its poller is of a service with readiness.
LEMMA CompletionLaunch ==
  ASSUME TypeInv, CompletionInv, NEW s \in Service, BeginAttempts(s) \/ RegisterGroup(s)
  PROVE  CompletionInv'
<1>1. /\ UNCHANGED <<gate, claimed>>
      /\ \A q \in Service : q # s => pc'[q] = pc[q] /\ status'[q] = status[q]
      /\ pc[s] \in {"deps", "register"} /\ pc'[s] # "ready"
  BY PcTyped
  DEF BeginAttempts, RegisterGroup, OnRegistration, Goto, TypeInv, TypeOK, ServicesOK
<1>2. CompletedFirst'
  BY <1>1 DEF CompletionInv, CompletedFirst, Expected
<1>3. PollersWatch'
  <2>1. CASE RegisterGroup(s)
    BY <2>1, PcTyped DEF RegisterGroup, Goto, CompletionInv, PollersWatch
  <2>2. CASE BeginAttempts(s)
    BY <2>2, PcTyped
    DEF BeginAttempts, Goto, CompletionInv, PollersWatch, Watched, TypeInv, TypeOK, PollersOK
  <2> QED
    BY <2>1, <2>2
<1>4. ClaimedIdle'
  BY <1>1 DEF CompletionInv, ClaimedIdle
<1> QED
  BY <1>2, <1>3, <1>4 DEF CompletionInv

LEMMA CompletionSettle ==
  ASSUME TypeInv, CompletionInv, NEW s \in Service, SettleExpected(s) \/ ReleaseCompleted(s)
  PROVE  CompletionInv'
<1>1. /\ UNCHANGED <<owner, claimed>>
      /\ \A t \in Thread : t # s => pc'[t] = pc[t]
      /\ \A q \in Service : q # s => status'[q] = status[q] /\ gate'[q] = gate[q]
  BY PcTyped, GateStays DEF SettleExpected, ReleaseCompleted, Goto, TypeInv, TypeOK, ServicesOK
<1>2. PollersWatch'
  BY <1>1, PcTyped DEF CompletionInv, PollersWatch
<1>3. ClaimedIdle' /\ s \notin claimed
  BY <1>1, PcTyped DEF SettleExpected, ReleaseCompleted, CompletionInv, ClaimedIdle
<1>4. CASE SettleExpected(s)
  <2>1. pc'[s] \in {"ready", "classify"} /\ (pc'[s] = "ready" => status'[s] = "Completed")
    BY <1>4, PcTyped DEF SettleExpected, Goto, TypeInv, TypeOK, ServicesOK
  <2>2. pc[s] = "settle" /\ gate' = gate
    BY <1>4 DEF SettleExpected
  <2> QED
    BY <1>1, <1>2, <1>3, <2>1, <2>2, PcTyped DEF CompletionInv, CompletedFirst, Expected
<1>5. CASE ReleaseCompleted(s)
  <2>1. pc[s] = "ready" /\ pc'[s] = "fin" /\ status' = status
    BY <1>5, PcTyped DEF ReleaseCompleted, Goto
  <2> QED
    BY <1>1, <1>2, <1>3, <2>1, PcTyped DEF CompletionInv, CompletedFirst, Expected
<1> QED
  BY <1>4, <1>5

\* The claim closes the gates of services without a task, before any of them starts.
LEMMA CompletionClaim ==
  ASSUME TypeInv, HandshakeInv, GateInv, CompletionInv, TakeReadyRestarts \/ SpawnClaimed
  PROVE  CompletionInv'
<1>1. owner' = owner /\ \A p \in Pollers : pc'[p] = pc[p]
  BY PcTyped DEF TakeReadyRestarts, SpawnClaimed, Goto, CompletionInv, ClaimedIdle
<1>2. PollersWatch'
  BY <1>1 DEF CompletionInv, PollersWatch
<1>3. CASE TakeReadyRestarts
  <2> DEFINE batch == UNION (IF shutting_down THEN {} ELSE {b \in restart_batches : Quiesced(b)})
  <2>1. /\ claimed' = batch /\ \A s \in Service : pc'[s] = pc[s]
        /\ \A s \in Service : IF s \in batch THEN gate'[s] = "Pending"
                              ELSE gate'[s] = gate[s] /\ status'[s] = status[s]
        /\ \A s \in Service : s \in batch \/ status'[s] = status[s]
    BY <1>3, PcTyped DEF TakeReadyRestarts, Goto
  <2>2. \A s \in batch : s \in Service /\ pc[s] = "none"
    BY DEF Quiesced, GateInv, TasksJoined, TypeInv, TypeOK, RestartsOK
  <2> HIDE DEF batch
  <2> QED
    BY <1>2, <2>1, <2>2 DEF CompletionInv, CompletedFirst, ClaimedIdle, Expected
<1>4. CASE SpawnClaimed
  <2>1. /\ UNCHANGED <<gate, status>> /\ claimed' = {}
        /\ \A s \in Service : pc'[s] = IF s \in claimed THEN "deps" ELSE pc[s]
    BY <1>4, PcTyped DEF SpawnClaimed
  <2> QED
    BY <1>2, <2>1 DEF CompletionInv, CompletedFirst, ClaimedIdle, Expected
<1> QED
  BY <1>3, <1>4

LEMMA CompletionStep ==
  TypeInv /\ HandshakeInv /\ GateInv /\ CompletionInv /\ [Next]_vars => CompletionInv'
<1> SUFFICES ASSUME TypeInv, HandshakeInv, GateInv, CompletionInv, [Next]_vars
             PROVE  CompletionInv'
  OBVIOUS
<1>1. ASSUME NEW s \in Service, TaskStep(s) \/ TaskPanics(s) \/ ChildExits(s) PROVE CompletionInv'
  BY <1>1, ModestTask, ModestKeeps, CompletionLaunch, CompletionSettle DEF TaskStep
<1>2. ASSUME NEW p \in Pollers, PollStep(p) \/ CheckPasses(p) \/ CheckFails(p) PROVE CompletionInv'
  BY <1>2, ModestPoller, ModestKeeps
<1>3. CASE LoopStep
  BY <1>3, ModestElsewhere, ModestKeeps, CompletionClaim DEF LoopStep
<1>4. CASE ~(LoopStep \/ (\E s \in Service : TaskStep(s) \/ TaskPanics(s) \/ ChildExits(s))
                 \/ (\E p \in Pollers : PollStep(p) \/ CheckPasses(p) \/ CheckFails(p)))
  BY <1>4, ModestElsewhere, ModestKeeps DEF Next
<1> QED
  BY <1>1, <1>2, <1>3, <1>4

\* exit.rs:settle_expected: the gate of a service that is to complete opens only when it
\* has completed, and its dependents never see it open with another outcome.
THEOREM ReadyOnlyIfCompleted == Spec => []ReadyMeansCompleted
<1>1. CompletionInv => ReadyMeansCompleted
  BY DEF CompletionInv, CompletedFirst, Expected, ReadyMeansCompleted
<1> QED
  BY <1>1, TypeInvariant, HandshakeInvariant, GateInvariant, CompletionInit, CompletionStep, PTL DEF Spec

-----------------------------------------------------------------------------
(* What a task does, and what the others do while the tasks stand still.   *)

\* A task's step, and the end of its process, is seen in its own service only.
LEMMA TaskLocal ==
  ASSUME TypeInv, NEW s \in Service, TaskStep(s) \/ TaskPanics(s) \/ ChildExits(s)
  PROVE  /\ UNCHANGED <<flagVars, restartVars, stopped, exit_code, cancelled, loopVars, uiVars, grace>>
         /\ \A q \in Service : q # s =>
              /\ pc'[q] = pc[q] /\ child'[q] = child[q] /\ exit'[q] = exit[q]
              /\ was_down'[q] = was_down[q] /\ status'[q] = status[q] /\ gate'[q] = gate[q]
              /\ groups'[q] = groups[q] /\ pid'[q] = pid[q] /\ attempt'[q] = attempt[q]
              /\ poller'[q] = poller[q]
         /\ \A t \in {Ui, Sig, Loop} : pc'[t] = pc[t]
         /\ \A p \in Pollers : pc'[p] = pc[p] \/ pc'[p] \in {"off", "launch"}
<1>1. UNCHANGED <<flagVars, restartVars, stopped, exit_code, cancelled, loopVars, uiVars, grace>>
  BY DEF TaskStep, AwaitDep, BeginAttempts, Abandon, Attempt, SpawnFailure, SpawnChild, RegisterGroup,
     SignalLate, ReleaseDependents, ReapChild, DeregisterGroup, SweepGroup, SettleExpected,
     ReleaseCompleted, ClassifyExit, SettleTerminally, FinishTask, TaskPanics, ChildExits
<1>2. /\ \A q \in Service : q # s => pc'[q] = pc[q]
      /\ \A t \in {Ui, Sig, Loop} : pc'[t] = pc[t]
      /\ \A p \in Pollers : pc'[p] = pc[p] \/ pc'[p] \in {"off", "launch"}
  <2>1. CASE BeginAttempts(s)
    BY <2>1, PcTyped DEF BeginAttempts, Goto
  <2>2. CASE FinishTask(s)
    BY <2>2, PcTyped DEF FinishTask
  <2>3. CASE ~(BeginAttempts(s) \/ FinishTask(s))
    BY <2>3, PcTyped
    DEF TaskStep, AwaitDep, Abandon, Attempt, SpawnFailure, SpawnChild, RegisterGroup,
        SignalLate, ReleaseDependents, ReapChild, DeregisterGroup, SweepGroup, SettleExpected,
        ReleaseCompleted, ClassifyExit, SettleTerminally, TaskPanics, ChildExits, RetryOrSettle, Goto
  <2> QED
    BY <2>1, <2>2, <2>3
<1>3. ASSUME NEW q \in Service, q # s
      PROVE  /\ child'[q] = child[q] /\ groups'[q] = groups[q] /\ pid'[q] = pid[q]
             /\ status'[q] = status[q] /\ gate'[q] = gate[q]
  BY <1>3
  DEF TaskStep, AwaitDep, BeginAttempts, Abandon, Attempt, SpawnFailure, SpawnChild, RegisterGroup,
     SignalLate, SignalGroups, ReleaseDependents, ReapChild, DeregisterGroup, SweepGroup, SettleExpected,
     ReleaseCompleted, ClassifyExit, SettleTerminally, FinishTask, TaskPanics, ChildExits,
     SignalDep, FinishIfActive, TypeInv, TypeOK, ProcessesOK, ServicesOK, SharedOK
<1>4. ASSUME NEW q \in Service, q # s
      PROVE  /\ exit'[q] = exit[q] /\ was_down'[q] = was_down[q]
             /\ attempt'[q] = attempt[q] /\ poller'[q] = poller[q]
  BY <1>4
  DEF TaskStep, AwaitDep, BeginAttempts, Abandon, Attempt, SpawnFailure, SpawnChild, RegisterGroup,
     SignalLate, ReleaseDependents, ReapChild, DeregisterGroup, SweepGroup, SettleExpected,
     ReleaseCompleted, ClassifyExit, SettleTerminally, FinishTask, TaskPanics, ChildExits,
     RetryOrSettle, TypeInv, TypeOK, TasksOK
<1> QED
  BY <1>1, <1>2, <1>3, <1>4

\* What the others do while the tasks stand still.
StepElsewhere ==
  \/ \E p \in Pollers : PollStep(p) \/ CheckPasses(p) \/ CheckFails(p)
  \/ \E t \in Thread : SetExitCode(t) \/ BeginShutdown(t) \/ CancelAndTerm(t)
  \/ LoopStep \/ UiQuit \/ UiWork \/ FirstSignal \/ SecondSignal \/ TimerStep
  \/ \E s \in Service : UiStop(s) \/ UiRestart(s)
  \/ \E x \in orphans : LeftoverExits(x)
  \/ Rest \/ UNCHANGED vars

\* Every step is a task's or one of the others'.
LEMMA StepsSplit ==
  [Next]_vars => StepElsewhere \/ \E s \in Service : TaskStep(s) \/ TaskPanics(s) \/ ChildExits(s)
  BY DEF Next, StepElsewhere

\* The others leave a task where it is, but for the shutdown it calls, the run loop that
\* joins it and the launch of a claimed one.
LEMMA ElsewherePlaces ==
  ASSUME TypeInv, HandshakeInv, GateInv, StepElsewhere
  PROVE  \A s \in Service :
           \/ pc'[s] = pc[s]
           \/ pc[s] = "code" /\ pc'[s] = "shutdown"
           \/ pc[s] = "shutdown" /\ pc'[s] \in {"cancel", "fin"} /\ shutting_down'
           \/ pc[s] = "cancel" /\ pc'[s] = "fin"
           \/ pc[s] = "done" /\ pc'[s] = "none"
           \/ pc[s] = "panicked" /\ pc'[s] = "none" /\ pc'[Loop] = "recover" /\ reaping' = s
           \/ pc[s] = "none" /\ pc'[s] = "deps" /\ s \in claimed
<1> SUFFICES ASSUME NEW s \in Service
             PROVE  \/ pc'[s] = pc[s]
                    \/ pc[s] = "code" /\ pc'[s] = "shutdown"
                    \/ pc[s] = "shutdown" /\ pc'[s] \in {"cancel", "fin"} /\ shutting_down'
                    \/ pc[s] = "cancel" /\ pc'[s] = "fin"
                    \/ pc[s] = "done" /\ pc'[s] = "none"
                    \/ pc[s] = "panicked" /\ pc'[s] = "none" /\ pc'[Loop] = "recover" /\ reaping' = s
                    \/ pc[s] = "none" /\ pc'[s] = "deps" /\ s \in claimed
  OBVIOUS
<1>1. CASE \E p \in Pollers : PollStep(p) \/ CheckPasses(p) \/ CheckFails(p)
  BY <1>1, PcTyped
  DEF PollStep, AwaitFirstLaunch, CheckPasses, WithholdOrRelease, CheckFails, ReportReady,
      ReadinessCancelled, DeadlineElapses, OnReadinessDeadline, FailReadinessStartup, Goto
<1>2. CASE \E t \in Thread : SetExitCode(t) \/ BeginShutdown(t) \/ CancelAndTerm(t)
  BY <1>2, PcTyped DEF SetExitCode, BeginShutdown, CancelAndTerm, Goto, AfterShutdown
<1>3. CASE SpawnClaimed
  <2>1. s \in claimed => pc[s] = "none"
    BY <1>3 DEF SpawnClaimed, HandshakeInv, BatchesSound, GateInv, TasksJoined
  <2> QED
    BY <1>3, <2>1, PcTyped DEF SpawnClaimed
<1>4. CASE \E q \in Service : ReapJoined(q)
  BY <1>4, PcTyped DEF ReapJoined
<1>5. CASE LoopStep /\ ~SpawnClaimed /\ ~\E q \in Service : ReapJoined(q)
  BY <1>5, PcTyped
  DEF LoopStep, TakeReadyRestarts, EndRunIfIdle, Notified, RecoverPanic, DropPanicked, ReapStrays,
      Exit, Goto
<1>6. CASE UiWork \/ UiQuit \/ \E q \in Service : UiStop(q) \/ UiRestart(q)
  BY <1>6, PcTyped
  DEF UiWork, MarkSubtreeStopped, NoteTarget, SignalSubtree, QueueRestart, EscalateGlobalStop,
      UiRequestExit, UiStop, UiRestart, ForceShutdown, Goto, ReadStatus, WhenRunning, SignalGroups,
      UiQuit, LookForRunning
<1>7. CASE TimerStep \/ FirstSignal \/ SecondSignal \/ Rest \/ UNCHANGED vars
           \/ \E x \in orphans : LeftoverExits(x)
  BY <1>7, PcTyped
  DEF TimerStep, ShutdownTimer, HardExit, SigkillTimer, StrayTimer, KillStray, FirstSignal,
      SecondSignal, ForceShutdown, LeftoverExits, Rest, vars, Goto
<1> QED
  BY <1>1, <1>2, <1>3, <1>4, <1>5, <1>6, <1>7 DEF StepElsewhere

\* The others keep what a task has recorded; a mark is taken back from a service without
\* a task only.
LEMMA ElsewhereKeeps ==
  ASSUME TypeInv, GateInv, StepElsewhere
  PROVE  /\ UNCHANGED <<exit, was_down, pid, poller>>
         /\ shutting_down => shutting_down'
         /\ \A s \in Service : pc[s] # "none" /\ stopped[s] # "no" => stopped'[s] # "no"
<1>1. CASE \E p \in Pollers : PollStep(p) \/ CheckPasses(p) \/ CheckFails(p)
  BY <1>1
  DEF PollStep, AwaitFirstLaunch, CheckPasses, WithholdOrRelease, CheckFails, ReportReady,
      ReadinessCancelled, DeadlineElapses, OnReadinessDeadline, FailReadinessStartup
<1>2. CASE \E t \in Thread : SetExitCode(t) \/ BeginShutdown(t) \/ CancelAndTerm(t)
  BY <1>2 DEF SetExitCode, BeginShutdown, CancelAndTerm
<1>3. CASE TakeReadyRestarts
  <2> DEFINE batch == UNION (IF shutting_down THEN {} ELSE {b \in restart_batches : Quiesced(b)})
  <2>1. \A s \in Service : s \notin batch => stopped'[s] = stopped[s]
    BY <1>3 DEF TakeReadyRestarts
  <2>2. \A s \in Service : s \in batch => pc[s] = "none"
    BY DEF Quiesced, GateInv, TasksJoined
  <2>3. UNCHANGED <<exit, was_down, pid, poller, shutting_down>>
    BY <1>3 DEF TakeReadyRestarts
  <2> QED
    BY <2>1, <2>2, <2>3
<1>4. CASE LoopStep /\ ~TakeReadyRestarts
  BY <1>4
  DEF LoopStep, SpawnClaimed, EndRunIfIdle, Notified, ReapJoined, RecoverPanic, DropPanicked,
      ReapStrays, Exit
<1>5. CASE MarkSubtreeStopped
  <2>1. UNCHANGED <<exit, was_down, pid, poller, shutting_down>>
    BY <1>5 DEF MarkSubtreeStopped
  <2>2. \A s \in Service : stopped'[s] \in {stopped[s], "Kill", "Term"}
    BY <1>5 DEF MarkSubtreeStopped
  <2> QED
    BY <2>1, <2>2
<1>6. CASE \/ UiWork /\ ~MarkSubtreeStopped
           \/ UiQuit \/ \E q \in Service : UiStop(q) \/ UiRestart(q)
           \/ TimerStep \/ FirstSignal \/ SecondSignal \/ Rest \/ UNCHANGED vars
           \/ \E x \in orphans : LeftoverExits(x)
  <2>1. UNCHANGED <<exit, was_down, pid, poller, shutting_down, stopped>>
    BY <1>6
    DEF UiWork, NoteTarget, SignalSubtree, QueueRestart, EscalateGlobalStop, UiRequestExit, UiStop,
        UiRestart, TimerStep, ShutdownTimer, HardExit, SigkillTimer, StrayTimer, KillStray,
        FirstSignal, SecondSignal, ForceShutdown, LeftoverExits, Rest, vars, ReadStatus,
        WhenRunning, SignalGroups, UiQuit, LookForRunning
  <2> QED
    BY <2>1
<1> QED
  BY <1>1, <1>2, <1>3, <1>4, <1>5, <1>6 DEF StepElsewhere

\* The others signal only those they were asked to end.
LEMMA ElsewhereSignals ==
  ASSUME TypeInv, SignalInv, StepElsewhere
  PROVE  \A s \in Service :
           child'[s] = child[s] \/ (Lives(s) /\ child'[s] \in {"termed", "killed"} /\ AskedFor(s))
<1> SUFFICES ASSUME NEW s \in Service, child'[s] # child[s]
             PROVE  Lives(s) /\ child'[s] \in {"termed", "killed"} /\ AskedFor(s)
  OBVIOUS
<1>1. ASSUME NEW S, NEW sig \in {"SIGTERM", "SIGKILL"}, SignalGroups(S, sig)
      PROVE  Lives(s) /\ child'[s] \in {"termed", "killed"} /\ <<s, pid[s]>> \in S
  BY <1>1 DEF SignalGroups, Hit, Lives, TypeInv, TypeOK, ProcessesOK
<1>2. CASE \/ EscalateGlobalStop \/ SecondSignal \/ ShutdownTimer
           \/ \E t \in Thread : SetExitCode(t) \/ BeginShutdown(t) \/ CancelAndTerm(t)
  <2>1. shutting_down
    BY <1>2
    DEF EscalateGlobalStop, SecondSignal, ShutdownTimer, SetExitCode, BeginShutdown, CancelAndTerm,
        SignalInv, DownFirst, UiQuit, LookForRunning
  <2>2. Lives(s) /\ child'[s] \in {"termed", "killed"}
    BY <1>1, <1>2
    DEF EscalateGlobalStop, SecondSignal, ShutdownTimer, SetExitCode, BeginShutdown, CancelAndTerm,
        ForceShutdown, UiQuit, LookForRunning
  <2> QED
    BY <2>1, <2>2 DEF AskedFor
<1>3. CASE SignalSubtree \/ \E x \in sigkills : SigkillTimer(x)
  <2>1. Lives(s) /\ child'[s] \in {"termed", "killed"} /\ <<s, pid[s]>> \in sigkills \cup pids
    BY <1>1, <1>3 DEF SignalSubtree, SigkillTimer
  <2> QED
    BY <2>1 DEF SignalInv, TargetsAsked
<1>4. CASE RecoverPanic
  <2>1. Lives(s) /\ s = reaping /\ pc[Loop] = "recover"
    BY <1>1, <1>4 DEF RecoverPanic, LiveGroups
  <2> QED
    BY <2>1 DEF SignalInv, LiveHasTask, LoopInPlace, Launched
<1>5. CASE \E p \in Pollers : PollStep(p) \/ CheckPasses(p) \/ CheckFails(p)
  BY <1>5
  DEF PollStep, AwaitFirstLaunch, CheckPasses, WithholdOrRelease, CheckFails, ReportReady,
      ReadinessCancelled, DeadlineElapses, OnReadinessDeadline, FailReadinessStartup
<1>6. CASE \/ LoopStep /\ ~RecoverPanic
           \/ UiWork /\ ~SignalSubtree /\ ~EscalateGlobalStop
           \/ TimerStep /\ ~ShutdownTimer /\ ~\E x \in sigkills : SigkillTimer(x)
           \/ UiQuit \/ FirstSignal \/ Rest \/ UNCHANGED vars
           \/ \E q \in Service : UiStop(q) \/ UiRestart(q)
           \/ \E x \in orphans : LeftoverExits(x)
  BY <1>6
  DEF LoopStep, SpawnClaimed, TakeReadyRestarts, EndRunIfIdle, Notified, ReapJoined, DropPanicked,
      ReapStrays, Exit, UiWork, MarkSubtreeStopped, NoteTarget, QueueRestart, TimerStep, HardExit,
      StrayTimer, KillStray, UiRequestExit, FirstSignal, Rest, vars, UiStop, UiRestart,
      LeftoverExits, EscalateGlobalStop, ReadStatus, WhenRunning, ForceShutdown, SignalGroups,
      UiQuit, LookForRunning
<1> QED
  BY <1>2, <1>3, <1>4, <1>5, <1>6 DEF StepElsewhere

\* The run loop is moved by its own steps, a shutdown it calls and the hard exit only.
LEMMA LoopStands ==
  ASSUME TypeInv, StepElsewhere,
         ~(LoopStep \/ TimerStep \/ \E t \in Thread : SetExitCode(t) \/ BeginShutdown(t) \/ CancelAndTerm(t))
  PROVE  pc'[Loop] = pc[Loop]
<1>1. CASE \E p \in Pollers : PollStep(p) \/ CheckPasses(p) \/ CheckFails(p)
  BY <1>1, PcTyped
  DEF PollStep, AwaitFirstLaunch, CheckPasses, WithholdOrRelease, CheckFails, ReportReady,
      ReadinessCancelled, DeadlineElapses, OnReadinessDeadline, FailReadinessStartup, Goto
<1>2. CASE UiWork \/ UiQuit \/ \E q \in Service : UiStop(q) \/ UiRestart(q)
  BY <1>2, PcTyped
  DEF UiWork, MarkSubtreeStopped, NoteTarget, SignalSubtree, QueueRestart, EscalateGlobalStop,
      UiRequestExit, UiStop, UiRestart, ForceShutdown, Goto, ReadStatus, WhenRunning, SignalGroups,
      UiQuit, LookForRunning
<1>3. CASE \/ FirstSignal \/ SecondSignal \/ Rest \/ UNCHANGED vars
           \/ \E x \in orphans : LeftoverExits(x)
  BY <1>3, PcTyped DEF FirstSignal, SecondSignal, ForceShutdown, LeftoverExits, Rest, vars, Goto
<1> QED
  BY <1>1, <1>2, <1>3 DEF StepElsewhere

-----------------------------------------------------------------------------
(* No process outlives its task, but for a panic that ends the run.         *)

\* A process that exists has a task, or has lost it to a panic that ends the run: it is
\* never there when the service is launched again.
Exists(s) == child[s] \in {"alive", "termed", "killed"}
PanicEndsRun == shutting_down \/ pc[Loop] \in {"recover", "drop", "code", "shutdown", "exited"}
ProcessesTasked ==
  \A s \in Service : Exists(s) /\ pc[s] \notin Launched \cup {"panicked"} =>
    pc[s] = "none" /\ s \notin claimed /\ PanicEndsRun

LEMMA TaskedInit == Init => ProcessesTasked
  BY DEF Init, ProcessesTasked, Exists

LEMMA TaskedTask ==
  ASSUME TypeInv, ProcessesTasked, NEW s \in Service, TaskStep(s) \/ TaskPanics(s) \/ ChildExits(s)
  PROVE  ProcessesTasked'
<1>1. UNCHANGED <<shutting_down, claimed>> /\ pc'[Loop] = pc[Loop]
  BY TaskLocal
<1>2. Exists(s)' => pc'[s] \in Launched \cup {"panicked"} \/ (pc'[s] = pc[s] /\ Exists(s))
  BY PcTyped
  DEF TaskStep, AwaitDep, BeginAttempts, Abandon, Attempt, SpawnFailure, SpawnChild, RegisterGroup,
     OnRegistration, SignalLate, ReleaseDependents, ReapChild, DeregisterGroup, SweepGroup, SettleExpected,
     ReleaseCompleted, ClassifyExit, SettleTerminally, FinishTask, TaskPanics, ChildExits,
     RetryOrSettle, Goto, Launched, Exists, TypeInv, TypeOK, ProcessesOK, ProcessesTasked
<1> QED
  BY <1>1, <1>2, TaskLocal DEF ProcessesTasked, Exists, PanicEndsRun

LEMMA TaskedElsewhere ==
  ASSUME TypeInv, HandshakeInv, GateInv, SignalInv, CompletionInv, ProcessesTasked, StepElsewhere
  PROVE  ProcessesTasked'
<1>1. PanicEndsRun => PanicEndsRun'
  <2> SUFFICES ASSUME pc[Loop] \in {"recover", "drop", "code", "shutdown", "exited"}, ~shutting_down'
               PROVE  pc'[Loop] \in {"recover", "drop", "code", "shutdown", "exited"}
    BY ElsewhereKeeps DEF PanicEndsRun
  <2>1. CASE \E t \in Thread : SetExitCode(t) \/ BeginShutdown(t) \/ CancelAndTerm(t)
    BY <2>1, PcTyped DEF SetExitCode, BeginShutdown, CancelAndTerm, Goto
  <2>2. CASE LoopStep \/ TimerStep
    <3>1. CASE LoopStep
      BY <3>1, PcTyped
      DEF LoopStep, SpawnClaimed, TakeReadyRestarts, EndRunIfIdle, Notified, ReapJoined, RecoverPanic,
          DropPanicked, ReapStrays, Exit, Goto
    <3>2. CASE TimerStep
      <4>1. pc' = pc \/ pc' = [pc EXCEPT ![Loop] = "exited"]
        BY <3>2
        DEF TimerStep, ShutdownTimer, HardExit, SigkillTimer, StrayTimer, KillStray, Goto
      <4> QED
        BY <4>1, PcTyped
    <3> QED
      BY <2>2, <3>1, <3>2
  <2>3. CASE ~(\/ LoopStep \/ TimerStep
               \/ \E t \in Thread : SetExitCode(t) \/ BeginShutdown(t) \/ CancelAndTerm(t))
    <3>1. pc'[Loop] = pc[Loop]
      BY <2>3, LoopStands
    <3> QED
      BY <3>1
  <2> QED
    BY <2>1, <2>2, <2>3
<1>2. \A s \in claimed' \ claimed : pc[s] = "none" /\ pc[Loop] = "top" /\ ~shutting_down
  <2>1. CASE TakeReadyRestarts
    BY <2>1 DEF TakeReadyRestarts, Quiesced, GateInv, TasksJoined, TypeInv, TypeOK, RestartsOK
  <2>2. CASE ~TakeReadyRestarts
    BY <2>2
    DEF StepElsewhere, PollStep, AwaitFirstLaunch, CheckPasses, WithholdOrRelease, CheckFails,
        ReportReady, ReadinessCancelled, DeadlineElapses, OnReadinessDeadline, FailReadinessStartup,
        EscalateGlobalStop, UiRequestExit, UiWork, MarkSubtreeStopped, NoteTarget, SignalSubtree,
        QueueRestart, FirstSignal, SecondSignal, ForceShutdown, UiStop, UiRestart, LeftoverExits,
        Rest, vars, LoopStep, SpawnClaimed, EndRunIfIdle, Notified, ReapJoined, RecoverPanic,
        DropPanicked, ReapStrays, Exit, TimerStep, ShutdownTimer, HardExit, SigkillTimer,
        StrayTimer, KillStray, SetExitCode, BeginShutdown, CancelAndTerm, ReadStatus, WhenRunning,
        SignalGroups, UiQuit, LookForRunning
  <2> QED
    BY <2>1, <2>2
<1> SUFFICES ASSUME NEW s \in Service, Exists(s)', pc'[s] \notin Launched \cup {"panicked"}
             PROVE  pc'[s] = "none" /\ s \notin claimed' /\ PanicEndsRun'
  BY DEF ProcessesTasked
<1>3. Exists(s)
  BY ElsewhereSignals DEF Exists, Lives
<1>4. pc[s] \notin Launched
  BY ElsewherePlaces DEF Launched
<1>5. CASE pc[s] = "panicked"
  <2>1. pc'[s] = "none" /\ pc'[Loop] = "recover"
    BY <1>5, ElsewherePlaces
  <2>2. s \notin claimed'
    BY <1>2, <1>5 DEF CompletionInv, ClaimedIdle
  <2> QED
    BY <2>1, <2>2 DEF PanicEndsRun
<1>6. CASE pc[s] = "none"
  BY <1>1, <1>2, <1>3, <1>6, ElsewherePlaces DEF ProcessesTasked, PanicEndsRun, Launched
<1> QED
  BY <1>3, <1>4, <1>5, <1>6 DEF ProcessesTasked

LEMMA TaskedStep ==
  TypeInv /\ HandshakeInv /\ GateInv /\ SignalInv /\ CompletionInv /\ ProcessesTasked /\ [Next]_vars => ProcessesTasked'
  BY StepsSplit, TaskedTask, TaskedElsewhere

-----------------------------------------------------------------------------
(* The exit code: what the supervisor ends is no failure.                  *)

\* The ends that SIGTERM and SIGKILL leave, and the codes that look like them ...
Raised(e) == (e.kind = "signal" /\ e.n \in {9, 15}) \/ (e.kind = "code" /\ e.n \in {137, 143})
\* ... which no service here does by itself.
NoneRaises == \A s \in Service : \A e \in SelfExits[s] : ~Raised(e)

\* Such an end was asked for while the process was up, which the task remembers from
\* deregistration on, so that it is never settled as the service's own.
EndsAnswered ==
  \A s \in Service :
    /\ pc[s] \in Launched => child[s] # "none"
    /\ pc[s] \in Launched /\ child[s] \in {"termed", "killed"} => AskedFor(s)
    /\ pc[s] \in Launched /\ child[s] = "dead" /\ Raised(exit[s]) => AskedFor(s)
    /\ pc[s] = "deregister" /\ Raised(exit[s]) => AskedFor(s)
    /\ pc[s] \in {"sweep", "settle", "classify"} /\ Raised(exit[s]) => EndWasAsked(s)
    /\ pc[s] \in {"terminal", "code"} => ~Raised(exit[s])

\* Every end by such a signal has been asked for, and is classified so.
TaintInv == NoneRaises => EndsAnswered /\ KillsDoNotTaint

LEMMA TaintInit == Init => TaintInv
  BY ThreadAssumption DEF Init, TaintInv, EndsAnswered, KillsDoNotTaint, Launched, Thread

\* The exit status of a process that is gone stays.
LEMMA TaintTask ==
  ASSUME TypeInv, ProcessesTasked, NoneRaises, EndsAnswered, KillsDoNotTaint, SignalInv,
         NEW s \in Service, TaskStep(s) \/ TaskPanics(s) \/ ChildExits(s)
  PROVE  EndsAnswered' /\ KillsDoNotTaint'
<1>1. KillsDoNotTaint'
  BY TaskLocal DEF KillsDoNotTaint
<1>2. UNCHANGED <<stopped, shutting_down>>
  BY TaskLocal
<1> DEFINE Answered(q) ==
      /\ pc[q] \in Launched => child[q] # "none"
      /\ pc[q] \in Launched /\ child[q] \in {"termed", "killed"} => AskedFor(q)
      /\ pc[q] \in Launched /\ child[q] = "dead" /\ Raised(exit[q]) => AskedFor(q)
      /\ pc[q] = "deregister" /\ Raised(exit[q]) => AskedFor(q)
      /\ pc[q] \in {"sweep", "settle", "classify"} /\ Raised(exit[q]) => EndWasAsked(q)
      /\ pc[q] \in {"terminal", "code"} => ~Raised(exit[q])
<1>3. \A q \in Service : Answered(q)
  BY DEF EndsAnswered
<1>4. \A q \in Service : q # s => Answered(q)'
  BY <1>2, <1>3, TaskLocal DEF AskedFor, EndWasAsked
<1>5. Answered(s)'
  <2>1. CASE \/ AwaitDep(s) \/ BeginAttempts(s) \/ Abandon(s) \/ Attempt(s) \/ SpawnChild(s)
             \/ RegisterGroup(s) \/ ReleaseDependents(s) \/ FinishTask(s) \/ TaskPanics(s)
             \/ SweepGroup(s) \/ SettleExpected(s) \/ ReleaseCompleted(s) \/ SettleTerminally(s)
    <3>1. exit'[s] = exit[s] /\ was_down'[s] = was_down[s] 
      BY <2>1
      DEF AwaitDep, BeginAttempts, Abandon, Attempt, SpawnChild, RegisterGroup, ReleaseDependents,
          FinishTask, TaskPanics, SweepGroup, SettleExpected, ReleaseCompleted, SettleTerminally
    <3>2. \/ pc[s] \in Launched /\ pc'[s] \in Launched /\ child'[s] = child[s]
          \/ pc[s] = "spawn" /\ pc'[s] = "register" /\ child'[s] = "alive"
          \/ pc[s] \in {"sweep", "settle"} /\ pc'[s] \in {"settle", "classify"}
          \/ pc[s] = "terminal" /\ pc'[s] = "code"
          \/ pc'[s] \notin Launched \cup {"deregister", "sweep", "settle", "classify", "terminal", "code"}
      BY <2>1, PcTyped
      DEF AwaitDep, BeginAttempts, Abandon, Attempt, SpawnChild, RegisterGroup, ReleaseDependents,
          FinishTask, TaskPanics, SweepGroup, SettleExpected, ReleaseCompleted, SettleTerminally,
          OnRegistration, Goto, Launched, TypeInv, TypeOK, ProcessesOK
    <3> QED
      BY <1>2, <1>3, <3>1, <3>2 DEF AskedFor, EndWasAsked, Launched
  <2>2. CASE SpawnFailure(s)
    <3>1. pc'[s] \in {"attempt", "terminal"} /\ exit'[s] = [kind |-> "code", n |-> 1]
      BY <2>2, PcTyped DEF SpawnFailure, RetryOrSettle, Goto, TypeInv, TypeOK, TasksOK
    <3> QED
      BY <3>1 DEF Raised, Launched
  <2>3. CASE SignalLate(s)
    <3>1. pc[s] \in Launched /\ pc'[s] = "release" /\ exit'[s] = exit[s] /\ SendsLate(s)
      BY <2>3, PcTyped DEF SignalLate, Goto, Launched, SendsLate
    <3>2. child'[s] = child[s] \/ child'[s] \in {"termed", "killed"}
      BY <2>3 DEF SignalLate, SignalGroups, Hit, TypeInv, TypeOK, ProcessesOK
    <3> QED
      BY <1>2, <1>3, <3>1, <3>2 DEF SignalInv, LateAsked, AskedFor, Launched
  <2>4. CASE ReapChild(s)
    <3>1. pc[s] = "wait" /\ child[s] = "dead" /\ pc'[s] = "deregister" /\ exit'[s] = exit[s]
      BY <2>4, PcTyped DEF ReapChild, Goto
    <3> QED
      BY <1>2, <1>3, <3>1 DEF AskedFor, Launched
  <2>5. CASE DeregisterGroup(s)
    <3>1. /\ pc[s] = "deregister" /\ pc'[s] \in {"sweep", "settle"} /\ exit'[s] = exit[s]
          /\ was_down'[s] = AskedFor(s)
      BY <2>5, PcTyped DEF DeregisterGroup, Goto, AskedFor, TypeInv, TypeOK, TasksOK
    <3> QED
      BY <1>2, <1>3, <3>1 DEF EndWasAsked, Launched
  <2>6. CASE ClassifyExit(s)
    <3>1. exit'[s] = exit[s] /\ pc[s] = "classify"
      BY <2>6 DEF ClassifyExit
    <3>2. pc'[s] = "fin" \/ (pc'[s] \in {"attempt", "terminal"} /\ ~EndWasAsked(s))
      BY <2>6, PcTyped DEF ClassifyExit, RetryOrSettle, Goto
    <3> QED
      BY <1>3, <3>1, <3>2 DEF Launched
  <2>7. CASE ChildExits(s)
    <3>1. pc' = pc /\ child'[s] = "dead" /\ Exists(s)
      BY <2>7 DEF ChildExits, Exists, TypeInv, TypeOK, ProcessesOK
    <3>2. pc[s] \in Launched \cup {"panicked", "none"}
      BY <3>1 DEF ProcessesTasked
    <3>3. child[s] = "alive" => exit'[s] \in SelfExits[s]
      BY <2>7 DEF ChildExits, TypeInv, TypeOK, TasksOK
    <3> QED
      BY <1>2, <1>3, <3>1, <3>2, <3>3 DEF NoneRaises, AskedFor, Exists, Launched
  <2> QED
    BY <2>1, <2>2, <2>3, <2>4, <2>5, <2>6, <2>7 DEF TaskStep
<1> QED
  BY <1>1, <1>4, <1>5 DEF EndsAnswered

LEMMA TaintElsewhere ==
  ASSUME TypeInv, HandshakeInv, GateInv, SignalInv, EndsAnswered, KillsDoNotTaint, StepElsewhere
  PROVE  EndsAnswered' /\ KillsDoNotTaint'
<1>1. EndsAnswered'
  <2> SUFFICES ASSUME NEW q \in Service
      PROVE  /\ pc'[q] \in Launched => child'[q] # "none"
             /\ pc'[q] \in Launched /\ child'[q] \in {"termed", "killed"} => AskedFor(q)'
             /\ pc'[q] \in Launched /\ child'[q] = "dead" /\ Raised(exit'[q]) => AskedFor(q)'
             /\ pc'[q] = "deregister" /\ Raised(exit'[q]) => AskedFor(q)'
             /\ pc'[q] \in {"sweep", "settle", "classify"} /\ Raised(exit'[q]) => EndWasAsked(q)'
             /\ pc'[q] \in {"terminal", "code"} => ~Raised(exit'[q])
    BY DEF EndsAnswered
  <2>1. exit' = exit /\ was_down' = was_down
    BY ElsewhereKeeps
  <2>2. pc[q] # "none" /\ AskedFor(q) => AskedFor(q)'
    BY ElsewhereKeeps DEF AskedFor
  <2>3. pc[q] # "none" /\ EndWasAsked(q) => EndWasAsked(q)'
    BY ElsewhereKeeps, <2>1 DEF EndWasAsked
  <2>4. pc'[q] = pc[q] \/ pc'[q] \in {"none", "deps", "shutdown", "cancel", "fin"}
    BY ElsewherePlaces
  <2>5. child'[q] = child[q] \/ (Lives(q) /\ child'[q] \in {"termed", "killed"} /\ AskedFor(q))
    BY ElsewhereSignals
  <2> QED
    BY <2>1, <2>2, <2>3, <2>4, <2>5 DEF EndsAnswered, Launched
<1>2. exit_code' # exit_code => exit_code' \notin {137, 143}
  <2>1. ASSUME NEW t \in Thread, SetExitCode(t) PROVE exit_code' = exit_code \/ exit_code' \notin {137, 143}
    <3>1. FailCode(t) \notin {137, 143}
      <4>1. CASE t \in Service
        <5>1. ~Raised(exit[t]) /\ exit[t] \in ExitStatus
          BY <2>1, <4>1 DEF SetExitCode, EndsAnswered, TypeInv, TypeOK, TasksOK
        <5> QED
          BY <4>1, <5>1 DEF FailCode, ResultCode, Raised, ExitStatus
      <4>2. CASE t \notin Service
        BY <4>2 DEF FailCode
      <4> QED
        BY <4>1, <4>2
    <3> QED
      BY <2>1, <3>1 DEF SetExitCode, RecordedCode
  <2>2. CASE HardExit
    BY <2>2 DEF HardExit
  <2>3. CASE ~HardExit /\ ~\E t \in Thread : SetExitCode(t)
    BY <2>3
    DEF StepElsewhere, PollStep, AwaitFirstLaunch, CheckPasses, WithholdOrRelease, CheckFails,
        ReportReady, ReadinessCancelled, DeadlineElapses, OnReadinessDeadline, FailReadinessStartup,
        EscalateGlobalStop, UiRequestExit, UiWork, MarkSubtreeStopped, NoteTarget, SignalSubtree,
        QueueRestart, FirstSignal, SecondSignal, ForceShutdown, UiStop, UiRestart, LeftoverExits,
        Rest, vars, LoopStep, SpawnClaimed, TakeReadyRestarts, EndRunIfIdle, Notified, ReapJoined,
        RecoverPanic, DropPanicked, ReapStrays, Exit, TimerStep, ShutdownTimer, SigkillTimer,
        StrayTimer, KillStray, BeginShutdown, CancelAndTerm, ReadStatus, WhenRunning, SignalGroups,
        UiQuit, LookForRunning
  <2> QED
    BY <2>1, <2>2, <2>3
<1> QED
  BY <1>1, <1>2 DEF KillsDoNotTaint

LEMMA TaintStep ==
  TypeInv /\ HandshakeInv /\ GateInv /\ SignalInv /\ ProcessesTasked /\ TaintInv /\ [Next]_vars => TaintInv'
<1> SUFFICES ASSUME TypeInv, HandshakeInv, GateInv, SignalInv, ProcessesTasked, TaintInv, [Next]_vars, NoneRaises
             PROVE  EndsAnswered' /\ KillsDoNotTaint'
  BY DEF TaintInv
<1> QED
  BY StepsSplit, TaintTask, TaintElsewhere DEF TaintInv

-----------------------------------------------------------------------------
(* The exit code: what fails is recorded.                                   *)

\* Who is about to record the code of a failed service: its task, the run loop that
\* recovers a panic, a poller.
AboutToRecord(s) ==
  \/ pc[s] = "code" /\ ResultCode(s) # 0
  \/ pc[s] = "panicked" \/ pc[Loop] \in {"recover", "drop", "code"}
  \/ \E p \in Pollers : pc[p] = "code" /\ owner[p] = s
FailureRecorded ==
  /\ \A s \in Service : status[s] = "Failed" => exit_code # 0 \/ AboutToRecord(s)
  /\ pc[Loop] = "exited" => ended \/ exit_code # 0

LEMMA RecordedInit == Init => FailureRecorded
  BY ThreadAssumption DEF Init, FailureRecorded, Thread

LEMMA RecordedTask ==
  ASSUME TypeInv, ProcessesTasked, FailureRecorded,
         NEW s \in Service, TaskStep(s) \/ TaskPanics(s) \/ ChildExits(s)
  PROVE  FailureRecorded'
<1>1. /\ UNCHANGED <<exit_code, ended>> /\ pc'[Loop] = pc[Loop]
      /\ \A q \in Service : q # s => status'[q] = status[q] /\ pc'[q] = pc[q] /\ exit'[q] = exit[q]
  BY TaskLocal
<1>2. \A p \in Pollers : pc[p] = "code" => pc'[p] = "code" /\ owner'[p] = owner[p]
  <2>1. CASE BeginAttempts(s)
    BY <2>1, PcTyped DEF BeginAttempts, Goto, TypeInv, TypeOK, PollersOK
  <2>2. CASE FinishTask(s)
    BY <2>2, PcTyped DEF FinishTask
  <2>3. CASE ~(BeginAttempts(s) \/ FinishTask(s))
    BY <2>3, PcTyped
    DEF TaskStep, AwaitDep, Abandon, Attempt, SpawnFailure, SpawnChild, RegisterGroup,
        SignalLate, ReleaseDependents, ReapChild, DeregisterGroup, SweepGroup, SettleExpected,
        ReleaseCompleted, ClassifyExit, SettleTerminally, TaskPanics, ChildExits, RetryOrSettle, Goto
  <2> QED
    BY <2>1, <2>2, <2>3
<1>3. /\ pc[s] = "code" => UNCHANGED <<pc, exit, status>> \/ ChildExits(s) \/ pc'[s] = "panicked"
      /\ pc[s] = "panicked" => pc'[s] = "panicked"
  BY PcTyped
  DEF TaskStep, AwaitDep, BeginAttempts, Abandon, Attempt, SpawnFailure, SpawnChild, RegisterGroup,
      SignalLate, ReleaseDependents, ReapChild, DeregisterGroup, SweepGroup, SettleExpected,
      ReleaseCompleted, ClassifyExit, SettleTerminally, FinishTask, TaskPanics, ChildExits, Goto
<1>4. pc[s] = "code" => ~ChildExits(s)
  BY DEF ChildExits, ProcessesTasked, Exists, Launched
<1>5. status'[s] = "Failed" => status[s] = "Failed" \/ (pc'[s] = "code" /\ ResultCode(s)' # 0)
  <2>1. CASE SettleTerminally(s)
    <3>1. pc'[s] = "code" /\ exit' = exit
      BY <2>1, PcTyped DEF SettleTerminally, Goto
    <3>2. status'[s] # status[s] => status'[s] = IF ResultCode(s) = 0 THEN "Completed" ELSE "Failed"
      BY <2>1 DEF SettleTerminally, FinishIfActive, TypeInv, TypeOK, ServicesOK
    <3> QED
      BY <3>1, <3>2 DEF ResultCode
  <2>2. CASE ~SettleTerminally(s)
    BY <2>2
    DEF TaskStep, AwaitDep, BeginAttempts, Abandon, Attempt, SpawnFailure, SpawnChild, RegisterGroup,
        SignalLate, ReleaseDependents, ReapChild, DeregisterGroup, SweepGroup, SettleExpected,
        ReleaseCompleted, ClassifyExit, FinishTask, TaskPanics, ChildExits, FinishIfActive,
        TypeInv, TypeOK, ServicesOK
  <2> QED
    BY <2>1, <2>2
<1> SUFFICES ASSUME NEW q \in Service, status'[q] = "Failed", exit_code = 0
             PROVE  AboutToRecord(q)'
  BY <1>1 DEF FailureRecorded
<1>6. CASE q # s
  <2>1. AboutToRecord(q)
    BY <1>1, <1>6 DEF FailureRecorded
  <2> QED
    BY <1>1, <1>2, <1>6, <2>1 DEF AboutToRecord, ResultCode
<1>7. CASE q = s
  <2>1. CASE status[s] = "Failed"
    <3>1. AboutToRecord(s)
      BY <1>1, <2>1 DEF FailureRecorded
    <3> QED
      BY <1>1, <1>2, <1>3, <1>4, <1>7, <3>1 DEF AboutToRecord, ResultCode
  <2>2. CASE status[s] # "Failed"
    BY <1>5, <1>7, <2>2 DEF AboutToRecord
  <2> QED
    BY <2>1, <2>2
<1> QED
  BY <1>6, <1>7

LEMMA RecordedElsewhere ==
  ASSUME TypeInv, HandshakeInv, GateInv, SignalInv, FailureRecorded, pc[Loop] # "exited", StepElsewhere, ~UNCHANGED vars
  PROVE  FailureRecorded'
<1>1. exit' = exit
  BY ElsewhereKeeps
<1>2. \A s \in Service : ResultCode(s)' = ResultCode(s)
  BY <1>1 DEF ResultCode
<1>3. ASSUME NEW t \in Thread, SetExitCode(t) PROVE FailureRecorded'
  <2>1. UNCHANGED <<status, owner, ended>> /\ pc[t] = "code" /\ pc'[Loop] # "exited"
    BY <1>3, PcTyped DEF SetExitCode, Goto
  <2>2. \A u \in Thread : u # t => pc'[u] = pc[u]
    BY <1>3, PcTyped DEF SetExitCode, Goto
  <2>3. exit_code' = IF exit_code = 0 THEN FailCode(t) ELSE exit_code
    BY <1>3 DEF SetExitCode, RecordedCode
  <2> SUFFICES ASSUME NEW s \in Service, status[s] = "Failed", exit_code' = 0
               PROVE  AboutToRecord(s)'
    BY <2>1 DEF FailureRecorded
  <2>4. exit_code = 0 /\ FailCode(t) = 0
    BY <2>3
  <2>5. t \in Service /\ ResultCode(t) = 0
    BY <2>4 DEF FailCode
  <2>6. AboutToRecord(s)
    BY <2>4 DEF FailureRecorded
  <2>7. \A p \in Pollers : pc'[p] = pc[p]
    BY <2>2, <2>5, PcTyped
  <2> QED
    BY <1>2, <2>1, <2>2, <2>5, <2>6, <2>7, PcTyped DEF AboutToRecord
<1>4. CASE HardExit
  <2>1. exit_code' = 1
    BY <1>4 DEF HardExit
  <2> QED
    BY <2>1 DEF FailureRecorded
<1>5. ASSUME NEW p \in Pollers, PollStep(p) \/ CheckPasses(p) \/ CheckFails(p) PROVE FailureRecorded'
  <2>1. UNCHANGED <<owner, ended, exit_code>> /\ pc[p] # "code"
    BY <1>5
    DEF PollStep, AwaitFirstLaunch, CheckPasses, WithholdOrRelease, CheckFails, ReportReady,
        ReadinessCancelled, DeadlineElapses, OnReadinessDeadline, FailReadinessStartup
  <2>2. \A t \in Thread : t # p => pc'[t] = pc[t]
    BY <1>5, PcTyped
    DEF PollStep, AwaitFirstLaunch, CheckPasses, WithholdOrRelease, CheckFails, ReportReady,
        ReadinessCancelled, DeadlineElapses, OnReadinessDeadline, FailReadinessStartup, Goto
  <2>3. \A s \in Service : status'[s] = "Failed" =>
          status[s] = "Failed" \/ (pc'[p] = "code" /\ owner[p] = s)
    <3>1. CASE FailReadinessStartup(p)
      BY <3>1, PcTyped DEF FailReadinessStartup, FinishIfActive, Goto, TypeInv, TypeOK, ServicesOK
    <3>2. CASE ~FailReadinessStartup(p)
      BY <1>5, <3>2
      DEF PollStep, AwaitFirstLaunch, CheckPasses, WithholdOrRelease, CheckFails, ReportReady,
          ReadinessCancelled, DeadlineElapses, OnReadinessDeadline
    <3> QED
      BY <3>1, <3>2
  <2> QED
    BY <1>2, <2>1, <2>2, <2>3, PcTyped DEF FailureRecorded, AboutToRecord
<1>6. CASE RecoverPanic
  <2>1. /\ UNCHANGED <<owner, ended, exit_code>> /\ pc'[Loop] = "drop"
    BY <1>6, PcTyped DEF RecoverPanic, Goto
  <2> QED
    BY <2>1 DEF FailureRecorded, AboutToRecord
<1>7. CASE DropPanicked
  <2>1. UNCHANGED <<owner, ended, exit_code>> /\ pc'[Loop] = "code"
    BY <1>7, PcTyped DEF DropPanicked, Goto
  <2> QED
    BY <2>1 DEF FailureRecorded, AboutToRecord
<1>8. CASE \/ \E t \in Thread : BeginShutdown(t) \/ CancelAndTerm(t)
           \/ LoopStep /\ ~RecoverPanic /\ ~DropPanicked
           \/ UiQuit \/ UiWork \/ FirstSignal \/ SecondSignal
           \/ TimerStep /\ ~HardExit
           \/ \E s \in Service : UiStop(s) \/ UiRestart(s)
           \/ \E x \in orphans : LeftoverExits(x)
  <2>1. UNCHANGED <<owner, exit_code>>
    BY <1>8
    DEF BeginShutdown, CancelAndTerm, LoopStep, SpawnClaimed, TakeReadyRestarts, EndRunIfIdle,
        Notified, ReapJoined, ReapStrays, Exit, EscalateGlobalStop, UiRequestExit, UiWork,
        MarkSubtreeStopped, NoteTarget, SignalSubtree, QueueRestart, FirstSignal, SecondSignal,
        TimerStep, ShutdownTimer, SigkillTimer, StrayTimer, KillStray, UiStop, UiRestart,
        LeftoverExits, ForceShutdown, ReadStatus, WhenRunning, SignalGroups, UiQuit, LookForRunning
  <2>2. \A s \in Service : status'[s] = "Failed" => status[s] = "Failed"
    <3>1. CASE TakeReadyRestarts
      BY <3>1 DEF TakeReadyRestarts
    <3>2. CASE ~TakeReadyRestarts
      BY <1>8, <3>2
      DEF BeginShutdown, CancelAndTerm, LoopStep, SpawnClaimed, EndRunIfIdle, Notified, ReapJoined,
          ReapStrays, Exit, EscalateGlobalStop, UiRequestExit, UiWork, MarkSubtreeStopped,
          NoteTarget, SignalSubtree, QueueRestart, FirstSignal, SecondSignal, TimerStep,
          ShutdownTimer, SigkillTimer, StrayTimer, KillStray, UiStop, UiRestart, LeftoverExits,
          ForceShutdown, FinishIfActive, TypeInv, TypeOK, ServicesOK, ReadStatus, WhenRunning,
          SignalGroups, UiQuit, LookForRunning
    <3> QED
      BY <3>1, <3>2
  <2>3. ended => ended'
    <3>1. CASE EndRunIfIdle
      BY <3>1 DEF EndRunIfIdle, HandshakeInv, EndedIsIdle
    <3>2. CASE ~EndRunIfIdle
      BY <1>8, <3>2
      DEF BeginShutdown, CancelAndTerm, LoopStep, SpawnClaimed, TakeReadyRestarts, Notified,
          ReapJoined, ReapStrays, Exit, EscalateGlobalStop, UiRequestExit, UiWork,
          MarkSubtreeStopped, NoteTarget, SignalSubtree, QueueRestart, FirstSignal, SecondSignal,
          TimerStep, ShutdownTimer, SigkillTimer, StrayTimer, KillStray, UiStop, UiRestart,
          LeftoverExits, ForceShutdown, ReadStatus, WhenRunning, SignalGroups, UiQuit,
          LookForRunning
    <3> QED
      BY <3>1, <3>2
  <2>4. \A t \in Service \cup Pollers : pc[t] = "code" => pc'[t] = pc[t]
    <3>1. ASSUME NEW t \in Thread, BeginShutdown(t) \/ CancelAndTerm(t)
          PROVE  \A u \in Service \cup Pollers : pc[u] = "code" => pc'[u] = pc[u]
      BY <3>1, PcTyped DEF BeginShutdown, CancelAndTerm, Goto
    <3>2. CASE LoopStep /\ ~RecoverPanic /\ ~DropPanicked
      <4>1. CASE SpawnClaimed
        BY <4>1, PcTyped
        DEF SpawnClaimed, HandshakeInv, BatchesSound, GateInv, TasksJoined, TypeInv, TypeOK, LoopOK
      <4>2. CASE \E q \in Service : ReapJoined(q)
        BY <4>2, PcTyped DEF ReapJoined
      <4>3. CASE TakeReadyRestarts \/ EndRunIfIdle \/ Notified \/ ReapStrays \/ Exit
        BY <4>3, PcTyped DEF TakeReadyRestarts, EndRunIfIdle, Notified, ReapStrays, Exit, Goto
      <4> QED
        BY <3>2, <4>1, <4>2, <4>3 DEF LoopStep
    <3>3. CASE \/ UiQuit \/ UiWork \/ FirstSignal \/ SecondSignal
               \/ TimerStep /\ ~HardExit
               \/ \E s \in Service : UiStop(s) \/ UiRestart(s)
               \/ \E x \in orphans : LeftoverExits(x)
      BY <3>3, PcTyped
      DEF EscalateGlobalStop, UiRequestExit, UiWork, MarkSubtreeStopped, NoteTarget, SignalSubtree,
          QueueRestart, FirstSignal, SecondSignal, TimerStep, ShutdownTimer, SigkillTimer,
          StrayTimer, KillStray, UiStop, UiRestart, LeftoverExits, ForceShutdown, Goto, ReadStatus,
          WhenRunning, SignalGroups, UiQuit, LookForRunning
    <3> QED
      BY <1>8, <3>1, <3>2, <3>3
  <2>5. /\ pc[Loop] \in {"recover", "drop", "code"} => pc'[Loop] = pc[Loop]
        /\ pc'[Loop] = "exited" => pc[Loop] = "returned"
    <3>1. ASSUME NEW t \in Thread, BeginShutdown(t) \/ CancelAndTerm(t)
          PROVE  /\ pc[Loop] \in {"recover", "drop", "code"} => pc'[Loop] = pc[Loop]
                 /\ pc'[Loop] # "exited"
      <4>1. t = Loop => AfterShutdown(t) = "top"
        BY PcTyped DEF AfterShutdown
      <4> QED
        BY <3>1, <4>1, PcTyped DEF BeginShutdown, CancelAndTerm, Goto
    <3>2. CASE LoopStep /\ ~RecoverPanic /\ ~DropPanicked
      <4>1. CASE SpawnClaimed
        BY <4>1, PcTyped DEF SpawnClaimed, AwaitNext, TypeInv, TypeOK, LoopOK
      <4>2. CASE \E q \in Service : ReapJoined(q)
        BY <4>2, PcTyped DEF ReapJoined
      <4>3. CASE TakeReadyRestarts \/ EndRunIfIdle \/ Notified \/ ReapStrays \/ Exit
        BY <4>3, PcTyped
        DEF TakeReadyRestarts, EndRunIfIdle, Notified, ReapStrays, Exit, AwaitNext, Goto
      <4> QED
        BY <3>2, <4>1, <4>2, <4>3 DEF LoopStep
    <3>3. CASE \/ UiQuit \/ UiWork \/ FirstSignal \/ SecondSignal
               \/ TimerStep /\ ~HardExit
               \/ \E s \in Service : UiStop(s) \/ UiRestart(s)
               \/ \E x \in orphans : LeftoverExits(x)
      BY <3>3, PcTyped
      DEF EscalateGlobalStop, UiRequestExit, UiWork, MarkSubtreeStopped, NoteTarget, SignalSubtree,
          QueueRestart, FirstSignal, SecondSignal, TimerStep, ShutdownTimer, SigkillTimer,
          StrayTimer, KillStray, UiStop, UiRestart, LeftoverExits, ForceShutdown, Goto, ReadStatus,
          WhenRunning, SignalGroups, UiQuit, LookForRunning
    <3> QED
      BY <1>8, <3>1, <3>2, <3>3
  <2>6. pc[Loop] = "returned" => ended
    BY DEF SignalInv, LoopInPlace
  <2>7. \A s \in Service : pc[s] = "panicked" => pc'[s] = "panicked" \/ pc'[Loop] = "recover"
    BY ElsewherePlaces
  <2> QED
    BY <1>2, <2>1, <2>2, <2>3, <2>4, <2>5, <2>6, <2>7 DEF FailureRecorded, AboutToRecord
<1>9. CASE Rest
  BY <1>9 DEF Rest
<1> QED
  BY <1>3, <1>4, <1>5, <1>6, <1>7, <1>8, <1>9 DEF StepElsewhere

LEMMA RecordedStep ==
  TypeInv /\ HandshakeInv /\ GateInv /\ SignalInv /\ ProcessesTasked /\ FailureRecorded /\ [Next]_vars => FailureRecorded'
<1> SUFFICES ASSUME TypeInv, HandshakeInv, GateInv, SignalInv, ProcessesTasked, FailureRecorded, [Next]_vars
             PROVE  FailureRecorded'
  OBVIOUS
<1>1. CASE UNCHANGED vars
  BY <1>1 DEF vars, FailureRecorded, AboutToRecord, ResultCode
<1>2. CASE ~UNCHANGED vars
  <2>1. pc[Loop] # "exited"
    BY <1>2 DEF Next, Rest
  <2> QED
    BY <1>2, <2>1, StepsSplit, RecordedTask, RecordedElsewhere
<1> QED
  BY <1>1, <1>2

\* The status of a completion comes before its gate, and pollers watch services with
\* readiness only.
THEOREM CompletionInvariant == Spec => []CompletionInv
  BY TypeInvariant, HandshakeInvariant, GateInvariant, CompletionInit, CompletionStep, PTL DEF Spec

\* A process that exists has a task, or has lost it to a panic that ends the run.
THEOREM TaskedInvariant == Spec => []ProcessesTasked
  BY TypeInvariant, HandshakeInvariant, GateInvariant, SignalInvariant, CompletionInvariant,
     TaskedInit, TaskedStep, PTL DEF Spec

\* exit.rs:classify_exit, lifecycle.rs: when no service ends by itself as SIGTERM or SIGKILL
\* would end it, the run's exit code is never theirs: what the supervisor kills is no failure.
THEOREM KillsNeverTaint == Spec => [](NoneRaises => KillsDoNotTaint)
<1>1. Spec => []TaintInv
  BY TypeInvariant, HandshakeInvariant, GateInvariant, SignalInvariant, TaskedInvariant,
     TaintInit, TaintStep, PTL DEF Spec
<1>2. TaintInv => (NoneRaises => KillsDoNotTaint)
  BY DEF TaintInv
<1> QED
  BY <1>1, <1>2, PTL

\* A failed service has its code recorded, or somebody about to record it.
THEOREM RecordedInvariant == Spec => []FailureRecorded
  BY TypeInvariant, HandshakeInvariant, GateInvariant, SignalInvariant, TaskedInvariant,
     RecordedInit, RecordedStep, PTL DEF Spec

\* A run that ends with a failed service has its code, or a poller still to record it.
FailureRecordedOrPolled ==
  pc[Loop] \in {"returned", "exited"} /\ (\E s \in Service : status[s] = "Failed") =>
    exit_code # 0 \/ \E p \in Pollers : pc[p] = "code" /\ status[owner[p]] = "Failed"

LEMMA RecordedAtEnd ==
  TypeInv /\ HandshakeInv /\ GateInv /\ SignalInv /\ FailureRecorded => FailureRecordedOrPolled
<1> SUFFICES ASSUME TypeInv, HandshakeInv, GateInv, SignalInv, FailureRecorded,
                    pc[Loop] \in {"returned", "exited"}, exit_code = 0,
                    NEW s \in Service, status[s] = "Failed"
             PROVE  \E p \in Pollers : pc[p] = "code" /\ status[owner[p]] = "Failed"
  BY DEF FailureRecordedOrPolled
<1>1. ended
  BY DEF SignalInv, LoopInPlace, FailureRecorded
<1>2. pc[s] = "none"
  BY <1>1 DEF HandshakeInv, EndedIsIdle, GateInv, TasksJoined
<1>3. AboutToRecord(s)
  BY DEF FailureRecorded
<1> QED
  BY <1>2, <1>3 DEF AboutToRecord

\* mod.rs:fail_run, recover_panic: a run never ends with a failed service and the
\* code 0, except while a poller is between the status and the code of its failure.
THEOREM FailuresRecorded == Spec => []FailureRecordedOrPolled
  BY TypeInvariant, HandshakeInvariant, GateInvariant, SignalInvariant, RecordedInvariant,
     RecordedAtEnd, PTL

\* No service has a poller.
NoReadiness == \A s \in Service : ReadyWhen[s] \in {"Launched", "ExpectedExit"}

\* ... and where no service has readiness there is no such poller.
THEOREM FailuresReported == Spec => [](NoReadiness => FailureReported)
<1>1. CompletionInv /\ FailureRecordedOrPolled => (NoReadiness => FailureReported)
  BY DEF CompletionInv, PollersWatch, Watched, NoReadiness, FailureRecordedOrPolled, FailureReported
<1> QED
  BY <1>1, CompletionInvariant, FailuresRecorded, PTL

-----------------------------------------------------------------------------
(* Stops, when nobody asks for a restart.                                   *)

\* The calls are stops only.
NoRestarts == restart_batches = {} /\ op # "restart" /\ pc[Ui] # "queue"

\* A mark is for a whole subtree, and is followed by a note of each service it covers.
Marked == {s \in Service : stopped[s] # "no"}
MarkedByNow(s) == pc[Ui] = "note" /\ s \in todo
MarksNoted ==
  /\ Closed(Marked)
  /\ pc[Ui] = "mark" \/ (pc[Ui] = "statuses" /\ op = "stop") => root \in Service
  /\ pc[Ui] = "note" => todo \subseteq Marked
  /\ \A s \in Marked : (gate[s] # "Pending" /\ ~IsActive(status[s])) \/ MarkedByNow(s)

\* A task that ends with its gate pending ends for a stop or a shutdown.
EndsResolved ==
  \A s \in Service :
    /\ pc[s] \in {"sweep", "settle", "classify"} /\ was_down[s] => AskedFor(s)
    /\ pc[s] \in {"fin", "done"} => gate[s] # "Pending" \/ shutting_down \/ MarkedByNow(s)

StopInv == "restart" \notin Ops => NoRestarts /\ MarksNoted /\ EndsResolved

LEMMA StopInit == Init => StopInv
  BY ThreadAssumption
  DEF Init, StopInv, NoRestarts, MarksNoted, EndsResolved, Marked, Closed, Thread

\* Without a restart nothing is claimed again: no mark is taken back, no gate closed, and
\* no status made active, but by a task that registers.
LEMMA NothingRearmed ==
  ASSUME TypeInv, GateInv, NoRestarts, StepElsewhere
  PROVE  /\ \A s \in Service : gate[s] # "Pending" => gate'[s] # "Pending"
         /\ \A s \in Service : IsActive(status'[s]) => IsActive(status[s])
         /\ \A s \in Service : stopped[s] # "no" => stopped'[s] # "no"
         /\ claimed' \in {claimed, {}}
         /\ restart_batches' = {} \/ QueueRestart
<1>1. CASE TakeReadyRestarts
  <2>1. \A s \in Service : gate'[s] = gate[s] /\ status'[s] = status[s] /\ stopped'[s] = stopped[s]
    BY <1>1 DEF TakeReadyRestarts, NoRestarts
  <2>2. claimed' = {} /\ restart_batches' = {}
    BY <1>1 DEF TakeReadyRestarts, NoRestarts
  <2> QED
    BY <2>1, <2>2
<1>2. CASE ~TakeReadyRestarts
  <2>1. /\ \A s \in Service : gate[s] # "Pending" => gate'[s] # "Pending"
        /\ \A s \in Service : IsActive(status'[s]) => IsActive(status[s])
    <3>1. CASE \E p \in Pollers : PollStep(p) \/ CheckPasses(p) \/ CheckFails(p)
      BY <1>2, <3>1
      DEF PollStep, AwaitFirstLaunch, CheckPasses, WithholdOrRelease, CheckFails, ReportReady,
          ReadinessCancelled, DeadlineElapses, OnReadinessDeadline, FailReadinessStartup, SignalDep, FinishIfActive, IsActive, TypeInv, TypeOK, ServicesOK
    <3>2. CASE \E t \in Thread : SetExitCode(t) \/ BeginShutdown(t) \/ CancelAndTerm(t)
      BY <1>2, <3>2
      DEF SetExitCode, BeginShutdown, CancelAndTerm, SignalDep, FinishIfActive, IsActive, TypeInv, TypeOK, ServicesOK
    <3>3. CASE LoopStep
      BY <1>2, <3>3
      DEF LoopStep, SpawnClaimed, EndRunIfIdle, Notified, ReapJoined, RecoverPanic, DropPanicked,
          ReapStrays, Exit, SignalDep, FinishIfActive, IsActive, TypeInv, TypeOK, ServicesOK
    <3>4. CASE UiWork \/ UiQuit \/ \E s \in Service : UiStop(s) \/ UiRestart(s)
      BY <1>2, <3>4
      DEF UiWork, MarkSubtreeStopped, NoteTarget, SignalSubtree, EscalateGlobalStop, UiRequestExit,
          UiStop, UiRestart, ForceShutdown, QueueRestart, SignalDep, FinishIfActive, IsActive,
          TypeInv, TypeOK, ServicesOK, ReadStatus, WhenRunning, SignalGroups, UiQuit, LookForRunning
    <3>5. CASE \/ TimerStep \/ FirstSignal \/ SecondSignal \/ Rest \/ UNCHANGED vars
               \/ \E x \in orphans : LeftoverExits(x)
      BY <1>2, <3>5
      DEF TimerStep, ShutdownTimer, HardExit, SigkillTimer, StrayTimer, KillStray, FirstSignal,
          SecondSignal, ForceShutdown, LeftoverExits, Rest, vars, SignalDep, FinishIfActive, IsActive, TypeInv, TypeOK, ServicesOK
    <3> QED
      BY <3>1, <3>2, <3>3, <3>4, <3>5 DEF StepElsewhere
  <2>2. claimed' \in {claimed, {}} /\ (restart_batches' = {} \/ QueueRestart)
    <3>1. CASE \E p \in Pollers : PollStep(p) \/ CheckPasses(p) \/ CheckFails(p)
      BY <1>2, <3>1
      DEF PollStep, AwaitFirstLaunch, CheckPasses, WithholdOrRelease, CheckFails, ReportReady,
          ReadinessCancelled, DeadlineElapses, OnReadinessDeadline, FailReadinessStartup, NoRestarts
    <3>2. CASE \E t \in Thread : SetExitCode(t) \/ BeginShutdown(t) \/ CancelAndTerm(t)
      BY <1>2, <3>2
      DEF SetExitCode, BeginShutdown, CancelAndTerm, NoRestarts
    <3>3. CASE LoopStep
      BY <1>2, <3>3
      DEF LoopStep, SpawnClaimed, EndRunIfIdle, Notified, ReapJoined, RecoverPanic, DropPanicked,
          ReapStrays, Exit, NoRestarts
    <3>4. CASE UiWork \/ UiQuit \/ \E s \in Service : UiStop(s) \/ UiRestart(s)
      BY <1>2, <3>4
      DEF UiWork, MarkSubtreeStopped, NoteTarget, SignalSubtree, EscalateGlobalStop, UiRequestExit,
          UiStop, UiRestart, ForceShutdown, QueueRestart, NoRestarts, ReadStatus, WhenRunning,
          SignalGroups, UiQuit, LookForRunning
    <3>5. CASE \/ TimerStep \/ FirstSignal \/ SecondSignal \/ Rest \/ UNCHANGED vars
               \/ \E x \in orphans : LeftoverExits(x)
      BY <1>2, <3>5
      DEF TimerStep, ShutdownTimer, HardExit, SigkillTimer, StrayTimer, KillStray, FirstSignal,
          SecondSignal, ForceShutdown, LeftoverExits, Rest, vars, NoRestarts
    <3> QED
      BY <3>1, <3>2, <3>3, <3>4, <3>5 DEF StepElsewhere
  <2>3. CASE MarkSubtreeStopped
    BY <2>1, <2>2, <2>3 DEF MarkSubtreeStopped
  <2>4. CASE ~MarkSubtreeStopped
    <3>1. stopped' = stopped
      BY <1>2, <2>4
      DEF StepElsewhere, PollStep, AwaitFirstLaunch, CheckPasses, WithholdOrRelease, CheckFails,
          ReportReady, ReadinessCancelled, DeadlineElapses, OnReadinessDeadline,
          FailReadinessStartup, EscalateGlobalStop, UiRequestExit, UiWork, NoteTarget,
          SignalSubtree, QueueRestart, FirstSignal, SecondSignal, ForceShutdown, UiStop, UiRestart,
          LeftoverExits, Rest, vars, LoopStep, SpawnClaimed, EndRunIfIdle, Notified, ReapJoined,
          RecoverPanic, DropPanicked, ReapStrays, Exit, TimerStep, ShutdownTimer, HardExit,
          SigkillTimer, StrayTimer, KillStray, SetExitCode, BeginShutdown, CancelAndTerm,
          ReadStatus, WhenRunning, SignalGroups, UiQuit, LookForRunning
    <3> QED
      BY <2>1, <2>2, <3>1
  <2> QED
    BY <2>3, <2>4
<1> QED
  BY <1>1, <1>2

\* The UI's place, its targets and the marks change in its own steps only.
LEMMA UiPlaces ==
  ASSUME TypeInv, StepElsewhere, ~UiWork
  PROVE  /\ \/ pc'[Ui] = pc[Ui] /\ todo' = todo /\ op' = op /\ root' = root
            \/ pc[Ui] \in {"shutdown", "cancel"} /\ pc'[Ui] \in {"cancel", "idle"} /\ op' = op
            \/ /\ pc[Ui] = "idle" /\ pc'[Ui] \in {"mark", "statuses", "stop_all"}
               /\ pc'[Ui] = "mark" \/ op' = "stop" => root' \in Service
               /\ pc'[Ui] = "statuses" => todo' = Service
               /\ ops' = ops + 1
         /\ pc[Ui] = "shutdown" => pc'[Ui] = "shutdown" \/ shutting_down'
         /\ op' = op \/ (op' = "restart" /\ "restart" \in Ops) \/ op' \in {"stop", "quit", "all"}
<1>1. ASSUME NEW t \in Thread, SetExitCode(t) \/ BeginShutdown(t) \/ CancelAndTerm(t)
      PROVE  /\ UNCHANGED <<todo, op, root>>
             /\ \/ pc'[Ui] = pc[Ui]
                \/ pc[Ui] \in {"shutdown", "cancel"} /\ pc'[Ui] \in {"cancel", "idle"}
             /\ pc[Ui] = "shutdown" => pc'[Ui] = "shutdown" \/ shutting_down'
  <2>1. pc[Ui] # "code" /\ AfterShutdown(Ui) = "idle"
    BY PcTyped DEF TypeInv, TypeOK, LabelsOK, UiLabels, AfterShutdown
  <2>2. UNCHANGED <<todo, op, root>>
    BY <1>1 DEF SetExitCode, BeginShutdown, CancelAndTerm
  <2>3. CASE t = Ui
    BY <1>1, <2>1, <2>2, <2>3, PcTyped DEF SetExitCode, BeginShutdown, CancelAndTerm, Goto
  <2>4. CASE t # Ui
    BY <1>1, <2>2, <2>4, PcTyped DEF SetExitCode, BeginShutdown, CancelAndTerm, Goto
  <2> QED
    BY <2>3, <2>4
<1>2. CASE LoopStep
  <2>1. CASE SpawnClaimed
    BY <2>1, PcTyped DEF SpawnClaimed, TypeInv, TypeOK, LoopOK
  <2>2. CASE \E q \in Service : ReapJoined(q)
    BY <2>2, PcTyped DEF ReapJoined
  <2>3. CASE LoopStep /\ ~SpawnClaimed /\ ~\E q \in Service : ReapJoined(q)
    BY <2>3, PcTyped
    DEF LoopStep, TakeReadyRestarts, EndRunIfIdle, Notified, RecoverPanic, DropPanicked, ReapStrays,
        Exit, Goto
  <2> QED
    BY <1>2, <2>1, <2>2, <2>3
<1>3. CASE \E p \in Pollers : PollStep(p) \/ CheckPasses(p) \/ CheckFails(p)
  BY <1>3, PcTyped
  DEF PollStep, AwaitFirstLaunch, CheckPasses, WithholdOrRelease, CheckFails,
      ReportReady, ReadinessCancelled, DeadlineElapses, OnReadinessDeadline, FailReadinessStartup, Goto
<1>4. CASE UiQuit \/ \E q \in Service : UiStop(q) \/ UiRestart(q)
  BY <1>4, PcTyped DEF EscalateGlobalStop, UiRequestExit, ForceShutdown, UiStop, UiRestart, Goto,
      UiQuit, LookForRunning
<1>5. CASE FirstSignal \/ SecondSignal \/ TimerStep \/ Rest \/ UNCHANGED vars
           \/ \E x \in orphans : LeftoverExits(x)
  BY <1>5, PcTyped
  DEF FirstSignal, SecondSignal, ForceShutdown, TimerStep, ShutdownTimer, HardExit, SigkillTimer,
      StrayTimer, KillStray, Rest, vars, LeftoverExits, Goto
<1> QED
  BY <1>1, <1>2, <1>3, <1>4, <1>5 DEF StepElsewhere

LEMMA StopTask ==
  ASSUME TypeInv, SignalInv, NoRestarts, MarksNoted, EndsResolved,
         NEW s \in Service, TaskStep(s) \/ TaskPanics(s) \/ ChildExits(s)
  PROVE  NoRestarts' /\ MarksNoted' /\ EndsResolved'
<1>1. /\ UNCHANGED <<restart_batches, op, root, todo, stopped, shutting_down>> /\ pc'[Ui] = pc[Ui]
      /\ \A q \in Service : q # s => /\ pc'[q] = pc[q] /\ gate'[q] = gate[q] /\ status'[q] = status[q]
                                     /\ was_down'[q] = was_down[q]
  BY TaskLocal
<1>2. NoRestarts'
  BY <1>1 DEF NoRestarts
<1>3. gate[s] # "Pending" => gate'[s] # "Pending"
  BY DEF TaskStep, AwaitDep, BeginAttempts, Abandon, Attempt, SpawnFailure, SpawnChild, RegisterGroup,
        SignalLate, ReleaseDependents, ReapChild, DeregisterGroup, SweepGroup, SettleExpected,
        ReleaseCompleted, ClassifyExit, SettleTerminally, FinishTask, TaskPanics, ChildExits,
        SignalDep, TypeInv, TypeOK, ServicesOK
<1>4. stopped[s] # "no" /\ IsActive(status'[s]) => IsActive(status[s])
  BY DEF TaskStep, AwaitDep, BeginAttempts, Abandon, Attempt, SpawnFailure, SpawnChild, RegisterGroup,
        OnRegistration, SignalLate, ReleaseDependents, ReapChild, DeregisterGroup, SweepGroup, SettleExpected,
        ReleaseCompleted, ClassifyExit, SettleTerminally, FinishTask, TaskPanics, ChildExits,
        FinishIfActive, IsActive, TypeInv, TypeOK, ServicesOK, SharedOK
<1>5. MarksNoted'
  BY <1>1, <1>3, <1>4 DEF MarksNoted, Marked, MarkedByNow
<1>6. pc'[s] \in {"sweep", "settle", "classify"} /\ was_down'[s] => AskedFor(s)
  <2>1. CASE DeregisterGroup(s)
    BY <2>1 DEF DeregisterGroup, AskedFor, TypeInv, TypeOK, TasksOK
  <2>2. CASE ~DeregisterGroup(s)
    <3>1. was_down' = was_down
      BY <2>2
      DEF TaskStep, AwaitDep, BeginAttempts, Abandon, Attempt, SpawnFailure, SpawnChild, RegisterGroup,
        SignalLate, ReleaseDependents, ReapChild, SweepGroup, SettleExpected,
        ReleaseCompleted, ClassifyExit, SettleTerminally, FinishTask, TaskPanics, ChildExits
    <3>2. pc'[s] \in {"sweep", "settle", "classify"} => pc[s] \in {"sweep", "settle", "classify"}
      BY <2>2, PcTyped
      DEF TaskStep, AwaitDep, BeginAttempts, Abandon, Attempt, SpawnFailure, SpawnChild, RegisterGroup,
        OnRegistration, SignalLate, ReleaseDependents, ReapChild, SweepGroup, SettleExpected,
        ReleaseCompleted, ClassifyExit, SettleTerminally, FinishTask, TaskPanics, ChildExits,
        RetryOrSettle, Goto
    <3> QED
      BY <3>1, <3>2 DEF EndsResolved
  <2> QED
    BY <2>1, <2>2
<1>7. pc'[s] \in {"fin", "done"} => gate'[s] # "Pending" \/ shutting_down \/ MarkedByNow(s)
  <2>1. CASE Abandon(s) \/ ReleaseCompleted(s)
    BY <2>1 DEF Abandon, ReleaseCompleted, SignalDep, TypeInv, TypeOK, ServicesOK
  <2>2. CASE ClassifyExit(s)
    <3>1. pc[s] = "classify" /\ gate' = gate /\ (pc'[s] = "fin" => EndWasAsked(s))
      BY <2>2, PcTyped DEF ClassifyExit, RetryOrSettle, Goto
    <3>2. pc'[s] \notin {"done"}
      BY <2>2, PcTyped DEF ClassifyExit, RetryOrSettle, Goto
    <3>3. EndWasAsked(s) => shutting_down \/ s \in Marked
      BY <3>1 DEF EndWasAsked, EndsResolved, AskedFor, Marked
    <3> QED
      BY <3>1, <3>2, <3>3 DEF MarksNoted
  <2>3. CASE ~(Abandon(s) \/ ReleaseCompleted(s) \/ ClassifyExit(s))
    <3>1. pc'[s] \in {"fin", "done"} => pc[s] \in {"fin", "done"}
      BY <2>3, PcTyped
      DEF TaskStep, AwaitDep, BeginAttempts, Attempt, SpawnFailure, SpawnChild, RegisterGroup,
        OnRegistration, SignalLate, ReleaseDependents, ReapChild, DeregisterGroup, SweepGroup, SettleExpected,
        SettleTerminally, FinishTask, TaskPanics, ChildExits, RetryOrSettle, Goto
    <3> QED
      BY <1>3, <3>1 DEF EndsResolved
  <2> QED
    BY <2>1, <2>2, <2>3
<1>8. EndsResolved'
  BY <1>1, <1>6, <1>7 DEF EndsResolved, AskedFor, MarkedByNow
<1> QED
  BY <1>2, <1>5, <1>8

LEMMA StopElsewhere ==
  ASSUME TypeInv, HandshakeInv, GateInv, SignalInv, NoRestarts, MarksNoted, EndsResolved,
         "restart" \notin Ops, StepElsewhere, ~UiWork
  PROVE  NoRestarts' /\ MarksNoted' /\ EndsResolved'
<1>1. NoRestarts'
  BY UiPlaces, NothingRearmed DEF NoRestarts, UiWork, EscalateGlobalStop, UiRequestExit, ReadStatus,
      WhenRunning, ForceShutdown, SignalGroups
<1>2. stopped' = stopped
  <2>1. CASE TakeReadyRestarts
    BY <2>1 DEF TakeReadyRestarts, NoRestarts, TypeInv, TypeOK, SharedOK
  <2>2. CASE ~TakeReadyRestarts
    BY <2>2
    DEF StepElsewhere, PollStep, AwaitFirstLaunch, CheckPasses, WithholdOrRelease, CheckFails,
        ReportReady, ReadinessCancelled, DeadlineElapses, OnReadinessDeadline, FailReadinessStartup,
        EscalateGlobalStop, UiRequestExit, FirstSignal, SecondSignal, ForceShutdown, UiStop,
        UiRestart, LeftoverExits, Rest, vars, LoopStep, SpawnClaimed, EndRunIfIdle, Notified,
        ReapJoined, RecoverPanic, DropPanicked, ReapStrays, Exit, TimerStep, ShutdownTimer,
        HardExit, SigkillTimer, StrayTimer, KillStray, SetExitCode, BeginShutdown, CancelAndTerm,
        UiQuit, LookForRunning
  <2> QED
    BY <2>1, <2>2
<1>3. \A s \in Service : MarkedByNow(s) => MarkedByNow(s)'
  BY UiPlaces DEF MarkedByNow
<1>4. /\ pc'[Ui] = "note" => pc[Ui] = "note" /\ todo' = todo
      /\ pc'[Ui] = "mark" \/ (pc'[Ui] = "statuses" /\ op' = "stop") =>
           (pc'[Ui] = pc[Ui] /\ op' = op /\ root' = root) \/ root' \in Service
  BY UiPlaces
<1>5. MarksNoted'
  BY <1>2, <1>3, <1>4, NothingRearmed DEF MarksNoted, Marked
<1>6. EndsResolved'
  <2> SUFFICES ASSUME NEW s \in Service
      PROVE  /\ pc'[s] \in {"sweep", "settle", "classify"} /\ was_down'[s] => AskedFor(s)'
             /\ pc'[s] \in {"fin", "done"} => gate'[s] # "Pending" \/ shutting_down' \/ MarkedByNow(s)'
    BY DEF EndsResolved
  <2>1. shutting_down => shutting_down'
    BY ElsewhereKeeps
  <2>2. pc[s] = "cancel" => shutting_down
    BY PcTyped DEF SignalInv, DownFirst
  <2>3. gate[s] # "Pending" => gate'[s] # "Pending"
    BY NothingRearmed
  <2>4. was_down' = was_down
    BY ElsewhereKeeps
  <2> QED
    BY <1>2, <1>3, <2>1, <2>2, <2>3, <2>4, ElsewherePlaces DEF EndsResolved, AskedFor
<1> QED
  BY <1>1, <1>5, <1>6

LEMMA StopUi ==
  ASSUME TypeInv, HandshakeInv, GateInv, SignalInv, NoRestarts, MarksNoted, EndsResolved,
         "restart" \notin Ops, UiWork
  PROVE  NoRestarts' /\ MarksNoted' /\ EndsResolved'
<1>1. StepElsewhere /\ ~QueueRestart
  BY DEF StepElsewhere, NoRestarts, QueueRestart
<1>2. NoRestarts'
  <2>1. pc'[Ui] # "queue" /\ op' = op
    BY <1>1, PcTyped
    DEF UiWork, MarkSubtreeStopped, NoteTarget, SignalSubtree, Goto, NoRestarts, EscalateGlobalStop,
        UiRequestExit, ReadStatus, WhenRunning, ForceShutdown, SignalGroups
  <2> QED
    BY <1>1, <2>1, NothingRearmed DEF NoRestarts
<1>3. /\ shutting_down' = shutting_down /\ was_down' = was_down
      /\ \A s \in Service : pc'[s] = pc[s]
  BY <1>1, PcTyped DEF UiWork, MarkSubtreeStopped, NoteTarget, SignalSubtree, Goto,
      EscalateGlobalStop, UiRequestExit, ReadStatus, WhenRunning, ForceShutdown, SignalGroups
<1>4. /\ MarksNoted'
      /\ \A s \in Service : MarkedByNow(s) => MarkedByNow(s)' \/ gate'[s] # "Pending"
  <2>1. CASE MarkSubtreeStopped
    <3>2. /\ Marked' = Marked \cup Subtree(root)
          /\ UNCHANGED <<gate, status>> /\ pc[Ui] = "mark"
          /\ IF stopped[root] # "no" THEN pc'[Ui] = "kill"
                                     ELSE pc'[Ui] = "note" /\ todo' = Subtree(root)
      BY <2>1, PcTyped DEF MarkSubtreeStopped, Marked, Goto, Subtree
    <3>3. Closed(Subtree(root))
      BY DEF Closed, Subtree
    <3>4. Closed(Marked \cup Subtree(root))
      BY <3>3 DEF MarksNoted, Closed
    <3>5. CASE stopped[root] # "no"
      <4>1. Subtree(root) \subseteq Marked
        <5>1. Marked \in SUBSET Service /\ root \in Marked
          BY <3>2, <3>5 DEF MarksNoted, Marked
        <5> QED
          BY <5>1 DEF Subtree, MarksNoted
      <4> QED
        BY <3>2, <3>4, <3>5, <4>1 DEF MarksNoted, MarkedByNow
    <3>6. CASE stopped[root] = "no"
      <4>1. \A s \in Marked' : (gate'[s] # "Pending" /\ ~IsActive(status'[s])) \/ MarkedByNow(s)'
        BY <3>2, <3>6 DEF MarksNoted, MarkedByNow
      <4> QED
        BY <3>2, <3>4, <3>6, <4>1 DEF MarksNoted, MarkedByNow
    <3> QED
      BY <3>5, <3>6
  <2>2. ASSUME NEW t \in Service, NoteTarget(t)
        PROVE  /\ MarksNoted'
               /\ \A s \in Service : MarkedByNow(s) => MarkedByNow(s)' \/ gate'[s] # "Pending"
    <3>1. /\ stopped' = stopped /\ todo' = todo \ {t} /\ pc[Ui] = "note" /\ t \in todo
          /\ pc'[Ui] = IF todo = {t} THEN "term" ELSE "note"
          /\ gate'[t] # "Pending" /\ ~IsActive(status'[t])
      BY <2>2, PcTyped
      DEF NoteTarget, Goto, SignalDep, FinishIfActive, IsActive, TypeInv, TypeOK, ServicesOK
    <3>2. \A s \in Service : MarkedByNow(s) => MarkedByNow(s)' \/ s = t
      BY <3>1 DEF MarkedByNow
    <3> QED
      BY <1>1, <3>1, <3>2, NothingRearmed DEF MarksNoted, Marked, MarkedByNow
  <2>3. CASE SignalSubtree
    <3>1. stopped' = stopped /\ pc[Ui] # "note" /\ pc'[Ui] \notin {"mark", "note", "statuses"}
          /\ UNCHANGED <<gate, status>>
      BY <2>3, PcTyped DEF SignalSubtree, Goto
    <3> QED
      BY <3>1 DEF MarksNoted, Marked, MarkedByNow
  <2>4. CASE EscalateGlobalStop \/ UiRequestExit \/ \E t \in Service : ReadStatus(t)
    <3>1. /\ UNCHANGED <<stopped, gate, status, op, root>> /\ pc[Ui] \in {"stop_all", "statuses"}
          /\ pc'[Ui] \in {"mark", "statuses"} => pc[Ui] = "statuses"
          /\ pc'[Ui] = "mark" => op = "stop"
      BY <2>4, PcTyped
      DEF EscalateGlobalStop, UiRequestExit, ReadStatus, WhenRunning, ForceShutdown, Goto
    <3>2. pc'[Ui] # "note"
      BY <2>4, PcTyped
      DEF EscalateGlobalStop, UiRequestExit, ReadStatus, WhenRunning, ForceShutdown, Goto
    <3> QED
      BY <3>1, <3>2 DEF MarksNoted, Marked, MarkedByNow
  <2> QED
    BY <1>1, <2>1, <2>2, <2>3, <2>4 DEF UiWork
<1>5. EndsResolved'
  <2>1. \A s \in Service : AskedFor(s) => AskedFor(s)'
    BY <1>1, <1>3, NothingRearmed DEF AskedFor
  <2> QED
    BY <1>1, <1>3, <1>4, <2>1, NothingRearmed DEF EndsResolved
<1> QED
  BY <1>2, <1>4, <1>5

LEMMA StopStep ==
  TypeInv /\ HandshakeInv /\ GateInv /\ SignalInv /\ StopInv /\ [Next]_vars => StopInv'
<1> SUFFICES ASSUME TypeInv, HandshakeInv, GateInv, SignalInv, StopInv, [Next]_vars, "restart" \notin Ops
             PROVE  NoRestarts' /\ MarksNoted' /\ EndsResolved'
  BY DEF StopInv
<1> QED
  BY StepsSplit, StopTask, StopElsewhere, StopUi DEF StopInv

-----------------------------------------------------------------------------
(* Quits, when nobody asks for a restart.                                   *)

\* A service that may still start a process of its own accord.
Early == {"deps", "attempt", "backoff", "spawn", "register"}
MayRun(s) ==
  \/ s \in claimed
  \/ pc[s] \in Early
  \/ MaxRetries[s] > 0 /\ pc[s] \in Launched \cup {"deregister", "sweep", "settle", "classify"}

\* A poller that has seen a launch: its service is past it, for good.
SawLaunch(p) == pc[p] \notin {"off", "launch"} \/ (pc[p] = "launch" /\ live[p])
PollersLate ==
  /\ \A s \in Service : poller[s] \in Pollers => owner[poller[s]] = s
  /\ \A p \in Pollers : SawLaunch(p) =>
       owner[p] \notin claimed /\ pc[owner[p]] \notin Early \cup (Launched \ {"wait"})

\* What may start looks active, unless it is told not to.
StartersLookActive ==
  \A s \in Service : MayRun(s) => IsActive(status[s]) \/ AskedFor(s)

\* A process that runs looks active, unless it is told to end or its readiness has failed.
FailingPoller(s) == \E p \in Pollers : owner[p] = s /\ pc[p] \in {"code", "shutdown"}
LiveLooksActive ==
  \A s \in Service : child[s] = "alive" => IsActive(status[s]) \/ AskedFor(s) \/ FailingPoller(s)

\* A service whose looks have told that nobody is to be stopped there.
Cleared(s) ==
  /\ MayRun(s) => AskedFor(s)
  /\ child[s] = "alive" => AskedFor(s) \/ FailingPoller(s)

\* The statuses read so far are of such services, though the tasks have gone on since.
StatusesSeen == pc[Ui] = "statuses" => \A s \in Service \ todo : Cleared(s)

\* A quit that went by the looks has missed nobody: one that is still looking has asked
\* to exit before it knows.
QuitLooking == op = "quit" /\ pc[Ui] \in {"statuses", "stop_all", "shutdown"}
QuitSeen == quit_requested /\ ~shutting_down /\ ~QuitLooking => \A s \in Service : Cleared(s)

\* What is claimed at first is launched by the first step of the loop.
ClaimedAtStart == claimed # {} => pc[Loop] \in {"spawn", "exited"}

QuitInv ==
  "restart" \notin Ops =>
    /\ ClaimedAtStart /\ PollersLate
    /\ StartersLookActive /\ LiveLooksActive
    /\ StatusesSeen /\ QuitSeen

LEMMA QuitInit == Init => QuitInv
  BY ThreadAssumption
  DEF Init, QuitInv, ClaimedAtStart, PollersLate, SawLaunch, StartersLookActive, LiveLooksActive,
      StatusesSeen, QuitSeen, MayRun, IsActive, Thread

\* A service with readiness is launched once.
LEMMA NoRetryWatched ==
  ASSUME TypeInv, NEW s \in Watched
  PROVE  MaxRetries[s] = 0 /\ ~(attempt[s] <= MaxRetries[s])
  BY ConfigAssumption DEF Watched, TypeInv, TypeOK, TasksOK

\* A task starts its process from where it may run only, and settles its status later.
LEMMA QuitTask ==
  ASSUME TypeInv, SignalInv, CompletionInv, NEW s \in Service, TaskStep(s) \/ TaskPanics(s) \/ ChildExits(s)
  PROVE  /\ MayRun(s)' => MayRun(s) /\ (status'[s] = status[s] \/ status'[s] = "Running")
         /\ child'[s] = "alive" => /\ child[s] = "alive" \/ MayRun(s)
                                   /\ status'[s] = status[s] \/ status'[s] = "Running"
<1>1. child'[s] = "alive" => child[s] = "alive" \/ pc[s] = "spawn"
  BY DEF TaskStep, AwaitDep, BeginAttempts, Abandon, Attempt, SpawnFailure, SpawnChild, RegisterGroup,
     SignalLate, SignalGroups, Hit, ReleaseDependents, ReapChild, DeregisterGroup, SweepGroup,
     SettleExpected, ReleaseCompleted, ClassifyExit, SettleTerminally, FinishTask, TaskPanics,
     ChildExits, TypeInv, TypeOK, ProcessesOK
<1>2. claimed' = claimed
  BY TaskLocal
<1>3. CASE \/ AwaitDep(s) \/ BeginAttempts(s) \/ Attempt(s) \/ SpawnFailure(s) \/ SpawnChild(s)
           \/ SignalLate(s) \/ ReleaseDependents(s) \/ ReapChild(s) \/ DeregisterGroup(s)
           \/ SweepGroup(s) \/ FinishTask(s) \/ TaskPanics(s) \/ ChildExits(s) \/ ReleaseCompleted(s)
  <2>1. status' = status
    BY <1>3
    DEF AwaitDep, BeginAttempts, Attempt, SpawnFailure, SpawnChild, SignalLate, ReleaseDependents,
        ReapChild, DeregisterGroup, SweepGroup, FinishTask, TaskPanics, ChildExits, ReleaseCompleted
  <2>2. /\ pc'[s] \in Early => pc[s] \in Early
        /\ pc'[s] \in Launched \cup {"deregister", "sweep", "settle", "classify"} =>
             pc[s] \in Early \cup Launched \cup {"deregister", "sweep", "settle", "classify"}
    BY <1>3, PcTyped
    DEF AwaitDep, BeginAttempts, Attempt, SpawnFailure, SpawnChild, SignalLate, ReleaseDependents,
        ReapChild, DeregisterGroup, SweepGroup, FinishTask, TaskPanics, ChildExits, ReleaseCompleted,
        RetryOrSettle, Goto, Early, Launched
  <2> QED
    BY <1>1, <1>2, <2>1, <2>2 DEF MayRun, Early
<1>4. CASE Abandon(s) \/ SettleTerminally(s)
  <2>1. pc'[s] \in {"fin", "code"} /\ pc[s] \in {"abandon", "terminal"} /\ child' = child
    BY <1>4, PcTyped DEF Abandon, SettleTerminally, Goto
  <2>2. ~MayRun(s)'
    BY <1>2, <2>1 DEF MayRun, Early, Launched, CompletionInv, ClaimedIdle
  <2> QED
    BY <1>1, <2>1, <2>2 DEF SignalInv, LiveHasTask, Lives, Launched
<1>5. CASE RegisterGroup(s)
  <2>1. pc[s] = "register" /\ (status'[s] = status[s] \/ status'[s] = "Running")
    BY <1>5 DEF RegisterGroup, TypeInv, TypeOK, ServicesOK
  <2> QED
    BY <1>1, <2>1 DEF MayRun, Early
<1>6. CASE SettleExpected(s) \/ ClassifyExit(s)
  <2>1. pc[s] \in {"settle", "classify"} /\ s \notin claimed' /\ child' = child
    BY <1>2, <1>6 DEF SettleExpected, ClassifyExit, CompletionInv, ClaimedIdle
  <2>2. \/ pc'[s] \in {"ready", "fin", "terminal"}
        \/ pc'[s] = "classify" /\ status'[s] = status[s]
        \/ pc'[s] = "attempt" /\ status' = status /\ MaxRetries[s] > 0
    <3>1. CASE SettleExpected(s)
      BY <3>1, PcTyped DEF SettleExpected, Goto
    <3>2. CASE ClassifyExit(s)
      <4>1. attempt[s] <= MaxRetries[s] => MaxRetries[s] > 0
        BY ConfigAssumption DEF TypeInv, TypeOK, TasksOK
      <4> QED
        BY <3>2, <4>1, PcTyped DEF ClassifyExit, RetryOrSettle, Goto
    <3> QED
      BY <1>6, <3>1, <3>2
  <2>3. child[s] # "alive"
    BY <2>1 DEF SignalInv, LiveHasTask, Lives, Launched
  <2> QED
    BY <1>1, <2>1, <2>2, <2>3 DEF MayRun, Early, Launched
<1> QED
  BY <1>3, <1>4, <1>5, <1>6 DEF TaskStep

\* A poller that fails the run goes on whatever becomes of the task.
LEMMA FailingTask ==
  ASSUME TypeInv, NEW s \in Service, TaskStep(s) \/ TaskPanics(s) \/ ChildExits(s)
  PROVE  \A q \in Service : FailingPoller(q) => FailingPoller(q)'
<1> SUFFICES ASSUME NEW p \in Pollers, pc[p] \in {"code", "shutdown"}
             PROVE  pc'[p] = pc[p] /\ owner'[p] = owner[p]
  BY DEF FailingPoller
<1>1. CASE BeginAttempts(s)
  BY <1>1, PcTyped DEF BeginAttempts, Goto, TypeInv, TypeOK, PollersOK
<1>2. CASE FinishTask(s)
  BY <1>2, PcTyped DEF FinishTask
<1>3. CASE ~(BeginAttempts(s) \/ FinishTask(s))
  BY <1>3, PcTyped
  DEF TaskStep, AwaitDep, Abandon, Attempt, SpawnFailure, SpawnChild, RegisterGroup,
      SignalLate, ReleaseDependents, ReapChild, DeregisterGroup, SweepGroup, SettleExpected,
      ReleaseCompleted, ClassifyExit, SettleTerminally, TaskPanics, ChildExits, RetryOrSettle, Goto
<1> QED
  BY <1>1, <1>2, <1>3

LEMMA LateTask ==
  ASSUME TypeInv, CompletionInv, PollersLate,
         NEW s \in Service, TaskStep(s) \/ TaskPanics(s) \/ ChildExits(s)
  PROVE  PollersLate'
<1> DEFINE Before(q) == pc[q] \in Early \cup (Launched \ {"wait"})
<1>1. /\ claimed' = claimed /\ \A q \in Service : q # s => pc'[q] = pc[q] /\ poller'[q] = poller[q]
  BY TaskLocal
<1>2. CASE BeginAttempts(s) /\ ReadyWhen[s] \in {"Probe", "Output", "Delay"} /\ pc'[s] = "attempt"
  <2>1. PICK p \in Pollers :
          /\ pc[p] = "off" /\ (\A t \in Service : poller[t] # p)
          /\ pc' = [pc EXCEPT ![s] = "attempt", ![p] = "launch"]
          /\ poller' = [poller EXCEPT ![s] = p]
          /\ owner' = [owner EXCEPT ![p] = s]
          /\ live' = [live EXCEPT ![p] = FALSE]
    BY <1>2, PcTyped DEF BeginAttempts, Goto
  <2>2. /\ \A q \in Pollers : q # p => pc'[q] = pc[q] /\ owner'[q] = owner[q] /\ live'[q] = live[q]
        /\ pc'[p] = "launch" /\ owner'[p] = s /\ ~live'[p] /\ poller'[s] = p
    BY <2>1, PcTyped DEF TypeInv, TypeOK, PollersOK, TasksOK
  <2>3. pc[s] = "deps"
    BY <1>2 DEF BeginAttempts
  <2>4. \A q \in Pollers : SawLaunch(q)' => q # p /\ SawLaunch(q) /\ owner[q] # s
    BY <2>2, <2>3 DEF SawLaunch, PollersLate, Early
  <2>5. \A q \in Pollers : pc[q] # "off" => owner[q] \in Service
    BY DEF CompletionInv, PollersWatch, Watched
  <2>6. \A q \in Service : poller'[q] \in Pollers => owner'[poller'[q]] = q
    BY <1>1, <2>1, <2>2 DEF PollersLate
  <2>7. \A q \in Pollers : SawLaunch(q)' =>
          owner'[q] \notin claimed' /\ pc'[owner'[q]] \notin Early \cup (Launched \ {"wait"})
    BY <1>1, <2>2, <2>4, <2>5 DEF PollersLate, SawLaunch
  <2> QED
    BY <2>6, <2>7 DEF PollersLate
<1>3. CASE ~(BeginAttempts(s) /\ ReadyWhen[s] \in {"Probe", "Output", "Delay"} /\ pc'[s] = "attempt")
  <2>1. owner' = owner /\ \A p \in Pollers : pc'[p] = pc[p] \/ pc'[p] = "off"
    <3>1. CASE BeginAttempts(s)
      BY <1>3, <3>1, PcTyped DEF BeginAttempts, Goto
    <3>2. CASE FinishTask(s)
      BY <3>2, PcTyped DEF FinishTask
    <3>3. CASE ~(BeginAttempts(s) \/ FinishTask(s))
      BY <3>3, PcTyped
      DEF TaskStep, AwaitDep, Abandon, Attempt, SpawnFailure, SpawnChild, RegisterGroup,
        SignalLate, ReleaseDependents, ReapChild, DeregisterGroup, SweepGroup, SettleExpected,
        ReleaseCompleted, ClassifyExit, SettleTerminally, TaskPanics, ChildExits, RetryOrSettle, Goto
    <3> QED
      BY <3>1, <3>2, <3>3
  <2>2. poller'[s] = poller[s] \/ poller'[s] = NoOne
    <3>1. CASE BeginAttempts(s)
      BY <1>3, <3>1, PcTyped DEF BeginAttempts, Goto
    <3>2. CASE ~BeginAttempts(s)
      BY <3>2, PcTyped
      DEF TaskStep, AwaitDep, Abandon, Attempt, SpawnFailure, SpawnChild, RegisterGroup,
        SignalLate, ReleaseDependents, ReapChild, DeregisterGroup, SweepGroup, SettleExpected,
        ReleaseCompleted, ClassifyExit, SettleTerminally, FinishTask, TaskPanics, ChildExits,
        RetryOrSettle, TypeInv, TypeOK, TasksOK
    <3> QED
      BY <3>1, <3>2
  <2>3. \A p \in Pollers : live'[p] => live[p] \/ (p = poller[s] /\ ReleaseDependents(s))
    <3>1. CASE BeginAttempts(s)
      BY <1>3, <3>1, PcTyped DEF BeginAttempts, Goto
    <3>2. CASE ReleaseDependents(s) \/ DeregisterGroup(s)
      BY <3>2 DEF ReleaseDependents, DeregisterGroup
    <3>3. CASE ~(BeginAttempts(s) \/ ReleaseDependents(s) \/ DeregisterGroup(s))
      <4>1. live' = live
        BY <3>3
        DEF TaskStep, AwaitDep, Abandon, Attempt, SpawnFailure, SpawnChild, RegisterGroup,
          SignalLate, ReapChild, SweepGroup, SettleExpected, ReleaseCompleted, ClassifyExit,
          SettleTerminally, FinishTask, TaskPanics, ChildExits
      <4> QED
        BY <4>1
    <3> QED
      BY <3>1, <3>2, <3>3
  <2>4. ReleaseDependents(s) => pc'[s] = "wait" /\ s \notin claimed
    BY PcTyped DEF ReleaseDependents, Goto, CompletionInv, ClaimedIdle
  <2>5. Before(s)' => Before(s) \/ s \notin Watched
    <3>1. CASE ClassifyExit(s)
      BY <3>1, NoRetryWatched, PcTyped DEF ClassifyExit, RetryOrSettle, Goto, Early, Launched
    <3>2. CASE \/ AwaitDep(s) \/ Abandon(s) \/ Attempt(s) \/ SpawnFailure(s) \/ SpawnChild(s)
               \/ RegisterGroup(s) \/ SignalLate(s) \/ ReleaseDependents(s) \/ ReapChild(s)
               \/ DeregisterGroup(s) \/ SweepGroup(s)
      BY <3>2, PcTyped
      DEF AwaitDep, Abandon, Attempt, SpawnFailure, SpawnChild, RegisterGroup, OnRegistration,
        SignalLate, ReleaseDependents, ReapChild, DeregisterGroup, SweepGroup,
        RetryOrSettle, Goto, Early, Launched
    <3>3. CASE \/ BeginAttempts(s) \/ SettleExpected(s) \/ ReleaseCompleted(s) \/ SettleTerminally(s)
               \/ FinishTask(s) \/ TaskPanics(s) \/ ChildExits(s)
      BY <3>3, PcTyped
      DEF BeginAttempts, SettleExpected, ReleaseCompleted, SettleTerminally, FinishTask,
        TaskPanics, ChildExits, Goto, Early, Launched
    <3> QED
      BY <3>1, <3>2, <3>3 DEF TaskStep
  <2>6. \A q \in Service : poller'[q] \in Pollers => owner'[poller'[q]] = q
    BY <1>1, <2>1, <2>2, ThreadAssumption DEF PollersLate, Thread
  <2> SUFFICES ASSUME NEW p \in Pollers, SawLaunch(p)'
               PROVE  owner[p] \notin claimed /\ pc'[owner[p]] \notin Early \cup (Launched \ {"wait"})
    BY <1>1, <2>1, <2>6 DEF PollersLate
  <2>7. CASE SawLaunch(p)
    <3>1. owner[p] \in Watched /\ owner[p] \in Service
      BY <2>7 DEF SawLaunch, CompletionInv, PollersWatch, Watched
    <3>2. owner[p] \notin claimed /\ ~Before(owner[p])
      BY <2>7 DEF PollersLate
    <3>3. CASE owner[p] = s
      BY <2>5, <3>1, <3>2, <3>3
    <3>4. CASE owner[p] # s
      BY <1>1, <3>1, <3>2, <3>4
    <3> QED
      BY <3>2, <3>3, <3>4
  <2>8. CASE ~SawLaunch(p)
    <3>1. p = poller[s] /\ ReleaseDependents(s)
      BY <2>1, <2>3, <2>8 DEF SawLaunch
    <3>2. owner[p] = s
      BY <3>1 DEF PollersLate
    <3> QED
      BY <2>4, <3>1, <3>2 DEF Early, Launched
  <2> QED
    BY <2>7, <2>8
<1> QED
  BY <1>2, <1>3

\* The others leave a poller its service; one that fails the run gets to its shutdown.
LEMMA PollersElsewhere ==
  ASSUME TypeInv, GateInv, StepElsewhere
  PROVE  /\ owner' = owner
         /\ \A p \in Pollers : SawLaunch(p)' => SawLaunch(p)
         /\ \A p \in Pollers : pc[p] \in {"code", "shutdown"} =>
              pc'[p] \in {"code", "shutdown"} \/ shutting_down'
<1>1. CASE \E t \in Thread : SetExitCode(t) \/ BeginShutdown(t) \/ CancelAndTerm(t)
  BY <1>1, PcTyped DEF SetExitCode, BeginShutdown, CancelAndTerm, Goto, SawLaunch
<1>2. CASE \E p \in Pollers : PollStep(p) \/ CheckPasses(p) \/ CheckFails(p)
  BY <1>2, PcTyped
  DEF PollStep, AwaitFirstLaunch, CheckPasses, WithholdOrRelease, CheckFails, ReportReady,
      ReadinessCancelled, DeadlineElapses, OnReadinessDeadline, FailReadinessStartup, Goto, SawLaunch
<1>3. CASE SpawnClaimed
  BY <1>3, PcTyped DEF SpawnClaimed, SawLaunch, TypeInv, TypeOK, LoopOK
<1>4. CASE \E q \in Service : ReapJoined(q)
  BY <1>4, PcTyped DEF ReapJoined, SawLaunch
<1>5. CASE \/ TakeReadyRestarts \/ EndRunIfIdle \/ Notified \/ RecoverPanic \/ DropPanicked
           \/ ReapStrays \/ Exit
  BY <1>5, PcTyped
  DEF TakeReadyRestarts, EndRunIfIdle, Notified, RecoverPanic, DropPanicked, ReapStrays, Exit,
      Goto, SawLaunch
<1>6. CASE UiWork \/ UiQuit \/ \E q \in Service : UiStop(q) \/ UiRestart(q)
  BY <1>6, PcTyped
  DEF UiWork, MarkSubtreeStopped, NoteTarget, SignalSubtree, QueueRestart, EscalateGlobalStop,
      UiRequestExit, ForceShutdown, UiStop, UiRestart, Goto, SawLaunch, ReadStatus, WhenRunning,
      SignalGroups, UiQuit, LookForRunning
<1>7. CASE FirstSignal \/ SecondSignal \/ TimerStep \/ Rest \/ UNCHANGED vars
           \/ \E x \in orphans : LeftoverExits(x)
  BY <1>7, PcTyped
  DEF FirstSignal, SecondSignal, ForceShutdown, TimerStep, ShutdownTimer, HardExit, SigkillTimer,
      StrayTimer, KillStray, Rest, vars, LeftoverExits, Goto, SawLaunch
<1> QED
  BY <1>1, <1>2, <1>3, <1>4, <1>5, <1>6, <1>7 DEF StepElsewhere, LoopStep

LEMMA LateElsewhere ==
  ASSUME TypeInv, HandshakeInv, GateInv, CompletionInv, NoRestarts, PollersLate, StepElsewhere
  PROVE  PollersLate'
<1>1. poller' = poller
  BY ElsewhereKeeps
<1>2. owner' = owner /\ \A p \in Pollers : SawLaunch(p)' => SawLaunch(p)
  BY PollersElsewhere
<1>3. claimed' \in {claimed, {}}
  BY NothingRearmed
<1>4. \A p \in Pollers : SawLaunch(p) => owner[p] \in Service
  BY DEF SawLaunch, CompletionInv, PollersWatch, Watched
<1> QED
  BY <1>1, <1>2, <1>3, <1>4, ElsewherePlaces DEF PollersLate, Early, Launched

LEMMA QuitElsewhere ==
  ASSUME TypeInv, HandshakeInv, GateInv, SignalInv, CompletionInv, NoRestarts, MarksNoted,
         ClaimedAtStart, PollersLate, StartersLookActive, LiveLooksActive, StatusesSeen, QuitSeen,
         StepElsewhere
  PROVE  ClaimedAtStart' /\ StartersLookActive' /\ LiveLooksActive' /\ StatusesSeen' /\ QuitSeen'
<1>1. \A s \in Service : MayRun(s)' => MayRun(s)
  <2>1. claimed' \in {claimed, {}}
    BY NothingRearmed
  <2> QED
    BY <2>1, ElsewherePlaces DEF MayRun, Early, Launched
<1>2. \A s \in Service : child'[s] = "alive" => child[s] = "alive"
  BY ElsewhereSignals
<1>3. shutting_down => shutting_down'
  BY ElsewhereKeeps
<1>4. \A s \in Service : stopped[s] # "no" => stopped'[s] # "no"
  BY NothingRearmed
<1>5. ClaimedAtStart'
  <2>1. CASE SpawnClaimed
    BY <2>1 DEF SpawnClaimed, ClaimedAtStart
  <2>2. CASE ~SpawnClaimed
    <3>1. pc[Loop] \in {"spawn", "exited"} => pc'[Loop] \in {"spawn", "exited"}
      <4>1. CASE \E t \in Thread : SetExitCode(t) \/ BeginShutdown(t) \/ CancelAndTerm(t)
        BY <4>1, PcTyped DEF SetExitCode, BeginShutdown, CancelAndTerm, Goto
      <4>2. CASE LoopStep
        <5>1. ~(\/ TakeReadyRestarts \/ EndRunIfIdle \/ Notified \/ RecoverPanic \/ DropPanicked
                \/ ReapStrays \/ \E q \in Service : ReapJoined(q)) \/ pc[Loop] \notin {"spawn", "exited"}
          BY DEF TakeReadyRestarts, EndRunIfIdle, Notified, ReapJoined, RecoverPanic, DropPanicked,
                 ReapStrays
        <5>2. Exit => pc[Loop] = "returned"
          BY DEF Exit
        <5> QED
          BY <2>2, <4>2, <5>1, <5>2 DEF LoopStep
      <4>3. CASE TimerStep
        BY <4>3, PcTyped
        DEF TimerStep, ShutdownTimer, HardExit, SigkillTimer, StrayTimer, KillStray, Goto
      <4>4. CASE ~(LoopStep \/ TimerStep)
                 /\ ~\E t \in Thread : SetExitCode(t) \/ BeginShutdown(t) \/ CancelAndTerm(t)
        BY <4>4, LoopStands
      <4> QED
        BY <4>1, <4>2, <4>3, <4>4
    <3> QED
      BY <3>1, NothingRearmed DEF ClaimedAtStart
  <2> QED
    BY <2>1, <2>2
<1>6. \A s \in Service :
        IsActive(status[s]) /\ ~IsActive(status'[s]) /\ (MayRun(s) \/ child[s] = "alive") =>
          stopped[s] # "no" \/ (~MayRun(s) /\ FailingPoller(s)')
  <2> SUFFICES ASSUME NEW s \in Service, MayRun(s) \/ child[s] = "alive", status'[s] # status[s],
                      IsActive(status[s])
               PROVE  stopped[s] # "no" \/ (~MayRun(s) /\ FailingPoller(s)')
    OBVIOUS
  <2>1. CASE \E p \in Pollers : PollStep(p) \/ CheckPasses(p) \/ CheckFails(p)
    <3>1. PICK p \in Pollers : pc[p] = "fail" /\ s = owner[p] /\ pc'[p] = "code" /\ owner' = owner
      BY <2>1, PcTyped
      DEF PollStep, AwaitFirstLaunch, CheckPasses, WithholdOrRelease, CheckFails, ReportReady,
          ReadinessCancelled, DeadlineElapses, OnReadinessDeadline, FailReadinessStartup,
          FinishIfActive, Goto, TypeInv, TypeOK, ServicesOK
    <3>2. s \in Watched /\ SawLaunch(p)
      BY <3>1 DEF CompletionInv, PollersWatch, SawLaunch
    <3>3. MaxRetries[s] = 0
      BY <3>2, NoRetryWatched
    <3>4. ~MayRun(s)
      BY <3>1, <3>2, <3>3 DEF PollersLate, MayRun
    <3> QED
      BY <3>1, <3>4 DEF FailingPoller
  <2>2. CASE RecoverPanic
    <3>1. s = reaping /\ pc[Loop] = "recover"
      BY <2>2 DEF RecoverPanic, FinishIfActive, TypeInv, TypeOK, ServicesOK
    <3> QED
      BY <3>1 DEF SignalInv, LoopInPlace, LiveHasTask, Lives, ClaimedAtStart, MayRun, Early, Launched
  <2>3. CASE \E t \in Service : NoteTarget(t)
    <3>1. pc[Ui] = "note" /\ s \in todo
      BY <2>3 DEF NoteTarget, FinishIfActive, TypeInv, TypeOK, ServicesOK
    <3> QED
      BY <3>1 DEF MarksNoted, Marked
  <2>4. CASE TakeReadyRestarts
    BY <2>4 DEF TakeReadyRestarts, NoRestarts, TypeInv, TypeOK, ServicesOK
  <2>5. CASE \/ LoopStep /\ ~RecoverPanic /\ ~TakeReadyRestarts
             \/ \E t \in Thread : SetExitCode(t) \/ BeginShutdown(t) \/ CancelAndTerm(t)
    BY <2>5
    DEF LoopStep, SpawnClaimed, EndRunIfIdle, Notified, ReapJoined, DropPanicked, ReapStrays, Exit,
        SetExitCode, BeginShutdown, CancelAndTerm
  <2>6. CASE UiWork /\ ~\E t \in Service : NoteTarget(t)
    BY <2>6 DEF UiWork, MarkSubtreeStopped, SignalSubtree, QueueRestart, EscalateGlobalStop,
        UiRequestExit, ReadStatus, WhenRunning, ForceShutdown, SignalGroups
  <2>7. CASE \/ UiQuit \/ FirstSignal \/ SecondSignal \/ TimerStep
             \/ Rest \/ UNCHANGED vars
             \/ \E q \in Service : UiStop(q) \/ UiRestart(q)
             \/ \E x \in orphans : LeftoverExits(x)
    BY <2>7
    DEF EscalateGlobalStop, UiRequestExit, FirstSignal, SecondSignal, ForceShutdown, TimerStep,
        ShutdownTimer, HardExit, SigkillTimer, StrayTimer, KillStray, Rest, vars, UiStop, UiRestart,
        LeftoverExits, UiQuit, LookForRunning
  <2> QED
    BY <2>1, <2>2, <2>3, <2>4, <2>5, <2>6, <2>7 DEF StepElsewhere
<1>7. \A s \in Service : FailingPoller(s) => FailingPoller(s)' \/ shutting_down'
  BY PollersElsewhere DEF FailingPoller
<1>8. \A s \in Service : AskedFor(s) => AskedFor(s)'
  BY <1>3, <1>4 DEF AskedFor
<1>9. StartersLookActive' /\ LiveLooksActive'
  <2>1. StartersLookActive'
    BY <1>1, <1>4, <1>6, <1>8 DEF StartersLookActive, AskedFor
  <2>2. \A s \in Service : child'[s] = "alive" =>
          IsActive(status'[s]) \/ AskedFor(s)' \/ FailingPoller(s)'
    BY <1>2, <1>4, <1>6, <1>7, <1>8 DEF LiveLooksActive, AskedFor
  <2> QED
    BY <2>1, <2>2 DEF LiveLooksActive
<1>10. \A s \in Service : Cleared(s) => Cleared(s)'
  BY <1>1, <1>2, <1>7, <1>8 DEF Cleared, AskedFor
<1>11. StatusesSeen'
  <2>1. CASE \E q \in Service : ReadStatus(q)
    <3>1. PICK q \in Service : ReadStatus(q)
      BY <2>1
    <3>2. pc'[Ui] = "statuses" => pc[Ui] = "statuses" /\ ~IsActive(status[q]) /\ todo' = todo \ {q}
      BY <3>1, PcTyped DEF ReadStatus, WhenRunning, Goto
    <3>3. ~IsActive(status[q]) => Cleared(q)
      BY DEF StartersLookActive, LiveLooksActive, Cleared
    <3> QED
      BY <1>10, <3>2, <3>3 DEF StatusesSeen
  <2>2. CASE UiWork /\ ~\E q \in Service : ReadStatus(q)
    <3>1. pc'[Ui] # "statuses"
      BY <2>2, PcTyped
      DEF UiWork, MarkSubtreeStopped, SignalSubtree, QueueRestart, EscalateGlobalStop, UiRequestExit,
          NoteTarget, Goto
    <3> QED
      BY <3>1 DEF StatusesSeen
  <2>3. CASE ~UiWork
    BY <1>10, <2>3, UiPlaces DEF StatusesSeen
  <2> QED
    BY <2>1, <2>2, <2>3
<1>12. QuitSeen'
  <2> SUFFICES ASSUME quit_requested', ~shutting_down', ~QuitLooking', NEW s \in Service
               PROVE  Cleared(s)
    BY <1>10 DEF QuitSeen
  <2>1. CASE UiRequestExit
    BY <2>1 DEF UiRequestExit, StatusesSeen
  <2>2. CASE EscalateGlobalStop
    <3>1. pc[Ui] = "stop_all" /\ op' = op /\ quit_requested' = quit_requested
          /\ (pc'[Ui] = "shutdown" \/ global_stopped)
      BY <2>2, PcTyped DEF EscalateGlobalStop, Goto
    <3>2. ~QuitLooking
      BY <1>3, <3>1 DEF QuitLooking, SignalInv, DownFirst
    <3> QED
      BY <1>3, <3>1, <3>2 DEF QuitSeen
  <2>3. CASE UiWork /\ ~UiRequestExit /\ ~EscalateGlobalStop
    <3>1. quit_requested' = quit_requested /\ op' = op
      BY <2>3
      DEF UiWork, MarkSubtreeStopped, NoteTarget, ReadStatus, SignalSubtree, QueueRestart
    <3>2. QuitLooking => QuitLooking'
      BY <2>3, <3>1, PcTyped
      DEF UiWork, MarkSubtreeStopped, NoteTarget, ReadStatus, SignalSubtree, QueueRestart,
          QuitLooking, WhenRunning, Goto
    <3> QED
      BY <1>3, <3>1, <3>2 DEF QuitSeen
  <2>4. CASE ~UiWork
    <3>1. quit_requested \/ (op' = "quit" /\ pc'[Ui] \in {"statuses", "stop_all"})
      <4>1. CASE UiQuit
        BY <4>1, PcTyped DEF UiQuit, LookForRunning, Goto
      <4>2. CASE ~UiQuit
        BY <2>4, <4>2
        DEF StepElsewhere, PollStep, AwaitFirstLaunch, CheckPasses, WithholdOrRelease, CheckFails,
            ReportReady, ReadinessCancelled, DeadlineElapses, OnReadinessDeadline,
            FailReadinessStartup, FirstSignal, SecondSignal, ForceShutdown, UiStop, UiRestart,
            LeftoverExits, Rest, vars, LoopStep, SpawnClaimed, TakeReadyRestarts, EndRunIfIdle,
            Notified, ReapJoined, RecoverPanic, DropPanicked, ReapStrays, Exit, TimerStep,
            ShutdownTimer, HardExit, SigkillTimer, StrayTimer, KillStray, SetExitCode,
            BeginShutdown, CancelAndTerm
      <4> QED
        BY <4>1, <4>2
    <3>2. ~QuitLooking
      <4>1. QuitLooking => pc[Ui] # "idle" /\ pc[Ui] # "cancel"
        BY DEF QuitLooking
      <4>2. pc[Ui] = "shutdown" => pc'[Ui] = "shutdown"
        BY <2>4, UiPlaces
      <4> QED
        BY <2>4, <4>1, <4>2, UiPlaces DEF QuitLooking
    <3> QED
      BY <1>3, <3>1, <3>2 DEF QuitSeen, QuitLooking
  <2> QED
    BY <2>1, <2>2, <2>3, <2>4
<1> QED
  BY <1>5, <1>9, <1>11, <1>12

LEMMA QuitStep ==
  TypeInv /\ HandshakeInv /\ GateInv /\ SignalInv /\ CompletionInv /\ StopInv /\ QuitInv
    /\ [Next]_vars => QuitInv'
<1> SUFFICES ASSUME TypeInv, HandshakeInv, GateInv, SignalInv, CompletionInv, StopInv,
                    QuitInv, [Next]_vars, "restart" \notin Ops
             PROVE  /\ ClaimedAtStart' /\ PollersLate'
                    /\ StartersLookActive' /\ LiveLooksActive'
                    /\ StatusesSeen' /\ QuitSeen'
  BY DEF QuitInv
<1>1. /\ NoRestarts /\ MarksNoted /\ ClaimedAtStart /\ PollersLate
      /\ StartersLookActive /\ LiveLooksActive /\ StatusesSeen /\ QuitSeen
  BY DEF StopInv, QuitInv
<1>2. ASSUME NEW s \in Service, TaskStep(s) \/ TaskPanics(s) \/ ChildExits(s)
      PROVE  /\ ClaimedAtStart' /\ PollersLate'
             /\ StartersLookActive' /\ LiveLooksActive'
             /\ StatusesSeen' /\ QuitSeen'
  <2>1. /\ UNCHANGED <<claimed, stopped, shutting_down, quit_requested, op, todo>>
        /\ pc'[Ui] = pc[Ui] /\ pc'[Loop] = pc[Loop]
    BY <1>2, TaskLocal
  <2>2. ClaimedAtStart'
    BY <1>1, <2>1 DEF ClaimedAtStart
  <2>3. \A q \in Service : MayRun(q)' => MayRun(q) /\ (status'[q] = status[q] \/ status'[q] = "Running")
    BY <1>2, QuitTask, TaskLocal DEF MayRun
  <2>4. \A q \in Service : child'[q] = "alive" => child[q] = "alive" \/ MayRun(q)
    BY <1>2, QuitTask, TaskLocal
  <2>5. StartersLookActive'
    BY <1>1, <2>1, <2>3 DEF StartersLookActive, IsActive, AskedFor
  <2>6. \A q \in Service : AskedFor(q)' = AskedFor(q) /\ (FailingPoller(q) => FailingPoller(q)')
    BY <1>2, <2>1, FailingTask DEF AskedFor
  <2>7. LiveLooksActive'
    <3> SUFFICES ASSUME NEW q \in Service, child'[q] = "alive"
                 PROVE  IsActive(status'[q]) \/ AskedFor(q)' \/ FailingPoller(q)'
      BY DEF LiveLooksActive
    <3>1. IsActive(status[q]) \/ AskedFor(q) \/ FailingPoller(q)
      BY <1>1, <2>4 DEF LiveLooksActive, StartersLookActive
    <3>2. status'[q] = status[q] \/ status'[q] = "Running"
      BY <1>2, QuitTask, TaskLocal
    <3> QED
      BY <2>6, <3>1, <3>2 DEF IsActive
  <2>8. \A q \in Service : Cleared(q) => Cleared(q)'
    BY <2>3, <2>4, <2>6 DEF Cleared
  <2>9. StatusesSeen' /\ QuitSeen'
    BY <1>1, <2>1, <2>8 DEF StatusesSeen, QuitSeen, QuitLooking
  <2> QED
    BY <1>1, <1>2, <2>2, <2>5, <2>7, <2>9, LateTask
<1> QED
  BY <1>1, <1>2, StepsSplit, LateElsewhere, QuitElsewhere

\* Without restarts a mark is for good, and for a whole subtree.
THEOREM StopInvariant == Spec => []StopInv
  BY TypeInvariant, HandshakeInvariant, GateInvariant, SignalInvariant, StopInit, StopStep, PTL DEF Spec

\* control.rs:note_subtree, exit.rs:classify_exit: a finished task leaves nobody parked on its
\* gate, however its end raced the stop that ended it.
THEOREM FinishedResolved == Spec => []("restart" \notin Ops => FinishedMeansResolved)
<1>1. StopInv => ("restart" \notin Ops => FinishedMeansResolved)
  BY DEF StopInv, EndsResolved, FinishedMeansResolved, MarkedByNow
<1> QED
  BY <1>1, StopInvariant, PTL

\* control.rs:mark_subtree_stopped, note_subtree: when a stop is over, every service it covers
\* is settled and its gate resolved, whatever each was doing.
THEOREM StopsSeen == Spec => []StopSeen
<1>1. StopInv => StopSeen
  BY DEF StopInv, MarksNoted, Marked, MarkedByNow, StopSeen
<1> QED
  BY <1>1, StopInvariant, PTL

\* What can still start looks active, so that a quit that goes by the looks misses nobody.
THEOREM QuitInvariant == Spec => []QuitInv
  BY TypeInvariant, HandshakeInvariant, GateInvariant, SignalInvariant, CompletionInvariant,
     StopInvariant, QuitInit, QuitStep, PTL DEF Spec

\* input.rs:request_exit, mod.rs:any_running: a quit that finds nothing to stop, reading one
\* status after the other, leaves no process that nobody asked to end, now or later, but one
\* whose readiness has failed, which a shutdown ends.
THEOREM QuitsStopAll == Spec => []QuitStopsAll
<1>1. QuitInv => QuitStopsAll
  BY DEF QuitInv, QuitSeen, QuitLooking, Cleared, AskedFor, FailingPoller, QuitStopsAll
<1> QED
  BY <1>1, QuitInvariant, PTL

-----------------------------------------------------------------------------
(* The code of a readiness failure.                                         *)

\* Nothing but a readiness failure ends with the code 1 here: no spawn fails, no task panics,
\* nobody forces the exit, and no service exits with it or completes too soon. (A restart
\* takes the failed status back, and is left out.)
IsOne(e) == e.kind # "signal" /\ e.n = 1
OnlyTimeoutsEndInOne ==
  /\ SpawnFails = {} /\ Panics = {} /\ MaxSignals < 2
  /\ MaxOps < 2 /\ Ops \cap {"global", "restart"} = {}
  /\ \A s \in Service :
       /\ ReadyWhen[s] # "ExpectedExit"
       /\ \A e \in SelfExits[s] \cup TermExits[s] : ~IsOne(e)

\* The one call asks to exit once.
OneCall ==
  /\ ops = 0 => pc[Ui] = "idle" /\ ~quit_requested
  /\ quit_requested => pc[Ui] # "statuses"

\* A failed service is over, and a poller that fails the run has failed its service first.
CulpritKnown ==
  /\ ~force_exit /\ OneCall
  /\ pc[Loop] \notin {"recover", "drop", "code"}
  /\ \A s \in Service : ~IsOne(exit[s]) /\ pc[s] # "panicked"
  /\ \A s \in Service : status[s] = "Failed" => ~MayRun(s)
  /\ \A p \in Pollers : pc[p] = "code" => status[owner[p]] = "Failed"
  /\ TimeoutHasCulprit
CulpritInv == OnlyTimeoutsEndInOne => CulpritKnown

LEMMA CulpritInit == Init => CulpritInv
  BY ThreadAssumption
  DEF Init, CulpritInv, CulpritKnown, OneCall, TimeoutHasCulprit, IsOne, Thread

LEMMA CulpritTask ==
  ASSUME TypeInv, SignalInv, CompletionInv, OnlyTimeoutsEndInOne, CulpritKnown,
         NEW s \in Service, TaskStep(s) \/ TaskPanics(s) \/ ChildExits(s)
  PROVE  CulpritKnown'
<1>1. ~TaskPanics(s) /\ ~SpawnFailure(s)
  BY DEF TaskPanics, SpawnFailure, OnlyTimeoutsEndInOne
<1>2. ~force_exit' /\ OneCall' /\ exit_code' = exit_code /\ pc'[Loop] = pc[Loop]
  BY TaskLocal DEF CulpritKnown, OneCall
<1>3. \A q \in Service : ~IsOne(exit'[q]) /\ pc'[q] # "panicked"
  <2>1. ~IsOne(exit'[s])
    <3>1. CASE ChildExits(s)
      <4>1. PICK e \in SelfExits[s] \cup TermExits[s] \cup {[kind |-> "signal", n |-> 9]} :
              exit' = [exit EXCEPT ![s] = e]
        BY <3>1 DEF ChildExits
      <4>2. ~IsOne(e)
        BY <4>1 DEF IsOne, OnlyTimeoutsEndInOne
      <4> QED
        BY <4>1, <4>2 DEF TypeInv, TypeOK, TasksOK
    <3>2. CASE ~ChildExits(s)
      <4>1. exit' = exit
        BY <1>1, <3>2
        DEF TaskStep, AwaitDep, BeginAttempts, Abandon, Attempt, SpawnChild, RegisterGroup,
          SignalLate, ReleaseDependents, ReapChild, DeregisterGroup, SweepGroup, SettleExpected,
          ReleaseCompleted, ClassifyExit, SettleTerminally, FinishTask
      <4> QED
        BY <4>1 DEF CulpritKnown
    <3> QED
      BY <3>1, <3>2
  <2>2. pc'[s] # "panicked"
    <3>1. CASE BeginAttempts(s) \/ FinishTask(s)
      BY <3>1, PcTyped DEF BeginAttempts, FinishTask, Goto, CulpritKnown
    <3>2. CASE ~(BeginAttempts(s) \/ FinishTask(s))
      BY <1>1, <3>2, PcTyped
      DEF TaskStep, AwaitDep, Abandon, Attempt, SpawnChild, RegisterGroup, OnRegistration,
        SignalLate, ReleaseDependents, ReapChild, DeregisterGroup, SweepGroup, SettleExpected,
        ReleaseCompleted, ClassifyExit, SettleTerminally, ChildExits, RetryOrSettle, Goto, CulpritKnown
    <3> QED
      BY <3>1, <3>2
  <2> QED
    BY <2>1, <2>2, TaskLocal DEF CulpritKnown
<1>4. \A q \in Service : status[q] = "Failed" => status'[q] = "Failed"
  <2>1. status[s] = "Failed" => status'[s] = "Failed"
    <3>1. CASE RegisterGroup(s)
      BY <3>1 DEF RegisterGroup, CulpritKnown, MayRun, Early
    <3>2. CASE Abandon(s) \/ SettleExpected(s) \/ ClassifyExit(s) \/ SettleTerminally(s)
      BY <3>2
      DEF Abandon, SettleExpected, ClassifyExit, SettleTerminally, FinishIfActive, IsActive,
        TypeInv, TypeOK, ServicesOK
    <3>3. CASE ~(RegisterGroup(s) \/ Abandon(s) \/ SettleExpected(s) \/ ClassifyExit(s) \/ SettleTerminally(s))
      <4>1. status' = status
        BY <3>3
        DEF TaskStep, AwaitDep, BeginAttempts, Attempt, SpawnFailure, SpawnChild, SignalLate,
          ReleaseDependents, ReapChild, DeregisterGroup, SweepGroup, ReleaseCompleted, FinishTask,
          TaskPanics, ChildExits
      <4> QED
        BY <4>1
    <3> QED
      BY <3>1, <3>2, <3>3
  <2> QED
    BY <2>1, TaskLocal
<1>5. \A q \in Service : status'[q] = "Failed" => ~MayRun(q)'
  <2>1. CASE SettleTerminally(s)
    <3>1. pc[s] = "terminal" /\ pc'[s] = "code" /\ claimed' = claimed
      BY <2>1, PcTyped, TaskLocal DEF SettleTerminally, Goto
    <3>2. ~MayRun(s)'
      BY <3>1 DEF MayRun, Early, Launched, CompletionInv, ClaimedIdle
    <3>3. \A q \in Service : q # s => status'[q] = status[q] /\ (MayRun(q)' => MayRun(q))
      BY TaskLocal DEF MayRun
    <3> QED
      BY <3>2, <3>3 DEF CulpritKnown
  <2>2. CASE ~SettleTerminally(s)
    <3>1. MayRun(s)' => MayRun(s)
      BY QuitTask
    <3>2. status'[s] = "Failed" => status[s] = "Failed"
      <4>1. CASE RegisterGroup(s) \/ Abandon(s) \/ SettleExpected(s) \/ ClassifyExit(s)
        BY <4>1
        DEF RegisterGroup, Abandon, SettleExpected, ClassifyExit, FinishIfActive, IsActive,
          TypeInv, TypeOK, ServicesOK
      <4>2. CASE ~(RegisterGroup(s) \/ Abandon(s) \/ SettleExpected(s) \/ ClassifyExit(s))
        <5>1. status' = status
          BY <2>2, <4>2
          DEF TaskStep, AwaitDep, BeginAttempts, Attempt, SpawnFailure, SpawnChild, SignalLate,
            ReleaseDependents, ReapChild, DeregisterGroup, SweepGroup, ReleaseCompleted, FinishTask,
            TaskPanics, ChildExits
        <5> QED
          BY <5>1
      <4> QED
        BY <4>1, <4>2
    <3>3. \A q \in Service : q # s => status'[q] = status[q] /\ (MayRun(q)' => MayRun(q))
      BY TaskLocal DEF MayRun
    <3> QED
      BY <3>1, <3>2, <3>3 DEF CulpritKnown
  <2> QED
    BY <2>1, <2>2
<1>6. \A p \in Pollers : pc'[p] = "code" => pc[p] = "code" /\ owner'[p] = owner[p]
  <2>1. CASE BeginAttempts(s)
    BY <2>1, PcTyped DEF BeginAttempts, Goto, TypeInv, TypeOK, PollersOK
  <2>2. CASE ~BeginAttempts(s)
    <3>1. owner' = owner
      BY <2>2
      DEF TaskStep, AwaitDep, Abandon, Attempt, SpawnFailure, SpawnChild, RegisterGroup,
        SignalLate, ReleaseDependents, ReapChild, DeregisterGroup, SweepGroup, SettleExpected,
        ReleaseCompleted, ClassifyExit, SettleTerminally, FinishTask, TaskPanics, ChildExits
    <3> QED
      BY <3>1, TaskLocal
  <2> QED
    BY <2>1, <2>2
<1>7. \A p \in Pollers : pc[p] = "code" => owner[p] \in Service
  BY DEF CompletionInv, PollersWatch, Watched
<1>8. \A p \in Pollers : pc'[p] = "code" => status'[owner'[p]] = "Failed"
  BY <1>4, <1>6, <1>7 DEF CulpritKnown
<1>9. TimeoutHasCulprit'
  BY <1>2, <1>4 DEF CulpritKnown, TimeoutHasCulprit
<1> QED
  BY <1>2, <1>3, <1>5, <1>8, <1>9 DEF CulpritKnown

\* Elsewhere only a poller fails a service, and it does so before it records the code.
LEMMA CulpritElsewhere ==
  ASSUME TypeInv, HandshakeInv, GateInv, SignalInv, CompletionInv, NoRestarts, PollersLate,
         OnlyTimeoutsEndInOne, CulpritKnown, StepElsewhere
  PROVE  CulpritKnown'
<1>1. exit' = exit
  BY ElsewhereKeeps
<1>2. \A s \in Service : MayRun(s)' => MayRun(s)
  <2>1. claimed' \in {claimed, {}}
    BY NothingRearmed
  <2> QED
    BY <2>1, ElsewherePlaces DEF MayRun, Early, Launched
<1>3. \A s \in Service : pc'[s] # "panicked"
  BY ElsewherePlaces DEF CulpritKnown
<1>4. \A s \in Service : status[s] = "Failed" => status'[s] = "Failed"
  <2>1. CASE TakeReadyRestarts
    BY <2>1 DEF TakeReadyRestarts, NoRestarts
  <2>2. CASE \E p \in Pollers : PollStep(p) \/ CheckPasses(p) \/ CheckFails(p)
    BY <2>2
    DEF PollStep, AwaitFirstLaunch, CheckPasses, WithholdOrRelease, CheckFails, ReportReady,
        ReadinessCancelled, DeadlineElapses, OnReadinessDeadline, FailReadinessStartup,
        FinishIfActive, IsActive, TypeInv, TypeOK, ServicesOK
  <2>3. CASE \E t \in Service : NoteTarget(t)
    BY <2>3 DEF NoteTarget, FinishIfActive, IsActive, TypeInv, TypeOK, ServicesOK
  <2>4. CASE RecoverPanic
    BY <2>4 DEF RecoverPanic, FinishIfActive, IsActive, TypeInv, TypeOK, ServicesOK
  <2>5. CASE /\ ~TakeReadyRestarts /\ ~RecoverPanic
             /\ ~\E p \in Pollers : PollStep(p) \/ CheckPasses(p) \/ CheckFails(p)
             /\ ~\E t \in Service : NoteTarget(t)
    <3>1. status' = status
      BY <2>5
      DEF StepElsewhere, EscalateGlobalStop, UiRequestExit, UiWork, MarkSubtreeStopped,
          SignalSubtree, QueueRestart, FirstSignal, SecondSignal, ForceShutdown, UiStop, UiRestart,
          LeftoverExits, Rest, vars, LoopStep, SpawnClaimed, EndRunIfIdle, Notified, ReapJoined,
          DropPanicked, ReapStrays, Exit, TimerStep, ShutdownTimer, HardExit, SigkillTimer,
          StrayTimer, KillStray, SetExitCode, BeginShutdown, CancelAndTerm, ReadStatus, WhenRunning,
          SignalGroups, UiQuit, LookForRunning
    <3> QED
      BY <3>1
  <2> QED
    BY <2>1, <2>2, <2>3, <2>4, <2>5
<1>5. \A s \in Service : status'[s] = "Failed" => status[s] = "Failed" \/ ~MayRun(s)
  <2> SUFFICES ASSUME NEW s \in Service, status'[s] = "Failed", status[s] # "Failed"
               PROVE  ~MayRun(s)
    OBVIOUS
  <2>1. CASE TakeReadyRestarts
    BY <2>1 DEF TakeReadyRestarts, NoRestarts
  <2>2. CASE \E p \in Pollers : PollStep(p) \/ CheckPasses(p) \/ CheckFails(p)
    <3>1. PICK p \in Pollers : pc[p] = "fail" /\ s = owner[p]
      BY <2>2
      DEF PollStep, AwaitFirstLaunch, CheckPasses, WithholdOrRelease, CheckFails, ReportReady,
          ReadinessCancelled, DeadlineElapses, OnReadinessDeadline, FailReadinessStartup,
          FinishIfActive, TypeInv, TypeOK, ServicesOK
    <3>2. s \in Watched /\ SawLaunch(p)
      BY <3>1 DEF CompletionInv, PollersWatch, SawLaunch
    <3>3. MaxRetries[s] = 0
      BY <3>2, NoRetryWatched
    <3> QED
      BY <3>1, <3>2, <3>3 DEF PollersLate, MayRun
  <2>3. CASE \E t \in Service : NoteTarget(t)
    BY <2>3 DEF NoteTarget, FinishIfActive, IsActive, TypeInv, TypeOK, ServicesOK
  <2>4. CASE RecoverPanic
    BY <2>4 DEF RecoverPanic, CulpritKnown
  <2>5. CASE /\ ~TakeReadyRestarts /\ ~RecoverPanic
             /\ ~\E p \in Pollers : PollStep(p) \/ CheckPasses(p) \/ CheckFails(p)
             /\ ~\E t \in Service : NoteTarget(t)
    <3>1. status' = status
      BY <2>5
      DEF StepElsewhere, EscalateGlobalStop, UiRequestExit, UiWork, MarkSubtreeStopped,
          SignalSubtree, QueueRestart, FirstSignal, SecondSignal, ForceShutdown, UiStop, UiRestart,
          LeftoverExits, Rest, vars, LoopStep, SpawnClaimed, EndRunIfIdle, Notified, ReapJoined,
          DropPanicked, ReapStrays, Exit, TimerStep, ShutdownTimer, HardExit, SigkillTimer,
          StrayTimer, KillStray, SetExitCode, BeginShutdown, CancelAndTerm, ReadStatus, WhenRunning,
          SignalGroups, UiQuit, LookForRunning
    <3> QED
      BY <3>1
  <2> QED
    BY <2>1, <2>2, <2>3, <2>4, <2>5
<1>6. \A s \in Service : status'[s] = "Failed" => ~MayRun(s)'
  BY <1>2, <1>5 DEF CulpritKnown
<1>7. ~force_exit' /\ OneCall'
  <2>1. ~SecondSignal /\ ~UiQuit /\ \A q \in Service : ~UiRestart(q)
    BY DEF SecondSignal, UiQuit, UiRestart, OnlyTimeoutsEndInOne
  <2>2. CASE UiWork
    <3>1. pc[Ui] # "idle" /\ ops' = ops /\ (ops = 0 => pc[Ui] = "idle")
      BY <2>2
      DEF UiWork, MarkSubtreeStopped, NoteTarget, ReadStatus, SignalSubtree, QueueRestart,
          EscalateGlobalStop, ForceShutdown, UiRequestExit, CulpritKnown, OneCall
    <3>2. CASE UiRequestExit
      <4>1. ~quit_requested
        BY <3>2 DEF UiRequestExit, CulpritKnown, OneCall
      <4> QED
        BY <3>1, <3>2, <4>1, PcTyped DEF UiRequestExit, Goto, CulpritKnown, OneCall
    <3>3. CASE ~UiRequestExit
      <4>1. quit_requested' = quit_requested /\ (pc'[Ui] = "statuses" => pc[Ui] = "statuses")
        BY <2>2, <3>3, PcTyped
        DEF UiWork, MarkSubtreeStopped, NoteTarget, ReadStatus, SignalSubtree, QueueRestart,
            EscalateGlobalStop, WhenRunning, Goto
      <4>2. force_exit' = force_exit
        BY <2>2, <3>3
        DEF UiWork, MarkSubtreeStopped, NoteTarget, ReadStatus, SignalSubtree, QueueRestart,
            EscalateGlobalStop, ForceShutdown
      <4> QED
        BY <3>1, <4>1, <4>2 DEF CulpritKnown, OneCall
    <3> QED
      BY <3>2, <3>3
  <2>3. ASSUME NEW q \in Service, UiStop(q) PROVE ~force_exit' /\ OneCall'
    <3>1. ops = 0 /\ ops' = 1
      BY <2>3, ConfigAssumption DEF UiStop, OnlyTimeoutsEndInOne, TypeInv, TypeOK, UiOK
    <3> QED
      BY <2>3, <3>1 DEF UiStop, CulpritKnown, OneCall
  <2>4. CASE ~UiWork /\ ~\E q \in Service : UiStop(q)
    <3>1. UNCHANGED <<force_exit, quit_requested, ops>>
      BY <2>1, <2>4
      DEF StepElsewhere, PollStep, AwaitFirstLaunch, CheckPasses, WithholdOrRelease,
          CheckFails, ReportReady, ReadinessCancelled, DeadlineElapses, OnReadinessDeadline,
          FailReadinessStartup, FirstSignal, LeftoverExits, Rest, vars, LoopStep, SpawnClaimed,
          TakeReadyRestarts, EndRunIfIdle, Notified, ReapJoined, RecoverPanic, DropPanicked,
          ReapStrays, Exit, TimerStep, ShutdownTimer, HardExit, SigkillTimer, StrayTimer,
          KillStray, SetExitCode, BeginShutdown, CancelAndTerm
    <3>2. pc'[Ui] = pc[Ui] \/ pc'[Ui] \in {"cancel", "idle"}
      BY <2>4, <3>1, UiPlaces DEF TypeInv, TypeOK, UiOK
    <3>3. pc[Ui] = "idle" => pc'[Ui] = "idle"
      BY <2>4, <3>1, UiPlaces DEF TypeInv, TypeOK, UiOK
    <3> QED
      BY <3>1, <3>2, <3>3 DEF CulpritKnown, OneCall
  <2> QED
    BY <2>2, <2>3, <2>4
<1>8. /\ pc'[Loop] \notin {"recover", "drop", "code"}
      /\ \A p \in Pollers : pc'[p] = "code" =>
           owner'[p] = owner[p] /\ (pc[p] = "code" \/ FailReadinessStartup(p))
  <2>1. CASE \E p \in Pollers : PollStep(p) \/ CheckPasses(p) \/ CheckFails(p)
    BY <2>1, PcTyped
    DEF PollStep, AwaitFirstLaunch, CheckPasses, WithholdOrRelease, CheckFails, ReportReady,
        ReadinessCancelled, DeadlineElapses, OnReadinessDeadline, FailReadinessStartup, Goto,
        CulpritKnown
  <2>2. CASE \E t \in Thread : SetExitCode(t) \/ BeginShutdown(t) \/ CancelAndTerm(t)
    BY <2>2, PcTyped DEF SetExitCode, BeginShutdown, CancelAndTerm, Goto, AfterShutdown, CulpritKnown
  <2>3. CASE LoopStep
    <3>1. CASE SpawnClaimed
      BY <3>1, PcTyped DEF SpawnClaimed, AwaitNext, TypeInv, TypeOK, LoopOK, CulpritKnown
    <3>2. CASE \E q \in Service : ReapJoined(q)
      BY <3>2, PcTyped DEF ReapJoined, CulpritKnown
    <3>3. CASE TakeReadyRestarts \/ EndRunIfIdle \/ Notified \/ ReapStrays \/ Exit
      BY <3>3, PcTyped
      DEF TakeReadyRestarts, EndRunIfIdle, Notified, ReapStrays, Exit, AwaitNext, Goto, CulpritKnown
    <3>4. ~RecoverPanic /\ ~DropPanicked
      BY DEF RecoverPanic, DropPanicked, CulpritKnown
    <3> QED
      BY <2>3, <3>1, <3>2, <3>3, <3>4 DEF LoopStep
  <2>4. CASE UiWork \/ UiQuit \/ \E q \in Service : UiStop(q) \/ UiRestart(q)
    BY <2>4, PcTyped
    DEF UiWork, MarkSubtreeStopped, NoteTarget, SignalSubtree, QueueRestart, EscalateGlobalStop,
        UiRequestExit, ForceShutdown, UiStop, UiRestart, Goto, CulpritKnown, ReadStatus,
        WhenRunning, SignalGroups, UiQuit, LookForRunning
  <2>5. CASE \/ FirstSignal \/ SecondSignal \/ TimerStep \/ Rest \/ UNCHANGED vars
             \/ \E x \in orphans : LeftoverExits(x)
    BY <2>5, PcTyped
    DEF FirstSignal, SecondSignal, ForceShutdown, TimerStep, ShutdownTimer, HardExit, SigkillTimer,
        StrayTimer, KillStray, Rest, vars, LeftoverExits, Goto, CulpritKnown
  <2> QED
    BY <2>1, <2>2, <2>3, <2>4, <2>5 DEF StepElsewhere
<1>9. ASSUME NEW p \in Pollers, pc'[p] = "code" PROVE status'[owner'[p]] = "Failed"
  <2>1. owner'[p] = owner[p] /\ (pc[p] = "code" \/ FailReadinessStartup(p))
    BY <1>8, <1>9
  <2>2. CASE pc[p] = "code"
    BY <1>4, <2>1, <2>2 DEF CulpritKnown, CompletionInv, PollersWatch, Watched
  <2>3. CASE FailReadinessStartup(p)
    <3>1. IsActive(status[owner[p]]) /\ owner[p] \in Service
      BY <1>9, <2>3, PcTyped
      DEF FailReadinessStartup, Goto, CompletionInv, PollersWatch, Watched
    <3> QED
      BY <2>1, <2>3, <3>1 DEF FailReadinessStartup, FinishIfActive, TypeInv, TypeOK, ServicesOK
  <2> QED
    BY <2>1, <2>2, <2>3
<1>10. TimeoutHasCulprit'
  <2> SUFFICES ASSUME exit_code' = 1 PROVE \E s \in Service : status'[s] = "Failed"
    BY DEF TimeoutHasCulprit
  <2>1. CASE exit_code = 1
    BY <1>4, <2>1 DEF CulpritKnown, TimeoutHasCulprit
  <2>2. CASE exit_code # 1
    <3>1. ~HardExit
      BY DEF HardExit, CulpritKnown
    <3>2. PICK t \in Thread : SetExitCode(t)
      BY <2>2, <3>1
      DEF StepElsewhere, PollStep, AwaitFirstLaunch, CheckPasses, WithholdOrRelease, CheckFails,
          ReportReady, ReadinessCancelled, DeadlineElapses, OnReadinessDeadline,
          FailReadinessStartup, EscalateGlobalStop, UiRequestExit, UiWork, MarkSubtreeStopped,
          NoteTarget, SignalSubtree, QueueRestart, FirstSignal, SecondSignal, ForceShutdown, UiStop,
          UiRestart, LeftoverExits, Rest, vars, LoopStep, SpawnClaimed, TakeReadyRestarts,
          EndRunIfIdle, Notified, ReapJoined, RecoverPanic, DropPanicked, ReapStrays, Exit,
          TimerStep, ShutdownTimer, SigkillTimer, StrayTimer, KillStray, BeginShutdown,
          CancelAndTerm, ReadStatus, WhenRunning, SignalGroups, UiQuit, LookForRunning
    <3>3. pc[t] = "code" /\ FailCode(t) = 1 /\ status' = status
      BY <2>2, <3>2 DEF SetExitCode, RecordedCode
    <3>4. CASE t \in Service
      <4>1. ResultCode(t) = 1
        BY <3>3, <3>4 DEF FailCode
      <4>2. exit[t].n \in Nat
        BY <3>4 DEF TypeInv, TypeOK, TasksOK, ExitStatus
      <4>3. ~(exit[t].kind # "signal" /\ exit[t].n = 1) /\ ReadyWhen[t] # "ExpectedExit"
        BY <3>4 DEF CulpritKnown, IsOne, OnlyTimeoutsEndInOne
      <4> QED
        BY <4>1, <4>2, <4>3 DEF ResultCode
    <3>5. CASE t \in Pollers
      BY <3>3, <3>5 DEF CulpritKnown, CompletionInv, PollersWatch, Watched
    <3>6. CASE t \in {Ui, Sig, Loop}
      BY <3>3, <3>6 DEF CulpritKnown, TypeInv, TypeOK, LabelsOK, UiLabels, SigLabels
    <3> QED
      BY <3>4, <3>5, <3>6 DEF Thread
  <2> QED
    BY <2>1, <2>2
<1> QED
  BY <1>1, <1>3, <1>6, <1>7, <1>8, <1>9, <1>10 DEF CulpritKnown

\* Where only timeouts end with the code 1, their services are failed and stay so.
THEOREM CulpritInvariant == Spec => []CulpritInv
<1>1. /\ TypeInv /\ HandshakeInv /\ GateInv /\ SignalInv /\ CompletionInv /\ StopInv /\ QuitInv
      /\ CulpritInv /\ [Next]_vars
      => CulpritInv'
  <2> SUFFICES ASSUME TypeInv, HandshakeInv, GateInv, SignalInv, CompletionInv, StopInv, QuitInv,
                      CulpritInv, [Next]_vars, OnlyTimeoutsEndInOne
               PROVE  CulpritKnown'
    BY DEF CulpritInv
  <2>1. NoRestarts /\ PollersLate /\ CulpritKnown
    BY DEF StopInv, QuitInv, CulpritInv, OnlyTimeoutsEndInOne
  <2> QED
    BY <2>1, StepsSplit, CulpritTask, CulpritElsewhere
<1> QED
  BY <1>1, TypeInvariant, HandshakeInvariant, GateInvariant, SignalInvariant, CompletionInvariant,
     StopInvariant, QuitInvariant, CulpritInit, PTL DEF Spec

\* readiness.rs:fail_readiness_startup: a stop or an exit that races a readiness timeout wins; a
\* run that reports the timeout's code 1 has a service that failed to get ready.
THEOREM TimeoutsHaveCulprits == Spec => [](OnlyTimeoutsEndInOne => TimeoutHasCulprit)
<1>1. CulpritInv => (OnlyTimeoutsEndInOne => TimeoutHasCulprit)
  BY DEF CulpritInv, CulpritKnown
<1> QED
  BY <1>1, CulpritInvariant, PTL

=============================================================================
