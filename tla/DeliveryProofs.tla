---------------------------- MODULE DeliveryProofs ----------------------------
(* That no process escapes a stop, the shutdown or the SIGKILL sweep, however *)
(* its registration races them, that SIGTERM is always followed up, and that every *)
(* leftover group is on somebody's list: for every configuration, topology    *)
(* and bound.                                                                 *)
EXTENDS PromiseProofs

-----------------------------------------------------------------------------
(* What has reached a process, by where its task is.                       *)

Registered == {"send_kill", "send_term", "send_term_escalate", "release", "wait"}

\* The registered group is the last launched; it outlives its task only until the
\* run loop has recovered the task's panic.
GroupsCurrent ==
  \A s \in Service :
    /\ groups[s] # 0 => /\ groups[s] = pid[s]
                        /\ pc[s] \in Registered \cup {"deregister", "panicked", "none"}
    /\ groups[s] # 0 /\ pc[s] = "none" =>
         pc[Loop] = "exited" \/ (pc[Loop] \in {"recover", "drop"} /\ reaping = s)
    /\ pc[s] \in Registered \cup {"deregister"} => groups[s] = pid[s]

\* The task whose panic is being recovered is gone.
RecoveredIsGone ==
  pc[Loop] \in {"recover", "drop"} => reaping \in Service /\ pc[reaping] = "none"

\* A process that has yet to register is known to nobody.
EarlyUntold ==
  \A s \in Service :
    pc[s] = "register" => child[s] # "termed" /\ <<s, pid[s]>> \notin sigkills \cup pids

FlagsInOrder ==
  /\ grace = "fired" => killed
  /\ \A s \in Service : pc[s] = "send_term" => shutting_down

\* The sweep has killed every process registered by then; a later one kills itself.
SweepReached ==
  killed => \A s \in Service : pc[s] \in Registered \ {"send_kill"} => ~Lives(s)

\* A signal of the shutdown, or of a stop whose call is over, has come or was sent late.
Reached(s) == pc[s] \in {"release", "wait"} => child[s] # "alive"
ShutdownReached == grace # "off" => \A s \in Service : Reached(s)
InStop == pc[Ui] \in {"note", "term", "kill"}
StopReached ==
  \A s \in Service :
    stopped[s] # "no" => Reached(s) \/ (InStop /\ <<s, pid[s]>> \in pids)

DeliveryInv ==
  /\ GroupsCurrent /\ RecoveredIsGone /\ EarlyUntold /\ FlagsInOrder /\ SweepReached
  /\ ShutdownReached /\ StopReached /\ EscalationPending

LEMMA DeliveryInit == Init => DeliveryInv
  BY ThreadAssumption
  DEF Init, DeliveryInv, GroupsCurrent, RecoveredIsGone, EarlyUntold, FlagsInOrder, SweepReached, ShutdownReached,
      StopReached, Reached, EscalationPending, Registered, Lives, SendsLate, Thread

USE DEF taskFrame, pollFrame, uiFrame, loopFrame, downFrame, timerFrame, flagVars, restartVars,
        svcVars, loopVars, taskVars, procVars, pollVars, quitVars, uiVars, timerVars, strayVars

-----------------------------------------------------------------------------
(* Steps that signal nobody and bring nobody up.                           *)

\* A process may end or be reaped, a mark be forgiven, the flag be set; a task leaves
\* the launch at its end only.
Gentle ==
  /\ UNCHANGED <<killed, grace, pid, sigkills, pids>>
  /\ shutting_down => shutting_down'
  /\ InStop => InStop'
  /\ \A s \in Service :
       /\ stopped'[s] # "no" => stopped[s] # "no"
       /\ child'[s] = child[s] \/ child'[s] \in {"killed", "dead", "none"}
       /\ \/ pc'[s] = pc[s]
          \/ pc[s] = "release" /\ pc'[s] = "wait"
          \/ /\ pc'[s] \notin Registered \cup {"register"}
             /\ SendsLate(s) => ~Lives(s)'
             /\ pc'[s] = "deregister" => pc[s] \in Registered
       /\ groups'[s] = groups[s] \/ (groups'[s] = 0 /\ pc'[s] \notin Registered \cup {"deregister"})

\* Where a group may be registered.
HasPlace(s) ==
  \/ pc[s] \in Registered \cup {"deregister", "panicked"}
  \/ pc[s] = "none" /\ (pc[Loop] = "exited" \/ (pc[Loop] \in {"recover", "drop"} /\ reaping = s))

LEMMA GentleKeeps ==
  ASSUME TypeInv, DeliveryInv, Gentle, RecoveredIsGone',
         \A s \in Service : groups'[s] # 0 => HasPlace(s)'
  PROVE  DeliveryInv'
<1>1. GroupsCurrent'
  BY DEF DeliveryInv, GroupsCurrent, Gentle, HasPlace, Registered
<1>2. EarlyUntold' /\ FlagsInOrder'
  BY DEF DeliveryInv, EarlyUntold, FlagsInOrder, Gentle, Registered
<1>3. SweepReached' /\ ShutdownReached' /\ StopReached'
  BY DEF DeliveryInv, SweepReached, ShutdownReached, StopReached, Reached, Gentle, Registered, Lives
<1>4. EscalationPending'
  BY DEF DeliveryInv, EscalationPending, Gentle, SendsLate, Registered, Lives
<1> QED
  BY <1>1, <1>2, <1>3, <1>4 DEF DeliveryInv

\* Steps that leave the groups where they are, and the loop where it is in a recovery.
LEMMA PlacesKept ==
  ASSUME TypeInv, DeliveryInv, groups' = groups, reaping' = reaping,
         \/ pc'[Loop] \in {pc[Loop], "exited"}
         \/ {pc[Loop], pc'[Loop]} \cap {"recover", "drop", "exited"} = {},
         \A s \in Service :
           \/ pc'[s] = pc[s]
           \/ pc[s] # "none" /\ pc'[s] \in Registered \cup {"deregister", "panicked"}
           \/ pc[s] \notin Registered \cup {"deregister", "panicked", "none"}
  PROVE  RecoveredIsGone' /\ \A s \in Service : groups'[s] # 0 => HasPlace(s)'
  BY DEF DeliveryInv, GroupsCurrent, RecoveredIsGone, HasPlace, Registered

LEMMA GentleTask ==
  ASSUME TypeInv, DeliveryInv, NEW s \in Service,
         \/ AwaitDep(s) \/ BeginAttempts(s) \/ Abandon(s) \/ Attempt(s) \/ SpawnFailure(s)
         \/ ReleaseDependents(s) \/ SweepGroup(s) \/ SettleExpected(s) \/ ReleaseCompleted(s)
         \/ ClassifyExit(s) \/ SettleTerminally(s) \/ FinishTask(s)
  PROVE  DeliveryInv'
<1>1. UNCHANGED <<shutting_down, killed, grace, stopped, child, groups, pid, sigkills, pids, reaping>>
  BY DEF AwaitDep, BeginAttempts, Abandon, Attempt, SpawnFailure, ReleaseDependents, SweepGroup,
     SettleExpected, ReleaseCompleted, ClassifyExit, SettleTerminally, FinishTask
<1>2. \A t \in Thread : t # s => pc'[t] = pc[t] \/ t \in Pollers
  <2>1. CASE BeginAttempts(s)
    BY <2>1, PcTyped DEF BeginAttempts, Goto
  <2>2. CASE FinishTask(s)
    BY <2>2, PcTyped DEF FinishTask
  <2>3. CASE ~(BeginAttempts(s) \/ FinishTask(s))
    BY <2>3, PcTyped
    DEF AwaitDep, Abandon, Attempt, SpawnFailure, ReleaseDependents, SweepGroup, SettleExpected,
        ReleaseCompleted, ClassifyExit, SettleTerminally, RetryOrSettle, Goto
  <2> QED
    BY <2>1, <2>2, <2>3
<1>3. \/ pc'[s] = pc[s]
      \/ pc[s] = "release" /\ pc'[s] = "wait"
      \/ /\ pc[s] \notin Registered \cup {"deregister", "panicked", "none"}
         /\ pc'[s] \notin Registered \cup {"register", "deregister"}
  BY PcTyped
  DEF AwaitDep, BeginAttempts, Abandon, Attempt, SpawnFailure, ReleaseDependents, SweepGroup,
     SettleExpected, ReleaseCompleted, ClassifyExit, SettleTerminally, FinishTask, RetryOrSettle,
     Goto, Registered
<1>4. /\ pc'[Ui] = pc[Ui] /\ pc'[Loop] = pc[Loop]
      /\ \A q \in Service : q # s => pc'[q] = pc[q]
  BY <1>2, PcTyped
<1>5. Gentle
  BY <1>1, <1>3, <1>4 DEF Gentle, InStop, SendsLate, Registered
<1>6. RecoveredIsGone' /\ \A q \in Service : groups'[q] # 0 => HasPlace(q)'
  BY <1>1, <1>3, <1>4, PlacesKept DEF Registered
<1> QED
  BY <1>5, <1>6, GentleKeeps

LEMMA GentleEnd ==
  ASSUME TypeInv, DeliveryInv, NEW s \in Service,
         ReapChild(s) \/ DeregisterGroup(s) \/ TaskPanics(s) \/ ChildExits(s)
  PROVE  DeliveryInv'
<1>1. UNCHANGED <<shutting_down, killed, grace, stopped, pid, sigkills, pids, reaping>>
  BY DEF ReapChild, DeregisterGroup, TaskPanics, ChildExits
<1>2. /\ \A t \in Thread : t # s => pc'[t] = pc[t]
      /\ \/ pc'[s] = pc[s]
         \/ pc[s] = "wait" /\ pc'[s] = "deregister"
         \/ pc[s] = "deregister" /\ pc'[s] \in {"sweep", "settle"}
         \/ pc[s] # "none" /\ pc'[s] = "panicked" /\ ~Lives(s)'
  BY PcTyped
  DEF ReapChild, DeregisterGroup, TaskPanics, ChildExits, Goto, Lives, TypeInv, TypeOK, ProcessesOK
<1>3. /\ \A q \in Service : child'[q] = child[q] \/ child'[q] \in {"killed", "dead", "none"}
      /\ \/ groups' = groups /\ (pc[s] = pc'[s] \/ pc'[s] \in {"deregister", "panicked"})
         \/ pc'[s] \in {"sweep", "settle"} /\ groups' = [groups EXCEPT ![s] = 0]
  BY PcTyped
  DEF ReapChild, DeregisterGroup, TaskPanics, ChildExits, Goto, TypeInv, TypeOK, ProcessesOK, SharedOK
<1>4. /\ pc'[Ui] = pc[Ui] /\ pc'[Loop] = pc[Loop] /\ groups \in [Service -> Nat]
      /\ \A q \in Service : q # s => pc'[q] = pc[q]
  BY <1>2, PcTyped DEF TypeInv, TypeOK, SharedOK
<1>5. Gentle
  BY <1>1, <1>2, <1>3, <1>4 DEF Gentle, InStop, SendsLate, Registered
<1>6. RecoveredIsGone' /\ \A q \in Service : groups'[q] # 0 => HasPlace(q)'
  BY <1>1, <1>2, <1>3, <1>4 DEF DeliveryInv, GroupsCurrent, RecoveredIsGone, HasPlace, Registered
<1> QED
  BY <1>5, <1>6, GentleKeeps

LEMMA GentlePoller ==
  ASSUME TypeInv, DeliveryInv, NEW p \in Pollers, PollStep(p) \/ CheckPasses(p) \/ CheckFails(p)
  PROVE  DeliveryInv'
<1>1. UNCHANGED <<shutting_down, killed, grace, stopped, child, groups, pid, sigkills, pids, reaping>>
  BY DEF PollStep, AwaitFirstLaunch, CheckPasses, WithholdOrRelease, CheckFails, ReportReady,
      ReadinessCancelled, DeadlineElapses, OnReadinessDeadline, FailReadinessStartup
<1>2. \A t \in Thread : t # p => pc'[t] = pc[t]
  BY PcTyped
  DEF PollStep, AwaitFirstLaunch, CheckPasses, WithholdOrRelease, CheckFails, ReportReady,
      ReadinessCancelled, DeadlineElapses, OnReadinessDeadline, FailReadinessStartup, Goto
<1>3. pc'[Ui] = pc[Ui] /\ pc'[Loop] = pc[Loop] /\ \A q \in Service : pc'[q] = pc[q]
  BY <1>2, PcTyped
<1>4. Gentle
  BY <1>1, <1>3 DEF Gentle, InStop
<1>5. RecoveredIsGone' /\ \A q \in Service : groups'[q] # 0 => HasPlace(q)'
  BY <1>1, <1>3, PlacesKept
<1> QED
  BY <1>4, <1>5, GentleKeeps

\* fail_run and shutdown up to the signals, keys, notices, strays and timers of no concern.
LEMMA GentleWorld ==
  ASSUME TypeInv, DeliveryInv,
         \/ FirstSignal \/ UiQuit \/ UiRequestExit \/ QueueRestart \/ Rest \/ UNCHANGED vars
         \/ \E s \in Service : UiStop(s) \/ UiRestart(s) \/ NoteTarget(s) \/ ReadStatus(s)
         \/ \E x \in stray_timers : StrayTimer(x)
         \/ \E x \in stray_kills : KillStray(x)
         \/ \E x \in orphans : LeftoverExits(x)
         \/ Notified \/ HardExit \/ EndRunIfIdle \/ ReapStrays \/ Exit
         \/ EscalateGlobalStop /\ ~global_stopped
  PROVE  DeliveryInv'
<1>1. UNCHANGED <<shutting_down, killed, grace, stopped, child, groups, pid, sigkills, pids, reaping>>
  BY DEF FirstSignal, UiQuit, UiRequestExit, QueueRestart, Rest, vars, UiStop, UiRestart, NoteTarget,
     ReadStatus,
     StrayTimer, KillStray, LeftoverExits, Notified, HardExit, EndRunIfIdle, ReapStrays, Exit,
     EscalateGlobalStop
<1>2. /\ \A t \in Thread \ {Ui, Sig, Loop} : pc'[t] = pc[t]
      /\ \/ pc'[Loop] \in {pc[Loop], "exited"}
         \/ {pc[Loop], pc'[Loop]} \cap {"recover", "drop", "exited"} = {}
      /\ InStop => InStop'
  BY PcTyped
  DEF FirstSignal, UiQuit, UiRequestExit, QueueRestart, Rest, vars, UiStop, UiRestart, NoteTarget,
     ReadStatus, LookForRunning, WhenRunning,
     StrayTimer, KillStray, LeftoverExits, Notified, HardExit, EndRunIfIdle, ReapStrays, Exit,
     EscalateGlobalStop, Goto, InStop
<1>3. \A q \in Service : pc'[q] = pc[q]
  BY <1>2, PcTyped
<1>4. Gentle
  BY <1>1, <1>2, <1>3 DEF Gentle
<1>5. RecoveredIsGone' /\ \A q \in Service : groups'[q] # 0 => HasPlace(q)'
  BY <1>1, <1>2, <1>3, PlacesKept
<1> QED
  BY <1>4, <1>5, GentleKeeps

LEMMA GentleFail ==
  ASSUME TypeInv, DeliveryInv, NEW t \in Thread, SetExitCode(t) \/ BeginShutdown(t)
  PROVE  DeliveryInv'
<1>1. /\ UNCHANGED <<killed, grace, stopped, child, groups, pid, sigkills, pids, reaping>>
      /\ shutting_down => shutting_down'
  BY DEF SetExitCode, BeginShutdown
<1>2. /\ pc[t] \in {"code", "shutdown"} /\ \A u \in Thread : u # t => pc'[u] = pc[u]
      /\ pc'[t] \in {"shutdown", "cancel", AfterShutdown(t)}
  BY PcTyped DEF SetExitCode, BeginShutdown, Goto
<1>3. \A q \in Service : \/ pc'[q] = pc[q]
                         \/ pc[q] \in {"code", "shutdown"} /\ pc'[q] \in {"shutdown", "cancel", "fin"}
  BY <1>2, PcTyped DEF AfterShutdown
<1>4. /\ InStop => InStop'
      /\ pc'[Loop] = pc[Loop] \/ {pc[Loop], pc'[Loop]} \cap {"recover", "drop", "exited"} = {}
  BY <1>2, PcTyped DEF InStop
<1>5. Gentle
  BY <1>1, <1>3, <1>4 DEF Gentle, SendsLate, Registered
<1>6. RecoveredIsGone' /\ \A q \in Service : groups'[q] # 0 => HasPlace(q)'
  BY <1>1, <1>3, <1>4, PlacesKept DEF Registered
<1> QED
  BY <1>5, <1>6, GentleKeeps

\* The run loop claims, spawns, joins and recovers services without a process.
LEMMA GentleLoop ==
  ASSUME TypeInv, HandshakeInv, GateInv, DeliveryInv,
         \/ SpawnClaimed \/ TakeReadyRestarts \/ RecoverPanic \/ DropPanicked
         \/ \E s \in Service : ReapJoined(s)
  PROVE  DeliveryInv'
<1>1. /\ UNCHANGED <<shutting_down, killed, grace, pid, sigkills, pids>>
      /\ \A s \in Service :
           /\ stopped'[s] # "no" => stopped[s] # "no"
           /\ child'[s] = child[s] \/ child'[s] = "killed"
           /\ groups'[s] = groups[s] \/ (groups'[s] = 0 /\ DropPanicked)
  BY DEF SpawnClaimed, TakeReadyRestarts, RecoverPanic, DropPanicked, ReapJoined, SignalGroups, Hit,
     TypeInv, TypeOK, SharedOK, ProcessesOK
<1>2. \A q \in Service :
        \/ pc'[q] = pc[q]
        \/ pc[q] = "none" /\ pc'[q] = "deps" /\ SpawnClaimed
        \/ pc[q] \in {"done", "panicked"} /\ pc'[q] = "none" /\ ReapJoined(q)
  <2>1. CASE SpawnClaimed
    BY <2>1, PcTyped DEF SpawnClaimed, HandshakeInv, BatchesSound, GateInv, TasksJoined
  <2>2. CASE \E s \in Service : ReapJoined(s)
    BY <2>2, PcTyped DEF ReapJoined
  <2>3. CASE TakeReadyRestarts \/ RecoverPanic \/ DropPanicked
    BY <2>3, PcTyped DEF TakeReadyRestarts, RecoverPanic, DropPanicked, Goto
  <2> QED
    BY <2>1, <2>2, <2>3
<1>3. pc'[Ui] = pc[Ui]
  <2>1. claimed \subseteq Service
    BY DEF TypeInv, TypeOK, LoopOK
  <2> QED
    BY <2>1, PcTyped
    DEF SpawnClaimed, TakeReadyRestarts, RecoverPanic, DropPanicked, ReapJoined, Goto
<1>4. \A q \in Service : groups'[q] # 0 => HasPlace(q)'
  <2> SUFFICES ASSUME NEW q \in Service, groups'[q] # 0 PROVE HasPlace(q)'
    OBVIOUS
  <2>1. groups[q] # 0
    BY <1>1
  <2>2. HasPlace(q)
    BY <2>1 DEF DeliveryInv, GroupsCurrent, HasPlace
  <2>3. CASE SpawnClaimed \/ TakeReadyRestarts
    BY <1>2, <2>2, <2>3, PcTyped DEF SpawnClaimed, TakeReadyRestarts, ReapJoined, HasPlace, Registered
  <2>4. CASE RecoverPanic
    BY <1>2, <2>2, <2>4, PcTyped DEF RecoverPanic, SpawnClaimed, ReapJoined, Goto, HasPlace, Registered
  <2>5. CASE DropPanicked
    <3>1. q # reaping
      BY <2>5 DEF DropPanicked, TypeInv, TypeOK, SharedOK
    <3> QED
      BY <1>2, <2>2, <2>5, <3>1, PcTyped
      DEF DropPanicked, SpawnClaimed, ReapJoined, HasPlace, Registered
  <2>6. ASSUME NEW s \in Service, ReapJoined(s) PROVE HasPlace(q)'
    <3>1. pc[Loop] = "select"
      BY <2>6 DEF ReapJoined
    <3>2. CASE q = s
      BY <2>2, <2>6, <3>1, <3>2, PcTyped DEF ReapJoined, HasPlace, Registered
    <3>3. CASE q # s
      BY <2>2, <2>6, <3>1, <3>3, PcTyped DEF ReapJoined, HasPlace, Registered
    <3> QED
      BY <3>2, <3>3
  <2> QED
    BY <2>3, <2>4, <2>5, <2>6
<1>5. Gentle
  <2>1. \A q \in Service : groups'[q] = 0 /\ groups[q] # 0 => pc'[q] \notin Registered \cup {"deregister"}
    <3> TAKE q \in Service
    <3> HAVE groups'[q] = 0 /\ groups[q] # 0
    <3>1. DropPanicked /\ q = reaping
      BY <1>1 DEF DropPanicked, TypeInv, TypeOK, SharedOK
    <3>2. pc[q] = "none"
      BY <3>1 DEF DropPanicked, DeliveryInv, RecoveredIsGone
    <3> QED
      BY <1>2, <3>2 DEF Registered
  <2> QED
    BY <1>1, <1>2, <1>3, <2>1 DEF Gentle, InStop, SendsLate, Registered
<1>6. RecoveredIsGone'
  <2>1. CASE SpawnClaimed \/ TakeReadyRestarts \/ DropPanicked
    BY <2>1, PcTyped DEF SpawnClaimed, TakeReadyRestarts, DropPanicked, Goto, AwaitNext, RecoveredIsGone,
       TypeInv, TypeOK, LoopOK
  <2>2. CASE RecoverPanic
    BY <2>2, PcTyped DEF RecoverPanic, Goto, DeliveryInv, RecoveredIsGone
  <2>3. CASE \E s \in Service : ReapJoined(s)
    BY <2>3, PcTyped DEF ReapJoined, RecoveredIsGone
  <2> QED
    BY <2>1, <2>2, <2>3
<1> QED
  BY <1>4, <1>5, <1>6, GentleKeeps


-----------------------------------------------------------------------------
(* Steps that bring a process up, and steps that signal.                   *)

LEMMA DeliverySpawn ==
  ASSUME TypeInv, SignalInv, DeliveryInv, NEW s \in Service, SpawnChild(s)
  PROVE  DeliveryInv'
<1>1. UNCHANGED <<shutting_down, killed, grace, stopped, groups, sigkills, pids, reaping>>
  BY DEF SpawnChild
<1>2. /\ pc[s] = "spawn" /\ pc'[s] = "register" /\ \A t \in Thread : t # s => pc'[t] = pc[t]
      /\ pid'[s] = pid[s] + 1 /\ child'[s] = "alive"
      /\ \A q \in Service : q # s => pid'[q] = pid[q] /\ child'[q] = child[q]
      /\ pid[s] \in Nat /\ groups[s] = 0
  BY PcTyped
  DEF SpawnChild, Goto, TypeInv, TypeOK, ProcessesOK, SharedOK, DeliveryInv, GroupsCurrent, Registered
<1>3. /\ pc'[Ui] = pc[Ui] /\ pc'[Loop] = pc[Loop]
      /\ \A q \in Service : q # s => pc'[q] = pc[q]
  BY <1>2, PcTyped
<1>4. <<s, pid'[s]>> \notin sigkills \cup pids
  <2>1. \A x \in sigkills \cup pids : x[2] \in Nat /\ x[2] <= pid[x[1]]
    BY DEF SignalInv, TargetsAsked, TypeInv, TypeOK, TimersOK, UiOK, Groups
  <2>2. <<s, pid'[s]>>[1] = s /\ <<s, pid'[s]>>[2] = pid[s] + 1
    BY <1>2
  <2> QED
    BY <1>2, <2>1, <2>2
<1>5. GroupsCurrent' /\ RecoveredIsGone' /\ EarlyUntold' /\ FlagsInOrder'
  BY <1>1, <1>2, <1>3, <1>4
  DEF DeliveryInv, GroupsCurrent, RecoveredIsGone, EarlyUntold, FlagsInOrder, Registered
<1>6. SweepReached' /\ ShutdownReached' /\ StopReached' /\ EscalationPending'
  BY <1>1, <1>2, <1>3
  DEF DeliveryInv, SweepReached, ShutdownReached, StopReached, InStop, Reached, EscalationPending,
      Registered, Lives, SendsLate
<1> QED
  BY <1>5, <1>6 DEF DeliveryInv

\* The lock of a registration sees every stop, shutdown and sweep that could not see the
\* group.
LEMMA DeliveryRegister ==
  ASSUME TypeInv, SignalInv, DeliveryInv, NEW s \in Service, RegisterGroup(s)
  PROVE  DeliveryInv'
<1>1. UNCHANGED <<shutting_down, killed, grace, stopped, child, pid, sigkills, pids, reaping>>
  BY DEF RegisterGroup
<1>2. /\ pc[s] = "register" /\ pc'[s] = OnRegistration(s) /\ \A t \in Thread : t # s => pc'[t] = pc[t]
      /\ groups'[s] = pid[s] /\ \A q \in Service : q # s => groups'[q] = groups[q]
  BY PcTyped DEF RegisterGroup, Goto, TypeInv, TypeOK, SharedOK
<1>3. /\ pc'[Ui] = pc[Ui] /\ pc'[Loop] = pc[Loop]
      /\ \A q \in Service : q # s => pc'[q] = pc[q]
  BY <1>2, PcTyped
<1>4. /\ pc'[s] \in {"send_kill", "send_term", "send_term_escalate", "release"}
      /\ killed => pc'[s] = "send_kill"
      /\ pc'[s] = "send_term" => shutting_down
      /\ pc'[s] = "release" => stopped[s] = "no" /\ grace = "off"
      /\ child[s] # "termed"
  BY <1>2
  DEF OnRegistration, SignalInv, DownFirst, DeliveryInv, EarlyUntold, TypeInv, TypeOK, SharedOK
<1>5. GroupsCurrent' /\ RecoveredIsGone' /\ EarlyUntold' /\ FlagsInOrder'
  BY <1>1, <1>2, <1>3, <1>4
  DEF DeliveryInv, GroupsCurrent, RecoveredIsGone, EarlyUntold, FlagsInOrder, Registered
<1>6. SweepReached' /\ ShutdownReached' /\ StopReached' /\ EscalationPending'
  BY <1>1, <1>2, <1>3, <1>4
  DEF DeliveryInv, SweepReached, ShutdownReached, StopReached, InStop, Reached, EscalationPending,
      Registered, Lives, SendsLate
<1> QED
  BY <1>5, <1>6 DEF DeliveryInv

LEMMA DeliverySendLate ==
  ASSUME TypeInv, SignalInv, DeliveryInv, NEW s \in Service, SignalLate(s)
  PROVE  DeliveryInv'
<1>1. UNCHANGED <<shutting_down, killed, grace, stopped, groups, pid, pids, reaping>>
  BY DEF SignalLate
<1>2. /\ SendsLate(s) /\ pc'[s] = "release" /\ \A t \in Thread : t # s => pc'[t] = pc[t]
      /\ sigkills' = IF pc[s] = "send_term_escalate" THEN sigkills \cup {<<s, pid[s]>>} ELSE sigkills
  BY PcTyped DEF SignalLate, SendsLate, Goto
<1>3. /\ pc'[Ui] = pc[Ui] /\ pc'[Loop] = pc[Loop]
      /\ \A q \in Service : q # s => pc'[q] = pc[q]
  BY <1>2, PcTyped
<1>4. /\ \A q \in Service : q # s => child'[q] = child[q]
      /\ child'[s] # "alive"
      /\ Lives(s)' => Lives(s) /\ pc[s] # "send_kill"
  BY DEF SignalLate, SignalGroups, Hit, Lives, TypeInv, TypeOK, ProcessesOK
<1>5. GroupsCurrent' /\ RecoveredIsGone' /\ EarlyUntold' /\ FlagsInOrder'
  BY <1>1, <1>2, <1>3, <1>4
  DEF DeliveryInv, GroupsCurrent, RecoveredIsGone, EarlyUntold, FlagsInOrder, Registered, SendsLate
<1>6. SweepReached' /\ ShutdownReached' /\ StopReached'
  BY <1>1, <1>2, <1>3, <1>4
  DEF DeliveryInv, SweepReached, ShutdownReached, StopReached, InStop, Reached, Registered, Lives,
      SendsLate
<1>7. EscalationPending'
  <2>1. child'[s] = "termed" =>
          <<s, pid[s]>> \in sigkills' \/ (shutting_down /\ grace # "fired")
    BY <1>2, <1>4 DEF SendsLate, Lives, DeliveryInv, FlagsInOrder, SweepReached, Registered
  <2> QED
    BY <1>1, <1>2, <1>3, <1>4, <2>1 DEF DeliveryInv, EscalationPending, SendsLate
<1> QED
  BY <1>5, <1>6, <1>7 DEF DeliveryInv

\* A signal to every live group finds each registered process, and no other.
LEMMA LiveGroupsAre ==
  ASSUME TypeInv, SignalInv, DeliveryInv, NEW s \in Service
  PROVE  /\ Lives(s) /\ pc[s] \in Registered => <<s, pid[s]>> \in LiveGroups
         /\ pc[s] = "register" => <<s, pid[s]>> \notin LiveGroups
<1>1. Lives(s) => pid[s] # 0
  BY DEF TypeInv, SpawnedHasPid, Lives
<1> QED
  BY <1>1 DEF LiveGroups, DeliveryInv, GroupsCurrent, Registered

\* The shutdown's SIGTERM.
LEMMA DeliveryTerm ==
  ASSUME TypeInv, SignalInv, DeliveryInv, NEW t \in Thread, CancelAndTerm(t)
  PROVE  DeliveryInv'
<1>1. UNCHANGED <<shutting_down, killed, stopped, groups, pid, sigkills, pids, reaping>> /\ grace' = "armed"
  BY DEF CancelAndTerm
<1>2. /\ pc[t] = "cancel" /\ shutting_down /\ \A u \in Thread : u # t => pc'[u] = pc[u]
      /\ pc'[t] = AfterShutdown(t)
  BY PcTyped DEF CancelAndTerm, Goto, SignalInv, DownFirst
<1>3. \A q \in Service : pc'[q] = pc[q] \/ (pc[q] = "cancel" /\ pc'[q] = "fin")
  BY <1>2, PcTyped DEF AfterShutdown
<1>4. /\ InStop => InStop'
      /\ pc'[Loop] = pc[Loop] \/ {pc[Loop], pc'[Loop]} \cap {"recover", "drop", "exited"} = {}
  BY <1>2, PcTyped DEF InStop, AfterShutdown
<1>5. \A s \in Service :
        /\ child'[s] = child[s] \/ (child[s] = "alive" /\ child'[s] = "termed" /\ pc[s] # "register")
        /\ pc[s] \in Registered => child'[s] # "alive"
  BY LiveGroupsAre DEF CancelAndTerm, SignalGroups, Hit, Lives, TypeInv, TypeOK, ProcessesOK
<1>6. GroupsCurrent' /\ RecoveredIsGone'
  <2>1. RecoveredIsGone' /\ \A s \in Service : groups'[s] # 0 => HasPlace(s)'
    BY <1>1, <1>3, <1>4, PlacesKept DEF Registered
  <2> QED
    BY <1>1, <1>3, <2>1 DEF DeliveryInv, GroupsCurrent, HasPlace, Registered
<1>7. EarlyUntold' /\ FlagsInOrder' /\ EscalationPending'
  BY <1>1, <1>2, <1>3, <1>5
  DEF DeliveryInv, EarlyUntold, FlagsInOrder, EscalationPending, SendsLate
<1>8. SweepReached' /\ ShutdownReached' /\ StopReached'
  BY <1>1, <1>2, <1>3, <1>4, <1>5
  DEF DeliveryInv, SweepReached, ShutdownReached, StopReached, Reached, Registered, Lives
<1> QED
  BY <1>6, <1>7, <1>8 DEF DeliveryInv


\* The SIGKILL sweep: the timer's, or a second signal's or Ctrl+C's.
LEMMA DeliverySweep ==
  ASSUME TypeInv, SignalInv, DeliveryInv,
         ShutdownTimer \/ SecondSignal \/ (EscalateGlobalStop /\ global_stopped)
  PROVE  DeliveryInv'
<1>1. UNCHANGED <<shutting_down, stopped, groups, pid, sigkills, pids, reaping>> /\ killed'
  BY DEF ShutdownTimer, SecondSignal, EscalateGlobalStop, ForceShutdown
<1>2. /\ \A t \in Thread \ {Sig, Ui} : pc'[t] = pc[t]
      /\ pc'[Ui] = pc[Ui] \/ pc[Ui] = "stop_all"
  BY PcTyped DEF ShutdownTimer, SecondSignal, EscalateGlobalStop, ForceShutdown, Goto
<1>3. /\ InStop => InStop'
      /\ pc'[Loop] = pc[Loop] /\ \A q \in Service : pc'[q] = pc[q]
  BY <1>2, PcTyped DEF InStop
<1>4. PICK S : LiveGroups \subseteq S /\ SignalGroups(S, "SIGKILL")
  BY DEF ShutdownTimer, SecondSignal, EscalateGlobalStop, ForceShutdown
<1>5. \A s \in Service :
        /\ child'[s] = child[s] \/ child'[s] = "killed"
        /\ pc[s] \in Registered => ~Lives(s)'
  <2> TAKE s \in Service
  <2>1. child'[s] = IF <<s, pid[s]>> \in S THEN Hit(child[s], "SIGKILL") ELSE child[s]
    BY <1>4 DEF SignalGroups
  <2> QED
    BY <1>4, <2>1, LiveGroupsAre DEF Hit, Lives, TypeInv, TypeOK, ProcessesOK
<1>6. \A s \in Service : Lives(s)' => pc[s] = "register"
  BY <1>3, <1>5 DEF SignalInv, LiveHasTask, Launched, Registered, Lives
<1>7. GroupsCurrent' /\ RecoveredIsGone' /\ EarlyUntold' /\ FlagsInOrder'
  BY <1>1, <1>3, <1>5 DEF DeliveryInv, GroupsCurrent, RecoveredIsGone, EarlyUntold, FlagsInOrder, Registered
<1>8. SweepReached' /\ ShutdownReached' /\ StopReached' /\ EscalationPending'
  BY <1>1, <1>3, <1>5, <1>6
  DEF DeliveryInv, SweepReached, ShutdownReached, StopReached, Reached, EscalationPending,
      EarlyUntold, Registered, Lives, SendsLate
<1> QED
  BY <1>7, <1>8 DEF DeliveryInv

\* A stop captures, under the lock that marks, each process it has to reach.
LEMMA DeliveryMark ==
  ASSUME TypeInv, SignalInv, DeliveryInv, pc[Loop] # "exited", MarkSubtreeStopped
  PROVE  DeliveryInv'
<1>1. UNCHANGED <<shutting_down, killed, grace, child, groups, pid, sigkills, reaping>>
  BY DEF MarkSubtreeStopped
<1>2. /\ pc[Ui] = "mark" /\ InStop'
      /\ \A t \in Thread : t # Ui => pc'[t] = pc[t]
  BY PcTyped DEF MarkSubtreeStopped, Goto, InStop
<1>3. pc'[Loop] = pc[Loop] /\ \A q \in Service : pc'[q] = pc[q]
  BY <1>2, PcTyped
<1>4. /\ pids' \subseteq LiveGroups
      /\ \A s \in Service : stopped'[s] # "no" =>
           \/ stopped[s] # "no"
           \/ <<s, pid[s]>> \in LiveGroups => <<s, pid[s]>> \in pids'
  BY DEF MarkSubtreeStopped
<1>5. GroupsCurrent' /\ RecoveredIsGone' /\ FlagsInOrder' /\ SweepReached' /\ ShutdownReached'
        /\ EscalationPending'
  BY <1>1, <1>3
  DEF DeliveryInv, GroupsCurrent, RecoveredIsGone, FlagsInOrder, SweepReached, ShutdownReached,
      Reached, Lives, EscalationPending, SendsLate
<1>6. EarlyUntold'
  BY <1>1, <1>3, <1>4, LiveGroupsAre DEF DeliveryInv, EarlyUntold
<1>7. StopReached'
  <2> SUFFICES ASSUME NEW s \in Service, stopped'[s] # "no", ~Reached(s)
               PROVE  <<s, pid[s]>> \in pids'
    BY <1>1, <1>2, <1>3 DEF StopReached, Reached
  <2>1. stopped[s] = "no"
    BY <1>2 DEF DeliveryInv, StopReached, InStop
  <2>2. <<s, pid[s]>> \in LiveGroups
    BY LiveGroupsAre DEF Reached, Lives, Registered
  <2> QED
    BY <1>4, <2>1, <2>2
<1> QED
  BY <1>5, <1>6, <1>7 DEF DeliveryInv

LEMMA DeliverySubtree ==
  ASSUME TypeInv, SignalInv, DeliveryInv, SignalSubtree
  PROVE  DeliveryInv'
<1>1. UNCHANGED <<shutting_down, killed, grace, stopped, groups, pid, reaping>> /\ pids' = {}
  BY DEF SignalSubtree
<1>2. /\ pc[Ui] \in {"term", "kill"} /\ \A t \in Thread : t # Ui => pc'[t] = pc[t]
      /\ sigkills' = IF pc[Ui] = "kill" THEN sigkills ELSE sigkills \cup pids
  BY PcTyped DEF SignalSubtree, Goto
<1>3. pc'[Loop] = pc[Loop] /\ \A q \in Service : pc'[q] = pc[q]
  BY <1>2, PcTyped
<1>4. \A s \in Service :
        /\ child'[s] = child[s] \/ (<<s, pid[s]>> \in pids /\ Lives(s))
        /\ child'[s] = "alive" => child[s] = "alive" /\ <<s, pid[s]>> \notin pids
        /\ child'[s] = "termed" /\ pc[Ui] = "kill" => child[s] = "termed"
        /\ Lives(s)' => Lives(s)
  BY <1>2 DEF SignalSubtree, SignalGroups, Hit, Lives, TypeInv, TypeOK, ProcessesOK
<1>5. GroupsCurrent' /\ RecoveredIsGone' /\ FlagsInOrder' /\ EarlyUntold'
  BY <1>1, <1>2, <1>3, <1>4
  DEF DeliveryInv, GroupsCurrent, RecoveredIsGone, FlagsInOrder, EarlyUntold, Lives
<1>6. SweepReached' /\ ShutdownReached' /\ StopReached'
  BY <1>1, <1>3, <1>4
  DEF DeliveryInv, SweepReached, ShutdownReached, StopReached, Reached, Registered
<1>7. EscalationPending'
  BY <1>1, <1>2, <1>3, <1>4 DEF DeliveryInv, EscalationPending, SendsLate, Lives
<1> QED
  BY <1>5, <1>6, <1>7 DEF DeliveryInv

\* The SIGKILL timer drops a debt only by paying it: its group is still the registered
\* one, or gone.
LEMMA DeliveryTimer ==
  ASSUME TypeInv, SignalInv, DeliveryInv, NEW x \in sigkills, SigkillTimer(x)
  PROVE  DeliveryInv'
<1>1. /\ UNCHANGED <<shutting_down, killed, grace, stopped, groups, pid, pids, reaping, pc>>
      /\ sigkills' = sigkills \ {x}
  BY DEF SigkillTimer
<1>2. \A s \in Service :
        /\ child'[s] = child[s] \/ child'[s] = "killed"
        /\ x = <<s, pid[s]>> /\ pc[s] \in Registered => ~Lives(s)'
  <2> TAKE s \in Service
  <2>1. child'[s] = IF <<s, pid[s]>> \in {x} \cap LiveGroups THEN Hit(child[s], "SIGKILL") ELSE child[s]
    BY DEF SigkillTimer, SignalGroups
  <2> QED
    BY <2>1, LiveGroupsAre DEF Hit, Lives, TypeInv, TypeOK, ProcessesOK
<1>3. GroupsCurrent' /\ RecoveredIsGone' /\ FlagsInOrder' /\ EarlyUntold'
  BY <1>1, <1>2
  DEF DeliveryInv, GroupsCurrent, RecoveredIsGone, FlagsInOrder, EarlyUntold
<1>4. SweepReached' /\ ShutdownReached' /\ StopReached'
  BY <1>1, <1>2
  DEF DeliveryInv, SweepReached, ShutdownReached, StopReached, InStop, Reached, Lives
<1>5. EscalationPending'
  <2> SUFFICES ASSUME NEW s \in Service, child'[s] = "termed", ~SendsLate(s), x = <<s, pid[s]>>
               PROVE  FALSE
    BY <1>1, <1>2 DEF DeliveryInv, EscalationPending, SendsLate
  <2>1. child[s] = "termed" /\ Lives(s)'
    BY <1>2 DEF Lives
  <2>2. pc[s] \in Launched /\ pc[s] # "register"
    BY <2>1 DEF Lives, SignalInv, LiveHasTask, DeliveryInv, EarlyUntold
  <2> QED
    BY <1>2, <2>1, <2>2 DEF Launched, Registered
<1> QED
  BY <1>3, <1>4, <1>5 DEF DeliveryInv

LEMMA DeliveryStep ==
  TypeInv /\ HandshakeInv /\ GateInv /\ SignalInv /\ DeliveryInv /\ [Next]_vars => DeliveryInv'
<1> SUFFICES ASSUME TypeInv, HandshakeInv, GateInv, SignalInv, DeliveryInv, [Next]_vars
             PROVE  DeliveryInv'
  OBVIOUS
<1>1. CASE Rest \/ UNCHANGED vars
  BY <1>1, GentleWorld
<1> SUFFICES ASSUME Next, ~Rest PROVE DeliveryInv'
  BY <1>1
<1>2. pc[Loop] # "exited"
  BY DEF Next
<1>3. ASSUME NEW s \in Service, TaskStep(s) \/ TaskPanics(s) \/ ChildExits(s) PROVE DeliveryInv'
  BY <1>3, GentleTask, GentleEnd, DeliverySpawn, DeliveryRegister, DeliverySendLate DEF TaskStep
<1>4. ASSUME NEW p \in Pollers, PollStep(p) \/ CheckPasses(p) \/ CheckFails(p) PROVE DeliveryInv'
  BY <1>4, GentlePoller
<1>5. ASSUME NEW t \in Thread, SetExitCode(t) \/ BeginShutdown(t) \/ CancelAndTerm(t)
      PROVE  DeliveryInv'
  BY <1>5, GentleFail, DeliveryTerm
<1>6. CASE LoopStep
  BY <1>6, GentleLoop, GentleWorld DEF LoopStep
<1>7. CASE TimerStep
  BY <1>7, GentleWorld, DeliverySweep, DeliveryTimer DEF TimerStep
<1>8. CASE UiWork \/ UiQuit \/ \E s \in Service : UiStop(s) \/ UiRestart(s)
  BY <1>2, <1>8, GentleWorld, DeliveryMark, DeliverySubtree, DeliverySweep DEF UiWork
<1>9. CASE FirstSignal \/ SecondSignal \/ \E x \in orphans : LeftoverExits(x)
  BY <1>9, GentleWorld, DeliverySweep
<1> QED
  BY <1>3, <1>4, <1>5, <1>6, <1>7, <1>8, <1>9 DEF Next

\* What has reached each process follows from where its task is, in every state.
THEOREM DeliveryInvariant == Spec => []DeliveryInv
<1> QED
  BY TypeInvariant, HandshakeInvariant, GateInvariant, SignalInvariant, DeliveryInit, DeliveryStep, PTL
  DEF Spec

-----------------------------------------------------------------------------
(* What follows.                                                           *)

\* A registered process that runs has its task between registration and reap.
LEMMA RunsRegistered ==
  ASSUME SignalInv, DeliveryInv, NEW s \in Service, groups[s] # 0, Lives(s)
  PROVE  pc[s] \in Registered
  BY DEF SignalInv, LiveHasTask, Launched, DeliveryInv, GroupsCurrent, Registered

\* shutdown.rs: no process registered when the SIGKILL sweep came, or that registered
\* after it, is left running.
THEOREM NobodyMissedBySweep == Spec => []SweepMissesNobody
<1>1. TypeInv /\ SignalInv /\ DeliveryInv => SweepMissesNobody
  <2> SUFFICES ASSUME SignalInv, DeliveryInv, killed,
                      NEW s \in Service, groups[s] # 0, ~SendsLate(s), Lives(s)
               PROVE  FALSE
    BY DEF SweepMissesNobody, Lives
  <2> QED
    BY RunsRegistered DEF DeliveryInv, SweepReached, Registered, SendsLate
<1> QED
  BY <1>1, TypeInvariant, SignalInvariant, DeliveryInvariant, PTL

\* control.rs and shutdown.rs: every process a finished stop or the shutdown concerns has
\* had its signal, however it raced the registration.
THEOREM NobodyMissedByStop == Spec => []StopMissesNobody
<1>1. TypeInv /\ SignalInv /\ DeliveryInv => StopMissesNobody
  <2> SUFFICES ASSUME SignalInv, DeliveryInv, NEW s \in Service,
                      groups[s] # 0, ~SendsLate(s), child[s] = "alive",
                      (stopped[s] # "no" /\ ~InStop) \/ grace # "off"
               PROVE  FALSE
    BY DEF StopMissesNobody, InStop
  <2>1. pc[s] \in {"release", "wait"}
    BY RunsRegistered DEF Lives, Registered, SendsLate
  <2> QED
    BY <2>1 DEF DeliveryInv, ShutdownReached, StopReached, Reached
<1> QED
  BY <1>1, TypeInvariant, SignalInvariant, DeliveryInvariant, PTL

\* shutdown.rs:schedule_sigkill, mod.rs:register_group: a process told to end by SIGTERM, which
\* may ignore it, has a SIGKILL coming until it is gone.
THEOREM TermIsEscalated == Spec => []EscalationPending
<1>1. DeliveryInv => EscalationPending
  BY DEF DeliveryInv
<1> QED
  BY <1>1, DeliveryInvariant, PTL

-----------------------------------------------------------------------------
(* Leftover groups.                                                        *)

\* What LeftoversTracked says of a step.
Accounted ==
  \A x \in orphans' :
    (x \in orphans => Tracked(x)) /\ pc'[Loop] # "exited" =>
      \/ Tracked(x)'
      \/ pc[x[1]] \in {"register", "sweep"} /\ pc'[x[1]] = "panicked"

USE DEF taskFrame, pollFrame, uiFrame, loopFrame, downFrame, timerFrame, flagVars, restartVars,
        svcVars, loopVars, taskVars, procVars, pollVars, quitVars, uiVars, timerVars, strayVars

\* A step that leaves no group behind and takes nobody off his list.
Tidy ==
  /\ UNCHANGED <<pid, groups, strays, stray_timers, stray_kills, reaping>>
  /\ orphans' \subseteq orphans
  /\ pc'[Loop] = pc[Loop] \/ pc'[Loop] = "exited" \/ pc[Loop] # "recover"
  /\ \A s \in Service :
       \/ pc'[s] = pc[s]
       \/ pc'[s] \in Launched \cup {"deregister", "sweep"} /\ pc[s] # "panicked"
       \/ pc[s] \notin Launched \cup {"deregister", "sweep", "panicked"}

LEMMA TidyKeeps ==
  ASSUME TypeInv, Tidy
  PROVE  Accounted
<1> SUFFICES ASSUME NEW x \in orphans', Tracked(x), pc'[Loop] # "exited" PROVE Tracked(x)'
  BY DEF Accounted, Tidy
<1>1. x[1] \in Service
  BY DEF Tidy, TypeInv, TypeOK, ProcessesOK, Groups
<1> QED
  BY <1>1 DEF Tracked, Tidy

LEMMA TidyTask ==
  ASSUME TypeInv, NEW s \in Service,
         \/ AwaitDep(s) \/ BeginAttempts(s) \/ Abandon(s) \/ Attempt(s) \/ SpawnFailure(s)
         \/ SignalLate(s) \/ ReleaseDependents(s) \/ ReapChild(s) \/ SettleExpected(s)
         \/ ReleaseCompleted(s) \/ ClassifyExit(s) \/ SettleTerminally(s) \/ FinishTask(s)
  PROVE  Tidy
<1>1. /\ UNCHANGED <<pid, groups, strays, stray_timers, stray_kills, reaping>>
      /\ orphans' \subseteq orphans
  BY DEF AwaitDep, BeginAttempts, Abandon, Attempt, SpawnFailure, SignalLate, SignalGroups,
     ReleaseDependents, ReapChild, SettleExpected, ReleaseCompleted, ClassifyExit, SettleTerminally,
     FinishTask
<1>2. \A t \in Thread : t # s => pc'[t] = pc[t] \/ t \in Pollers
  <2>1. CASE BeginAttempts(s)
    BY <2>1, PcTyped DEF BeginAttempts, Goto
  <2>2. CASE FinishTask(s)
    BY <2>2, PcTyped DEF FinishTask
  <2>3. CASE ~(BeginAttempts(s) \/ FinishTask(s))
    BY <2>3, PcTyped
    DEF AwaitDep, Abandon, Attempt, SpawnFailure, SignalLate, ReleaseDependents, ReapChild,
        SettleExpected, ReleaseCompleted, ClassifyExit, SettleTerminally, RetryOrSettle, Goto
  <2> QED
    BY <2>1, <2>2, <2>3
<1>3. \/ pc[s] \in Launched /\ pc'[s] \in Launched \cup {"deregister"}
      \/ pc[s] \notin Launched \cup {"deregister", "sweep", "panicked"}
  BY PcTyped
  DEF AwaitDep, BeginAttempts, Abandon, Attempt, SpawnFailure, SignalLate, ReleaseDependents,
      ReapChild, SettleExpected, ReleaseCompleted, ClassifyExit, SettleTerminally, FinishTask,
      RetryOrSettle, Goto, Launched
<1>4. pc'[Loop] = pc[Loop] /\ \A q \in Service : q # s => pc'[q] = pc[q]
  BY <1>2, PcTyped
<1> QED
  BY <1>1, <1>3, <1>4 DEF Tidy, Launched

LEMMA TidyElsewhere ==
  ASSUME TypeInv,
         \/ \E p \in Pollers : PollStep(p) \/ CheckPasses(p) \/ CheckFails(p)
         \/ \E t \in Thread : SetExitCode(t) \/ BeginShutdown(t) \/ CancelAndTerm(t)
         \/ FirstSignal \/ UiQuit \/ Rest \/ UNCHANGED vars
         \/ MarkSubtreeStopped \/ SignalSubtree \/ QueueRestart \/ UiRequestExit
         \/ \E s \in Service : NoteTarget(s) \/ ReadStatus(s)
         \/ \E s \in Service : UiStop(s) \/ UiRestart(s)
         \/ \E x \in orphans : LeftoverExits(x)
         \/ \E x \in sigkills : SigkillTimer(x)
         \/ Notified \/ HardExit \/ EndRunIfIdle \/ Exit \/ TakeReadyRestarts \/ ShutdownTimer
         \/ EscalateGlobalStop /\ ~global_stopped
  PROVE  Tidy
<1>1. CASE \E p \in Pollers : PollStep(p) \/ CheckPasses(p) \/ CheckFails(p)
  BY <1>1, PcTyped
  DEF PollStep, AwaitFirstLaunch, CheckPasses, WithholdOrRelease, CheckFails, ReportReady,
      ReadinessCancelled, DeadlineElapses, OnReadinessDeadline, FailReadinessStartup, Goto, Tidy
<1>2. ASSUME NEW t \in Thread, SetExitCode(t) \/ BeginShutdown(t) \/ CancelAndTerm(t) PROVE Tidy
  <2>1. /\ UNCHANGED <<pid, groups, strays, stray_timers, stray_kills, reaping>>
        /\ orphans' \subseteq orphans
    BY <1>2 DEF SetExitCode, BeginShutdown, CancelAndTerm, SignalGroups
  <2>2. pc[t] \in {"code", "shutdown", "cancel"} /\ \A u \in Thread : u # t => pc'[u] = pc[u]
    BY <1>2, PcTyped DEF SetExitCode, BeginShutdown, CancelAndTerm, Goto
  <2> QED
    BY <2>1, <2>2, PcTyped DEF Tidy, Launched
<1>3. CASE \/ FirstSignal \/ UiQuit \/ UiRequestExit \/ Rest \/ UNCHANGED vars
           \/ \E s \in Service : UiStop(s) \/ UiRestart(s)
           \/ \E x \in orphans : LeftoverExits(x)
           \/ \E x \in sigkills : SigkillTimer(x)
           \/ Notified \/ HardExit \/ EndRunIfIdle \/ Exit \/ TakeReadyRestarts \/ ShutdownTimer
           \/ EscalateGlobalStop /\ ~global_stopped
  <2>1. /\ UNCHANGED <<pid, groups, strays, stray_timers, stray_kills, reaping>>
        /\ orphans' \subseteq orphans
    BY <1>3
    DEF FirstSignal, UiQuit, UiRequestExit, Rest, vars, UiStop, UiRestart, LeftoverExits,
        SigkillTimer, Notified, HardExit, EndRunIfIdle, Exit, TakeReadyRestarts, ShutdownTimer,
        EscalateGlobalStop, SignalGroups
  <2>2. /\ \A t \in Thread \ {Ui, Sig, Loop} : pc'[t] = pc[t]
        /\ pc'[Loop] = pc[Loop] \/ pc'[Loop] = "exited" \/ pc[Loop] # "recover"
    BY <1>3, PcTyped
    DEF FirstSignal, UiQuit, UiRequestExit, Rest, vars, UiStop, UiRestart, LookForRunning,
        LeftoverExits, SigkillTimer, Notified, HardExit, EndRunIfIdle, Exit, TakeReadyRestarts,
        ShutdownTimer, EscalateGlobalStop, Goto
  <2> QED
    BY <2>1, <2>2, PcTyped DEF Tidy
<1>4. CASE \/ MarkSubtreeStopped \/ SignalSubtree \/ QueueRestart
           \/ \E s \in Service : NoteTarget(s) \/ ReadStatus(s)
  <2>1. /\ UNCHANGED <<pid, groups, strays, stray_timers, stray_kills, reaping>>
        /\ orphans' \subseteq orphans
    BY <1>4 DEF MarkSubtreeStopped, NoteTarget, ReadStatus, SignalSubtree, QueueRestart, SignalGroups
  <2>2. \A t \in Thread : t # Ui => pc'[t] = pc[t]
    BY <1>4, PcTyped
    DEF MarkSubtreeStopped, NoteTarget, ReadStatus, SignalSubtree, QueueRestart, Goto
  <2> QED
    BY <2>1, <2>2, PcTyped DEF Tidy
<1> QED
  BY <1>1, <1>2, <1>3, <1>4

\* A launch has a pgid of its own; the group registers as its leader's.
LEMMA LeftoversLaunch ==
  ASSUME TypeInv, DeliveryInv, NEW s \in Service,
         SpawnChild(s) \/ RegisterGroup(s) \/ DeregisterGroup(s) \/ SweepGroup(s)
  PROVE  Accounted
<1>1. UNCHANGED <<orphans, stray_kills, reaping>>
  BY DEF SpawnChild, RegisterGroup, DeregisterGroup, SweepGroup
<1>2. /\ \A t \in Thread : t # s => pc'[t] = pc[t]
      /\ \A q \in Service : q # s => pid'[q] = pid[q] /\ groups'[q] = groups[q] /\ pc'[q] = pc[q]
      /\ pc'[Loop] = pc[Loop]
      /\ pc[s] \in {"spawn", "register", "deregister", "sweep"}
  BY PcTyped DEF SpawnChild, RegisterGroup, DeregisterGroup, SweepGroup, Goto, TypeInv, TypeOK,
     SharedOK, ProcessesOK
<1>3. strays \subseteq strays' /\ stray_timers \subseteq stray_timers'
  BY DEF SpawnChild, RegisterGroup, DeregisterGroup, SweepGroup
<1>4. pc[Loop] = "recover" => reaping # s
  BY <1>2 DEF DeliveryInv, RecoveredIsGone
<1> SUFFICES ASSUME NEW x \in orphans, Tracked(x) PROVE Tracked(x)'
  BY <1>1 DEF Accounted
<1>5. x[1] \in Service /\ x[1] \in Leftovers /\ x = <<x[1], x[2]>>
  BY DEF TypeInv, TypeOK, ProcessesOK, Groups
<1>6. CASE x[1] # s
  BY <1>1, <1>2, <1>3, <1>5, <1>6 DEF Tracked
<1>7. CASE x[1] = s
  <2>1. CASE x \in (strays \cap stray_timers) \cup stray_kills
    BY <1>1, <1>3, <1>5, <2>1 DEF Tracked
  <2>2. CASE pid[s] = x[2] /\ pc[s] \in Launched \cup {"deregister", "sweep"}
    <3>1. CASE SpawnChild(s)
      BY <2>2, <3>1 DEF SpawnChild, Launched
    <3>2. CASE RegisterGroup(s)
      BY <1>5, <1>7, <2>2, <3>2, PcTyped DEF RegisterGroup, OnRegistration, Goto, Tracked, Launched
    <3>3. CASE DeregisterGroup(s)
      BY <1>5, <1>7, <2>2, <3>3, PcTyped DEF DeregisterGroup, Goto, Tracked
    <3>4. CASE SweepGroup(s)
      BY <1>5, <1>7, <2>2, <3>4 DEF SweepGroup, Tracked
    <3> QED
      BY <3>1, <3>2, <3>3, <3>4
  <2> QED
    BY <1>2, <1>4, <1>5, <1>7, <2>1, <2>2 DEF Tracked
<1> QED
  BY <1>6, <1>7

\* A leader ends with its task in the launch; a task that panics leaves its group to the
\* run loop, if it is registered.
LEMMA LeftoversEnd ==
  ASSUME TypeInv, SignalInv, DeliveryInv, NEW s \in Service, TaskPanics(s) \/ ChildExits(s)
  PROVE  Accounted
<1>1. UNCHANGED <<pid, groups, strays, stray_timers, stray_kills, reaping>>
  BY DEF TaskPanics, ChildExits
<1>2. /\ \A q \in Service : q # s => pc'[q] = pc[q]
      /\ pc'[Loop] = pc[Loop]
  BY PcTyped DEF TaskPanics, ChildExits, Goto
<1>3. \A x \in orphans' \ orphans : x = <<s, pid[s]>> /\ pc[s] \in Launched
  BY DEF TaskPanics, ChildExits, Lives, SignalInv, LiveHasTask, TypeInv, TypeOK, ProcessesOK
<1> SUFFICES ASSUME NEW x \in orphans', x \in orphans => Tracked(x)
             PROVE  \/ Tracked(x)'
                    \/ pc[x[1]] \in {"register", "sweep"} /\ pc'[x[1]] = "panicked"
  BY DEF Accounted
<1>4. x[1] \in Service
  BY <1>3 DEF TypeInv, TypeOK, ProcessesOK, Groups
<1>5. Tracked(x)
  BY <1>3 DEF Tracked
<1>6. CASE TaskPanics(s)
  <2>1. pc'[s] = "panicked" /\ pc[s] # "panicked"
    BY <1>6, PcTyped DEF TaskPanics, Goto
  <2>2. pc[s] \in Launched \cup {"deregister"} => pc[s] = "register" \/ groups[s] = pid[s]
    BY DEF DeliveryInv, GroupsCurrent, Registered, Launched
  <2>3. CASE x[1] # s
    BY <1>1, <1>2, <1>4, <1>5, <2>3 DEF Tracked
  <2>4. CASE x[1] = s
    BY <1>1, <1>2, <1>5, <2>1, <2>2, <2>4 DEF Tracked
  <2> QED
    BY <2>3, <2>4
<1>7. CASE ChildExits(s)
  <2>1. pc' = pc
    BY <1>7 DEF ChildExits
  <2> QED
    BY <1>1, <1>5, <2>1 DEF Tracked
<1> QED
  BY <1>6, <1>7

\* The recovery kills what the panicked task had registered before it drops the group.
LEMMA LeftoversLoop ==
  ASSUME TypeInv, HandshakeInv, GateInv, DeliveryInv,
         \/ SpawnClaimed \/ RecoverPanic \/ DropPanicked \/ ReapStrays
         \/ \E s \in Service : ReapJoined(s)
  PROVE  Accounted
<1>1. /\ UNCHANGED <<pid, stray_timers, stray_kills>> /\ orphans' \subseteq orphans
      /\ \A x \in orphans' : strays' = strays \/ x \notin strays
  BY DEF SpawnClaimed, RecoverPanic, DropPanicked, ReapStrays, ReapJoined, SignalGroups
<1> SUFFICES ASSUME NEW x \in orphans', Tracked(x) PROVE Tracked(x)'
  BY <1>1 DEF Accounted
<1>2. x \in orphans /\ x[1] \in Service /\ x = <<x[1], x[2]>> /\ x[2] # 0
  BY <1>1 DEF TypeInv, TypeOK, ProcessesOK, Groups
<1>3. CASE SpawnClaimed
  <2>1. \A q \in Service : pc'[q] = pc[q] \/ pc[q] = "none"
    BY <1>3, PcTyped DEF SpawnClaimed, HandshakeInv, BatchesSound, GateInv, TasksJoined
  <2> QED
    BY <1>1, <1>2, <1>3, <2>1 DEF SpawnClaimed, Tracked, Launched
<1>4. CASE RecoverPanic
  <2>1. /\ pc[Loop] = "recover" /\ \A q \in Service : pc'[q] = pc[q]
        /\ UNCHANGED <<groups, reaping, strays>>
        /\ x \notin {y \in LiveGroups : y[1] = reaping}
    BY <1>4, PcTyped DEF RecoverPanic, SignalGroups, Goto
  <2>2. ~(groups[x[1]] = x[2] /\ reaping = x[1])
    BY <1>2, <2>1 DEF LiveGroups
  <2> QED
    BY <1>1, <1>2, <2>1, <2>2 DEF Tracked
<1>5. CASE DropPanicked
  <2>1. /\ pc[Loop] = "drop" /\ \A q \in Service : pc'[q] = pc[q]
        /\ UNCHANGED strays /\ \A q \in Service : q # reaping => groups'[q] = groups[q]
    BY <1>5, PcTyped DEF DropPanicked, Goto, TypeInv, TypeOK, SharedOK
  <2>2. pc[reaping] = "none"
    BY <2>1 DEF DeliveryInv, RecoveredIsGone
  <2> QED
    BY <1>1, <1>2, <2>1, <2>2 DEF Tracked
<1>6. CASE ReapStrays
  BY <1>1, <1>2, <1>6, PcTyped DEF ReapStrays, Goto, Tracked
<1>7. ASSUME NEW s \in Service, ReapJoined(s) PROVE Tracked(x)'
  <2>1. /\ UNCHANGED <<groups, strays>> /\ \A q \in Service : q # s => pc'[q] = pc[q]
        /\ pc[Loop] = "select" /\ pc[s] \in {"done", "panicked"}
        /\ pc[s] = "panicked" => pc'[Loop] = "recover" /\ reaping' = s
    BY <1>7, PcTyped DEF ReapJoined
  <2> QED
    BY <1>1, <1>2, <2>1 DEF Tracked, Launched
<1> QED
  BY <1>2, <1>3, <1>4, <1>5, <1>6, <1>7

\* Whoever takes a stray from the list kills it.
LEMMA LeftoversTaken ==
  ASSUME TypeInv,
         \/ SecondSignal \/ (EscalateGlobalStop /\ global_stopped)
         \/ \E x \in stray_timers : StrayTimer(x)
         \/ \E x \in stray_kills : KillStray(x)
  PROVE  Accounted
<1>1. /\ UNCHANGED <<pid, groups, reaping>> /\ orphans' \subseteq orphans
      /\ pc'[Loop] = pc[Loop] /\ \A q \in Service : pc'[q] = pc[q]
  BY PcTyped
  DEF SecondSignal, EscalateGlobalStop, ForceShutdown, StrayTimer, KillStray, SignalGroups, Goto
<1>2. \A x \in orphans' : \/ x \in strays \cap stray_timers => x \in strays' \cap stray_timers'
                            \/ x \in stray_kills'
  BY DEF SecondSignal, EscalateGlobalStop, ForceShutdown, StrayTimer, KillStray, SignalGroups
<1>3. \A x \in orphans' : x \in stray_kills => x \in stray_kills'
  BY DEF SecondSignal, EscalateGlobalStop, ForceShutdown, StrayTimer, KillStray
<1> SUFFICES ASSUME NEW x \in orphans', Tracked(x) PROVE Tracked(x)'
  BY <1>1 DEF Accounted
<1>4. x[1] \in Service
  BY <1>1 DEF TypeInv, TypeOK, ProcessesOK, Groups
<1> QED
  BY <1>1, <1>2, <1>3, <1>4 DEF Tracked

LEMMA LeftoversStep ==
  TypeInv /\ HandshakeInv /\ GateInv /\ SignalInv /\ DeliveryInv /\ [Next]_vars => [Accounted]_vars
<1> SUFFICES ASSUME TypeInv, HandshakeInv, GateInv, SignalInv, DeliveryInv, Next, vars' # vars
             PROVE  Accounted
  OBVIOUS
<1>1. ~Rest
  BY DEF Rest
<1>2. ASSUME NEW s \in Service, TaskStep(s) \/ TaskPanics(s) \/ ChildExits(s) PROVE Accounted
  BY <1>2, TidyTask, TidyKeeps, LeftoversLaunch, LeftoversEnd DEF TaskStep
<1>3. CASE \/ \E p \in Pollers : PollStep(p) \/ CheckPasses(p) \/ CheckFails(p)
           \/ \E t \in Thread : SetExitCode(t) \/ BeginShutdown(t) \/ CancelAndTerm(t)
  BY <1>3, TidyElsewhere, TidyKeeps
<1>4. CASE LoopStep
  BY <1>4, TidyElsewhere, TidyKeeps, LeftoversLoop DEF LoopStep
<1>5. CASE TimerStep
  BY <1>5, TidyElsewhere, TidyKeeps, LeftoversTaken DEF TimerStep
<1>6. CASE UiWork \/ UiQuit \/ \E s \in Service : UiStop(s) \/ UiRestart(s)
  BY <1>6, TidyElsewhere, TidyKeeps, LeftoversTaken DEF UiWork
<1>7. CASE FirstSignal \/ SecondSignal \/ \E x \in orphans : LeftoverExits(x)
  BY <1>7, TidyElsewhere, TidyKeeps, LeftoversTaken
<1> QED
  BY <1>1, <1>2, <1>3, <1>4, <1>5, <1>6, <1>7 DEF Next

\* lifecycle.rs:sweep_group, shutdown.rs:escalate_stray, mod.rs:recover_panic: no group member
\* left behind by its leader is forgotten before the process exits, unless its task unwinds
\* before register_group or between deregister_group and the sweep.
THEOREM LeftoversStayTracked == Spec => LeftoversTracked
<1>1. Spec => [][Accounted]_vars
  BY TypeInvariant, HandshakeInvariant, GateInvariant, SignalInvariant, DeliveryInvariant,
     LeftoversStep, PTL DEF Spec
<1> QED
  BY <1>1 DEF LeftoversTracked, Accounted

=============================================================================
