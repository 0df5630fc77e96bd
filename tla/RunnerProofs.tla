----------------------------- MODULE RunnerProofs -----------------------------
(* Type correctness of Runner, one lemma per action and one step per group   *)
(* of variables it can disturb; then the restart handshake and the dependency *)
(* gates: for every configuration, topology and bound.                       *)
EXTENDS RunnerProps, TLAPS

-----------------------------------------------------------------------------
(* Types, and the two counters that go with a place in the code.           *)

\* The user's call in progress is counted as arming from its first lock to its last.
InRestart == op = "restart" /\ pc[Ui] \in {"mark", "note", "term", "kill", "queue"}
ArmingMatchesUi ==
  /\ restarts_arming = IF InRestart THEN 1 ELSE 0
  /\ pc[Ui] = "queue" => op = "restart"

\* A task past its spawn, and a process that exists, have a pgid.
SpawnedHasPid ==
  \A s \in Service :
    \/ child[s] # "none"
    \/ pc[s] \in {"register", "send_kill", "send_term", "send_term_escalate"}
    => pid[s] # 0

TypeInv == TypeOK /\ ArmingMatchesUi /\ SpawnedHasPid

LEMMA TypeInit == Init => TypeInv
<1> SUFFICES ASSUME Init PROVE TypeInv
  OBVIOUS
<1>1. \A t \in Thread :
        /\ t \in Service => pc[t] = "none"
        /\ t \in Pollers => pc[t] = "off"
        /\ t = Ui => pc[t] = "idle"
        /\ t = Sig => pc[t] = "first"
        /\ t = Loop => pc[t] = "spawn"
  BY ThreadAssumption DEF Init, Thread
<1>2. LabelsOK
  BY <1>1, ThreadAssumption
  DEF Init, LabelsOK, Thread, TaskLabels, PollerLabels, UiLabels, SigLabels, LoopLabels
<1>3. SharedOK /\ RestartsOK /\ ServicesOK /\ LoopOK /\ UiOK /\ TimersOK
  BY DEF Init, SharedOK, RestartsOK, ServicesOK, LoopOK, UiOK, TimersOK, Gates, Statuses, Groups
<1>4. TasksOK
  BY DEF Init, TasksOK, ExitStatus
<1>5. ProcessesOK /\ PollersOK
  BY DEF Init, ProcessesOK, PollersOK, Groups
<1>6. ArmingMatchesUi /\ SpawnedHasPid
  BY <1>1 DEF Init, ArmingMatchesUi, InRestart, SpawnedHasPid, Thread
<1> QED
  BY <1>2, <1>3, <1>4, <1>5, <1>6 DEF TypeInv, TypeOK

USE DEF TypeInv, TypeOK, taskFrame, pollFrame, uiFrame, loopFrame, downFrame, timerFrame,
        flagVars, restartVars, svcVars, loopVars, taskVars, procVars, pollVars, quitVars, uiVars,
        timerVars, strayVars

LEMMA TypeAwaitDep ==
  ASSUME TypeInv, NEW s \in Service, AwaitDep(s)
  PROVE  TypeInv'
<1>1. LabelsOK'
  BY ThreadAssumption DEF AwaitDep, LabelsOK, Goto, Thread, TaskLabels
<1>2. TasksOK'
  <2>1. at \in [Service -> Nat \ {0}]
    BY DEF TasksOK
  <2>2. at' \in [Service -> Nat \ {0}]
    <3>1. CASE at' = [at EXCEPT ![s] = @ + 1]
      BY <2>1, <3>1
    <3>2. CASE UNCHANGED at
      BY <2>1, <3>2
    <3> QED
      BY <3>1, <3>2 DEF AwaitDep
  <2> QED
    BY <2>2 DEF AwaitDep, TasksOK
<1>3. SharedOK' /\ RestartsOK' /\ ServicesOK' /\ LoopOK' /\ ProcessesOK' /\ PollersOK' /\ UiOK' /\
  TimersOK'
  BY DEF AwaitDep, SharedOK, RestartsOK, ServicesOK, LoopOK, ProcessesOK, PollersOK, UiOK, TimersOK
<1>4. ArmingMatchesUi' /\ SpawnedHasPid'
  BY ThreadAssumption DEF AwaitDep, ArmingMatchesUi, InRestart, SpawnedHasPid, ProcessesOK,
    LabelsOK, Goto, Thread, TaskLabels
<1> QED
  BY <1>1, <1>2, <1>3, <1>4

LEMMA TypeBeginAttempts ==
  ASSUME TypeInv, NEW s \in Service, BeginAttempts(s)
  PROVE  TypeInv'
<1>1. LabelsOK'
  BY ThreadAssumption DEF BeginAttempts, LabelsOK, Goto, Thread, TaskLabels, PollerLabels
<1>2. TasksOK'
  BY DEF BeginAttempts, TasksOK
<1>3. PollersOK'
  BY DEF BeginAttempts, PollersOK
<1>4. SharedOK' /\ RestartsOK' /\ ServicesOK' /\ LoopOK' /\ ProcessesOK' /\ UiOK' /\ TimersOK'
  BY DEF BeginAttempts, SharedOK, RestartsOK, ServicesOK, LoopOK, ProcessesOK, UiOK, TimersOK
<1>5. ArmingMatchesUi' /\ SpawnedHasPid'
  BY ThreadAssumption DEF BeginAttempts, ArmingMatchesUi, InRestart, SpawnedHasPid, ProcessesOK,
    LabelsOK, Goto, Thread, TaskLabels, PollerLabels
<1> QED
  BY <1>1, <1>2, <1>3, <1>4, <1>5

LEMMA TypeAbandon ==
  ASSUME TypeInv, NEW s \in Service, Abandon(s)
  PROVE  TypeInv'
<1>1. LabelsOK'
  BY ThreadAssumption DEF Abandon, LabelsOK, Goto, Thread, TaskLabels
<1>2. ServicesOK'
  BY DEF Abandon, ServicesOK, FinishIfActive, SignalDep, Gates, Statuses
<1>3. SharedOK' /\ RestartsOK' /\ LoopOK' /\ TasksOK' /\ ProcessesOK' /\ PollersOK' /\ UiOK' /\
  TimersOK'
  BY DEF Abandon, SharedOK, RestartsOK, LoopOK, TasksOK, ProcessesOK, PollersOK, UiOK, TimersOK
<1>4. ArmingMatchesUi' /\ SpawnedHasPid'
  BY ThreadAssumption DEF Abandon, ArmingMatchesUi, InRestart, SpawnedHasPid, ProcessesOK, LabelsOK,
    Goto, Thread, TaskLabels
<1> QED
  BY <1>1, <1>2, <1>3, <1>4

LEMMA TypeAttempt ==
  ASSUME TypeInv, NEW s \in Service, Attempt(s)
  PROVE  TypeInv'
<1>1. LabelsOK'
  BY ThreadAssumption DEF Attempt, LabelsOK, Goto, Thread, TaskLabels
<1>2. SharedOK' /\ RestartsOK' /\ ServicesOK' /\ LoopOK' /\ TasksOK' /\ ProcessesOK' /\ PollersOK'
  /\ UiOK' /\ TimersOK'
  BY DEF Attempt, SharedOK, RestartsOK, ServicesOK, LoopOK, TasksOK, ProcessesOK, PollersOK, UiOK,
    TimersOK
<1>3. ArmingMatchesUi' /\ SpawnedHasPid'
  BY ThreadAssumption DEF Attempt, ArmingMatchesUi, InRestart, SpawnedHasPid, ProcessesOK, LabelsOK,
    Goto, Thread, TaskLabels
<1> QED
  BY <1>1, <1>2, <1>3

LEMMA TypeSpawnChild ==
  ASSUME TypeInv, NEW s \in Service, SpawnChild(s)
  PROVE  TypeInv'
<1>1. LabelsOK'
  BY ThreadAssumption DEF SpawnChild, LabelsOK, Goto, Thread, TaskLabels
<1>2. ProcessesOK'
  BY DEF SpawnChild, ProcessesOK
<1>3. SharedOK' /\ RestartsOK' /\ ServicesOK' /\ LoopOK' /\ TasksOK' /\ PollersOK' /\ UiOK' /\
  TimersOK'
  BY DEF SpawnChild, SharedOK, RestartsOK, ServicesOK, LoopOK, TasksOK, PollersOK, UiOK, TimersOK
<1>4. ArmingMatchesUi' /\ SpawnedHasPid'
  BY ThreadAssumption DEF SpawnChild, ArmingMatchesUi, InRestart, SpawnedHasPid, ProcessesOK,
    LabelsOK, Goto, Thread, TaskLabels
<1> QED
  BY <1>1, <1>2, <1>3, <1>4

LEMMA TypeSpawnFailure ==
  ASSUME TypeInv, NEW s \in Service, SpawnFailure(s)
  PROVE  TypeInv'
<1>1. LabelsOK'
  BY ThreadAssumption DEF SpawnFailure, LabelsOK, Goto, Thread, TaskLabels, RetryOrSettle
<1>2. TasksOK'
  BY DEF SpawnFailure, TasksOK, RetryOrSettle, ExitStatus
<1>3. SharedOK' /\ RestartsOK' /\ ServicesOK' /\ LoopOK' /\ ProcessesOK' /\ PollersOK' /\ UiOK' /\
  TimersOK'
  BY DEF SpawnFailure, SharedOK, RestartsOK, ServicesOK, LoopOK, ProcessesOK, PollersOK, UiOK,
    TimersOK
<1>4. ArmingMatchesUi' /\ SpawnedHasPid'
  BY ThreadAssumption DEF SpawnFailure, ArmingMatchesUi, InRestart, SpawnedHasPid, ProcessesOK,
    LabelsOK, Goto, Thread, TaskLabels, RetryOrSettle
<1> QED
  BY <1>1, <1>2, <1>3, <1>4

LEMMA TypeRegisterGroup ==
  ASSUME TypeInv, NEW s \in Service, RegisterGroup(s)
  PROVE  TypeInv'
<1>1. LabelsOK'
  BY ThreadAssumption DEF RegisterGroup, LabelsOK, Goto, Thread, TaskLabels, OnRegistration
<1>2. SharedOK'
  BY DEF RegisterGroup, SharedOK, ProcessesOK
<1>3. ServicesOK'
  BY DEF RegisterGroup, ServicesOK, OnRegistration, Statuses
<1>4. RestartsOK' /\ LoopOK' /\ TasksOK' /\ ProcessesOK' /\ PollersOK' /\ UiOK' /\ TimersOK'
  BY DEF RegisterGroup, RestartsOK, LoopOK, TasksOK, ProcessesOK, PollersOK, UiOK, TimersOK
<1>5. ArmingMatchesUi' /\ SpawnedHasPid'
  BY ThreadAssumption DEF RegisterGroup, ArmingMatchesUi, InRestart, SpawnedHasPid, ProcessesOK,
    LabelsOK, Goto, Thread, TaskLabels, OnRegistration
<1> QED
  BY <1>1, <1>2, <1>3, <1>4, <1>5

LEMMA TypeSignalLate ==
  ASSUME TypeInv, NEW s \in Service, SignalLate(s)
  PROVE  TypeInv'
<1>1. LabelsOK'
  BY ThreadAssumption DEF SignalLate, LabelsOK, Goto, Thread, TaskLabels
<1>2. ProcessesOK'
  BY DEF SignalLate, ProcessesOK, Hit, SignalGroups, Groups
<1>3. TimersOK'
  <2>1. <<s, pid[s]>> \in Groups
    BY DEF SignalLate, SpawnedHasPid, ProcessesOK, Groups
  <2> QED
    BY <2>1 DEF SignalLate, TimersOK
<1>4. SharedOK' /\ RestartsOK' /\ ServicesOK' /\ LoopOK' /\ TasksOK' /\ PollersOK' /\ UiOK'
  BY DEF SignalLate, SharedOK, RestartsOK, ServicesOK, LoopOK, TasksOK, PollersOK, UiOK,
    SignalGroups
<1>5. ArmingMatchesUi' /\ SpawnedHasPid'
  BY ThreadAssumption DEF SignalLate, ArmingMatchesUi, InRestart, SpawnedHasPid, ProcessesOK,
    LabelsOK, Goto, Thread, TaskLabels, Hit, SignalGroups
<1> QED
  BY <1>1, <1>2, <1>3, <1>4, <1>5

LEMMA TypeReleaseDependents ==
  ASSUME TypeInv, NEW s \in Service, ReleaseDependents(s)
  PROVE  TypeInv'
<1>1. LabelsOK'
  BY ThreadAssumption DEF ReleaseDependents, LabelsOK, Goto, Thread, TaskLabels
<1>2. ServicesOK'
  BY DEF ReleaseDependents, ServicesOK, SignalDep, Gates
<1>3. PollersOK'
  BY DEF ReleaseDependents, PollersOK, SignalDep, Gates
<1>4. SharedOK' /\ RestartsOK' /\ LoopOK' /\ TasksOK' /\ ProcessesOK' /\ UiOK' /\ TimersOK'
  BY DEF ReleaseDependents, SharedOK, RestartsOK, LoopOK, TasksOK, ProcessesOK, UiOK, TimersOK
<1>5. ArmingMatchesUi' /\ SpawnedHasPid'
  BY ThreadAssumption DEF ReleaseDependents, ArmingMatchesUi, InRestart, SpawnedHasPid, ProcessesOK,
    LabelsOK, Goto, Thread, TaskLabels
<1> QED
  BY <1>1, <1>2, <1>3, <1>4, <1>5

LEMMA TypeReapChild ==
  ASSUME TypeInv, NEW s \in Service, ReapChild(s)
  PROVE  TypeInv'
<1>1. LabelsOK'
  BY ThreadAssumption DEF ReapChild, LabelsOK, Goto, Thread, TaskLabels
<1>2. ProcessesOK'
  BY DEF ReapChild, ProcessesOK
<1>3. SharedOK' /\ RestartsOK' /\ ServicesOK' /\ LoopOK' /\ TasksOK' /\ PollersOK' /\ UiOK' /\
  TimersOK'
  BY DEF ReapChild, SharedOK, RestartsOK, ServicesOK, LoopOK, TasksOK, PollersOK, UiOK, TimersOK
<1>4. ArmingMatchesUi' /\ SpawnedHasPid'
  BY ThreadAssumption DEF ReapChild, ArmingMatchesUi, InRestart, SpawnedHasPid, ProcessesOK,
    LabelsOK, Goto, Thread, TaskLabels
<1> QED
  BY <1>1, <1>2, <1>3, <1>4

LEMMA TypeDeregisterGroup ==
  ASSUME TypeInv, NEW s \in Service, DeregisterGroup(s)
  PROVE  TypeInv'
<1>1. LabelsOK'
  BY ThreadAssumption DEF DeregisterGroup, LabelsOK, Goto, Thread, TaskLabels
<1>2. SharedOK'
  BY DEF DeregisterGroup, SharedOK
<1>3. TasksOK'
  BY DEF DeregisterGroup, TasksOK
<1>4. PollersOK'
  BY DEF DeregisterGroup, PollersOK
<1>5. RestartsOK' /\ ServicesOK' /\ LoopOK' /\ ProcessesOK' /\ UiOK' /\ TimersOK'
  BY DEF DeregisterGroup, RestartsOK, ServicesOK, LoopOK, ProcessesOK, UiOK, TimersOK
<1>6. ArmingMatchesUi' /\ SpawnedHasPid'
  BY ThreadAssumption DEF DeregisterGroup, ArmingMatchesUi, InRestart, SpawnedHasPid, ProcessesOK,
    LabelsOK, Goto, Thread, TaskLabels
<1> QED
  BY <1>1, <1>2, <1>3, <1>4, <1>5, <1>6

LEMMA TypeSweepGroup ==
  ASSUME TypeInv, NEW s \in Service, SweepGroup(s)
  PROVE  TypeInv'
<1>1. LabelsOK'
  BY ThreadAssumption DEF SweepGroup, LabelsOK, Goto, Thread, TaskLabels
<1>2. TimersOK'
  BY DEF SweepGroup, ProcessesOK, TimersOK
<1>3. SharedOK' /\ RestartsOK' /\ ServicesOK' /\ LoopOK' /\ TasksOK' /\ ProcessesOK' /\ PollersOK'
  /\ UiOK'
  BY DEF SweepGroup, SharedOK, RestartsOK, ServicesOK, LoopOK, TasksOK, ProcessesOK, PollersOK, UiOK
<1>4. ArmingMatchesUi' /\ SpawnedHasPid'
  BY ThreadAssumption DEF SweepGroup, ArmingMatchesUi, InRestart, SpawnedHasPid, ProcessesOK,
    LabelsOK, Goto, Thread, TaskLabels
<1> QED
  BY <1>1, <1>2, <1>3, <1>4

LEMMA TypeSettleExpected ==
  ASSUME TypeInv, NEW s \in Service, SettleExpected(s)
  PROVE  TypeInv'
<1>1. LabelsOK'
  BY ThreadAssumption DEF SettleExpected, LabelsOK, Goto, Thread, TaskLabels
<1>2. ServicesOK'
  BY DEF SettleExpected, ServicesOK, Statuses
<1>3. SharedOK' /\ RestartsOK' /\ LoopOK' /\ TasksOK' /\ ProcessesOK' /\ PollersOK' /\ UiOK' /\
  TimersOK'
  BY DEF SettleExpected, SharedOK, RestartsOK, LoopOK, TasksOK, ProcessesOK, PollersOK, UiOK,
    TimersOK
<1>4. ArmingMatchesUi' /\ SpawnedHasPid'
  BY ThreadAssumption DEF SettleExpected, ArmingMatchesUi, InRestart, SpawnedHasPid, ProcessesOK,
    LabelsOK, Goto, Thread, TaskLabels
<1> QED
  BY <1>1, <1>2, <1>3, <1>4

LEMMA TypeReleaseCompleted ==
  ASSUME TypeInv, NEW s \in Service, ReleaseCompleted(s)
  PROVE  TypeInv'
<1>1. LabelsOK'
  BY ThreadAssumption DEF ReleaseCompleted, LabelsOK, Goto, Thread, TaskLabels
<1>2. ServicesOK'
  BY DEF ReleaseCompleted, ServicesOK, SignalDep, Gates
<1>3. SharedOK' /\ RestartsOK' /\ LoopOK' /\ TasksOK' /\ ProcessesOK' /\ PollersOK' /\ UiOK' /\
  TimersOK'
  BY DEF ReleaseCompleted, SharedOK, RestartsOK, LoopOK, TasksOK, ProcessesOK, PollersOK, UiOK,
    TimersOK
<1>4. ArmingMatchesUi' /\ SpawnedHasPid'
  BY ThreadAssumption DEF ReleaseCompleted, ArmingMatchesUi, InRestart, SpawnedHasPid, ProcessesOK,
    LabelsOK, Goto, Thread, TaskLabels
<1> QED
  BY <1>1, <1>2, <1>3, <1>4

LEMMA TypeClassifyExit ==
  ASSUME TypeInv, NEW s \in Service, ClassifyExit(s)
  PROVE  TypeInv'
<1>1. LabelsOK'
  BY ThreadAssumption DEF ClassifyExit, LabelsOK, Goto, Thread, TaskLabels, RetryOrSettle
<1>2. ServicesOK'
  BY DEF ClassifyExit, ServicesOK, FinishIfActive, Statuses, RetryOrSettle
<1>3. TasksOK'
  <2>1. attempt \in [Service -> Nat \ {0}]
    BY DEF TasksOK
  <2>2. attempt' \in [Service -> Nat \ {0}]
    <3>1. CASE UNCHANGED attempt
      BY <2>1, <3>1
    <3>2. CASE RetryOrSettle(s)
      BY <2>1, <3>2 DEF RetryOrSettle
    <3> QED
      BY <3>1, <3>2 DEF ClassifyExit
  <2> QED
    BY <2>2 DEF ClassifyExit, TasksOK
<1>4. SharedOK' /\ RestartsOK' /\ LoopOK' /\ ProcessesOK' /\ PollersOK' /\ UiOK' /\ TimersOK'
  BY DEF ClassifyExit, SharedOK, RestartsOK, LoopOK, ProcessesOK, PollersOK, UiOK, TimersOK
<1>5. ArmingMatchesUi' /\ SpawnedHasPid'
  BY ThreadAssumption DEF ClassifyExit, ArmingMatchesUi, InRestart, SpawnedHasPid, ProcessesOK,
    LabelsOK, Goto, Thread, TaskLabels, RetryOrSettle
<1> QED
  BY <1>1, <1>2, <1>3, <1>4, <1>5

LEMMA TypeSettleTerminally ==
  ASSUME TypeInv, NEW s \in Service, SettleTerminally(s)
  PROVE  TypeInv'
<1>1. LabelsOK'
  BY ThreadAssumption DEF SettleTerminally, LabelsOK, Goto, Thread, TaskLabels
<1>2. ServicesOK'
  BY DEF SettleTerminally, ServicesOK, FinishIfActive, SignalDep, Gates, Statuses
<1>3. SharedOK' /\ RestartsOK' /\ LoopOK' /\ TasksOK' /\ ProcessesOK' /\ PollersOK' /\ UiOK' /\
  TimersOK'
  BY DEF SettleTerminally, SharedOK, RestartsOK, LoopOK, TasksOK, ProcessesOK, PollersOK, UiOK,
    TimersOK
<1>4. ArmingMatchesUi' /\ SpawnedHasPid'
  BY ThreadAssumption DEF SettleTerminally, ArmingMatchesUi, InRestart, SpawnedHasPid, ProcessesOK,
    LabelsOK, Goto, Thread, TaskLabels
<1> QED
  BY <1>1, <1>2, <1>3, <1>4

LEMMA TypeFinishTask ==
  ASSUME TypeInv, NEW s \in Service, FinishTask(s)
  PROVE  TypeInv'
<1>1. LabelsOK'
  BY ThreadAssumption DEF FinishTask, TasksOK, LabelsOK, Thread, TaskLabels, PollerLabels, UiLabels,
    SigLabels, LoopLabels
<1>2. TasksOK'
  BY DEF FinishTask, TasksOK
<1>3. SharedOK' /\ RestartsOK' /\ ServicesOK' /\ LoopOK' /\ ProcessesOK' /\ PollersOK' /\ UiOK' /\
  TimersOK'
  BY DEF FinishTask, SharedOK, RestartsOK, ServicesOK, LoopOK, ProcessesOK, PollersOK, UiOK,
    TimersOK
<1>4. ArmingMatchesUi' /\ SpawnedHasPid'
  BY ThreadAssumption DEF FinishTask, ArmingMatchesUi, InRestart, SpawnedHasPid, ProcessesOK,
    LabelsOK, Goto, Thread, TaskLabels, PollerLabels
<1> QED
  BY <1>1, <1>2, <1>3, <1>4

LEMMA TypeTaskPanics ==
  ASSUME TypeInv, NEW s \in Service, TaskPanics(s)
  PROVE  TypeInv'
<1>1. LabelsOK'
  BY ThreadAssumption DEF TaskPanics, LabelsOK, Goto, Thread, TaskLabels
<1>2. ProcessesOK'
  <2>1. child[s] # "none" => <<s, pid[s]>> \in Groups
    BY DEF SpawnedHasPid, ProcessesOK, Groups
  <2> QED
    BY <2>1 DEF TaskPanics, ProcessesOK
<1>3. TasksOK'
  BY DEF TaskPanics, TasksOK
<1>4. SharedOK' /\ RestartsOK' /\ ServicesOK' /\ LoopOK' /\ PollersOK' /\ UiOK' /\ TimersOK'
  BY DEF TaskPanics, SharedOK, RestartsOK, ServicesOK, LoopOK, PollersOK, UiOK, TimersOK
<1>5. ArmingMatchesUi' /\ SpawnedHasPid'
  BY ThreadAssumption DEF TaskPanics, ArmingMatchesUi, InRestart, SpawnedHasPid, ProcessesOK,
    LabelsOK, Goto, Thread, TaskLabels
<1> QED
  BY <1>1, <1>2, <1>3, <1>4, <1>5

LEMMA TypeAwaitFirstLaunch ==
  ASSUME TypeInv, NEW p \in Pollers, AwaitFirstLaunch(p)
  PROVE  TypeInv'
<1>1. LabelsOK'
  BY ThreadAssumption DEF AwaitFirstLaunch, LabelsOK, Goto, Thread, PollerLabels
<1>2. SharedOK' /\ RestartsOK' /\ ServicesOK' /\ LoopOK' /\ TasksOK' /\ ProcessesOK' /\ PollersOK'
  /\ UiOK' /\ TimersOK'
  BY DEF AwaitFirstLaunch, SharedOK, RestartsOK, ServicesOK, LoopOK, TasksOK, ProcessesOK,
    PollersOK, UiOK, TimersOK
<1>3. ArmingMatchesUi' /\ SpawnedHasPid'
  BY ThreadAssumption DEF AwaitFirstLaunch, ArmingMatchesUi, InRestart, SpawnedHasPid, ProcessesOK,
    LabelsOK, Goto, Thread, PollerLabels
<1> QED
  BY <1>1, <1>2, <1>3

LEMMA TypeCheckPasses ==
  ASSUME TypeInv, NEW p \in Pollers, CheckPasses(p)
  PROVE  TypeInv'
<1>1. LabelsOK'
  BY ThreadAssumption DEF CheckPasses, LabelsOK, Goto, Thread, PollerLabels
<1>2. SharedOK' /\ RestartsOK' /\ ServicesOK' /\ LoopOK' /\ TasksOK' /\ ProcessesOK' /\ PollersOK'
  /\ UiOK' /\ TimersOK'
  BY DEF CheckPasses, SharedOK, RestartsOK, ServicesOK, LoopOK, TasksOK, ProcessesOK, PollersOK,
    UiOK, TimersOK
<1>3. ArmingMatchesUi' /\ SpawnedHasPid'
  BY ThreadAssumption DEF CheckPasses, ArmingMatchesUi, InRestart, SpawnedHasPid, ProcessesOK,
    LabelsOK, Goto, Thread, PollerLabels
<1> QED
  BY <1>1, <1>2, <1>3

LEMMA TypeWithholdOrRelease ==
  ASSUME TypeInv, NEW p \in Pollers, WithholdOrRelease(p)
  PROVE  TypeInv'
<1>1. LabelsOK'
  BY ThreadAssumption DEF WithholdOrRelease, LabelsOK, Goto, Thread, PollerLabels
<1>2. SharedOK' /\ RestartsOK' /\ ServicesOK' /\ LoopOK' /\ TasksOK' /\ ProcessesOK' /\ PollersOK'
  /\ UiOK' /\ TimersOK'
  BY DEF WithholdOrRelease, SharedOK, RestartsOK, ServicesOK, LoopOK, TasksOK, ProcessesOK,
    PollersOK, UiOK, TimersOK
<1>3. ArmingMatchesUi' /\ SpawnedHasPid'
  BY ThreadAssumption DEF WithholdOrRelease, ArmingMatchesUi, InRestart, SpawnedHasPid, ProcessesOK,
    LabelsOK, Goto, Thread, PollerLabels
<1> QED
  BY <1>1, <1>2, <1>3

LEMMA TypeCheckFails ==
  ASSUME TypeInv, NEW p \in Pollers, CheckFails(p)
  PROVE  TypeInv'
<1>1. LabelsOK'
  BY ThreadAssumption DEF CheckFails, LabelsOK, Goto, Thread, PollerLabels
<1>2. SharedOK' /\ RestartsOK' /\ ServicesOK' /\ LoopOK' /\ TasksOK' /\ ProcessesOK' /\ PollersOK'
  /\ UiOK' /\ TimersOK'
  BY DEF CheckFails, SharedOK, RestartsOK, ServicesOK, LoopOK, TasksOK, ProcessesOK, PollersOK,
    UiOK, TimersOK
<1>3. ArmingMatchesUi' /\ SpawnedHasPid'
  BY ThreadAssumption DEF CheckFails, ArmingMatchesUi, InRestart, SpawnedHasPid, ProcessesOK,
    LabelsOK, Goto, Thread, PollerLabels
<1> QED
  BY <1>1, <1>2, <1>3

LEMMA TypeReportReady ==
  ASSUME TypeInv, NEW p \in Pollers, ReportReady(p)
  PROVE  TypeInv'
<1>1. LabelsOK'
  BY ThreadAssumption DEF ReportReady, LabelsOK, Goto, Thread, PollerLabels
<1>2. ServicesOK'
  BY DEF ReportReady, ServicesOK, SignalDep, Gates
<1>3. SharedOK' /\ RestartsOK' /\ LoopOK' /\ TasksOK' /\ ProcessesOK' /\ PollersOK' /\ UiOK' /\
  TimersOK'
  BY DEF ReportReady, SharedOK, RestartsOK, LoopOK, TasksOK, ProcessesOK, PollersOK, UiOK, TimersOK
<1>4. ArmingMatchesUi' /\ SpawnedHasPid'
  BY ThreadAssumption DEF ReportReady, ArmingMatchesUi, InRestart, SpawnedHasPid, ProcessesOK,
    LabelsOK, Goto, Thread, PollerLabels
<1> QED
  BY <1>1, <1>2, <1>3, <1>4

LEMMA TypeReadinessCancelled ==
  ASSUME TypeInv, NEW p \in Pollers, ReadinessCancelled(p)
  PROVE  TypeInv'
<1>1. LabelsOK'
  BY ThreadAssumption DEF ReadinessCancelled, LabelsOK, Goto, Thread, PollerLabels
<1>2. ServicesOK'
  BY DEF ReadinessCancelled, ServicesOK, SignalDep, Gates
<1>3. SharedOK' /\ RestartsOK' /\ LoopOK' /\ TasksOK' /\ ProcessesOK' /\ PollersOK' /\ UiOK' /\
  TimersOK'
  BY DEF ReadinessCancelled, SharedOK, RestartsOK, LoopOK, TasksOK, ProcessesOK, PollersOK, UiOK,
    TimersOK
<1>4. ArmingMatchesUi' /\ SpawnedHasPid'
  BY ThreadAssumption DEF ReadinessCancelled, ArmingMatchesUi, InRestart, SpawnedHasPid,
    ProcessesOK, LabelsOK, Goto, Thread, PollerLabels
<1> QED
  BY <1>1, <1>2, <1>3, <1>4

LEMMA TypeDeadlineElapses ==
  ASSUME TypeInv, NEW p \in Pollers, DeadlineElapses(p)
  PROVE  TypeInv'
<1>1. LabelsOK'
  BY ThreadAssumption DEF DeadlineElapses, LabelsOK, Goto, Thread, PollerLabels
<1>2. SharedOK' /\ RestartsOK' /\ ServicesOK' /\ LoopOK' /\ TasksOK' /\ ProcessesOK' /\ PollersOK'
  /\ UiOK' /\ TimersOK'
  BY DEF DeadlineElapses, SharedOK, RestartsOK, ServicesOK, LoopOK, TasksOK, ProcessesOK, PollersOK,
    UiOK, TimersOK
<1>3. ArmingMatchesUi' /\ SpawnedHasPid'
  BY ThreadAssumption DEF DeadlineElapses, ArmingMatchesUi, InRestart, SpawnedHasPid, ProcessesOK,
    LabelsOK, Goto, Thread, PollerLabels
<1> QED
  BY <1>1, <1>2, <1>3

LEMMA TypeOnReadinessDeadline ==
  ASSUME TypeInv, NEW p \in Pollers, OnReadinessDeadline(p)
  PROVE  TypeInv'
<1>1. LabelsOK'
  BY ThreadAssumption DEF OnReadinessDeadline, LabelsOK, Goto, Thread, PollerLabels
<1>2. SharedOK' /\ RestartsOK' /\ ServicesOK' /\ LoopOK' /\ TasksOK' /\ ProcessesOK' /\ PollersOK'
  /\ UiOK' /\ TimersOK'
  BY DEF OnReadinessDeadline, SharedOK, RestartsOK, ServicesOK, LoopOK, TasksOK, ProcessesOK,
    PollersOK, UiOK, TimersOK
<1>3. ArmingMatchesUi' /\ SpawnedHasPid'
  BY ThreadAssumption DEF OnReadinessDeadline, ArmingMatchesUi, InRestart, SpawnedHasPid,
    ProcessesOK, LabelsOK, Goto, Thread, PollerLabels
<1> QED
  BY <1>1, <1>2, <1>3

LEMMA TypeFailReadinessStartup ==
  ASSUME TypeInv, NEW p \in Pollers, FailReadinessStartup(p)
  PROVE  TypeInv'
<1>1. LabelsOK'
  BY ThreadAssumption DEF FailReadinessStartup, LabelsOK, Goto, Thread, PollerLabels
<1>2. ServicesOK'
  BY DEF FailReadinessStartup, ServicesOK, FinishIfActive, SignalDep, Gates, Statuses
<1>3. SharedOK' /\ RestartsOK' /\ LoopOK' /\ TasksOK' /\ ProcessesOK' /\ PollersOK' /\ UiOK' /\
  TimersOK'
  BY DEF FailReadinessStartup, SharedOK, RestartsOK, LoopOK, TasksOK, ProcessesOK, PollersOK, UiOK,
    TimersOK
<1>4. ArmingMatchesUi' /\ SpawnedHasPid'
  BY ThreadAssumption DEF FailReadinessStartup, ArmingMatchesUi, InRestart, SpawnedHasPid,
    ProcessesOK, LabelsOK, Goto, Thread, PollerLabels
<1> QED
  BY <1>1, <1>2, <1>3, <1>4

LEMMA TypeSetExitCode ==
  ASSUME TypeInv, NEW t \in Thread, SetExitCode(t)
  PROVE  TypeInv'
<1>1. LabelsOK'
  BY ThreadAssumption DEF SetExitCode, LabelsOK, Goto, Thread, TaskLabels, PollerLabels, UiLabels,
    SigLabels, LoopLabels
<1>2. SharedOK'
  <2>1. FailCode(t) \in Nat
    <3>1. CASE t \in Service
      <4>1. exit[t] \in ExitStatus
        BY <3>1 DEF TasksOK
      <4>2. exit[t].n \in Nat
        BY <4>1 DEF ExitStatus
      <4> QED
        BY <3>1, <4>2 DEF FailCode, ResultCode
    <3> QED
      BY <3>1 DEF FailCode
  <2> QED
    BY <2>1 DEF SetExitCode, RecordedCode, SharedOK
<1>3. RestartsOK' /\ ServicesOK' /\ LoopOK' /\ TasksOK' /\ ProcessesOK' /\ PollersOK' /\ UiOK' /\
  TimersOK'
  BY DEF SetExitCode, RestartsOK, ServicesOK, LoopOK, TasksOK, ProcessesOK, PollersOK, UiOK,
    TimersOK
<1>4. ArmingMatchesUi' /\ SpawnedHasPid'
  BY ThreadAssumption DEF SetExitCode, ArmingMatchesUi, InRestart, SpawnedHasPid, ProcessesOK,
    LabelsOK, Goto, Thread, TaskLabels, PollerLabels, UiLabels, SigLabels, LoopLabels
<1> QED
  BY <1>1, <1>2, <1>3, <1>4

LEMMA TypeBeginShutdown ==
  ASSUME TypeInv, NEW t \in Thread, BeginShutdown(t)
  PROVE  TypeInv'
<1>1. LabelsOK'
  BY ThreadAssumption DEF BeginShutdown, LabelsOK, Goto, Thread, TaskLabels, PollerLabels, UiLabels,
    SigLabels, LoopLabels, AfterShutdown
<1>2. SharedOK'
  BY DEF BeginShutdown, SharedOK, AfterShutdown
<1>3. RestartsOK' /\ ServicesOK' /\ LoopOK' /\ TasksOK' /\ ProcessesOK' /\ PollersOK' /\ UiOK' /\
  TimersOK'
  BY DEF BeginShutdown, RestartsOK, ServicesOK, LoopOK, TasksOK, ProcessesOK, PollersOK, UiOK,
    TimersOK
<1>4. ArmingMatchesUi' /\ SpawnedHasPid'
  BY ThreadAssumption DEF BeginShutdown, ArmingMatchesUi, InRestart, SpawnedHasPid, ProcessesOK,
    LabelsOK, Goto, Thread, TaskLabels, PollerLabels, UiLabels, SigLabels, LoopLabels, AfterShutdown
<1> QED
  BY <1>1, <1>2, <1>3, <1>4

LEMMA TypeCancelAndTerm ==
  ASSUME TypeInv, NEW t \in Thread, CancelAndTerm(t)
  PROVE  TypeInv'
<1>1. LabelsOK'
  BY ThreadAssumption DEF CancelAndTerm, LabelsOK, Goto, Thread, TaskLabels, PollerLabels, UiLabels,
    SigLabels, LoopLabels, AfterShutdown
<1>2. SharedOK'
  BY DEF CancelAndTerm, SharedOK, AfterShutdown, Hit, SignalGroups
<1>3. ProcessesOK'
  BY DEF CancelAndTerm, ProcessesOK, AfterShutdown, Hit, SignalGroups
<1>4. TimersOK'
  BY DEF CancelAndTerm, TimersOK, AfterShutdown, Hit, SignalGroups
<1>5. RestartsOK' /\ ServicesOK' /\ LoopOK' /\ TasksOK' /\ PollersOK' /\ UiOK'
  BY DEF CancelAndTerm, RestartsOK, ServicesOK, LoopOK, TasksOK, PollersOK, UiOK, SignalGroups
<1>6. ArmingMatchesUi' /\ SpawnedHasPid'
  BY ThreadAssumption DEF CancelAndTerm, ArmingMatchesUi, InRestart, SpawnedHasPid, ProcessesOK,
    LabelsOK, Goto, Thread, TaskLabels, PollerLabels, UiLabels, SigLabels, LoopLabels, Hit,
    SignalGroups, AfterShutdown
<1> QED
  BY <1>1, <1>2, <1>3, <1>4, <1>5, <1>6

LEMMA TypeShutdownTimer ==
  ASSUME TypeInv, ShutdownTimer
  PROVE  TypeInv'
<1>1. LabelsOK'
  BY ThreadAssumption DEF ShutdownTimer, LabelsOK, Goto, Thread
<1>2. SharedOK'
  BY DEF ShutdownTimer, SharedOK, Hit, SignalGroups
<1>3. ProcessesOK'
  BY DEF ShutdownTimer, ProcessesOK, Hit, SignalGroups
<1>4. TimersOK'
  BY DEF ShutdownTimer, TimersOK, Hit, SignalGroups
<1>5. RestartsOK' /\ ServicesOK' /\ LoopOK' /\ TasksOK' /\ PollersOK' /\ UiOK'
  BY DEF ShutdownTimer, RestartsOK, ServicesOK, LoopOK, TasksOK, PollersOK, UiOK, SignalGroups
<1>6. ArmingMatchesUi' /\ SpawnedHasPid'
  BY ThreadAssumption DEF ShutdownTimer, ArmingMatchesUi, InRestart, SpawnedHasPid, ProcessesOK,
    LabelsOK, Goto, Thread, Hit, SignalGroups
<1> QED
  BY <1>1, <1>2, <1>3, <1>4, <1>5, <1>6

LEMMA TypeFirstSignal ==
  ASSUME TypeInv, FirstSignal
  PROVE  TypeInv'
<1>1. LabelsOK'
  BY ThreadAssumption DEF FirstSignal, LabelsOK, Goto, Thread, SigLabels
<1>2. SharedOK' /\ RestartsOK' /\ ServicesOK' /\ LoopOK' /\ TasksOK' /\ ProcessesOK' /\ PollersOK'
  /\ UiOK' /\ TimersOK'
  BY DEF FirstSignal, SharedOK, RestartsOK, ServicesOK, LoopOK, TasksOK, ProcessesOK, PollersOK,
    UiOK, TimersOK
<1>3. ArmingMatchesUi' /\ SpawnedHasPid'
  BY ThreadAssumption DEF FirstSignal, ArmingMatchesUi, InRestart, SpawnedHasPid, ProcessesOK,
    LabelsOK, Goto, Thread, SigLabels
<1> QED
  BY <1>1, <1>2, <1>3

LEMMA TypeSecondSignal ==
  ASSUME TypeInv, SecondSignal
  PROVE  TypeInv'
<1>1. LabelsOK'
  BY ThreadAssumption DEF SecondSignal, LabelsOK, Goto, Thread, SigLabels, ForceShutdown
<1>2. SharedOK'
  BY DEF SecondSignal, SharedOK, ForceShutdown, Hit, SignalGroups
<1>3. ProcessesOK'
  BY DEF SecondSignal, ProcessesOK, ForceShutdown, Hit, SignalGroups
<1>4. TimersOK'
  BY DEF SecondSignal, TimersOK, ForceShutdown, Hit, SignalGroups
<1>5. RestartsOK' /\ ServicesOK' /\ LoopOK' /\ TasksOK' /\ PollersOK' /\ UiOK'
  BY DEF SecondSignal, RestartsOK, ServicesOK, LoopOK, TasksOK, PollersOK, UiOK, ForceShutdown,
    SignalGroups
<1>6. ArmingMatchesUi' /\ SpawnedHasPid'
  BY ThreadAssumption DEF SecondSignal, ArmingMatchesUi, InRestart, SpawnedHasPid, ProcessesOK,
    LabelsOK, Goto, Thread, SigLabels, ForceShutdown, Hit, SignalGroups, ForceShutdown
<1> QED
  BY <1>1, <1>2, <1>3, <1>4, <1>5, <1>6

LEMMA TypeSpawnClaimed ==
  ASSUME TypeInv, SpawnClaimed
  PROVE  TypeInv'
<1>1. LabelsOK'
  BY ThreadAssumption DEF SpawnClaimed, LabelsOK, LoopOK, Thread, TaskLabels, LoopLabels, AwaitNext
<1>2. LoopOK'
  BY DEF SpawnClaimed, LoopOK, AwaitNext
<1>3. TasksOK'
  BY DEF SpawnClaimed, TasksOK, AwaitNext
<1>4. SharedOK' /\ RestartsOK' /\ ServicesOK' /\ ProcessesOK' /\ PollersOK' /\ UiOK' /\ TimersOK'
  BY DEF SpawnClaimed, SharedOK, RestartsOK, ServicesOK, ProcessesOK, PollersOK, UiOK, TimersOK
<1>5. ArmingMatchesUi' /\ SpawnedHasPid'
  BY ThreadAssumption DEF SpawnClaimed, ArmingMatchesUi, InRestart, SpawnedHasPid, ProcessesOK, LoopOK,
    LabelsOK, Thread
<1> QED
  BY <1>1, <1>2, <1>3, <1>4, <1>5

LEMMA TypeTakeReadyRestarts ==
  ASSUME TypeInv, TakeReadyRestarts
  PROVE  TypeInv'
<1>1. LabelsOK'
  BY ThreadAssumption DEF TakeReadyRestarts, LabelsOK, Goto, Thread, LoopLabels, AwaitNext
<1>2. SharedOK'
  BY DEF TakeReadyRestarts, SharedOK, AwaitNext, Gates, Statuses
<1>3. RestartsOK'
  BY DEF TakeReadyRestarts, RestartsOK, AwaitNext, Gates, Statuses
<1>4. ServicesOK'
  BY DEF TakeReadyRestarts, ServicesOK, AwaitNext, Gates, Statuses
<1>5. LoopOK'
  BY DEF TakeReadyRestarts, RestartsOK, LoopOK
<1>6. TasksOK' /\ ProcessesOK' /\ PollersOK' /\ UiOK' /\ TimersOK'
  BY DEF TakeReadyRestarts, TasksOK, ProcessesOK, PollersOK, UiOK, TimersOK
<1>7. ArmingMatchesUi' /\ SpawnedHasPid'
  BY ThreadAssumption DEF TakeReadyRestarts, ArmingMatchesUi, InRestart, SpawnedHasPid, ProcessesOK,
    LabelsOK, Goto, Thread, LoopLabels, AwaitNext
<1> QED
  BY <1>1, <1>2, <1>3, <1>4, <1>5, <1>6, <1>7

LEMMA TypeEndRunIfIdle ==
  ASSUME TypeInv, EndRunIfIdle
  PROVE  TypeInv'
<1>1. LabelsOK'
  BY ThreadAssumption DEF EndRunIfIdle, LabelsOK, Goto, Thread, LoopLabels
<1>2. RestartsOK'
  BY DEF EndRunIfIdle, RestartsOK, RestartInFlight
<1>3. SharedOK' /\ ServicesOK' /\ LoopOK' /\ TasksOK' /\ ProcessesOK' /\ PollersOK' /\ UiOK' /\
  TimersOK'
  BY DEF EndRunIfIdle, SharedOK, ServicesOK, LoopOK, TasksOK, ProcessesOK, PollersOK, UiOK, TimersOK
<1>4. ArmingMatchesUi' /\ SpawnedHasPid'
  BY ThreadAssumption DEF EndRunIfIdle, ArmingMatchesUi, InRestart, SpawnedHasPid, ProcessesOK,
    LabelsOK, Goto, Thread, LoopLabels
<1> QED
  BY <1>1, <1>2, <1>3, <1>4

LEMMA TypeNotified ==
  ASSUME TypeInv, Notified
  PROVE  TypeInv'
<1>1. LabelsOK'
  BY ThreadAssumption DEF Notified, LabelsOK, Goto, Thread, LoopLabels
<1>2. SharedOK'
  BY DEF Notified, SharedOK
<1>3. RestartsOK' /\ ServicesOK' /\ LoopOK' /\ TasksOK' /\ ProcessesOK' /\ PollersOK' /\ UiOK' /\
  TimersOK'
  BY DEF Notified, RestartsOK, ServicesOK, LoopOK, TasksOK, ProcessesOK, PollersOK, UiOK, TimersOK
<1>4. ArmingMatchesUi' /\ SpawnedHasPid'
  BY ThreadAssumption DEF Notified, ArmingMatchesUi, InRestart, SpawnedHasPid, ProcessesOK,
    LabelsOK, Goto, Thread, LoopLabels
<1> QED
  BY <1>1, <1>2, <1>3, <1>4

LEMMA TypeReapJoined ==
  ASSUME TypeInv, NEW s \in Service, ReapJoined(s)
  PROVE  TypeInv'
<1>1. LabelsOK'
  BY ThreadAssumption DEF ReapJoined, LabelsOK, Goto, Thread, TaskLabels, LoopLabels
<1>2. LoopOK'
  BY DEF ReapJoined, LoopOK
<1>3. SharedOK' /\ RestartsOK' /\ ServicesOK' /\ TasksOK' /\ ProcessesOK' /\ PollersOK' /\ UiOK' /\
  TimersOK'
  BY DEF ReapJoined, SharedOK, RestartsOK, ServicesOK, TasksOK, ProcessesOK, PollersOK, UiOK,
    TimersOK
<1>4. ArmingMatchesUi' /\ SpawnedHasPid'
  BY ThreadAssumption DEF ReapJoined, ArmingMatchesUi, InRestart, SpawnedHasPid, ProcessesOK,
    LabelsOK, Goto, Thread, TaskLabels, LoopLabels
<1> QED
  BY <1>1, <1>2, <1>3, <1>4

LEMMA TypeRecoverPanic ==
  ASSUME TypeInv, RecoverPanic
  PROVE  TypeInv'
<1>1. LabelsOK'
  BY ThreadAssumption DEF RecoverPanic, LabelsOK, Goto, Thread, LoopLabels
<1>2. ServicesOK'
  BY DEF RecoverPanic, ServicesOK, FinishIfActive, Statuses, Hit, SignalGroups
<1>3. ProcessesOK'
  BY DEF RecoverPanic, ProcessesOK, FinishIfActive, Statuses, Hit, SignalGroups
<1>4. SharedOK' /\ RestartsOK' /\ LoopOK' /\ TasksOK' /\ PollersOK' /\ UiOK' /\ TimersOK'
  BY DEF RecoverPanic, SharedOK, RestartsOK, LoopOK, TasksOK, PollersOK, UiOK, TimersOK,
    SignalGroups
<1>5. ArmingMatchesUi' /\ SpawnedHasPid'
  BY ThreadAssumption DEF RecoverPanic, ArmingMatchesUi, InRestart, SpawnedHasPid, ProcessesOK,
    LabelsOK, Goto, Thread, LoopLabels, Hit, SignalGroups
<1> QED
  BY <1>1, <1>2, <1>3, <1>4, <1>5

LEMMA TypeDropPanicked ==
  ASSUME TypeInv, DropPanicked
  PROVE  TypeInv'
<1>1. LabelsOK'
  BY ThreadAssumption DEF DropPanicked, LabelsOK, Goto, Thread, LoopLabels
<1>2. SharedOK'
  BY DEF DropPanicked, SharedOK, SignalDep, Gates
<1>3. ServicesOK'
  BY DEF DropPanicked, ServicesOK, SignalDep, Gates
<1>4. LoopOK'
  BY DEF DropPanicked, LoopOK, SignalDep, Gates
<1>5. RestartsOK' /\ TasksOK' /\ ProcessesOK' /\ PollersOK' /\ UiOK' /\ TimersOK'
  BY DEF DropPanicked, RestartsOK, TasksOK, ProcessesOK, PollersOK, UiOK, TimersOK
<1>6. ArmingMatchesUi' /\ SpawnedHasPid'
  BY ThreadAssumption DEF DropPanicked, ArmingMatchesUi, InRestart, SpawnedHasPid, ProcessesOK,
    LabelsOK, Goto, Thread, LoopLabels
<1> QED
  BY <1>1, <1>2, <1>3, <1>4, <1>5, <1>6

LEMMA TypeReapStrays ==
  ASSUME TypeInv, ReapStrays
  PROVE  TypeInv'
<1>1. LabelsOK'
  BY ThreadAssumption DEF ReapStrays, LabelsOK, Goto, Thread, LoopLabels
<1>2. ProcessesOK'
  BY DEF ReapStrays, ProcessesOK
<1>3. TimersOK'
  BY DEF ReapStrays, TimersOK
<1>4. SharedOK' /\ RestartsOK' /\ ServicesOK' /\ LoopOK' /\ TasksOK' /\ PollersOK' /\ UiOK'
  BY DEF ReapStrays, SharedOK, RestartsOK, ServicesOK, LoopOK, TasksOK, PollersOK, UiOK
<1>5. ArmingMatchesUi' /\ SpawnedHasPid'
  BY ThreadAssumption DEF ReapStrays, ArmingMatchesUi, InRestart, SpawnedHasPid, ProcessesOK,
    LabelsOK, Goto, Thread, LoopLabels
<1> QED
  BY <1>1, <1>2, <1>3, <1>4, <1>5

LEMMA TypeExit ==
  ASSUME TypeInv, Exit
  PROVE  TypeInv'
<1>1. LabelsOK'
  BY ThreadAssumption DEF Exit, LabelsOK, Goto, Thread, LoopLabels
<1>2. SharedOK' /\ RestartsOK' /\ ServicesOK' /\ LoopOK' /\ TasksOK' /\ ProcessesOK' /\ PollersOK'
  /\ UiOK' /\ TimersOK'
  BY DEF Exit, SharedOK, RestartsOK, ServicesOK, LoopOK, TasksOK, ProcessesOK, PollersOK, UiOK,
    TimersOK
<1>3. ArmingMatchesUi' /\ SpawnedHasPid'
  BY ThreadAssumption DEF Exit, ArmingMatchesUi, InRestart, SpawnedHasPid, ProcessesOK, LabelsOK,
    Goto, Thread, LoopLabels
<1> QED
  BY <1>1, <1>2, <1>3

LEMMA TypeHardExit ==
  ASSUME TypeInv, HardExit
  PROVE  TypeInv'
<1>1. LabelsOK'
  BY ThreadAssumption DEF HardExit, LabelsOK, Goto, Thread, LoopLabels
<1>2. SharedOK'
  BY DEF HardExit, SharedOK
<1>3. RestartsOK' /\ ServicesOK' /\ LoopOK' /\ TasksOK' /\ ProcessesOK' /\ PollersOK' /\ UiOK' /\
  TimersOK'
  BY DEF HardExit, RestartsOK, ServicesOK, LoopOK, TasksOK, ProcessesOK, PollersOK, UiOK, TimersOK
<1>4. ArmingMatchesUi' /\ SpawnedHasPid'
  BY ThreadAssumption DEF HardExit, ArmingMatchesUi, InRestart, SpawnedHasPid, ProcessesOK,
    LabelsOK, Goto, Thread, LoopLabels
<1> QED
  BY <1>1, <1>2, <1>3, <1>4

LEMMA TypeUiStop ==
  ASSUME TypeInv, NEW s \in Service, UiStop(s)
  PROVE  TypeInv'
<1>1. LabelsOK'
  BY ThreadAssumption DEF UiStop, LookForRunning, LabelsOK, Goto, Thread, UiLabels
<1>2. UiOK'
  BY DEF UiStop, LookForRunning, UiOK
<1>3. SharedOK' /\ RestartsOK' /\ ServicesOK' /\ LoopOK' /\ TasksOK' /\ ProcessesOK' /\ PollersOK'
  /\ TimersOK'
  BY DEF UiStop, SharedOK, RestartsOK, ServicesOK, LoopOK, TasksOK, ProcessesOK, PollersOK, TimersOK
<1>4. ArmingMatchesUi' /\ SpawnedHasPid'
  BY ThreadAssumption DEF UiStop, LookForRunning, ArmingMatchesUi, InRestart, SpawnedHasPid, ProcessesOK, LabelsOK,
    Goto, Thread, UiLabels
<1> QED
  BY <1>1, <1>2, <1>3, <1>4

LEMMA TypeUiQuit ==
  ASSUME TypeInv, UiQuit
  PROVE  TypeInv'
<1>1. LabelsOK'
  BY ThreadAssumption DEF UiQuit, LookForRunning, LabelsOK, Goto, Thread, UiLabels
<1>2. UiOK'
  <2>1. quit_requested' \in BOOLEAN /\ ops' \in Nat
    BY DEF UiQuit, UiOK
  <2>2. op' \in {"quit", "all"} /\ todo' \subseteq Service /\ UNCHANGED <<root, pids, global_stopped>>
    BY DEF UiQuit, LookForRunning, UiOK
  <2> QED
    BY <2>1, <2>2 DEF UiOK
<1>3. SharedOK' /\ RestartsOK' /\ ServicesOK' /\ LoopOK' /\ TasksOK' /\ ProcessesOK' /\ PollersOK'
  /\ TimersOK'
  BY DEF UiQuit, SharedOK, RestartsOK, ServicesOK, LoopOK, TasksOK, ProcessesOK, PollersOK, TimersOK
<1>4. ArmingMatchesUi' /\ SpawnedHasPid'
  BY ThreadAssumption DEF UiQuit, LookForRunning, ArmingMatchesUi, InRestart, SpawnedHasPid,
    ProcessesOK, LabelsOK, Goto, Thread, UiLabels
<1> QED
  BY <1>1, <1>2, <1>3, <1>4

LEMMA TypeReadStatus ==
  ASSUME TypeInv, NEW s \in Service, ReadStatus(s)
  PROVE  TypeInv'
<1>1. LabelsOK'
  BY ThreadAssumption DEF ReadStatus, WhenRunning, LabelsOK, Goto, Thread, UiLabels
<1>2. UiOK'
  BY DEF ReadStatus, UiOK
<1>3. SharedOK' /\ RestartsOK' /\ ServicesOK' /\ LoopOK' /\ TasksOK' /\ ProcessesOK' /\ PollersOK'
  /\ TimersOK'
  BY DEF ReadStatus, SharedOK, RestartsOK, ServicesOK, LoopOK, TasksOK, ProcessesOK, PollersOK,
    TimersOK
<1>4. ArmingMatchesUi' /\ SpawnedHasPid'
  <2>1. ~InRestart /\ ~InRestart' /\ pc'[Ui] # "queue"
    BY ThreadAssumption DEF ReadStatus, WhenRunning, InRestart, LabelsOK, Goto, Thread
  <2>2. UNCHANGED <<restarts_arming, child, pid>> /\ \A q \in Service : pc'[q] = pc[q]
    BY ThreadAssumption DEF ReadStatus, LabelsOK, Goto, Thread
  <2> QED
    BY <2>1, <2>2 DEF ArmingMatchesUi, SpawnedHasPid
<1> QED
  BY <1>1, <1>2, <1>3, <1>4

LEMMA TypeUiRestart ==
  ASSUME TypeInv, NEW s \in Service, UiRestart(s)
  PROVE  TypeInv'
<1>1. LabelsOK'
  BY ThreadAssumption DEF UiRestart, LabelsOK, Goto, Thread, UiLabels
<1>2. RestartsOK'
  BY DEF UiRestart, RestartsOK
<1>3. UiOK'
  BY DEF UiRestart, UiOK
<1>4. SharedOK' /\ ServicesOK' /\ LoopOK' /\ TasksOK' /\ ProcessesOK' /\ PollersOK' /\ TimersOK'
  BY DEF UiRestart, SharedOK, ServicesOK, LoopOK, TasksOK, ProcessesOK, PollersOK, TimersOK
<1>5. ArmingMatchesUi' /\ SpawnedHasPid'
  BY ThreadAssumption DEF UiRestart, ArmingMatchesUi, InRestart, SpawnedHasPid, ProcessesOK,
    LabelsOK, Goto, Thread, UiLabels
<1> QED
  BY <1>1, <1>2, <1>3, <1>4, <1>5

LEMMA TypeMarkSubtreeStopped ==
  ASSUME TypeInv, MarkSubtreeStopped
  PROVE  TypeInv'
<1>1. LabelsOK'
  BY ThreadAssumption DEF MarkSubtreeStopped, LabelsOK, Goto, Thread, UiLabels
<1>2. SharedOK'
  BY DEF MarkSubtreeStopped, SharedOK, Subtree, LiveGroups, Groups
<1>3. UiOK'
  <2>1. LiveGroups \subseteq Groups
    BY DEF LiveGroups, SharedOK, Groups
  <2>2. Subtree(root) \subseteq Service
    BY DEF Subtree
  <2> QED
    BY <2>1, <2>2 DEF MarkSubtreeStopped, UiOK
<1>4. RestartsOK' /\ ServicesOK' /\ LoopOK' /\ TasksOK' /\ ProcessesOK' /\ PollersOK' /\ TimersOK'
  BY DEF MarkSubtreeStopped, RestartsOK, ServicesOK, LoopOK, TasksOK, ProcessesOK, PollersOK,
    TimersOK
<1>5. ArmingMatchesUi' /\ SpawnedHasPid'
  BY ThreadAssumption DEF MarkSubtreeStopped, ArmingMatchesUi, InRestart, SpawnedHasPid,
    ProcessesOK, LabelsOK, Goto, Thread, UiLabels
<1> QED
  BY <1>1, <1>2, <1>3, <1>4, <1>5

LEMMA TypeNoteTarget ==
  ASSUME TypeInv, NEW s \in Service, NoteTarget(s)
  PROVE  TypeInv'
<1>1. LabelsOK'
  BY ThreadAssumption DEF NoteTarget, LabelsOK, Goto, Thread, UiLabels
<1>2. ServicesOK'
  BY DEF NoteTarget, ServicesOK, FinishIfActive, SignalDep, Gates, Statuses
<1>3. UiOK'
  BY DEF NoteTarget, UiOK, FinishIfActive, SignalDep, Gates, Statuses
<1>4. SharedOK' /\ RestartsOK' /\ LoopOK' /\ TasksOK' /\ ProcessesOK' /\ PollersOK' /\ TimersOK'
  BY DEF NoteTarget, SharedOK, RestartsOK, LoopOK, TasksOK, ProcessesOK, PollersOK, TimersOK
<1>5. ArmingMatchesUi' /\ SpawnedHasPid'
  BY ThreadAssumption DEF NoteTarget, ArmingMatchesUi, InRestart, SpawnedHasPid, ProcessesOK,
    LabelsOK, Goto, Thread, UiLabels
<1> QED
  BY <1>1, <1>2, <1>3, <1>4, <1>5

LEMMA TypeSignalSubtree ==
  ASSUME TypeInv, SignalSubtree
  PROVE  TypeInv'
<1>1. LabelsOK'
  BY ThreadAssumption DEF SignalSubtree, LabelsOK, Goto, Thread, UiLabels
<1>2. ProcessesOK'
  BY DEF SignalSubtree, ProcessesOK, Hit, SignalGroups
<1>3. UiOK'
  BY DEF SignalSubtree, UiOK, Hit, SignalGroups
<1>4. TimersOK'
  BY DEF SignalSubtree, UiOK, TimersOK
<1>5. SharedOK' /\ RestartsOK' /\ ServicesOK' /\ LoopOK' /\ TasksOK' /\ PollersOK'
  BY DEF SignalSubtree, SharedOK, RestartsOK, ServicesOK, LoopOK, TasksOK, PollersOK, SignalGroups
<1>6. ArmingMatchesUi' /\ SpawnedHasPid'
  BY ThreadAssumption DEF SignalSubtree, ArmingMatchesUi, InRestart, SpawnedHasPid, ProcessesOK,
    LabelsOK, Goto, Thread, UiLabels, Hit, SignalGroups
<1> QED
  BY <1>1, <1>2, <1>3, <1>4, <1>5, <1>6

LEMMA TypeQueueRestart ==
  ASSUME TypeInv, QueueRestart
  PROVE  TypeInv'
<1>1. LabelsOK'
  BY ThreadAssumption DEF QueueRestart, LabelsOK, Goto, Thread, UiLabels
<1>2. SharedOK'
  BY DEF QueueRestart, SharedOK, MergedBatches, Subtree
<1>3. RestartsOK'
  <2>1. restarts_arming = 1
    BY DEF QueueRestart, ArmingMatchesUi, InRestart
  <2>2. Subtree(root) \subseteq Service
    BY DEF Subtree
  <2>3. MergedBatches(Subtree(root)) \subseteq SUBSET Service
    BY <2>2 DEF MergedBatches, RestartsOK
  <2> QED
    BY <2>1, <2>3 DEF QueueRestart, RestartsOK
<1>4. ServicesOK' /\ LoopOK' /\ TasksOK' /\ ProcessesOK' /\ PollersOK' /\ UiOK' /\ TimersOK'
  BY DEF QueueRestart, ServicesOK, LoopOK, TasksOK, ProcessesOK, PollersOK, UiOK, TimersOK
<1>5. ArmingMatchesUi' /\ SpawnedHasPid'
  BY ThreadAssumption DEF QueueRestart, ArmingMatchesUi, InRestart, SpawnedHasPid, ProcessesOK,
    LabelsOK, Goto, Thread, UiLabels
<1> QED
  BY <1>1, <1>2, <1>3, <1>4, <1>5

LEMMA TypeEscalateGlobalStop ==
  ASSUME TypeInv, EscalateGlobalStop
  PROVE  TypeInv'
<1>1. LabelsOK'
  BY ThreadAssumption DEF EscalateGlobalStop, LabelsOK, Goto, Thread, UiLabels, ForceShutdown
<1>2. SharedOK'
  BY DEF EscalateGlobalStop, SharedOK, ForceShutdown, Hit, SignalGroups
<1>3. UiOK'
  <2>1. quit_requested' \in BOOLEAN /\ global_stopped' \in BOOLEAN
    BY DEF EscalateGlobalStop, UiOK
  <2>2. UNCHANGED <<op, root, todo, pids, ops>>
    BY DEF EscalateGlobalStop, UiOK
  <2> QED
    BY <2>1, <2>2 DEF UiOK
<1>4. ProcessesOK'
  BY DEF EscalateGlobalStop, ProcessesOK, ForceShutdown, Hit, SignalGroups
<1>5. TimersOK'
  BY DEF EscalateGlobalStop, TimersOK, ForceShutdown, Hit, SignalGroups
<1>6. RestartsOK' /\ ServicesOK' /\ LoopOK' /\ TasksOK' /\ PollersOK'
  BY DEF EscalateGlobalStop, RestartsOK, ServicesOK, LoopOK, TasksOK, PollersOK, ForceShutdown,
    SignalGroups
<1>7. ArmingMatchesUi' /\ SpawnedHasPid'
  BY ThreadAssumption DEF EscalateGlobalStop, ArmingMatchesUi, InRestart, SpawnedHasPid, ProcessesOK,
    LabelsOK, Goto, Thread, UiLabels, ForceShutdown, Hit, SignalGroups, ForceShutdown
<1> QED
  BY <1>1, <1>2, <1>3, <1>4, <1>5, <1>6, <1>7

LEMMA TypeUiRequestExit ==
  ASSUME TypeInv, UiRequestExit
  PROVE  TypeInv'
<1>1. LabelsOK'
  BY ThreadAssumption DEF UiRequestExit, LabelsOK, Goto, Thread, UiLabels
<1>2. SharedOK'
  BY DEF UiRequestExit, SharedOK
<1>3. UiOK'
  BY DEF UiRequestExit, UiOK
<1>4. RestartsOK' /\ ServicesOK' /\ LoopOK' /\ TasksOK' /\ ProcessesOK' /\ PollersOK' /\ TimersOK'
  BY DEF UiRequestExit, RestartsOK, ServicesOK, LoopOK, TasksOK, ProcessesOK, PollersOK, TimersOK
<1>5. ArmingMatchesUi' /\ SpawnedHasPid'
  BY ThreadAssumption DEF UiRequestExit, ArmingMatchesUi, InRestart, SpawnedHasPid, ProcessesOK,
    LabelsOK, Goto, Thread
<1> QED
  BY <1>1, <1>2, <1>3, <1>4, <1>5

LEMMA TypeSigkillTimer ==
  ASSUME TypeInv, NEW x \in sigkills, SigkillTimer(x)
  PROVE  TypeInv'
<1>1. LabelsOK'
  BY ThreadAssumption DEF SigkillTimer, LabelsOK, Goto, Thread
<1>2. ProcessesOK'
  BY DEF SigkillTimer, ProcessesOK, Hit, SignalGroups
<1>3. TimersOK'
  BY DEF SigkillTimer, TimersOK, Hit, SignalGroups
<1>4. SharedOK' /\ RestartsOK' /\ ServicesOK' /\ LoopOK' /\ TasksOK' /\ PollersOK' /\ UiOK'
  BY DEF SigkillTimer, SharedOK, RestartsOK, ServicesOK, LoopOK, TasksOK, PollersOK, UiOK,
    SignalGroups
<1>5. ArmingMatchesUi' /\ SpawnedHasPid'
  BY ThreadAssumption DEF SigkillTimer, ArmingMatchesUi, InRestart, SpawnedHasPid, ProcessesOK,
    LabelsOK, Goto, Thread, Hit, SignalGroups
<1> QED
  BY <1>1, <1>2, <1>3, <1>4, <1>5

LEMMA TypeStrayTimer ==
  ASSUME TypeInv, NEW x \in stray_timers, StrayTimer(x)
  PROVE  TypeInv'
<1>1. LabelsOK'
  BY ThreadAssumption DEF StrayTimer, LabelsOK, Goto, Thread
<1>2. TimersOK'
  BY DEF StrayTimer, TimersOK
<1>3. SharedOK' /\ RestartsOK' /\ ServicesOK' /\ LoopOK' /\ TasksOK' /\ ProcessesOK' /\ PollersOK'
  /\ UiOK'
  BY DEF StrayTimer, SharedOK, RestartsOK, ServicesOK, LoopOK, TasksOK, ProcessesOK, PollersOK, UiOK
<1>4. ArmingMatchesUi' /\ SpawnedHasPid'
  BY ThreadAssumption DEF StrayTimer, ArmingMatchesUi, InRestart, SpawnedHasPid, ProcessesOK,
    LabelsOK, Goto, Thread
<1> QED
  BY <1>1, <1>2, <1>3, <1>4

LEMMA TypeKillStray ==
  ASSUME TypeInv, NEW x \in stray_kills, KillStray(x)
  PROVE  TypeInv'
<1>1. LabelsOK'
  BY ThreadAssumption DEF KillStray, LabelsOK, Goto, Thread
<1>2. TimersOK'
  BY DEF KillStray, TimersOK
<1>3. ProcessesOK'
  BY DEF KillStray, ProcessesOK
<1>4. SharedOK' /\ RestartsOK' /\ ServicesOK' /\ LoopOK' /\ TasksOK' /\ PollersOK' /\ UiOK'
  BY DEF KillStray, SharedOK, RestartsOK, ServicesOK, LoopOK, TasksOK, PollersOK, UiOK
<1>5. ArmingMatchesUi' /\ SpawnedHasPid'
  BY ThreadAssumption DEF KillStray, ArmingMatchesUi, InRestart, SpawnedHasPid, ProcessesOK,
    LabelsOK, Goto, Thread
<1> QED
  BY <1>1, <1>2, <1>3, <1>4, <1>5

LEMMA TypeChildExits ==
  ASSUME TypeInv, NEW s \in Service, ChildExits(s)
  PROVE  TypeInv'
<1>1. LabelsOK'
  BY ThreadAssumption DEF ChildExits, LabelsOK, Goto, Thread
<1>2. ProcessesOK'
  <2>1. <<s, pid[s]>> \in Groups
    BY DEF ChildExits, SpawnedHasPid, ProcessesOK, Groups
  <2> QED
    BY <2>1 DEF ChildExits, ProcessesOK
<1>3. TasksOK'
  BY ConfigAssumption DEF ChildExits, TasksOK, ExitStatus
<1>4. SharedOK' /\ RestartsOK' /\ ServicesOK' /\ LoopOK' /\ PollersOK' /\ UiOK' /\ TimersOK'
  BY DEF ChildExits, SharedOK, RestartsOK, ServicesOK, LoopOK, PollersOK, UiOK, TimersOK
<1>5. ArmingMatchesUi' /\ SpawnedHasPid'
  BY ThreadAssumption DEF ChildExits, ArmingMatchesUi, InRestart, SpawnedHasPid, ProcessesOK,
    LabelsOK, Goto, Thread
<1> QED
  BY <1>1, <1>2, <1>3, <1>4, <1>5

LEMMA TypeLeftoverExits ==
  ASSUME TypeInv, NEW x \in orphans, LeftoverExits(x)
  PROVE  TypeInv'
<1>1. LabelsOK'
  BY ThreadAssumption DEF LeftoverExits, LabelsOK, Goto, Thread
<1>2. ProcessesOK'
  BY DEF LeftoverExits, ProcessesOK
<1>3. SharedOK' /\ RestartsOK' /\ ServicesOK' /\ LoopOK' /\ TasksOK' /\ PollersOK' /\ UiOK' /\
  TimersOK'
  BY DEF LeftoverExits, SharedOK, RestartsOK, ServicesOK, LoopOK, TasksOK, PollersOK, UiOK, TimersOK
<1>4. ArmingMatchesUi' /\ SpawnedHasPid'
  BY ThreadAssumption DEF LeftoverExits, ArmingMatchesUi, InRestart, SpawnedHasPid, ProcessesOK,
    LabelsOK, Goto, Thread
<1> QED
  BY <1>1, <1>2, <1>3, <1>4

LEMMA TypeStutter ==
  ASSUME TypeInv, UNCHANGED vars
  PROVE  TypeInv'
<1>1. LabelsOK' /\ SharedOK' /\ RestartsOK' /\ ServicesOK' /\ LoopOK' /\ TasksOK'
  BY DEF vars, LabelsOK, SharedOK, RestartsOK, ServicesOK, LoopOK, TasksOK
<1>2. ProcessesOK' /\ PollersOK' /\ UiOK' /\ TimersOK'
  BY DEF vars, ProcessesOK, PollersOK, UiOK, TimersOK
<1>3. ArmingMatchesUi' /\ SpawnedHasPid'
  BY DEF vars, ArmingMatchesUi, InRestart, SpawnedHasPid
<1> QED
  BY <1>1, <1>2, <1>3

HIDE DEF TypeInv, TypeOK, taskFrame, pollFrame, uiFrame, loopFrame, downFrame, timerFrame,
         flagVars, restartVars, svcVars, loopVars, taskVars, procVars, pollVars, quitVars, uiVars,
         timerVars, strayVars

LEMMA TypeStep == TypeInv /\ [Next]_vars => TypeInv'
<1> SUFFICES ASSUME TypeInv, [Next]_vars PROVE TypeInv'
  OBVIOUS
<1>1. ASSUME NEW s \in Service, TaskStep(s) \/ TaskPanics(s) PROVE TypeInv'
  BY <1>1, TypeAwaitDep, TypeBeginAttempts, TypeAbandon, TypeAttempt, TypeSpawnChild,
     TypeSpawnFailure, TypeRegisterGroup, TypeSignalLate, TypeReleaseDependents, TypeReapChild,
     TypeDeregisterGroup, TypeSweepGroup, TypeSettleExpected, TypeReleaseCompleted,
     TypeClassifyExit, TypeSettleTerminally, TypeFinishTask, TypeTaskPanics
  DEF TaskStep
<1>2. ASSUME NEW p \in Pollers, PollStep(p) \/ CheckPasses(p) \/ CheckFails(p) PROVE TypeInv'
  BY <1>2, TypeAwaitFirstLaunch, TypeCheckPasses, TypeWithholdOrRelease, TypeCheckFails,
     TypeReportReady, TypeReadinessCancelled, TypeDeadlineElapses, TypeOnReadinessDeadline,
     TypeFailReadinessStartup
  DEF PollStep
<1>3. ASSUME NEW t \in Thread, SetExitCode(t) \/ BeginShutdown(t) \/ CancelAndTerm(t)
      PROVE  TypeInv'
  BY <1>3, TypeSetExitCode, TypeBeginShutdown, TypeCancelAndTerm
<1>4. CASE LoopStep
  BY <1>4, TypeSpawnClaimed, TypeTakeReadyRestarts, TypeEndRunIfIdle, TypeNotified,
     TypeReapJoined, TypeRecoverPanic, TypeDropPanicked, TypeReapStrays, TypeExit
  DEF LoopStep
<1>5. ASSUME NEW s \in Service, UiStop(s) \/ UiRestart(s) PROVE TypeInv'
  BY <1>5, TypeUiStop, TypeUiRestart
<1>6. CASE UiQuit \/ UiWork
  BY <1>6, TypeUiQuit, TypeEscalateGlobalStop, TypeUiRequestExit, TypeMarkSubtreeStopped,
     TypeSignalSubtree, TypeQueueRestart, TypeNoteTarget, TypeReadStatus
  DEF UiWork
<1>7. CASE FirstSignal \/ SecondSignal
  BY <1>7, TypeFirstSignal, TypeSecondSignal
<1>8. CASE TimerStep
  BY <1>8, TypeShutdownTimer, TypeHardExit, TypeSigkillTimer, TypeStrayTimer, TypeKillStray
  DEF TimerStep
<1>9. ASSUME NEW s \in Service, ChildExits(s) PROVE TypeInv'
  BY <1>9, TypeChildExits
<1>10. ASSUME NEW x \in orphans, LeftoverExits(x) PROVE TypeInv'
  BY <1>10, TypeLeftoverExits
<1>11. CASE Rest \/ UNCHANGED vars
  BY <1>11, TypeStutter DEF Rest
<1> QED
  BY <1>1, <1>2, <1>3, <1>4, <1>5, <1>6, <1>7, <1>8, <1>9, <1>10, <1>11 DEF Next

\* The strengthening of TypeOK is an invariant of every configuration.
THEOREM TypeInvariant == Spec => []TypeInv
<1> QED
  BY TypeInit, TypeStep, PTL DEF Spec

\* No thread ever leaves its own control flow, no counter underflows and no timer
\* holds a pgid that was never spawned, whatever the configuration.
THEOREM TypeCorrect == Spec => []TypeOK
<1>1. TypeInv => TypeOK
  BY DEF TypeInv
<1> QED
  BY <1>1, TypeInvariant, PTL

-----------------------------------------------------------------------------
(* The restart handshake: what the run loop, the UI's calls and the batches *)
(* owe each other.                                                         *)

\* The run loop ends with an empty JoinSet and no restart, and says so under the lock.
EndedIsIdle ==
  /\ ended => pc[Loop] \in {"reap", "returned", "exited"} /\ names = {} /\ ~RestartInFlight
  /\ pc[Loop] = "idle" => names = {}

\* From the claim on, a batch whose tasks are all gone has left a wake-up.
WakeUpLeft ==
  pc[Loop] \in {"spawn", "idle", "sleep", "select"} /\ (\E x \in restart_batches : x \cap names = {})
    => notified

HandshakeInv == EndedIsIdle /\ BatchesSound /\ WakeUpLeft

\* The dependents of a service, with itself, are closed under dependence ...
LEMMA SubtreeClosed ==
  ASSUME NEW s \in Service
  PROVE  Closed(Subtree(s)) /\ s \in Subtree(s)
  BY DEF Closed, Subtree

\* ... and merging overlapping batches keeps them closed and apart.
LEMMA MergeSound ==
  ASSUME NEW targets, Closed(targets),
         \A x, y \in restart_batches : x = y \/ x \cap y = {},
         \A x \in restart_batches : Closed(x)
  PROVE  /\ \A x, y \in MergedBatches(targets) : x = y \/ x \cap y = {}
         /\ \A x \in MergedBatches(targets) : Closed(x)
<1> DEFINE overlapping == {b \in restart_batches : b \cap targets # {}}
           merged == targets \cup UNION overlapping
<1>1. MergedBatches(targets) = (restart_batches \ overlapping) \cup {merged}
  BY DEF MergedBatches
<1>2. \A x \in restart_batches \ overlapping : x \cap merged = {}
  <2> TAKE x \in restart_batches \ overlapping
  <2>1. x \cap targets = {}
    OBVIOUS
  <2>2. \A b \in overlapping : x \cap b = {}
    OBVIOUS
  <2> QED
    BY <2>1, <2>2
<1>3. Closed(merged)
  <2> SUFFICES ASSUME NEW s \in Service, NEW d \in DepsOf(s), d \in merged PROVE s \in merged
    BY DEF Closed
  <2>1. CASE d \in targets
    BY <2>1 DEF Closed
  <2>2. ASSUME NEW b \in overlapping, d \in b PROVE s \in merged
    BY <2>2 DEF Closed
  <2> QED
    BY <2>1, <2>2
<1> HIDE DEF merged, overlapping
<1>4. \A x, y \in MergedBatches(targets) : x = y \/ x \cap y = {}
  <2>1. \A x, y \in restart_batches \ overlapping : x = y \/ x \cap y = {}
    OBVIOUS
  <2> QED
    BY <1>1, <1>2, <2>1
<1> QED
  BY <1>1, <1>3, <1>4

LEMMA HandshakeInit == Init => HandshakeInv
  BY ThreadAssumption
  DEF Init, HandshakeInv, EndedIsIdle, BatchesSound, WakeUpLeft, RestartInFlight, Thread, AwaitNext

\* What every step leaves alone but the run loop's own and the restart calls': the
\* batches, the claims, the tasks to join, and where the loop is outside fail_run.
Quiet ==
  /\ UNCHANGED <<restart_batches, restarts_arming, ended, names, claimed, notified>>
  /\ \/ pc'[Loop] = pc[Loop]
     \/ pc'[Loop] = "exited"
     \/ pc[Loop] = "returned" /\ pc'[Loop] = "exited"
     \/ pc[Loop] = "reap" /\ pc'[Loop] = "returned"
     \/ /\ pc[Loop] \in {"recover", "drop", "code", "shutdown", "cancel"}
        /\ pc'[Loop] \in {"drop", "code", "shutdown", "cancel", "top"}

LEMMA QuietKeeps ==
  ASSUME HandshakeInv, Quiet
  PROVE  HandshakeInv'
<1>1. EndedIsIdle'
  BY DEF HandshakeInv, Quiet, EndedIsIdle, RestartInFlight
<1>2. BatchesSound'
  BY DEF HandshakeInv, Quiet, BatchesSound, Closed
<1>3. WakeUpLeft'
  BY DEF HandshakeInv, Quiet, WakeUpLeft
<1> QED
  BY <1>1, <1>2, <1>3 DEF HandshakeInv

USE DEF taskFrame, pollFrame, uiFrame, loopFrame, downFrame, timerFrame, flagVars, restartVars,
        loopVars, uiVars, strayVars

\* A thread that goes on moves no other.
LEMMA OthersStand ==
  ASSUME TypeInv, NEW t, NEW l, Goto(t, l), NEW u \in Thread, u # t
  PROVE  pc'[u] = pc[u]
  BY DEF Goto, TypeInv, TypeOK, LabelsOK

LEMMA QuietTask ==
  ASSUME TypeInv, NEW s \in Service, TaskStep(s) \/ TaskPanics(s)
  PROVE  Quiet
<1>1. UNCHANGED <<restart_batches, restarts_arming, ended, names, claimed, notified>>
  BY DEF TaskStep, TaskPanics, AwaitDep, BeginAttempts, Abandon, Attempt, SpawnChild, SpawnFailure,
     RegisterGroup, SignalLate, ReleaseDependents, ReapChild, DeregisterGroup, SweepGroup,
     SettleExpected, ReleaseCompleted, ClassifyExit, SettleTerminally, FinishTask
<1>2. pc'[Loop] = pc[Loop]
  <2>1. Loop # s /\ Loop \notin Pollers /\ Loop \in Thread /\ pc \in [Thread -> TaskLabels \cup PollerLabels \cup UiLabels \cup SigLabels \cup LoopLabels]
    BY ThreadAssumption DEF Thread, TypeInv, TypeOK, LabelsOK
  <2>2. poller[s] # Loop
    BY ThreadAssumption DEF TypeInv, TypeOK, TasksOK, Thread
  <2> QED
    BY <2>1, <2>2
    DEF TaskStep, TaskPanics, AwaitDep, BeginAttempts, Abandon, Attempt, SpawnChild, SpawnFailure,
     RegisterGroup, SignalLate, ReleaseDependents, ReapChild, DeregisterGroup, SweepGroup,
     SettleExpected, ReleaseCompleted, ClassifyExit, SettleTerminally, FinishTask, Goto, RetryOrSettle
<1> QED
  BY <1>1, <1>2 DEF Quiet

LEMMA QuietPoller ==
  ASSUME TypeInv, NEW p \in Pollers, PollStep(p) \/ CheckPasses(p) \/ CheckFails(p)
  PROVE  Quiet
<1>1. Loop # p /\ Loop \in Thread
  BY ThreadAssumption DEF Thread
<1>2. UNCHANGED <<restart_batches, restarts_arming, ended, names, claimed, notified>>
  BY DEF PollStep, AwaitFirstLaunch, CheckPasses, WithholdOrRelease, CheckFails, ReportReady,
      ReadinessCancelled, DeadlineElapses, OnReadinessDeadline, FailReadinessStartup
<1>3. pc'[Loop] = pc[Loop]
  BY <1>1, OthersStand
  DEF PollStep, AwaitFirstLaunch, CheckPasses, WithholdOrRelease, CheckFails, ReportReady,
      ReadinessCancelled, DeadlineElapses, OnReadinessDeadline, FailReadinessStartup
<1> QED
  BY <1>2, <1>3 DEF Quiet

\* fail_run and shutdown move the loop only when it is the loop that runs them.
LEMMA QuietShutdown ==
  ASSUME TypeInv, NEW t \in Thread, SetExitCode(t) \/ BeginShutdown(t) \/ CancelAndTerm(t)
  PROVE  Quiet
<1>1. /\ t = Loop => AfterShutdown(t) = "top"
      /\ pc \in [Thread -> TaskLabels \cup PollerLabels \cup UiLabels \cup SigLabels \cup LoopLabels]
  BY ThreadAssumption DEF AfterShutdown, TypeInv, TypeOK, LabelsOK
<1> QED
  BY <1>1 DEF SetExitCode, BeginShutdown, CancelAndTerm, Goto, Quiet, Thread

LEMMA QuietWorld ==
  ASSUME TypeInv,
         \/ FirstSignal \/ SecondSignal \/ TimerStep
         \/ UiQuit \/ EscalateGlobalStop \/ UiRequestExit
         \/ \E s \in Service : ChildExits(s) \/ UiStop(s) \/ NoteTarget(s) \/ ReadStatus(s)
         \/ MarkSubtreeStopped \/ SignalSubtree
         \/ \E x \in orphans : LeftoverExits(x)
         \/ Rest \/ UNCHANGED vars
  PROVE  Quiet
<1> DEFINE Kept == UNCHANGED <<restart_batches, restarts_arming, ended, names, claimed, notified>>
<1>1. /\ pc \in [Thread -> TaskLabels \cup PollerLabels \cup UiLabels \cup SigLabels \cup LoopLabels]
      /\ Loop \in Thread /\ Ui # Loop /\ Sig # Loop
  BY ThreadAssumption DEF TypeInv, TypeOK, LabelsOK, Thread
<1>2. CASE FirstSignal \/ SecondSignal
  <2>1. Kept
    BY <1>2 DEF FirstSignal, SecondSignal, ForceShutdown
  <2>2. pc'[Loop] = pc[Loop]
    BY <1>1, <1>2, OthersStand DEF FirstSignal, SecondSignal
  <2> QED
    BY <2>1, <2>2 DEF Quiet
<1>3. CASE TimerStep
  BY <1>1, <1>3
  DEF TimerStep, ShutdownTimer, HardExit, SigkillTimer, StrayTimer, KillStray, Goto, Quiet
<1>4. CASE UiQuit \/ EscalateGlobalStop \/ UiRequestExit
  <2>1. Kept
    BY <1>4 DEF UiQuit, EscalateGlobalStop, UiRequestExit, ForceShutdown
  <2>2. pc'[Loop] = pc[Loop]
    BY <1>1, <1>4, OthersStand DEF UiQuit, LookForRunning, EscalateGlobalStop, UiRequestExit
  <2> QED
    BY <2>1, <2>2 DEF Quiet
<1>5. ASSUME NEW s \in Service, ChildExits(s) \/ UiStop(s) \/ NoteTarget(s) \/ ReadStatus(s)
      PROVE  Quiet
  <2>1. Kept
    BY <1>5 DEF ChildExits, UiStop, NoteTarget, ReadStatus
  <2>2. pc'[Loop] = pc[Loop]
    BY <1>1, <1>5, OthersStand DEF ChildExits, UiStop, LookForRunning, NoteTarget, ReadStatus
  <2> QED
    BY <2>1, <2>2 DEF Quiet
<1>6. CASE MarkSubtreeStopped \/ SignalSubtree
  <2>1. Kept
    BY <1>6 DEF MarkSubtreeStopped, SignalSubtree
  <2>2. pc'[Loop] = pc[Loop]
    BY <1>1, <1>6, OthersStand DEF MarkSubtreeStopped, SignalSubtree
  <2> QED
    BY <2>1, <2>2 DEF Quiet
<1>7. ASSUME NEW x \in orphans, LeftoverExits(x) PROVE Quiet
  BY <1>7 DEF LeftoverExits, Quiet
<1>8. CASE Rest \/ UNCHANGED vars
  BY <1>8 DEF Rest, vars, Quiet
<1> QED
  BY <1>2, <1>3, <1>4, <1>5, <1>6, <1>7, <1>8

LEMMA QuietLoop ==
  ASSUME TypeInv, RecoverPanic \/ DropPanicked \/ ReapStrays \/ Exit
  PROVE  Quiet
<1>1. /\ pc \in [Thread -> TaskLabels \cup PollerLabels \cup UiLabels \cup SigLabels \cup LoopLabels]
      /\ Loop \in Thread
  BY DEF TypeInv, TypeOK, LabelsOK, Thread
<1> QED
  BY <1>1 DEF RecoverPanic, DropPanicked, ReapStrays, Exit, Goto, Quiet

\* The claim takes the batches nobody has a task in, and the JoinSet takes the claim.
LEMMA HandshakeClaim ==
  ASSUME TypeInv, HandshakeInv, TakeReadyRestarts
  PROVE  HandshakeInv'
<1>1. /\ pc[Loop] = "top" /\ ~ended /\ UNCHANGED <<ended, names, restarts_arming, notified>>
      /\ restart_batches' \subseteq restart_batches
      /\ \A x \in restart_batches' : x \cap names # {}
  BY DEF TakeReadyRestarts, HandshakeInv, EndedIsIdle, Quiesced
<1>2. claimed' \cap names = {}
  BY DEF TakeReadyRestarts, Quiesced
<1>3. pc'[Loop] = "idle" => names = {}
  BY ThreadAssumption
  DEF TakeReadyRestarts, Goto, AwaitNext, TypeInv, TypeOK, LabelsOK, Thread
<1>4. EndedIsIdle' /\ WakeUpLeft'
  BY <1>1, <1>3 DEF EndedIsIdle, WakeUpLeft
<1>5. BatchesSound'
  BY <1>1, <1>2 DEF HandshakeInv, BatchesSound, Closed
<1> QED
  BY <1>4, <1>5 DEF HandshakeInv

LEMMA HandshakeSpawn ==
  ASSUME TypeInv, HandshakeInv, SpawnClaimed
  PROVE  HandshakeInv'
<1>1. /\ pc[Loop] = "spawn" /\ UNCHANGED <<restart_batches, restarts_arming, ended, notified>>
      /\ names' = names \cup claimed
  BY DEF SpawnClaimed
<1>2. pc'[Loop] = AwaitNext(names')
  BY <1>1, ThreadAssumption DEF SpawnClaimed, TypeInv, TypeOK, LabelsOK, LoopOK, Thread
<1>3. EndedIsIdle' /\ BatchesSound'
  BY <1>1, <1>2 DEF HandshakeInv, EndedIsIdle, BatchesSound, Closed, AwaitNext
<1>4. WakeUpLeft'
  BY <1>1 DEF HandshakeInv, WakeUpLeft
<1> QED
  BY <1>3, <1>4 DEF HandshakeInv

LEMMA HandshakeLoop ==
  ASSUME TypeInv, HandshakeInv,
         EndRunIfIdle \/ Notified \/ \E s \in Service : ReapJoined(s)
  PROVE  HandshakeInv'
<1>1. /\ pc \in [Thread -> TaskLabels \cup PollerLabels \cup UiLabels \cup SigLabels \cup LoopLabels]
      /\ Loop \in Thread /\ Loop \notin Service
  BY ThreadAssumption DEF TypeInv, TypeOK, LabelsOK, Thread
<1>2. CASE EndRunIfIdle
  <2>1. /\ pc[Loop] = "idle" /\ names = {} /\ ended' = ~RestartInFlight
        /\ UNCHANGED <<restart_batches, restarts_arming, names, claimed, notified>>
        /\ pc'[Loop] = IF RestartInFlight THEN "sleep" ELSE "reap"
    BY <1>1, <1>2 DEF EndRunIfIdle, Goto, HandshakeInv, EndedIsIdle
  <2>2. EndedIsIdle'
    BY <2>1 DEF EndedIsIdle, RestartInFlight
  <2>3. BatchesSound' /\ WakeUpLeft'
    BY <2>1 DEF HandshakeInv, BatchesSound, WakeUpLeft, Closed
  <2> QED
    BY <2>2, <2>3 DEF HandshakeInv
<1>3. CASE Notified
  <2>1. /\ pc[Loop] \in {"sleep", "select"} /\ pc'[Loop] = "top"
        /\ UNCHANGED <<restart_batches, restarts_arming, ended, names, claimed>>
    BY <1>1, <1>3 DEF Notified, Goto
  <2> QED
    BY <2>1 DEF HandshakeInv, EndedIsIdle, RestartInFlight, BatchesSound, WakeUpLeft, Closed
<1>4. ASSUME NEW s \in Service, ReapJoined(s) PROVE HandshakeInv'
  <2>1. /\ pc[Loop] = "select" /\ pc'[Loop] \in {"top", "recover"}
        /\ UNCHANGED <<restart_batches, restarts_arming, ended, claimed>>
    BY <1>1, <1>4 DEF ReapJoined
  <2> QED
    BY <2>1 DEF HandshakeInv, EndedIsIdle, RestartInFlight, BatchesSound, WakeUpLeft, Closed
<1> QED
  BY <1>2, <1>3, <1>4

\* A restart arms only while the run goes on, and queues with a wake-up.
LEMMA HandshakeUi ==
  ASSUME TypeInv, HandshakeInv,
         QueueRestart \/ \E s \in Service : UiRestart(s)
  PROVE  HandshakeInv'
<1>1. Ui # Loop /\ Loop \in Thread
  BY ThreadAssumption DEF Thread
<1>2. ASSUME NEW s \in Service, UiRestart(s) PROVE HandshakeInv'
  <2>1. /\ ~ended /\ UNCHANGED <<restart_batches, ended, names, claimed, notified>>
        /\ pc'[Loop] = pc[Loop]
    BY <1>1, <1>2, OthersStand DEF UiRestart
  <2> QED
    BY <2>1 DEF HandshakeInv, EndedIsIdle, BatchesSound, WakeUpLeft, Closed
<1>3. CASE QueueRestart
  <2>1. /\ notified' /\ UNCHANGED <<ended, names, claimed>> /\ pc'[Loop] = pc[Loop]
        /\ restart_batches' = MergedBatches(Subtree(root))
    BY <1>1, <1>3, OthersStand DEF QueueRestart
  <2>2. ~ended
    <3>1. restarts_arming = 1
      BY <1>3 DEF QueueRestart, TypeInv, ArmingMatchesUi, InRestart
    <3> QED
      BY <3>1 DEF HandshakeInv, EndedIsIdle, RestartInFlight
  <2>3. BatchesSound'
    <3>1. Closed(Subtree(root))
      BY DEF Closed, Subtree
    <3> QED
      BY <2>1, <3>1, MergeSound DEF HandshakeInv, BatchesSound, Closed
  <2> QED
    BY <2>1, <2>2, <2>3 DEF HandshakeInv, EndedIsIdle, WakeUpLeft
<1> QED
  BY <1>2, <1>3

LEMMA HandshakeStep == TypeInv /\ HandshakeInv /\ [Next]_vars => HandshakeInv'
<1> SUFFICES ASSUME TypeInv, HandshakeInv, [Next]_vars PROVE HandshakeInv'
  OBVIOUS
<1>1. ASSUME NEW s \in Service, TaskStep(s) \/ TaskPanics(s) PROVE HandshakeInv'
  BY <1>1, QuietTask, QuietKeeps
<1>2. ASSUME NEW p \in Pollers, PollStep(p) \/ CheckPasses(p) \/ CheckFails(p)
      PROVE  HandshakeInv'
  BY <1>2, QuietPoller, QuietKeeps
<1>3. ASSUME NEW t \in Thread, SetExitCode(t) \/ BeginShutdown(t) \/ CancelAndTerm(t)
      PROVE  HandshakeInv'
  BY <1>3, QuietShutdown, QuietKeeps
<1>4. CASE LoopStep
  BY <1>4, HandshakeClaim, HandshakeSpawn, HandshakeLoop, QuietLoop, QuietKeeps DEF LoopStep
<1>5. ASSUME NEW s \in Service, UiRestart(s) PROVE HandshakeInv'
  BY <1>5, HandshakeUi
<1>6. CASE UiWork
  BY <1>6, HandshakeUi, QuietWorld, QuietKeeps DEF UiWork
<1>7. CASE \/ FirstSignal \/ SecondSignal \/ TimerStep \/ UiQuit
           \/ \E s \in Service : ChildExits(s) \/ UiStop(s)
           \/ \E x \in orphans : LeftoverExits(x)
           \/ Rest \/ UNCHANGED vars
  BY <1>7, QuietWorld, QuietKeeps
<1> QED
  BY <1>1, <1>2, <1>3, <1>4, <1>5, <1>6, <1>7 DEF Next

\* control.rs: marks, batches, the permit and the run loop's place agree through every restart.
THEOREM HandshakeInvariant == Spec => []HandshakeInv
<1> QED
  BY TypeInvariant, HandshakeInit, HandshakeStep, PTL DEF Spec

\* Batches never share a service, hold every dependent of their members, and the
\* services claimed from them have no task.
THEOREM BatchesStaySound == Spec => []BatchesSound
<1>1. HandshakeInv => BatchesSound
  BY DEF HandshakeInv
<1> QED
  BY <1>1, HandshakeInvariant, PTL

\* The run never ends under a restart that armed, is queued, or still has a task.
THEOREM RestartsHoldTheRun == Spec => []NoRestartDropped
<1>1. HandshakeInv => NoRestartDropped
  BY DEF HandshakeInv, EndedIsIdle, NoRestartDropped
<1> QED
  BY <1>1, HandshakeInvariant, PTL

\* The Notify permit is enough: no batch that can relaunch waits behind a sleeping loop.
THEOREM NoWakeupLost == Spec => []NoLostWakeup
<1>1. HandshakeInv => NoLostWakeup
  BY DEF HandshakeInv, WakeUpLeft, NoLostWakeup
<1> QED
  BY <1>1, HandshakeInvariant, PTL

-----------------------------------------------------------------------------
(* The gates: what a task has waited for stays released while it lives.    *)

\* A task that has not been joined is in the JoinSet.
TasksJoined == \A s \in Service : pc[s] # "none" => s \in names

\* Each gate a task has gone past is still Ready.
PassedGates ==
  \A s \in Service : pc[s] = "deps" =>
    \A i \in 1..Len(DependsOn[s]) : i < at[s] => gate[DependsOn[s][i]] = "Ready"

GateInv == TasksJoined /\ PassedGates /\ LaunchedAfterDeps

LEMMA GateInit == Init => GateInv
  BY ThreadAssumption
  DEF Init, GateInv, TasksJoined, PassedGates, LaunchedAfterDeps, Launching, Thread

\* A step that opens no task, moves none past its dependencies and closes no gate.
Orderly ==
  /\ names' = names
  /\ \A d \in Service : gate[d] = "Ready" => gate'[d] = "Ready"
  /\ \A s \in Service :
       /\ pc'[s] # "none" => pc[s] # "none"
       /\ pc'[s] = "deps" => pc[s] = "deps" /\ at'[s] = at[s]
       /\ pc'[s] \in Launching => pc[s] \in Launching

LEMMA DepsAreServices ==
  ASSUME NEW s \in Service
  PROVE  /\ DepsOf(s) \subseteq Service
         /\ \A i \in 1..Len(DependsOn[s]) : DependsOn[s][i] \in DepsOf(s)
  BY ConfigAssumption DEF DepsOf

LEMMA OrderlyKeeps ==
  ASSUME GateInv, Orderly
  PROVE  GateInv'
<1>1. TasksJoined'
  BY DEF GateInv, TasksJoined, Orderly
<1>2. PassedGates'
  BY DepsAreServices DEF GateInv, PassedGates, Orderly
<1>3. LaunchedAfterDeps'
  BY DepsAreServices DEF GateInv, LaunchedAfterDeps, Orderly, DepsOf
<1> QED
  BY <1>1, <1>2, <1>3 DEF GateInv

\* The first result of a gate stays: a Ready gate is never written over.
LEMMA FirstResultStays ==
  ASSUME TypeInv, NEW s, NEW r, SignalDep(s, r), NEW d \in Service, gate[d] = "Ready"
  PROVE  gate'[d] = "Ready"
  BY DEF SignalDep, TypeInv, TypeOK, ServicesOK

USE DEF svcVars, taskVars

LEMMA OrderlyTask ==
  ASSUME TypeInv, NEW s \in Service,
         \/ Abandon(s) \/ Attempt(s) \/ SpawnChild(s) \/ SpawnFailure(s) \/ RegisterGroup(s)
         \/ SignalLate(s) \/ ReleaseDependents(s) \/ ReapChild(s) \/ DeregisterGroup(s)
         \/ SweepGroup(s) \/ SettleExpected(s) \/ ReleaseCompleted(s) \/ ClassifyExit(s)
         \/ SettleTerminally(s) \/ FinishTask(s) \/ TaskPanics(s)
  PROVE  Orderly
<1>1. names' = names
  BY DEF TaskPanics, Abandon, Attempt, SpawnChild, SpawnFailure,
     RegisterGroup, SignalLate, ReleaseDependents, ReapChild, DeregisterGroup, SweepGroup,
     SettleExpected, ReleaseCompleted, ClassifyExit, SettleTerminally, FinishTask
<1>2. \A d \in Service : gate[d] = "Ready" => gate'[d] = "Ready"
  BY FirstResultStays
  DEF TaskPanics, Abandon, Attempt, SpawnChild, SpawnFailure,
     RegisterGroup, SignalLate, ReleaseDependents, ReapChild, DeregisterGroup, SweepGroup,
     SettleExpected, ReleaseCompleted, ClassifyExit, SettleTerminally, FinishTask
<1>3. ASSUME NEW q \in Service
      PROVE  /\ pc'[q] # "none" => pc[q] # "none"
             /\ pc'[q] = "deps" => pc[q] = "deps" /\ at'[q] = at[q]
             /\ pc'[q] \in Launching => pc[q] \in Launching
  <2>1. /\ pc \in [Thread -> TaskLabels \cup PollerLabels \cup UiLabels \cup SigLabels \cup LoopLabels]
        /\ q \in Thread /\ poller[s] # q /\ q \notin Pollers
    BY ThreadAssumption DEF TypeInv, TypeOK, LabelsOK, TasksOK, Thread
  <2>2. CASE q # s
    <3>1. pc'[q] = pc[q] /\ at'[q] = at[q]
      BY <2>1, <2>2
      DEF TaskPanics, Abandon, Attempt, SpawnChild, SpawnFailure,
     RegisterGroup, SignalLate, ReleaseDependents, ReapChild, DeregisterGroup, SweepGroup,
     SettleExpected, ReleaseCompleted, ClassifyExit, SettleTerminally, FinishTask, RetryOrSettle, Goto
    <3> QED
      BY <3>1
  <2>3. CASE q = s
    <3>1. pc'[q] # "none" /\ pc'[q] # "deps" /\ pc[q] # "none"
      BY <2>1, <2>3
      DEF TaskPanics, Abandon, Attempt, SpawnChild, SpawnFailure,
     RegisterGroup, SignalLate, ReleaseDependents, ReapChild, DeregisterGroup, SweepGroup,
     SettleExpected, ReleaseCompleted, ClassifyExit, SettleTerminally, FinishTask, RetryOrSettle, Goto, OnRegistration
    <3>2. pc'[q] \in Launching => pc[q] \in Launching
      BY <2>1, <2>3
      DEF TaskPanics, Abandon, Attempt, SpawnChild, SpawnFailure,
     RegisterGroup, SignalLate, ReleaseDependents, ReapChild, DeregisterGroup, SweepGroup,
     SettleExpected, ReleaseCompleted, ClassifyExit, SettleTerminally, FinishTask, RetryOrSettle, Goto, OnRegistration, Launching
    <3> QED
      BY <3>1, <3>2
  <2> QED
    BY <2>2, <2>3
<1> QED
  BY <1>1, <1>2, <1>3 DEF Orderly

LEMMA OrderlyElsewhere ==
  ASSUME TypeInv, names' = names,
         \A s \in Service : pc'[s] = pc[s] /\ at'[s] = at[s],
         \A d \in Service : gate[d] = "Ready" => gate'[d] = "Ready"
  PROVE  Orderly
  BY DEF Orderly

\* The other threads move no task, and close no gate.
LEMMA OrderlyPoller ==
  ASSUME TypeInv, NEW p \in Pollers, PollStep(p) \/ CheckPasses(p) \/ CheckFails(p)
  PROVE  Orderly
<1>1. UNCHANGED <<names, at>>
  BY DEF PollStep, AwaitFirstLaunch, CheckPasses, WithholdOrRelease, CheckFails, ReportReady,
     ReadinessCancelled, DeadlineElapses, OnReadinessDeadline, FailReadinessStartup
<1>2. \A d \in Service : gate[d] = "Ready" => gate'[d] = "Ready"
  BY FirstResultStays
  DEF PollStep, AwaitFirstLaunch, CheckPasses, WithholdOrRelease, CheckFails, ReportReady,
      ReadinessCancelled, DeadlineElapses, OnReadinessDeadline, FailReadinessStartup
<1>3. \A s \in Service : s # p /\ s \in Thread
  BY ThreadAssumption DEF Thread
<1>4. \A s \in Service : pc'[s] = pc[s]
  BY <1>3, OthersStand
  DEF PollStep, AwaitFirstLaunch, CheckPasses, WithholdOrRelease, CheckFails, ReportReady,
      ReadinessCancelled, DeadlineElapses, OnReadinessDeadline, FailReadinessStartup
<1> QED
  BY <1>1, <1>2, <1>4 DEF Orderly

LEMMA OrderlyShutdown ==
  ASSUME TypeInv, NEW t \in Thread, SetExitCode(t) \/ BeginShutdown(t) \/ CancelAndTerm(t)
  PROVE  Orderly
<1>1. UNCHANGED <<names, at, gate>>
  BY DEF SetExitCode, BeginShutdown, CancelAndTerm
<1>2. pc \in [Thread -> TaskLabels \cup PollerLabels \cup UiLabels \cup SigLabels \cup LoopLabels]
  BY DEF TypeInv, TypeOK, LabelsOK
<1>3. ASSUME NEW s \in Service
      PROVE  /\ pc'[s] # "none" => pc[s] # "none"
             /\ pc'[s] = "deps" => pc[s] = "deps"
             /\ pc'[s] \in Launching => pc[s] \in Launching
  <2>1. CASE t # s
    BY <2>1, OthersStand DEF SetExitCode, BeginShutdown, CancelAndTerm, Thread
  <2>2. CASE t = s
    BY <1>2, <2>2 DEF SetExitCode, BeginShutdown, CancelAndTerm, Goto, AfterShutdown, Launching
  <2> QED
    BY <2>1, <2>2
<1> QED
  BY <1>1, <1>3 DEF Orderly

LEMMA OrderlyWorld ==
  ASSUME TypeInv,
         \/ FirstSignal \/ SecondSignal \/ TimerStep \/ UiQuit \/ UiWork
         \/ \E s \in Service : ChildExits(s) \/ UiStop(s) \/ UiRestart(s)
         \/ \E x \in orphans : LeftoverExits(x)
         \/ EndRunIfIdle \/ Notified \/ RecoverPanic \/ DropPanicked \/ ReapStrays \/ Exit
         \/ Rest \/ UNCHANGED vars
  PROVE  Orderly
<1> DEFINE Kept == /\ UNCHANGED <<names, at>>
                   /\ \A s \in Service : pc'[s] = pc[s]
                   /\ \A d \in Service : gate[d] = "Ready" => gate'[d] = "Ready"
<1> SUFFICES Kept
  BY OrderlyElsewhere
<1>1. /\ Ui \notin Service /\ Sig \notin Service /\ Loop \notin Service
      /\ \A s \in Service : s \in Thread
  BY ThreadAssumption DEF Thread
<1>2. ASSUME NEW t \in {Ui, Sig, Loop}, NEW l, Goto(t, l)
      PROVE  \A s \in Service : pc'[s] = pc[s]
  BY <1>1, <1>2, OthersStand
<1>3. CASE FirstSignal \/ SecondSignal
  <2>1. UNCHANGED <<names, at, gate>>
    BY <1>3 DEF FirstSignal, SecondSignal, ForceShutdown
  <2> QED
    BY <1>2, <1>3, <2>1 DEF FirstSignal, SecondSignal
<1>4. CASE TimerStep
  <2>1. UNCHANGED <<names, at, gate>>
    BY <1>4
    DEF TimerStep, ShutdownTimer, HardExit, SigkillTimer, StrayTimer, KillStray, timerFrame
  <2>2. \A s \in Service : pc'[s] = pc[s]
    BY <1>2, <1>4
    DEF TimerStep, ShutdownTimer, HardExit, SigkillTimer, StrayTimer, KillStray, timerFrame
  <2> QED
    BY <2>1, <2>2
<1>5. CASE UiQuit \/ EscalateGlobalStop \/ UiRequestExit \/ \E s \in Service : ReadStatus(s)
  <2>1. UNCHANGED <<names, at, gate>>
    BY <1>5 DEF UiQuit, EscalateGlobalStop, UiRequestExit, ReadStatus, ForceShutdown
  <2>2. \A s \in Service : pc'[s] = pc[s]
    BY <1>2, <1>5 DEF UiQuit, LookForRunning, EscalateGlobalStop, UiRequestExit, ReadStatus
  <2> QED
    BY <2>1, <2>2
<1>6. CASE UiWork
  <2>1. CASE \/ MarkSubtreeStopped \/ SignalSubtree \/ QueueRestart
             \/ \E s \in Service : NoteTarget(s)
    <3>1. UNCHANGED <<names, at>>
      BY <2>1 DEF MarkSubtreeStopped, SignalSubtree, QueueRestart, NoteTarget
    <3>2. \A s \in Service : pc'[s] = pc[s]
      BY <1>2, <2>1 DEF MarkSubtreeStopped, SignalSubtree, QueueRestart, NoteTarget
    <3>3. \A d \in Service : gate[d] = "Ready" => gate'[d] = "Ready"
      BY <2>1, FirstResultStays DEF MarkSubtreeStopped, SignalSubtree, QueueRestart, NoteTarget
    <3> QED
      BY <3>1, <3>2, <3>3
  <2> QED
    BY <1>5, <1>6, <2>1 DEF UiWork
<1>7. ASSUME NEW s \in Service, ChildExits(s) \/ UiStop(s) \/ UiRestart(s) PROVE Kept
  <2>1. UNCHANGED <<names, at, gate>>
    BY <1>7 DEF ChildExits, UiStop, UiRestart
  <2>2. \A q \in Service : pc'[q] = pc[q]
    BY <1>2, <1>7 DEF ChildExits, UiStop, LookForRunning, UiRestart
  <2> QED
    BY <2>1, <2>2
<1>8. ASSUME NEW x \in orphans, LeftoverExits(x) PROVE Kept
  BY <1>8 DEF LeftoverExits
<1>9. CASE EndRunIfIdle \/ Notified \/ ReapStrays \/ Exit
  <2>1. UNCHANGED <<names, at, gate>>
    BY <1>9 DEF EndRunIfIdle, Notified, ReapStrays, Exit
  <2>2. \A s \in Service : pc'[s] = pc[s]
    BY <1>2, <1>9 DEF EndRunIfIdle, Notified, ReapStrays, Exit
  <2> QED
    BY <2>1, <2>2
<1>10. CASE RecoverPanic \/ DropPanicked
  <2>1. UNCHANGED <<names, at>>
    BY <1>10 DEF RecoverPanic, DropPanicked
  <2>2. \A s \in Service : pc'[s] = pc[s]
    BY <1>2, <1>10 DEF RecoverPanic, DropPanicked
  <2>3. \A d \in Service : gate[d] = "Ready" => gate'[d] = "Ready"
    BY <1>10, FirstResultStays DEF RecoverPanic, DropPanicked
  <2> QED
    BY <2>1, <2>2, <2>3
<1>11. CASE Rest \/ UNCHANGED vars
  BY <1>11 DEF Rest, vars
<1> QED
  BY <1>3, <1>4, <1>5, <1>6, <1>7, <1>8, <1>9, <1>10, <1>11

\* A wait that goes on has found its gate Ready; a launch has found them all.
LEMMA GateAwaitDep ==
  ASSUME TypeInv, GateInv, NEW s \in Service, AwaitDep(s)
  PROVE  GateInv'
<1>1. /\ pc \in [Thread -> TaskLabels \cup PollerLabels \cup UiLabels \cup SigLabels \cup LoopLabels]
      /\ at \in [Service -> Nat \ {0}] /\ s \in Thread /\ Len(DependsOn[s]) \in Nat
      /\ UNCHANGED <<gate, names>>
  BY ConfigAssumption DEF AwaitDep, TypeInv, TypeOK, LabelsOK, TasksOK, Thread
<1>2. CASE Goto(s, "abandon") /\ UNCHANGED at
  BY <1>1, <1>2
  DEF AwaitDep, Goto, GateInv, TasksJoined, PassedGates, LaunchedAfterDeps, Launching, DepsOf
<1>3. CASE /\ gate[DependsOn[s][at[s]]] = "Ready" /\ UNCHANGED pc
           /\ at' = [at EXCEPT ![s] = @ + 1]
  <2>1. TasksJoined' /\ LaunchedAfterDeps'
    BY <1>1, <1>3 DEF GateInv, TasksJoined, LaunchedAfterDeps
  <2>2. \A i \in 1..Len(DependsOn[s]) : i < at'[s] => i < at[s] \/ i = at[s]
    BY <1>1, <1>3
  <2>3. \A q \in Service : q # s => at'[q] = at[q]
    BY <1>1, <1>3
  <2>4. pc[s] = "deps"
    BY DEF AwaitDep
  <2>5. PassedGates'
    BY <1>1, <1>3, <2>2, <2>3, <2>4 DEF GateInv, PassedGates
  <2> QED
    BY <2>1, <2>5 DEF GateInv
<1> QED
  BY <1>2, <1>3 DEF AwaitDep

LEMMA GateBeginAttempts ==
  ASSUME TypeInv, GateInv, NEW s \in Service, BeginAttempts(s)
  PROVE  GateInv'
<1>1. /\ pc \in [Thread -> TaskLabels \cup PollerLabels \cup UiLabels \cup SigLabels \cup LoopLabels]
      /\ at[s] \in Nat /\ s \in Thread /\ Len(DependsOn[s]) \in Nat
      /\ UNCHANGED <<gate, names, at>> /\ pc[s] = "deps" /\ at[s] > Len(DependsOn[s])
  BY ConfigAssumption DEF BeginAttempts, TypeInv, TypeOK, LabelsOK, TasksOK, Thread
<1>2. \A q \in Service : q # s => pc'[q] = pc[q]
  <2> SUFFICES ASSUME NEW q \in Service, q # s PROVE pc'[q] = pc[q]
    OBVIOUS
  <2>1. q \in Thread /\ q \notin Pollers
    BY ThreadAssumption DEF Thread
  <2> QED
    BY <1>1, <2>1 DEF BeginAttempts, Goto
<1>3. pc'[s] \notin {"none", "deps"}
  BY <1>1, ThreadAssumption DEF BeginAttempts, Goto
<1>4. \A d \in DepsOf(s) : gate[d] = "Ready"
  BY <1>1 DEF GateInv, PassedGates, DepsOf
<1>5. TasksJoined' /\ PassedGates'
  BY <1>1, <1>2, <1>3 DEF GateInv, TasksJoined, PassedGates
<1>6. LaunchedAfterDeps'
  BY <1>1, <1>2, <1>4 DEF GateInv, LaunchedAfterDeps
<1> QED
  BY <1>5, <1>6 DEF GateInv

LEMMA GateReapJoined ==
  ASSUME TypeInv, GateInv, NEW s \in Service, ReapJoined(s)
  PROVE  GateInv'
<1>1. /\ pc \in [Thread -> TaskLabels \cup PollerLabels \cup UiLabels \cup SigLabels \cup LoopLabels]
      /\ Service \subseteq Thread /\ Loop \notin Service
      /\ names' = names \ {s} /\ UNCHANGED <<gate, at>>
  BY ThreadAssumption DEF ReapJoined, TypeInv, TypeOK, LabelsOK, Thread
<1>2. pc'[s] = "none" /\ \A q \in Service : q # s => pc'[q] = pc[q]
  BY <1>1 DEF ReapJoined
<1> QED
  BY <1>1, <1>2 DEF GateInv, TasksJoined, PassedGates, LaunchedAfterDeps, Launching

LEMMA GateSpawnClaimed ==
  ASSUME TypeInv, GateInv, SpawnClaimed
  PROVE  GateInv'
<1>1. /\ Loop \notin Service /\ names' = names \cup claimed /\ UNCHANGED gate
      /\ \A s \in Service : s \in Thread
  BY ThreadAssumption DEF SpawnClaimed, Thread
<1>2. \A s \in Service : s \in claimed => pc'[s] = "deps" /\ at'[s] = 1
  BY <1>1 DEF SpawnClaimed
<1>3. \A s \in Service : s \notin claimed => pc'[s] = pc[s] /\ at'[s] = at[s]
  BY <1>1 DEF SpawnClaimed
<1>4. TasksJoined' /\ PassedGates'
  BY <1>1, <1>2, <1>3 DEF GateInv, TasksJoined, PassedGates
<1>5. LaunchedAfterDeps'
  BY <1>1, <1>2, <1>3 DEF GateInv, LaunchedAfterDeps, Launching
<1> QED
  BY <1>4, <1>5 DEF GateInv

\* The claim re-arms gates, but of batches only: every dependent of a member is a
\* member, and no member has a task left.
LEMMA GateTakeReadyRestarts ==
  ASSUME TypeInv, HandshakeInv, GateInv, TakeReadyRestarts
  PROVE  GateInv'
<1> DEFINE batch == UNION {b \in restart_batches : Quiesced(b)}
<1>1. /\ UNCHANGED <<names, at>> /\ \A s \in Service : pc'[s] = pc[s]
      /\ \A d \in Service : d \notin batch => gate'[d] = gate[d]
  BY ThreadAssumption DEF TakeReadyRestarts, Goto, TypeInv, TypeOK, ServicesOK
<1>2. \A s \in batch : s \in Service => pc[s] = "none"
  BY DEF Quiesced, GateInv, TasksJoined
<1>3. \A s \in Service : DepsOf(s) \cap batch # {} => s \in batch
  BY DEF HandshakeInv, BatchesSound, Closed
<1>4. \A s \in Service : pc[s] # "none" =>
        \A d \in DepsOf(s) : d \in Service /\ gate'[d] = gate[d]
  BY <1>1, <1>2, <1>3, DepsAreServices
<1>5. TasksJoined' /\ LaunchedAfterDeps'
  BY <1>1, <1>4 DEF GateInv, TasksJoined, LaunchedAfterDeps, Launching
<1>6. PassedGates'
  BY <1>1, <1>4, DepsAreServices DEF GateInv, PassedGates
<1> QED
  BY <1>5, <1>6 DEF GateInv

LEMMA GateStep == TypeInv /\ HandshakeInv /\ GateInv /\ [Next]_vars => GateInv'
<1> SUFFICES ASSUME TypeInv, HandshakeInv, GateInv, [Next]_vars PROVE GateInv'
  OBVIOUS
<1>1. ASSUME NEW s \in Service, TaskStep(s) \/ TaskPanics(s) PROVE GateInv'
  BY <1>1, GateAwaitDep, GateBeginAttempts, OrderlyTask, OrderlyKeeps DEF TaskStep
<1>2. ASSUME NEW p \in Pollers, PollStep(p) \/ CheckPasses(p) \/ CheckFails(p) PROVE GateInv'
  BY <1>2, OrderlyPoller, OrderlyKeeps
<1>3. ASSUME NEW t \in Thread, SetExitCode(t) \/ BeginShutdown(t) \/ CancelAndTerm(t)
      PROVE  GateInv'
  BY <1>3, OrderlyShutdown, OrderlyKeeps
<1>4. CASE LoopStep
  BY <1>4, GateSpawnClaimed, GateTakeReadyRestarts, GateReapJoined, OrderlyWorld, OrderlyKeeps
  DEF LoopStep
<1>5. CASE \/ FirstSignal \/ SecondSignal \/ TimerStep \/ UiQuit \/ UiWork
           \/ \E s \in Service : ChildExits(s) \/ UiStop(s) \/ UiRestart(s)
           \/ \E x \in orphans : LeftoverExits(x)
           \/ Rest \/ UNCHANGED vars
  BY <1>5, OrderlyWorld, OrderlyKeeps
<1> QED
  BY <1>1, <1>2, <1>3, <1>4, <1>5 DEF Next

\* deps.rs: who got past its dependencies has their gates open, and who has a task is named.
THEOREM GateInvariant == Spec => []GateInv
<1> QED
  BY TypeInvariant, HandshakeInvariant, GateInit, GateStep, PTL DEF Spec

\* No restart, however it interleaves with launches and retries, re-arms the gate of a
\* dependency under a task that has got past it.
THEOREM LaunchesFollowDependencies == Spec => []LaunchedAfterDeps
<1>1. GateInv => LaunchedAfterDeps
  BY DEF GateInv
<1> QED
  BY <1>1, GateInvariant, PTL

=============================================================================
