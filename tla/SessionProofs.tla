---------------------------- MODULE SessionProofs ----------------------------
(* That the UI leaves in order and that a session keeps its types, for all *)
(* services, keys and signals.                                             *)
EXTENDS Session, TLAPS

\* Why the UI may leave, and what is true of a run that is over: nothing runs in it, its
\* code has been sent, and so an exit nobody forced finds nothing left; and what an exit
\* reports.
LeaveInv ==
  /\ quit \/ ui \in {"left", "join"} => quit_requested \/ runner_quit \/ ~reader \/ io_error
  /\ fin \in {"open", "sent", "taken"}
  /\ phase \in {"running", "over", "exited"}
  /\ phase = "over" => \A s \in Service : ~Run!Runs(s)
  /\ phase = "exited" /\ ~Forced /\ ~lost =>
       /\ fin # "open" /\ \A s \in Service : ~Run!Runs(s)
       /\ reported = IF io_error THEN <<1>> ELSE <<code>>
  /\ phase = "exited" /\ code # 0 => reported \notin {<<>>, <<0>>}

LEMMA LeaveInit == Init => LeaveInv
  BY DEF Init, Run!Init, Run!Runs, LeaveInv

USE DEF runVars, taskVars, loopVars, exitVars, appVars, searchVars, sigVars, uiFrame, sigFrame,
        roundFrame, joinFrame, keyFrame, searchFrame, Forced

\* The supervisor's own steps.
LEMMA RunKeeps ==
  ASSUME LeaveInv, phase # "exited", RunStep \/ \E s \in Service : ProcessEnds(s)
  PROVE  LeaveInv'
<1>1. UNCHANGED <<quit, ui, quit_requested, runner_quit, reader, io_error, reported, handler, force_armed>>
  BY DEF RunStep, ServiceRuns, Kills, Settles, RunFails, FailedRunEnds, ClaimsRestarts, RunEnds,
     RunReturns, RunPanics, ProcessEnds
<1>2. ASSUME NEW s \in Service, ServiceRuns(s) PROVE LeaveInv'
  <2>1. phase' = phase /\ UNCHANGED <<fin, lost>>
    BY <1>2 DEF ServiceRuns, Run!Launch, Run!Tell, Run!Lose
  <2>2. phase = "over" => \A t \in Service : ~Run!Runs(t)'
    BY <1>2 DEF ServiceRuns, Run!Launch, Run!Tell, Run!Lose, Run!Becomes, Run!Runs, LeaveInv
  <2> QED
    BY <1>1, <2>1, <2>2 DEF LeaveInv
<1>3. ASSUME NEW s \in Service, Kills(s) \/ ProcessEnds(s) PROVE LeaveInv'
  <2>1. phase' = phase /\ UNCHANGED <<fin, lost>>
    BY <1>3 DEF Kills, ProcessEnds, Run!Kill, Run!Ends
  <2>2. phase = "over" => \A t \in Service : ~Run!Runs(t)'
    BY <1>3 DEF Kills, ProcessEnds, Run!Kill, Run!Ends, Run!Becomes, Run!Runs, LeaveInv
  <2> QED
    BY <1>1, <2>1, <2>2 DEF LeaveInv
<1>4. ASSUME NEW s \in Service, Settles(s) PROVE LeaveInv'
  BY <1>1, <1>4 DEF Settles, LeaveInv, Run!Runs
<1>5. CASE RunFails \/ FailedRunEnds \/ ClaimsRestarts
  BY <1>1, <1>5 DEF RunFails, FailedRunEnds, ClaimsRestarts, Run!Record, Run!ShutDown,
     Run!Relaunch, Run!Discard, LeaveInv, Run!Runs
<1>6. CASE RunEnds
  BY <1>1, <1>6 DEF RunEnds, Run!Over, LeaveInv, Run!Runs
<1>7. CASE RunReturns
  BY <1>1, <1>7 DEF RunReturns, LeaveInv, Run!Runs
<1>8. CASE RunPanics
  BY <1>1, <1>8 DEF RunPanics, LeaveInv, Run!Runs
<1> QED
  BY <1>2, <1>3, <1>4, <1>5, <1>6, <1>7, <1>8 DEF RunStep

\* The signal handler's, and the hard exits.
LEMMA HandlerKeeps ==
  ASSUME LeaveInv, phase # "exited", HandlerStep \/ SignalArrives \/ SecondSignal \/ HardExit
  PROVE  LeaveInv'
<1>1. CASE WakeUi \/ HandlerShutsDown
  BY <1>1 DEF WakeUi, HandlerShutsDown, Run!ShutDown, LeaveInv, Run!Runs
<1>2. CASE SignalArrives
  BY <1>2 DEF SignalArrives, LeaveInv, Run!Runs
<1>3. CASE SecondSignal
  BY <1>3 DEF SecondSignal, LeaveInv, Run!Runs
<1>4. CASE HardExit
  BY <1>4 DEF HardExit, Run!HardExit, LeaveInv, Run!Runs
<1> QED
  BY <1>1, <1>2, <1>3, <1>4 DEF HandlerStep

\* The event loop's: it leaves when told to, and exits with a run that is over.
LEMMA LoopKeeps ==
  ASSUME LeaveInv, phase # "exited", LoopStep
  PROVE  LeaveInv'
<1>1. CASE Round
  <2>1. quit' <=> quit \/ runner_quit
    BY <1>1 DEF Round
  <2>2. ui' \in {"left", "join"} => quit'
    BY <1>1 DEF Round
  <2>3. quit' \/ ui' \in {"left", "join"} => quit_requested' \/ runner_quit' \/ ~reader' \/ io_error'
    BY <1>1, <2>1, <2>2 DEF Round, LeaveInv
  <2> QED
    BY <1>1, <2>3 DEF Round, LeaveInv, Run!Runs
<1>2. CASE Pinged \/ CoalesceElapses
  BY <1>2 DEF Pinged, CoalesceElapses, LeaveInv, Run!Runs
<1>3. CASE RunFinished
  <2>1. quit' <=> quit \/ quit_requested
    BY <1>3 DEF RunFinished
  <2>2. quit' => quit_requested' \/ runner_quit' \/ ~reader' \/ io_error'
    BY <1>3, <2>1 DEF RunFinished, LeaveInv
  <2> QED
    BY <1>3, <2>2 DEF RunFinished, LeaveInv, Run!Runs
<1>4. CASE Leave \/ QueueRestart
  BY <1>4 DEF Leave, QueueRestart, Run!ShutDown, Run!Want, LeaveInv, Run!Runs
<1>5. CASE JoinRun
  <2>1. /\ phase' = "exited" /\ (~lost => phase = "over") /\ fin # "open"
        /\ UNCHANGED <<proc, code, fin, lost, quit, ui, quit_requested, runner_quit, reader, io_error>>
    BY <1>5 DEF JoinRun, Run!Exit
  <2>2. reported' = IF io_error \/ lost THEN <<1>> ELSE <<code>>
    BY <1>5 DEF JoinRun
  <2>3. code # 0 => reported' \notin {<<>>, <<0>>}
    BY <2>2
  <2> QED
    BY <2>1, <2>2, <2>3 DEF LeaveInv, Run!Runs
<1> QED
  BY <1>1, <1>2, <1>3, <1>4, <1>5 DEF LoopStep

\* The keys, and the terminal's end.
LEMMA KeyKeeps ==
  ASSUME LeaveInv, phase # "exited", KeyStep
  PROVE  LeaveInv'
<1>1. CASE CtrlC \/ KeyQ
  BY <1>1 DEF CtrlC, KeyQ, Press, EscalateGlobalStop, RequestExit, Run!ShutDown, Run!Stop,
     LeaveInv, Run!Runs
<1>2. CASE KeyR
  BY <1>2 DEF KeyR, Press, Run!Stop, LeaveInv, Run!Runs
<1>3. CASE KeyTab \/ OpenSearch \/ CloseSearch \/ Commit \/ EditQuery
  BY <1>3 DEF KeyTab, OpenSearch, CloseSearch, Commit, EditQuery, Press, LeaveInv, Run!Runs
<1>4. CASE ReaderEnds \/ TerminalFails
  BY <1>4 DEF ReaderEnds, TerminalFails, LeaveInv, Run!Runs
<1> QED
  BY <1>1, <1>2, <1>3, <1>4 DEF KeyStep

LEMMA LeaveStep == LeaveInv /\ [Next]_vars => LeaveInv'
<1> SUFFICES ASSUME LeaveInv, [Next]_vars PROVE LeaveInv'
  OBVIOUS
<1>1. CASE UNCHANGED vars
  BY <1>1 DEF vars, LeaveInv, Run!Runs
<1>2. CASE Rest
  BY <1>2 DEF Rest, vars, LeaveInv, Run!Runs
<1> QED
  BY <1>1, <1>2, RunKeeps, HandlerKeeps, LoopKeeps, KeyKeeps DEF Next

\* The UI of any session closes only on request or with its terminal, a run that ends or is
\* lost leaving it open for review; run()'s exit, unless forced, leaves no process behind and
\* reports the run's code, an error of the terminal's as 1; and no failed run exits with 0.
THEOREM SessionLeavesInOrder == Spec => []LeavesInOrder
<1>1. LeaveInv => LeavesInOrder
  BY DEF LeaveInv, LeavesInOrder
<1> QED
  BY <1>1, LeaveInit, LeaveStep, PTL DEF Spec

-----------------------------------------------------------------------------
\* A service has a least set of services that holds its dependents: what they share.
LEMMA SubtreeType ==
  ASSUME NEW s \in Service
  PROVE  /\ Subtree(s) \in SUBSET Service
         /\ s \in Subtree(s) /\ Run!HoldsDependents(Subtree(s))
<1> DEFINE Holds(S) == s \in S /\ Run!HoldsDependents(S)
           Core == {t \in Service : \A T \in SUBSET Service : Holds(T) => t \in T}
<1>1. Core \in SUBSET Service /\ s \in Core
  OBVIOUS
<1>2. Run!HoldsDependents(Core)
  <2> SUFFICES ASSUME NEW t \in Service, NEW u \in Needs[t] \cap Core PROVE t \in Core
    BY DEF Run!HoldsDependents
  <2>1. ASSUME NEW T \in SUBSET Service, Holds(T) PROVE t \in T
    BY <2>1 DEF Run!HoldsDependents
  <2> QED
    BY <2>1
<1>3. \A T \in SUBSET Service : Holds(T) => Core \subseteq T
  OBVIOUS
<1> QED
  BY <1>1, <1>2, <1>3 DEF Subtree

\* A restart is set up only for the service of a tab.
TypeInv == TypeOK /\ (ui = "queue" => tab # All)

LEMMA TypeInit == Init => TypeInv
<1> SUFFICES ASSUME Init PROVE TypeInv
  OBVIOUS
<1>1. /\ proc \in [Service -> {"none", "up", "told", "killed"}]
      /\ {marked, wanted, active} \subseteq SUBSET Service
      /\ phase \in {"running", "over", "exited"} /\ code \in Nat /\ down \in BOOLEAN
  BY DEF Init, Run!Init
<1>2. keys \in 0..MaxKeys /\ query \in 0..MaxQuery /\ cursor \in 0..query
  BY SessionAssumption DEF Init
<1>3. reported \in Seq(Nat) /\ tab \in Service \cup {All} /\ ui = "round"
  BY DEF Init
<1> QED
  BY <1>1, <1>2, <1>3 DEF Init, TypeInv, TypeOK

LEMMA BecomesType ==
  ASSUME TypeOK, NEW S, NEW state \in {"none", "up", "told", "killed"}, Run!Becomes(S, state)
  PROVE  proc' \in [Service -> {"none", "up", "told", "killed"}]
  BY DEF TypeOK, Run!Becomes

\* The supervisor's steps, the handler's, the loop's and the keys', as above.
LEMMA RunTyped ==
  ASSUME TypeInv, RunStep \/ \E s \in Service : ProcessEnds(s)
  PROVE  TypeInv'
<1>1. ASSUME NEW s \in Service, ServiceRuns(s) PROVE TypeInv'
  <2>1. proc' \in [Service -> {"none", "up", "told", "killed"}]
    BY <1>1, BecomesType DEF TypeInv, ServiceRuns, Run!Launch, Run!Tell, Run!Lose
  <2>2. UNCHANGED <<marked, wanted, down, phase, code>>
    BY <1>1 DEF ServiceRuns, Run!Launch, Run!Tell, Run!Lose
  <2>3. permit' \in BOOLEAN /\ UNCHANGED <<taskVars, uiFrame>>
    BY <1>1 DEF ServiceRuns, TypeInv, TypeOK
  <2> QED
    BY <2>1, <2>2, <2>3 DEF TypeInv, TypeOK
<1>2. ASSUME NEW s \in Service, Kills(s) \/ ProcessEnds(s) PROVE TypeInv'
  <2>1. proc' \in [Service -> {"none", "up", "told", "killed"}]
    BY <1>2, BecomesType DEF TypeInv, Kills, ProcessEnds, Run!Kill, Run!Ends
  <2> QED
    BY <1>2, <2>1 DEF Kills, ProcessEnds, Run!Kill, Run!Ends, TypeInv, TypeOK
<1>3. ASSUME NEW s \in Service, Settles(s) PROVE TypeInv'
  <2>1. active' \subseteq Service /\ permit' \in BOOLEAN
    BY <1>3 DEF Settles, TypeInv, TypeOK
  <2>2. UNCHANGED <<runVars, lost, fin, uiFrame>>
    BY <1>3 DEF Settles
  <2> QED
    BY <2>1, <2>2 DEF TypeInv, TypeOK
<1>4. CASE RunFails \/ FailedRunEnds
  BY <1>4 DEF RunFails, FailedRunEnds, Run!Record, Run!ShutDown, TypeInv, TypeOK
<1>5. CASE ClaimsRestarts
  BY <1>5 DEF ClaimsRestarts, Run!Relaunch, Run!Discard, TypeInv, TypeOK
<1>6. CASE RunEnds \/ RunReturns
  BY <1>6 DEF RunEnds, RunReturns, Run!Over, TypeInv, TypeOK
<1>7. CASE RunPanics
  BY <1>7 DEF RunPanics, TypeInv, TypeOK
<1> QED
  BY <1>1, <1>2, <1>3, <1>4, <1>5, <1>6, <1>7 DEF RunStep

LEMMA HandlerTyped ==
  ASSUME TypeInv, HandlerStep \/ SignalArrives \/ SecondSignal \/ HardExit
  PROVE  TypeInv'
<1>1. CASE HandlerStep
  BY <1>1 DEF HandlerStep, WakeUi, HandlerShutsDown, Run!ShutDown, TypeInv, TypeOK
<1>2. CASE SignalArrives \/ SecondSignal
  BY <1>2 DEF SignalArrives, SecondSignal, TypeInv, TypeOK
<1>3. CASE HardExit
  BY <1>3 DEF HardExit, Run!HardExit, TypeInv, TypeOK
<1> QED
  BY <1>1, <1>2, <1>3

LEMMA LoopTyped ==
  ASSUME TypeInv, LoopStep
  PROVE  TypeInv'
<1>1. CASE Round
  <2>1. quit' \in BOOLEAN /\ ui' \in {"left", "select"}
    BY <1>1 DEF Round, TypeInv, TypeOK
  <2> QED
    BY <1>1, <2>1 DEF Round, TypeInv, TypeOK
<1>2. CASE Pinged \/ CoalesceElapses
  BY <1>2 DEF Pinged, CoalesceElapses, TypeInv, TypeOK
<1>3. CASE RunFinished
  <2>1. quit' \in BOOLEAN /\ finished' \in BOOLEAN
    BY <1>3 DEF RunFinished, TypeInv, TypeOK
  <2> QED
    BY <1>3, <2>1 DEF RunFinished, TypeInv, TypeOK
<1>4. CASE Leave
  BY <1>4 DEF Leave, Run!ShutDown, TypeInv, TypeOK
<1>5. CASE QueueRestart
  <2>1. Subtree(tab) \in SUBSET Service
    BY <1>5, SubtreeType DEF QueueRestart, TypeInv, TypeOK
  <2> QED
    BY <1>5, <2>1 DEF QueueRestart, Run!Want, TypeInv, TypeOK
<1>6. CASE JoinRun
  BY <1>6 DEF JoinRun, Run!Exit, TypeInv, TypeOK
<1> QED
  BY <1>1, <1>2, <1>3, <1>4, <1>5, <1>6 DEF LoopStep

LEMMA KeyTyped ==
  ASSUME TypeInv, KeyStep
  PROVE  TypeInv'
<1>1. ASSUME Press PROVE keys' \in 0..MaxKeys
  BY <1>1, SessionAssumption DEF Press, TypeInv, TypeOK
<1>2. CASE CtrlC
  <2>1. tab # All => Subtree(tab) \in SUBSET Service
    BY SubtreeType DEF TypeInv, TypeOK
  <2>2. {marked', wanted'} \subseteq SUBSET Service
    BY <1>2, <2>1 DEF CtrlC, EscalateGlobalStop, RequestExit, Run!ShutDown, Run!Stop,
       TypeInv, TypeOK
  <2>3. {down', quit', global_stopped', quit_requested', force_armed'} \subseteq BOOLEAN
    BY <1>2 DEF CtrlC, EscalateGlobalStop, RequestExit, Run!ShutDown, Run!Stop, TypeInv, TypeOK
  <2>4. UNCHANGED <<proc, phase, code>>
    BY <1>2 DEF CtrlC, EscalateGlobalStop, RequestExit, Run!ShutDown, Run!Stop
  <2> QED
    BY <1>1, <1>2, <2>2, <2>3, <2>4 DEF CtrlC, TypeInv, TypeOK
<1>3. CASE KeyQ
  <2>1. {down', quit', global_stopped', quit_requested'} \subseteq BOOLEAN
    BY <1>3 DEF KeyQ, EscalateGlobalStop, Run!ShutDown, TypeInv, TypeOK
  <2>2. UNCHANGED <<proc, marked, wanted, phase, code>>
    BY <1>3 DEF KeyQ, EscalateGlobalStop, Run!ShutDown
  <2> QED
    BY <1>1, <1>3, <2>1, <2>2 DEF KeyQ, TypeInv, TypeOK
<1>4. CASE KeyR
  <2>1. Subtree(tab) \in SUBSET Service
    BY <1>4, SubtreeType DEF KeyR, TypeInv, TypeOK
  <2> QED
    BY <1>1, <1>4, <2>1 DEF KeyR, Run!Stop, TypeInv, TypeOK
<1>5. CASE KeyTab
  BY <1>1, <1>5 DEF KeyTab, TypeInv, TypeOK
<1>6. CASE OpenSearch \/ CloseSearch \/ Commit
  <2>1. /\ query' \in 0..MaxQuery /\ cursor' \in 0..query'
        /\ search' \in {"off", "typing", "filter"}
        /\ search' = "off" => query' = 0
        /\ search' = "filter" => query' > 0
    BY <1>6, SessionAssumption DEF OpenSearch, CloseSearch, Commit, Typing, TypeInv, TypeOK
  <2> QED
    BY <1>1, <1>6, <2>1 DEF OpenSearch, CloseSearch, Commit, TypeInv, TypeOK
<1>7. CASE EditQuery
  <2>1. query' \in 0..MaxQuery /\ cursor' \in 0..query' /\ search = "typing"
    BY <1>7, SessionAssumption DEF EditQuery, Typing, TypeInv, TypeOK
  <2> QED
    BY <1>1, <1>7, <2>1 DEF EditQuery, TypeInv, TypeOK
<1>8. CASE ReaderEnds \/ TerminalFails
  BY <1>8 DEF ReaderEnds, TerminalFails, TypeInv, TypeOK
<1> QED
  BY <1>2, <1>3, <1>4, <1>5, <1>6, <1>7, <1>8 DEF KeyStep

\* Every variable keeps its type, the cursor its place in the query, and the search box
\* what it says: closed it is empty, and a filter is not.
THEOREM TypeCorrect == Spec => []TypeOK
<1>1. TypeInv /\ [Next]_vars => TypeInv'
  <2> SUFFICES ASSUME TypeInv, [Next]_vars PROVE TypeInv'
    OBVIOUS
  <2>1. CASE UNCHANGED vars \/ Rest
    BY <2>1 DEF Rest, vars, TypeInv, TypeOK
  <2> QED
    BY <2>1, RunTyped, HandlerTyped, LoopTyped, KeyTyped DEF Next
<1>2. TypeInv => TypeOK
  BY DEF TypeInv
<1> QED
  BY <1>1, <1>2, TypeInit, PTL DEF Spec
=============================================================================
