------------------------------- MODULE Session -------------------------------
(***************************************************************************)
(* A run of proccie behind its terminal UI, from the first frame to the    *)
(* end of the process: the keys that stop, restart, search and quit, the   *)
(* review of the logs once the run is over, the signals, and the task that *)
(* supervises. The supervisor is Supervisor, whose promise Runner keeps;   *)
(* of drawing, only that it takes a round of the loop is here (LogView).   *)
(***************************************************************************)
EXTENDS Naturals, Sequences

CONSTANTS
  Service, Needs, MayPanic,  \* as in Supervisor
  All,                       \* the All tab
  MaxKeys,                   \* bound: keys pressed
  MaxQuery                   \* bound: characters in the search box

ASSUME SessionAssumption ==
  /\ Needs \in [Service -> SUBSET Service] /\ MayPanic \subseteq Service
  /\ All \notin Service /\ MaxKeys \in Nat /\ MaxQuery \in Nat

VARIABLES
  proc, marked, wanted, down, phase, code,  \* Supervisor
  active,                          \* services whose status is active or whose group is registered
  lost, fin,                       \* the supervisor's task: panicked; its oneshot
  ui, tab, coalescing, permit,     \* event_loop and the redraw Notify
  io_error,                        \* whether event_loop returned an error
  reported,                        \* the exit code of the process, <<>> while it runs
  quit, finished, global_stopped, quit_requested,  \* App
  search, query, cursor,           \* Search: the box, and the length of its query
  reader,                          \* whether the key reader lives
  handler, runner_quit,            \* the signal handler; Runner's quit flag
  force_armed,                     \* arm_force_exit
  keys

runVars    == <<proc, marked, wanted, down, phase, code>>
taskVars   == <<active, lost, fin>>
loopVars   == <<ui, coalescing, permit>>
exitVars   == <<io_error, reported>>
appVars    == <<tab, quit, finished, global_stopped, quit_requested>>
searchVars == <<search, query, cursor>>
sigVars    == <<handler, runner_quit>>
vars == <<runVars, taskVars, loopVars, exitVars, appVars, searchVars, reader, sigVars, force_armed, keys>>

Run == INSTANCE Supervisor

Subtree(s) ==
  CHOOSE S \in SUBSET Service :
    /\ s \in S /\ Run!HoldsDependents(S)
    /\ \A T \in SUBSET Service : s \in T /\ Run!HoldsDependents(T) => S \subseteq T

AnyRunning == active # {} \/ wanted # {} \/ ui = "queue"

Init ==
  /\ Run!Init
  /\ active = Service /\ lost = FALSE /\ fin = "open"
  /\ ui = "round" /\ tab = All /\ coalescing = FALSE /\ permit = FALSE
  /\ quit = FALSE /\ finished = FALSE /\ global_stopped = FALSE /\ quit_requested = FALSE
  /\ search = "off" /\ query = 0 /\ cursor = 0
  /\ io_error = FALSE /\ reported = <<>>
  /\ reader = TRUE /\ handler = "first" /\ runner_quit = FALSE /\ force_armed = FALSE
  /\ keys = 0

-----------------------------------------------------------------------------
(* The supervisor's task. Lines it logs may ping the loop at any moment.   *)

uiFrame == <<ui, coalescing, exitVars, appVars, searchVars, reader, sigVars, force_armed, keys>>

\* A task goes on unless it sees a stop; a process is signalled and ends.
ServiceRuns(s) ==
  /\ ~lost
  /\ \/ s \in active /\ ~Run!Asked(s) /\ Run!Launch(s)
     \/ Run!Tell({s}) \/ Run!Lose(s)
  /\ permit' \in {permit, TRUE}
  /\ UNCHANGED <<taskVars, uiFrame>>

Kills(s) ==
  /\ ~lost /\ Run!Kill({s})
  /\ UNCHANGED <<taskVars, permit, uiFrame>>

ProcessEnds(s) ==
  /\ phase # "exited" /\ Run!Ends(s)
  /\ UNCHANGED <<taskVars, permit, uiFrame>>

Settles(s) ==
  /\ ~lost /\ phase = "running" /\ s \in active /\ proc[s] = "none"
  /\ active' = active \ {s}
  /\ permit' \in {permit, TRUE}
  /\ UNCHANGED <<runVars, lost, fin, uiFrame>>

\* The first unexpected exit decides the code, and shuts the run down.
RunFails ==
  /\ ~lost /\ phase = "running"
  /\ code' = 3 /\ Run!Record
  /\ UNCHANGED <<taskVars, permit, uiFrame>>

FailedRunEnds ==
  /\ ~lost /\ code # 0 /\ phase = "running" /\ ~down
  /\ Run!ShutDown
  /\ UNCHANGED <<taskVars, permit, uiFrame>>

ClaimsRestarts ==
  /\ ~lost
  /\ \/ /\ wanted # {} /\ wanted \cap active = {} /\ Run!Relaunch(wanted)
        /\ active' = active \cup wanted
     \/ wanted # {} /\ Run!Discard /\ UNCHANGED active
  /\ UNCHANGED <<lost, fin, permit, uiFrame>>

\* The loop is idle: no task, no restart, and none being set up.
RunEnds ==
  /\ ~lost /\ active = {} /\ ui # "queue"
  /\ Run!Over
  /\ UNCHANGED <<taskVars, permit, uiFrame>>

RunReturns ==
  /\ phase = "over" /\ fin = "open"
  /\ fin' = "sent"
  /\ UNCHANGED <<runVars, active, lost, permit, uiFrame>>

\* The supervising task panics: its services' tasks are dropped and their processes
\* killed, the sender too; statuses and registered groups stay as they are.
RunPanics ==
  /\ ~lost /\ phase = "running"
  /\ lost' = TRUE /\ fin' = "sent"
  /\ proc' = [s \in Service |-> IF Run!Runs(s) THEN "killed" ELSE proc[s]]
  /\ UNCHANGED <<marked, wanted, down, phase, code, active, permit, uiFrame>>

-----------------------------------------------------------------------------
(* The signal handler.                                                     *)

sigFrame ==
  <<taskVars, ui, coalescing, io_error, appVars, searchVars, reader, force_armed, keys>>

SignalArrives_Silent ==
  /\ handler = "first"
  /\ runner_quit' = TRUE /\ handler' = "shutdown"
  /\ UNCHANGED <<runVars, reported, permit, sigFrame>>

\* request_quit sets the flag, then wakes the loop, whatever the log level hides.
SignalArrives ==
  /\ handler = "first"
  /\ runner_quit' = TRUE /\ handler' = "wake"
  /\ UNCHANGED <<runVars, reported, permit, sigFrame>>

WakeUi ==
  /\ handler = "wake"
  /\ permit' = TRUE /\ handler' = "shutdown"
  /\ UNCHANGED <<runVars, reported, runner_quit, sigFrame>>

HandlerShutsDown ==
  /\ handler = "shutdown"
  /\ Run!ShutDown
  /\ handler' = "second"
  /\ UNCHANGED <<reported, runner_quit, permit, sigFrame>>

\* The second signal kills, then waits out force_delay.
SecondSignal ==
  /\ handler = "second"
  /\ handler' = "forced"
  /\ UNCHANGED <<runVars, reported, runner_quit, permit, sigFrame>>

HardExit ==
  /\ handler = "forced" \/ force_armed
  /\ Run!HardExit /\ reported' = <<1>>
  /\ UNCHANGED <<handler, runner_quit, permit, sigFrame>>

-----------------------------------------------------------------------------
(* The event loop.                                                         *)

roundFrame == <<runVars, active, lost, exitVars, tab, global_stopped, quit_requested, searchVars,
                reader, sigVars, force_armed, keys>>

\* Draw, then look whether to leave.
Round ==
  /\ ui = "round"
  /\ quit' = (quit \/ runner_quit)
  /\ ui' = IF quit' THEN "left" ELSE "select"
  /\ UNCHANGED <<roundFrame, fin, finished, coalescing, permit>>

Pinged ==
  /\ ui = "select" /\ permit /\ ~coalescing
  /\ permit' = FALSE /\ coalescing' = TRUE /\ ui' = "round"
  /\ UNCHANGED <<roundFrame, fin, finished, quit>>

CoalesceElapses ==
  /\ ui = "select" /\ coalescing
  /\ coalescing' = FALSE /\ ui' = "round"
  /\ UNCHANGED <<roundFrame, fin, finished, quit, permit>>

RunFinished_Quits ==
  /\ ui = "select" /\ fin = "sent"
  /\ fin' = "taken" /\ finished' = ~lost
  /\ quit' = TRUE
  /\ ui' = "round"
  /\ UNCHANGED <<roundFrame, coalescing, permit>>

\* on_runner_finished: no code if the task was lost; a quit already asked for goes on.
RunFinished ==
  /\ ui = "select" /\ fin = "sent"
  /\ fin' = "taken" /\ finished' = ~lost
  /\ quit' = (quit \/ quit_requested)
  /\ ui' = "round"
  /\ UNCHANGED <<roundFrame, coalescing, permit>>

\* terminal.size() or terminal.draw() fails: the loop returns the error.
TerminalFails ==
  /\ ui = "round"
  /\ io_error' = TRUE /\ ui' = "left"
  /\ UNCHANGED <<runVars, taskVars, coalescing, permit, reported, appVars, searchVars, reader,
                 sigVars, force_armed, keys>>

\* A terminal that is gone ends the key reader, and with it the loop.
ReaderEnds ==
  /\ ui = "select" /\ reader
  /\ reader' = FALSE /\ ui' = "left"
  /\ UNCHANGED <<runVars, taskVars, coalescing, permit, exitVars, appVars, searchVars, sigVars,
                 force_armed, keys>>

\* The terminal is restored; whatever still runs is shut down, and its end awaited.
Leave ==
  /\ ui = "left"
  /\ Run!ShutDown
  /\ ui' = "join"
  /\ UNCHANGED <<taskVars, coalescing, permit, exitVars, appVars, searchVars, reader, sigVars,
                 force_armed, keys>>

joinFrame == <<taskVars, loopVars, io_error, appVars, searchVars, reader, sigVars, force_armed, keys>>

JoinRun_Unawaited ==
  /\ ui = "join"
  /\ phase' = "exited" /\ UNCHANGED <<proc, marked, wanted, down, code>>
  /\ reported' = IF io_error \/ lost THEN <<1>> ELSE <<code>>
  /\ UNCHANGED joinFrame

\* run_handle.await: the run's code, or 1 for a task that panicked. An error of the event
\* loop discards either, and main fails with 1.
JoinRun ==
  /\ ui = "join" /\ fin # "open"
  /\ IF lost THEN phase' = "exited" /\ UNCHANGED <<proc, marked, wanted, down, code>>
             ELSE Run!Exit
  /\ reported' = IF io_error \/ lost THEN <<1>> ELSE <<code>>
  /\ UNCHANGED joinFrame

-----------------------------------------------------------------------------
(* handle_key.                                                             *)

Press == ui = "select" /\ reader /\ keys < MaxKeys /\ keys' = keys + 1
Typing == search = "typing"
keyFrame == <<taskVars, coalescing, permit, exitVars, reader, sigVars>>

\* All-tab Ctrl+C and q: shut down; a repeat kills at once, as Run!Kill may by then.
EscalateGlobalStop ==
  IF global_stopped THEN UNCHANGED <<runVars, global_stopped>>
                    ELSE Run!ShutDown /\ global_stopped' = TRUE

\* Ctrl+C with nothing running: quit, at once if the run is over; a repeat arms the
\* hard exit.
RequestExit ==
  /\ IF quit_requested THEN force_armed' = TRUE /\ UNCHANGED <<quit, quit_requested>>
     ELSE /\ quit_requested' = TRUE /\ quit' = (quit \/ finished)
          /\ UNCHANGED force_armed
  /\ UNCHANGED <<runVars, global_stopped>>

\* Ctrl+C works in the search box too.
CtrlC ==
  /\ Press /\ ui' = "round"
  /\ \/ /\ AnyRunning /\ tab = All
        /\ EscalateGlobalStop
        /\ UNCHANGED <<quit, quit_requested, force_armed>>
     \/ /\ AnyRunning /\ tab # All
        /\ Run!Stop(Subtree(tab))
        /\ UNCHANGED <<quit, quit_requested, global_stopped, force_armed>>
     \/ ~AnyRunning /\ RequestExit
  /\ UNCHANGED <<keyFrame, tab, finished, searchVars>>

KeyQ ==
  /\ Press /\ ~Typing /\ ui' = "round"
  /\ quit_requested' = TRUE
  /\ \/ AnyRunning /\ EscalateGlobalStop /\ UNCHANGED quit
     \/ ~AnyRunning /\ quit' = (quit \/ finished) /\ UNCHANGED <<runVars, global_stopped>>
  /\ UNCHANGED <<keyFrame, tab, finished, searchVars, force_armed>>

\* r stops the subtree of the tab's service, then queues it; refused once the run ends.
KeyR ==
  /\ Press /\ ~Typing /\ ~finished /\ tab # All
  /\ IF down \/ phase # "running"
     THEN ui' = "round" /\ UNCHANGED runVars
     ELSE ui' = "queue" /\ Run!Stop(Subtree(tab))
  /\ UNCHANGED <<keyFrame, appVars, searchVars, force_armed>>

QueueRestart ==
  /\ ui = "queue"
  /\ ui' = "round"
  /\ Run!Want(Subtree(tab))
  /\ UNCHANGED <<keyFrame, appVars, searchVars, force_armed, keys>>

KeyTab ==
  /\ Press /\ ui' = "round"
  /\ tab' \in (Service \cup {All}) \ {tab}
  /\ UNCHANGED <<runVars, keyFrame, quit, finished, global_stopped, quit_requested, searchVars,
                 force_armed>>

-----------------------------------------------------------------------------
(* The search box.                                                         *)

searchFrame == <<runVars, keyFrame, appVars, force_armed>>

\* s opens the box on the committed query, the cursor at its end.
OpenSearch ==
  /\ Press /\ ~Typing /\ ui' = "round"
  /\ search' = "typing" /\ cursor' = query
  /\ UNCHANGED <<searchFrame, query>>

\* Esc drops the box or the filter.
CloseSearch ==
  /\ Press /\ ui' = "round"
  /\ search' = "off" /\ query' = 0 /\ cursor' = 0
  /\ UNCHANGED searchFrame

Commit_Empty ==
  /\ Press /\ Typing /\ ui' = "round"
  /\ search' = "filter"
  /\ UNCHANGED <<searchFrame, query, cursor>>

\* Enter keeps a query as the filter; an empty one closes the box.
Commit ==
  /\ Press /\ Typing /\ ui' = "round"
  /\ search' = IF query = 0 THEN "off" ELSE "filter"
  /\ cursor' = IF query = 0 THEN 0 ELSE cursor
  /\ UNCHANGED <<searchFrame, query>>

EditQuery ==
  /\ Press /\ Typing /\ ui' = "round"
  /\ \/ query < MaxQuery /\ query' = query + 1 /\ cursor' = cursor + 1      \* insert
     \/ cursor > 0 /\ query' = query - 1 /\ cursor' = cursor - 1            \* backspace
     \/ cursor < query /\ query' = query - 1 /\ UNCHANGED cursor            \* delete
     \/ cursor > 0 /\ cursor' \in {0, cursor - 1} /\ UNCHANGED query        \* Home, Left
     \/ cursor < query /\ cursor' \in {query, cursor + 1} /\ UNCHANGED query  \* End, Right
  /\ UNCHANGED <<searchFrame, search>>

-----------------------------------------------------------------------------
RunStep ==
  \/ \E s \in Service : ServiceRuns(s) \/ Kills(s) \/ Settles(s)
  \/ RunFails \/ FailedRunEnds \/ ClaimsRestarts \/ RunEnds \/ RunReturns \/ RunPanics
HandlerStep == WakeUi \/ HandlerShutsDown
LoopStep ==
  Round \/ Pinged \/ CoalesceElapses \/ RunFinished \/ Leave \/ JoinRun \/ QueueRestart
KeyStep ==
  \/ CtrlC \/ KeyQ \/ KeyR \/ KeyTab \/ OpenSearch \/ CloseSearch \/ Commit \/ EditQuery
  \/ ReaderEnds \/ TerminalFails

\* A session may rest in the review, or with services that run, until somebody acts.
Rest ==
  /\ phase = "exited" \/ ui = "select"
  /\ UNCHANGED vars

Next ==
  \/ /\ phase # "exited"
     /\ \/ RunStep \/ LoopStep \/ KeyStep
        \/ HandlerStep \/ SignalArrives \/ SecondSignal \/ HardExit
        \/ \E s \in Service : ProcessEnds(s)
  \/ Rest

Spec == Init /\ [][Next]_vars

\* The threads are scheduled, timers elapse, what was asked to end is killed in the end
\* and a killed process ends. Nobody need press a key or send a signal.
Fairness ==
  /\ \A s \in Service :
       /\ WF_vars(phase # "exited" /\ Kills(s))
       /\ WF_vars(phase # "exited" /\ Run!Asked(s) /\ Settles(s))
       /\ WF_vars(proc[s] = "killed" /\ ProcessEnds(s))
  /\ WF_vars(phase # "exited" /\ (FailedRunEnds \/ ClaimsRestarts \/ RunEnds \/ RunReturns))
  /\ WF_vars(phase # "exited" /\ LoopStep) /\ WF_vars(phase # "exited" /\ RunFinished)
  /\ WF_vars(phase # "exited" /\ HandlerStep) /\ WF_vars(phase # "exited" /\ HardExit)

FairSpec == Spec /\ Fairness

-----------------------------------------------------------------------------
(* Properties.                                                             *)

TypeOK ==
  /\ proc \in [Service -> {"none", "up", "told", "killed"}]
  /\ {marked, wanted, active} \subseteq SUBSET Service
  /\ {down, lost, coalescing, permit, quit, finished, global_stopped, quit_requested, reader,
      runner_quit, force_armed, io_error} \subseteq BOOLEAN
  /\ reported \in Seq(Nat)
  /\ phase \in {"running", "over", "exited"} /\ code \in Nat
  /\ fin \in {"open", "sent", "taken"}
  /\ ui \in {"round", "select", "queue", "left", "join"}
  /\ tab \in Service \cup {All} /\ keys \in 0..MaxKeys
  /\ handler \in {"first", "wake", "shutdown", "second", "forced"}
  /\ search \in {"off", "typing", "filter"} /\ query \in 0..MaxQuery /\ cursor \in 0..query
  /\ search = "off" => query = 0
  /\ search = "filter" => query > 0

\* The UI closes only on request or with its terminal, also once the run is over and its
\* logs are reviewed. An exit that nobody forced, of a run that was not lost, leaves no
\* process behind, whatever made the UI close; and it reports the code of the run's first
\* failure, or 1 for an error of the terminal. No exit reports success for a failed run.
Forced == handler = "forced" \/ force_armed
LeavesInOrder ==
  /\ ui \in {"left", "join"} => quit_requested \/ runner_quit \/ ~reader \/ io_error
  /\ phase = "exited" /\ ~Forced /\ ~lost =>
       /\ fin # "open" /\ \A s \in Service : ~Run!Runs(s)
       /\ reported = IF io_error THEN <<1>> ELSE <<code>>
  /\ phase = "exited" /\ code # 0 => reported \notin {<<>>, <<0>>}

\* A signal ends the process from wherever the session is. So does q or Ctrl+C with
\* nothing running, unless the supervisor was lost, or a restart asked for after it has
\* services to run again. And a UI that has closed, for whatever reason, is followed by the
\* end of the process.
SessionEnds ==
  /\ ui = "left" ~> phase = "exited"
  /\ runner_quit ~> phase = "exited"
  /\ quit_requested ~> phase = "exited" \/ lost \/ (~down /\ active \cup wanted # {})
=============================================================================
