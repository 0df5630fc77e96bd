----------------------------- MODULE Supervisor -----------------------------
(***************************************************************************)
(* What the supervisor promises about processes, stops, restarts and the   *)
(* end of a run, with no task, lock, timer or channel in sight.            *)
(***************************************************************************)
EXTENDS Naturals

CONSTANTS
  Service,  \* the configured services
  Needs,    \* service -> the services it depends on
  MayPanic  \* services whose task the supervisor may lose

VARIABLES
  proc,    \* service -> its process: none, running, told to end, or killed
  marked,  \* services the user has stopped
  wanted,  \* services with a restart to come
  down,    \* whether the run is shutting down
  phase,   \* the run: "running", "over", then "exited"
  code     \* the exit code recorded

promiseVars == <<proc, marked, wanted, down, phase, code>>

\* A set of services that holds every dependent of its members.
HoldsDependents(S) == \A s \in Service : Needs[s] \cap S # {} => s \in S

Runs(s) == proc[s] \in {"up", "told"}
Asked(s) == s \in marked \/ down

Init ==
  /\ proc = [s \in Service |-> "none"]
  /\ marked = {} /\ wanted = {} /\ down = FALSE
  /\ phase = "running" /\ code = 0

-----------------------------------------------------------------------------
(* Processes.                                                              *)

Becomes(S, state) == proc' = [s \in Service |-> IF s \in S THEN state ELSE proc[s]]

\* One process at a time, and none once the run is over.
Launch(s) ==
  /\ phase = "running" /\ ~Runs(s)
  /\ Becomes({s}, "up")
  /\ UNCHANGED <<marked, wanted, down, phase, code>>

\* Only what the user stopped, or a shutdown covers, is told to end or killed.
Tell(S) ==
  /\ \A s \in S : proc[s] = "up" /\ Asked(s)
  /\ Becomes(S, "told")
  /\ UNCHANGED <<marked, wanted, down, phase, code>>

Kill(S) ==
  /\ \A s \in S : Runs(s) /\ Asked(s)
  /\ Becomes(S, "killed")
  /\ UNCHANGED <<marked, wanted, down, phase, code>>

\* ... or what has lost the task that looks after it.
Lose(s) ==
  /\ s \in MayPanic /\ Runs(s)
  /\ Becomes({s}, "killed")
  /\ UNCHANGED <<marked, wanted, down, phase, code>>

Ends(s) ==
  /\ proc[s] # "none"
  /\ Becomes({s}, "none")
  /\ UNCHANGED <<marked, wanted, down, phase, code>>

-----------------------------------------------------------------------------
(* Stops, restarts and the end of the run.                                 *)

\* A stop covers a service with all its dependents; so does a restart.
Stop(S) ==
  /\ HoldsDependents(S)
  /\ marked' = marked \cup S
  /\ UNCHANGED <<proc, wanted, down, phase, code>>

Want(S) ==
  /\ HoldsDependents(S)
  /\ phase = "running"
  /\ wanted' = wanted \cup S
  /\ UNCHANGED <<proc, marked, down, phase, code>>

\* A relaunch takes up a service with all its dependents, once none of them runs.
Relaunch(S) ==
  /\ ~down /\ phase = "running"
  /\ S \subseteq wanted /\ HoldsDependents(S)
  /\ \A s \in S : ~Runs(s)
  /\ wanted' = wanted \ S
  /\ marked' = marked \ S
  /\ UNCHANGED <<proc, down, phase, code>>

Discard ==
  /\ down
  /\ wanted' = {}
  /\ UNCHANGED <<proc, marked, down, phase, code>>

ShutDown ==
  /\ down' = TRUE
  /\ UNCHANGED <<proc, marked, wanted, phase, code>>

\* The first code recorded stays.
Record ==
  /\ code = 0 /\ code' \in Nat
  /\ UNCHANGED <<proc, marked, wanted, down, phase>>

\* The run is over only with every process gone and no restart to come.
Over ==
  /\ phase = "running" /\ wanted = {} /\ \A s \in Service : ~Runs(s)
  /\ phase' = "over"
  /\ UNCHANGED <<proc, marked, wanted, down, code>>

Exit ==
  /\ phase = "over"
  /\ phase' = "exited"
  /\ UNCHANGED <<proc, marked, wanted, down, code>>

\* Told twice to go, the program leaves whatever is still there.
HardExit ==
  /\ phase' = "exited" /\ code' = 1
  /\ UNCHANGED <<proc, marked, wanted, down>>

Next ==
  /\ phase # "exited"
  /\ \/ \E s \in Service : Launch(s) \/ Lose(s) \/ Ends(s)
     \/ \E S \in SUBSET Service : Tell(S) \/ Kill(S) \/ Stop(S) \/ Want(S) \/ Relaunch(S)
     \/ Discard \/ ShutDown \/ Record \/ Over \/ Exit \/ HardExit

Spec == Init /\ [][Next]_promiseVars
=============================================================================
