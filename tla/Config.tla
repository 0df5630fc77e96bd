-------------------------------- MODULE Config --------------------------------
(***************************************************************************)
(* How a proccie configuration becomes the set of services that run: the   *)
(* dependency checks of validation, the DFS that finds cycles, the --only  *)
(* and --except filters, and the DFS again for the start order. It is      *)
(* sequential; a step is one call of visit or one name popped.             *)
(*                                                                         *)
(* Names are numbers in alphabetical order, N + 1 a name nobody defines.   *)
(* Display names, commands, readiness and retries do not meet the graph.   *)
(***************************************************************************)
EXTENDS Integers, Sequences, FiniteSets

CONSTANTS
  N,          \* processes the file defines
  MaxDeps,    \* bound: dependencies a process names
  MaxNamed    \* bound: names given to --only and to --except

ASSUME ConfigAssumption == N \in Nat \ {0} /\ MaxDeps \in Nat /\ MaxNamed \in Nat

Name == 1..N
Mention == 1..(N + 1)

VARIABLES
  phase,              \* where load, filter and the start order are
  deps,               \* Config.processes: name -> depends_on
  marks, path, left,  \* dfs: colours, its stack, the deps each frame has yet to visit
  roots, order,       \* dfs: keys to start from, the order so far
  cycle,              \* the error's cycle
  only, except,       \* the command line's filters
  work, found         \* reachable, dependents: the stack and what is found

dfsVars == <<marks, path, left, roots, order, cycle>>
filterVars == <<only, except, work, found>>
vars == <<phase, deps, dfsVars, filterVars>>

Defined == DOMAIN deps
Least(S) == CHOOSE n \in S : \A m \in S : n <= m
Front(s) == SubSeq(s, 1, Len(s) - 1)

-----------------------------------------------------------------------------
(* What a name transitively needs, apart from how the code computes it.    *)

\* Names that hold what n depends on and what their members do: no less is needed.
Suffices(d, n, S) == d[n] \subseteq S /\ \A m \in S \cap DOMAIN d : d[m] \subseteq S
Needs(d, n) == {m \in Mention : \A S \in SUBSET Mention : Suffices(d, n, S) => m \in S}

-----------------------------------------------------------------------------
\* dfs starts with every name unmarked and an empty order.
StartDfs(keys) ==
  /\ marks' = [n \in Mention |-> "none"]
  /\ path' = <<>> /\ left' = <<>> /\ order' = <<>> /\ roots' = keys

Init ==
  /\ phase = "validate"
  /\ deps \in [Name -> {S \in SUBSET Mention : Cardinality(S) <= MaxDeps}]
  /\ marks = [n \in Mention |-> "none"]
  /\ path = <<>> /\ left = <<>> /\ roots = {} /\ order = <<>> /\ cycle = <<>>
  /\ only = {} /\ except = {} /\ work = {} /\ found = {}

\* A process that depends on itself or on an undefined name is an issue, and any
\* issue ends the load before the search for cycles.
HasIssue(n) == n \in deps[n] \/ ~(deps[n] \subseteq Defined)

Validate ==
  /\ phase = "validate"
  /\ IF \E n \in Defined : HasIssue(n)
     THEN phase' = "invalid" /\ UNCHANGED dfsVars
     ELSE phase' = "check" /\ StartDfs(Defined) /\ UNCHANGED cycle
  /\ UNCHANGED <<deps, filterVars>>

-----------------------------------------------------------------------------
(* dfs and visit: the call stack is path with, per frame, the deps left.   *)

Searching == phase \in {"check", "order"}

\* Just the cycle: from the earlier visit of the name to here.
CycleTo_WholePath(n) == Append(path, n)
CycleTo(n) == Append(SubSeq(path, CHOOSE i \in 1..Len(path) : path[i] = n, Len(path)), n)

\* visit, down to its first recursive call; `rest` is what the caller has left.
Visit(n, rest) ==
  \/ /\ marks[n] = "Visited"
     /\ left' = rest
     /\ UNCHANGED <<phase, marks, path, order, cycle>>
  \/ /\ marks[n] = "Visiting"
     /\ cycle' = CycleTo(n)
     /\ phase' = IF phase = "check" THEN "cyclic" ELSE "unordered"
     /\ left' = rest
     /\ UNCHANGED <<marks, path, order>>
  \/ /\ marks[n] = "none"
     /\ marks' = [marks EXCEPT ![n] = "Visiting"]
     /\ path' = Append(path, n)
     /\ left' = Append(rest, IF n \in Defined THEN deps[n] ELSE {})
     /\ UNCHANGED <<phase, order, cycle>>

\* The keys in alphabetical order.
NextRoot ==
  /\ Searching /\ path = <<>> /\ roots # {}
  /\ LET n == Least(roots) IN roots' = roots \ {n} /\ Visit(n, left)
  /\ UNCHANGED <<deps, filterVars>>

\* The deps of the name on top, in alphabetical order too.
NextDep ==
  /\ Searching /\ path # <<>> /\ left[Len(left)] # {}
  /\ LET n == Least(left[Len(left)])
     IN Visit(n, [left EXCEPT ![Len(left)] = @ \ {n}])
  /\ UNCHANGED <<deps, roots, filterVars>>

Leave_Unmarked ==
  /\ Searching /\ path # <<>> /\ left[Len(left)] = {}
  /\ marks' = [marks EXCEPT ![path[Len(path)]] = "none"]
  /\ order' = Append(order, path[Len(path)])
  /\ path' = Front(path) /\ left' = Front(left)
  /\ UNCHANGED <<phase, deps, roots, cycle, filterVars>>

Leave_Prepended ==
  /\ Searching /\ path # <<>> /\ left[Len(left)] = {}
  /\ marks' = [marks EXCEPT ![path[Len(path)]] = "Visited"]
  /\ order' = <<path[Len(path)]>> \o order
  /\ path' = Front(path) /\ left' = Front(left)
  /\ UNCHANGED <<phase, deps, roots, cycle, filterVars>>

\* The name comes after all its deps.
Leave ==
  /\ Searching /\ path # <<>> /\ left[Len(left)] = {}
  /\ marks' = [marks EXCEPT ![path[Len(path)]] = "Visited"]
  /\ order' = Append(order, path[Len(path)])
  /\ path' = Front(path) /\ left' = Front(left)
  /\ UNCHANGED <<phase, deps, roots, cycle, filterVars>>

Finished ==
  /\ Searching /\ path = <<>> /\ roots = {}
  /\ phase' = IF phase = "check" THEN "filter" ELSE "run"
  /\ UNCHANGED <<deps, dfsVars, filterVars>>

-----------------------------------------------------------------------------
(* Config::filter. The stacks of reachable and dependents are sets: the    *)
(* order in which names are popped changes nothing.                        *)

Filter ==
  /\ phase = "filter"
  /\ \E o, e \in {S \in SUBSET Mention : Cardinality(S) <= MaxNamed} :
       /\ only' = o /\ except' = e /\ work' = o \cup e
       /\ IF (o # {} /\ e # {}) \/ ~(o \cup e \subseteq Defined)
          THEN phase' = "rejected"
          ELSE phase' = IF o # {} THEN "reachable" ELSE IF e # {} THEN "dependents" ELSE "kept"
  /\ UNCHANGED <<deps, dfsVars, found>>

PopReachable ==
  /\ phase = "reachable"
  /\ \E n \in work :
       /\ found' = found \cup {n}
       /\ work' = (work \ {n}) \cup (IF n \in found THEN {} ELSE deps[n])
  /\ UNCHANGED <<phase, deps, dfsVars, only, except>>

PopDependents_Direct ==
  /\ phase = "dependents"
  /\ \E n \in work :
       /\ found' = found \cup {m \in Defined : n \in deps[m]}
       /\ work' = work \ {n}
  /\ UNCHANGED <<phase, deps, dfsVars, only, except>>

PopDependents ==
  /\ phase = "dependents"
  /\ \E n \in work :
       LET new == {m \in Defined : n \in deps[m]} \ (except \cup found)
       IN found' = found \cup new /\ work' = (work \ {n}) \cup new
  /\ UNCHANGED <<phase, deps, dfsVars, only, except>>

Retained_FoundOnly == IF phase = "reachable" THEN found ELSE Defined \ found
Retained == IF phase = "reachable" THEN found ELSE Defined \ (found \cup except)

Retain ==
  /\ phase \in {"reachable", "dependents"} /\ work = {}
  /\ deps' = [n \in Retained |-> deps[n]]
  /\ phase' = "kept"
  /\ UNCHANGED <<dfsVars, filterVars>>

\* Nothing left to run is an error; else the start order is computed.
Runnable ==
  /\ phase = "kept"
  /\ IF Defined = {} THEN phase' = "empty" /\ UNCHANGED dfsVars
                     ELSE phase' = "order" /\ StartDfs(Defined) /\ UNCHANGED cycle
  /\ UNCHANGED <<deps, filterVars>>

Over == phase \in {"invalid", "cyclic", "rejected", "empty", "run"} /\ UNCHANGED vars

Next ==
  \/ Validate \/ NextRoot \/ NextDep \/ Leave \/ Finished
  \/ Filter \/ PopReachable \/ PopDependents \/ Retain \/ Runnable
  \/ Over

Spec == Init /\ [][Next]_vars

-----------------------------------------------------------------------------
(* Properties.                                                             *)

Elements(s) == {s[i] : i \in 1..Len(s)}
Distinct(s) == \A i, j \in 1..Len(s) : s[i] = s[j] => i = j
Position(n) == CHOOSE i \in 1..Len(order) : order[i] = n

\* The stack, the marks and the order stay in step: a name is Visiting while it is on
\* the path, Visited once it is in the order, and never on either twice; and the start
\* order is never left to chance.
TypeOK ==
  /\ phase \in {"validate", "invalid", "check", "cyclic", "filter", "rejected", "reachable",
                "dependents", "kept", "empty", "order", "run"}
  /\ deps \in [Defined -> SUBSET Mention] /\ Defined \subseteq Name
  /\ marks \in [Mention -> {"none", "Visiting", "Visited"}]
  /\ Len(left) = Len(path) /\ \A i \in 1..Len(left) : left[i] \in SUBSET Mention
  /\ Distinct(path) /\ Elements(path) = {n \in Mention : marks[n] = "Visiting"}
  /\ Distinct(order) /\ Elements(order) = {n \in Mention : marks[n] = "Visited"}
  /\ roots \subseteq Name /\ only \cup except \cup work \cup found \subseteq Mention

\* A cycle is reported when there is one, and then just the cycle: each name of it
\* depends on the next, the last is the first, and none other comes twice.
CycleReported ==
  /\ phase \in {"filter", "reachable", "dependents", "kept", "order", "run"} =>
       \A n \in Defined : n \notin Needs(deps, n)
  /\ phase = "cyclic" =>
       /\ Len(cycle) >= 2 /\ cycle[1] = cycle[Len(cycle)] /\ Distinct(Front(cycle))
       /\ \A i \in 1..(Len(cycle) - 1) : cycle[i + 1] \in deps[cycle[i]]

\* Whatever is filtered out, no process that stays depends on one that went.
DepsKept ==
  phase \in {"kept", "empty", "order", "run"} =>
    \A n \in Defined : deps[n] \subseteq Defined

\* --except drops the named processes and what needs them; --only what no named one needs.
FilterDropsNoMore ==
  [][phase' = "kept" =>
       DOMAIN deps' = {n \in Defined :
         /\ n \notin except /\ Needs(deps, n) \cap except = {}
         /\ only # {} => n \in only \/ \E m \in only : n \in Needs(deps, m)}]_vars

\* The start order holds every process that runs, once and after its dependencies, and
\* is the same whatever the order in the file: a process comes before one of a smaller
\* name only when that one, or one of a smaller name still, needs it.
StartOrder ==
  phase = "run" =>
    /\ Elements(order) = Defined
    /\ \A n \in Defined : \A d \in deps[n] : Position(d) < Position(n)
    /\ \A x, y \in Defined :
         x > y /\ Position(x) < Position(y) =>
           \E z \in Defined : z <= y /\ x \in Needs(deps, z)
=============================================================================
