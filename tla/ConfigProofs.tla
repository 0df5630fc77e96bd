----------------------------- MODULE ConfigProofs -----------------------------
(***************************************************************************)
(* For every number of processes and every dependency relation: the search *)
(* reports a cycle when there is one, the filters keep what they should,   *)
(* and what runs starts after its dependencies, in one order only.         *)
(***************************************************************************)
EXTENDS Config, TLAPS, SequenceTheorems, WellFoundedInduction

-----------------------------------------------------------------------------
(* The filters: what is kept is closed under dependencies.                 *)

Valid == {"check", "cyclic", "filter", "rejected", "reachable", "dependents", "kept", "empty",
          "order", "run"}

\* Past validation every dependency is defined. While reachable pops, what it has found
\* depends only on what is found or still on the stack; while dependents pops, whoever
\* needs a name that has left the stack is itself found or excluded.
FilterInv ==
  /\ deps = [n \in Defined |-> deps[n]]
  /\ phase \in Valid => \A n \in Defined : deps[n] \subseteq Defined
  /\ phase \in {"validate", "check", "filter"} => found = {}
  /\ phase = "reachable" =>
       /\ found \cup work \subseteq Defined
       /\ \A n \in found : deps[n] \subseteq found \cup work
  /\ phase = "dependents" =>
       \A m \in Defined : \A n \in deps[m] :
         n \in (found \cup except) \ work => m \in found \cup except

\* Nothing is claimed before validation.
LEMMA FilterInit == Init => FilterInv
<1> SUFFICES ASSUME Init PROVE FilterInv
  OBVIOUS
<1>1. deps = [n \in Defined |-> deps[n]] /\ phase = "validate" /\ found = {}
  BY DEF Init, Defined
<1> QED
  BY <1>1 DEF FilterInv, Valid

\* A call of visit moves on to no phase in which more is claimed.
LEMMA VisitKeeps ==
  ASSUME FilterInv, Searching, NEW n, NEW rest, Visit(n, rest), UNCHANGED <<deps, filterVars>>
  PROVE  FilterInv'
<1>1. UNCHANGED <<deps, only, except, work, found>> /\ Defined' = Defined
  BY DEF filterVars, Defined
<1>2. phase' = phase \/ (phase = "check" /\ phase' = "cyclic") \/ phase' = "unordered"
  BY DEF Visit
<1>3. phase \in {"check", "order"}
  BY DEF Searching
<1> QED
  BY <1>1, <1>2, <1>3 DEF FilterInv, Valid

\* Each step keeps what the filters rely on.
LEMMA FilterStep == FilterInv /\ [Next]_vars => FilterInv'
<1> SUFFICES ASSUME FilterInv, [Next]_vars PROVE FilterInv'
  OBVIOUS
<1>1. CASE Validate
  <2>1. phase = "validate" /\ found' = {} /\ deps' = deps /\ Defined' = Defined
    BY <1>1 DEF Validate, filterVars, FilterInv, Defined
  <2>2. phase' = "invalid" \/ (phase' = "check" /\ \A n \in Defined : deps[n] \subseteq Defined)
    BY <1>1 DEF Validate, HasIssue
  <2> QED
    BY <2>1, <2>2 DEF FilterInv, Valid
<1>2. CASE NextRoot
  <2>1. Searching /\ UNCHANGED <<deps, filterVars>> /\ \E n \in {Least(roots)} : Visit(n, left)
    BY <1>2 DEF NextRoot
  <2> QED
    BY <2>1, VisitKeeps
<1>3. CASE NextDep
  <2>1. PICK n, rest : Searching /\ UNCHANGED <<deps, filterVars>> /\ Visit(n, rest)
    BY <1>3 DEF NextDep
  <2> QED
    BY <2>1, VisitKeeps
<1>4. CASE Leave
  BY <1>4 DEF Leave, FilterInv, filterVars, Defined
<1>5. CASE Finished
  <2>1. /\ UNCHANGED <<deps, only, except, work, found>> /\ Defined' = Defined
        /\ (phase = "check" /\ phase' = "filter") \/ (phase = "order" /\ phase' = "run")
    BY <1>5 DEF Finished, Searching, filterVars, Defined
  <2> QED
    BY <2>1 DEF FilterInv, Valid
<1>6. CASE Filter
  <2>1. phase = "filter" /\ found = {} /\ found' = {} /\ deps' = deps /\ Defined' = Defined
    BY <1>6 DEF Filter, FilterInv, Defined
  <2>2. /\ phase' \in {"rejected", "reachable", "dependents", "kept"}
        /\ phase' \in {"reachable", "dependents"} => work' \subseteq Defined /\ except' \subseteq work'
    BY <1>6 DEF Filter
  <2> QED
    BY <2>1, <2>2 DEF FilterInv, Valid
<1>7. CASE PopReachable
  <2>1. /\ phase = "reachable" /\ UNCHANGED <<phase, deps>> /\ Defined' = Defined
    BY <1>7 DEF PopReachable, Defined
  <2>2. PICK n \in work :
          /\ found' = found \cup {n}
          /\ work' = (work \ {n}) \cup (IF n \in found THEN {} ELSE deps[n])
    BY <1>7 DEF PopReachable
  <2>3. n \in Defined /\ deps[n] \subseteq Defined
    BY <2>1, <2>2 DEF FilterInv, Valid
  <2>4. found' \cup work' \subseteq Defined
    BY <2>1, <2>2, <2>3 DEF FilterInv
  <2>5. \A m \in found' : deps[m] \subseteq found' \cup work'
    BY <2>1, <2>2 DEF FilterInv
  <2> QED
    BY <2>1, <2>4, <2>5 DEF FilterInv, Valid
<1>8. CASE PopDependents
  <2>1. phase = "dependents" /\ UNCHANGED <<phase, deps, except>> /\ Defined' = Defined
    BY <1>8 DEF PopDependents, Defined
  <2>2. PICK n \in work :
          /\ found' = found \cup ({m \in Defined : n \in deps[m]} \ (except \cup found))
          /\ work' = (work \ {n}) \cup ({m \in Defined : n \in deps[m]} \ (except \cup found))
    BY <1>8 DEF PopDependents
  <2>3. ASSUME NEW m \in Defined, NEW k \in deps[m], k \in (found' \cup except) \ work'
        PROVE  m \in found' \cup except
    BY <2>1, <2>2, <2>3 DEF FilterInv
  <2> QED
    BY <2>1, <2>3 DEF FilterInv, Valid
<1>9. CASE Retain
  <2>1. /\ phase \in {"reachable", "dependents"} /\ work = {} /\ phase' = "kept"
        /\ deps' = [n \in Retained |-> deps[n]] /\ Defined' = Retained
    BY <1>9 DEF Retain, Defined
  <2>2. Retained \subseteq Defined /\ \A n \in Retained : deps[n] \subseteq Retained
    BY <2>1 DEF Retained, FilterInv, Valid
  <2> QED
    BY <2>1, <2>2 DEF FilterInv, Valid
<1>10. CASE Runnable
  <2>1. /\ phase = "kept" /\ phase' \in {"empty", "order"}
        /\ deps' = deps /\ Defined' = Defined
    BY <1>10 DEF Runnable, Defined
  <2> QED
    BY <2>1 DEF FilterInv, Valid
<1>11. CASE UNCHANGED vars
  BY <1>11 DEF vars, filterVars, FilterInv, Defined
<1> QED
  BY <1>1, <1>2, <1>3, <1>4, <1>5, <1>6, <1>7, <1>8, <1>9, <1>10, <1>11 DEF Next, Over

\* What runs is always closed under dependencies, as the runner assumes: no service
\* waits on the gate of one that was filtered out.
THEOREM FilterKeepsDependencies == Spec => []DepsKept
<1>1. FilterInv => DepsKept
  BY DEF FilterInv, DepsKept, Valid
<1> QED
  BY <1>1, FilterInit, FilterStep, PTL DEF Spec

-----------------------------------------------------------------------------
(* Numbers and sequences.                                                  *)

\* A set of numbers has a least one ...
LEMMA LeastNumber ==
  ASSUME NEW S \in SUBSET Nat, S # {}
  PROVE  \E n \in S : \A m \in S : n <= m
<1> DEFINE below == {ss \in Nat \X Nat : ss[1] < ss[2]}
<1>1. OpToRel(<, Nat) = below
  BY DEF OpToRel
<1>2. IsWellFoundedOn(below, Nat)
  BY <1>1, NatLessThanWellFounded
<1>3. PICK n \in S : \A m \in S : <<m, n>> \notin below
  BY <1>2, WFMin
<1>4. \A x, y \in Nat : x < y => <<x, y>> \in below
  OBVIOUS
<1> HIDE DEF below
<1>5. ASSUME NEW m \in S PROVE n <= m
  <2>1. m \in Nat /\ n \in Nat /\ <<m, n>> \notin below
    BY <1>3
  <2>2. ~(m < n)
    BY <1>4, <2>1
  <2> QED
    BY <2>1, <2>2
<1> QED
  BY <1>5

\* ... and Least is it.
LEMMA LeastIsLeast ==
  ASSUME NEW S \in SUBSET Mention, S # {}
  PROVE  Least(S) \in S /\ \A m \in S : Least(S) <= m
<1>1. S \in SUBSET Nat
  BY ConfigAssumption DEF Mention
<1>2. \E n \in S : \A m \in S : n <= m
  BY <1>1, LeastNumber
<1> QED
  BY <1>2 DEF Least

\* A sequence without its last element.
LEMMA FrontProperties ==
  ASSUME NEW S, NEW s \in Seq(S), s # <<>>
  PROVE  /\ Len(s) \in Nat \ {0} /\ Front(s) \in Seq(S) /\ Len(Front(s)) = Len(s) - 1
         /\ \A i \in 1..(Len(s) - 1) : Front(s)[i] = s[i]
<1>1. Len(s) \in Nat \ {0} /\ \A i \in 1..Len(s) : s[i] \in S
  BY EmptySeq, ElementOfSeq
<1>2. \A i \in 1..(Len(s) - 1) : s[i] \in S
  BY <1>1
<1> DEFINE k == Len(s) - 1
<1>3. k \in Nat /\ Len(s) = k + 1 /\ \A i \in 1..k : s[i] \in S
  BY <1>1, <1>2
<1> HIDE DEF k
<1>4. /\ SubSeq(s, 1, k) \in Seq(S)
      /\ Len(SubSeq(s, 1, k)) = IF 1 <= k THEN k - 1 + 1 ELSE 0
      /\ \A i \in 1..(k - 1 + 1) : SubSeq(s, 1, k)[i] = s[1 + i - 1]
  BY <1>3, SubSeqProperties
<1> DEFINE t == SubSeq(s, 1, k)
<1>5. t \in Seq(S) /\ Front(s) = t
  BY <1>4 DEF Front, k
<1>6. Len(t) = IF 1 <= k THEN k - 1 + 1 ELSE 0
  BY <1>4
<1>7. \A i \in 1..(k - 1 + 1) : t[i] = s[1 + i - 1]
  BY <1>4
<1> HIDE DEF t
<1>8. Len(t) = k /\ \A i \in 1..k : t[i] = s[i]
  BY <1>3, <1>6, <1>7
<1> QED
  BY <1>1, <1>5, <1>8 DEF k

\* What goes on top of a sequence, and what is left when it is taken off.
LEMMA PushElement ==
  ASSUME NEW S, NEW s \in Seq(S), NEW e \in S
  PROVE  /\ Append(s, e) \in Seq(S) /\ Len(Append(s, e)) = Len(s) + 1 /\ Len(s) \in Nat
         /\ Append(s, e)[Len(s) + 1] = e /\ \A i \in 1..Len(s) : Append(s, e)[i] = s[i]
         /\ Elements(Append(s, e)) = Elements(s) \cup {e}
         /\ Distinct(s) /\ e \notin Elements(s) => Distinct(Append(s, e))
<1> DEFINE t == Append(s, e)
<1>1. /\ t \in Seq(S) /\ Len(t) = Len(s) + 1 /\ Len(s) \in Nat
      /\ t[Len(s) + 1] = e /\ \A i \in 1..Len(s) : t[i] = s[i]
  BY AppendProperties, LenProperties
<1> HIDE DEF t
<1>2. Elements(t) = Elements(s) \cup {e}
  <2>1. \A i \in 1..Len(t) : t[i] \in Elements(s) \cup {e}
    BY <1>1 DEF Elements
  <2>2. e \in Elements(t) /\ \A i \in 1..Len(s) : s[i] \in Elements(t)
    BY <1>1 DEF Elements
  <2> QED
    BY <2>1, <2>2 DEF Elements
<1>3. Distinct(s) /\ e \notin Elements(s) => Distinct(t)
  BY <1>1 DEF Distinct, Elements
<1> QED
  BY <1>1, <1>2, <1>3 DEF t

LEMMA PopElement ==
  ASSUME NEW S, NEW s \in Seq(S), s # <<>>, Distinct(s)
  PROVE  /\ s[Len(s)] \in S /\ s[Len(s)] \in Elements(s)
         /\ Elements(Front(s)) = Elements(s) \ {s[Len(s)]} /\ Distinct(Front(s))
<1> DEFINE t == Front(s)
<1>1. /\ Len(s) \in Nat \ {0} /\ Len(t) = Len(s) - 1 /\ \A i \in 1..(Len(s) - 1) : t[i] = s[i]
  BY FrontProperties
<1> HIDE DEF t
<1>2. s[Len(s)] \in S /\ s[Len(s)] \in Elements(s)
  BY <1>1, ElementOfSeq DEF Elements
<1>3. Elements(t) = Elements(s) \ {s[Len(s)]}
  <2>1. \A i \in 1..Len(t) : t[i] \in Elements(s) \ {s[Len(s)]}
    BY <1>1 DEF Elements, Distinct
  <2>2. \A i \in 1..Len(s) : s[i] = s[Len(s)] \/ s[i] \in Elements(t)
    BY <1>1 DEF Elements
  <2> QED
    BY <2>1, <2>2 DEF Elements
<1>4. Distinct(t)
  BY <1>1 DEF Distinct
<1> QED
  BY <1>2, <1>3, <1>4 DEF t

-----------------------------------------------------------------------------
(* What a name needs: its dependencies and theirs, and no more.            *)

\* What a name needs holds its dependencies and those of whatever else it holds ...
LEMMA NeedsEnough ==
  ASSUME NEW d, NEW n, d[n] \subseteq Mention
  PROVE  /\ d[n] \subseteq Needs(d, n)
         /\ \A m \in Needs(d, n) \cap DOMAIN d : d[m] \subseteq Mention => d[m] \subseteq Needs(d, n)
  BY DEF Needs, Suffices

\* ... is in every set that does ...
LEMMA NeedsNoMore ==
  ASSUME NEW d, NEW n, NEW S \in SUBSET Mention, Suffices(d, n, S)
  PROVE  Needs(d, n) \subseteq S
  BY DEF Needs

\* ... and holds what each of its members needs.
LEMMA NeedsTransitive ==
  ASSUME NEW d, NEW n, NEW m \in DOMAIN d, m \in Needs(d, n) \/ m \in d[n],
         d[n] \subseteq Mention, \A k \in DOMAIN d : d[k] \subseteq Mention
  PROVE  Needs(d, m) \subseteq Needs(d, n)
<1>1. Needs(d, n) \in SUBSET Mention
  BY DEF Needs
<1>2. m \in Needs(d, n)
  BY NeedsEnough
<1>3. Suffices(d, m, Needs(d, n))
  BY <1>2, NeedsEnough DEF Suffices
<1> QED
  BY <1>1, <1>3, NeedsNoMore

-----------------------------------------------------------------------------
(* The depth-first search.                                                 *)

StackTyped == path \in Seq(Mention) /\ left \in Seq(SUBSET Mention) /\ order \in Seq(Mention)

\* Each name on the stack is a dependency of the one below, which has the visited ones and
\* this one behind it; the roots come in order.
OnStack ==
  Searching =>
    /\ Elements(path) \cup Elements(order) \cup roots \subseteq Defined
    /\ \A i \in 1..Len(path) : left[i] \subseteq deps[path[i]]
    /\ \A i \in 1..(Len(path) - 1) : path[i + 1] \in deps[path[i]]
    /\ \A i \in 1..Len(path) : \A d \in deps[path[i]] \ left[i] :
         d \in Elements(order) \/ (i < Len(path) /\ d = path[i + 1])
    /\ \A n \in Defined \ roots : n \in Elements(order) \/ (path # <<>> /\ n = path[1])
    /\ path # <<>> => \A r \in roots : path[1] < r

\* Nobody comes before what it needs, nor before a smaller name without need.
Called(x, y) == \E z \in Defined : z <= y /\ x \in Needs(deps, z)
Ordered ==
  Searching \/ phase = "run" =>
    /\ \A j \in 1..Len(order) : \A d \in deps[order[j]] : \E i \in 1..(j - 1) : order[i] = d
    /\ \A i \in 1..Len(order) : \A y \in Defined :
         y < order[i] /\ (\A j \in 1..i : order[j] # y) => Called(order[i], y)
AllOrdered == phase = "run" => Elements(order) = Defined

Acyclic ==
  phase \in {"filter", "reachable", "dependents", "kept", "order", "run"} =>
    \A n \in Defined : n \notin Needs(deps, n)
CycleFound == phase = "cyclic" =>
       /\ Len(cycle) >= 2 /\ cycle[1] = cycle[Len(cycle)] /\ Distinct(Front(cycle))
       /\ \A i \in 1..(Len(cycle) - 1) : cycle[i + 1] \in deps[cycle[i]]

SearchInv == TypeOK /\ StackTyped /\ OnStack /\ Ordered /\ AllOrdered /\ Acyclic /\ CycleFound

\* While a search runs, and after the last, every dependency is a process of the file.
LEMMA DefinedDeps ==
  ASSUME TypeOK, FilterInv, Searching \/ phase = "run"
  PROVE  Defined \subseteq Mention /\ \A n \in Defined : deps[n] \subseteq Defined /\ deps[n] \subseteq Mention
<1>1. phase \in Valid
  BY DEF Searching, Valid
<1>2. Defined \subseteq Name /\ \A n \in Defined : deps[n] \subseteq Defined
  BY <1>1 DEF TypeOK, FilterInv
<1>3. Name \subseteq Mention
  BY ConfigAssumption DEF Name, Mention
<1> QED
  BY <1>2, <1>3

\* The bottom of the stack needs all that is on it.
LEMMA StackNeeds ==
  ASSUME TypeOK, StackTyped, FilterInv, OnStack, Searching,
         NEW i \in 1..Len(path), NEW j \in 1..Len(path), i < j
  PROVE  path[j] \in Needs(deps, path[i])
<1> DEFINE Missed == {k \in 1..Len(path) : i < k /\ path[k] \notin Needs(deps, path[i])}
<1> SUFFICES ASSUME Missed # {} PROVE FALSE
  OBVIOUS
<1>0. Len(path) \in Nat
  BY LenProperties DEF StackTyped
<1>1. PICK k \in Missed : \A m \in Missed : k <= m
  <2>1. Missed \in SUBSET Nat
    OBVIOUS
  <2> HIDE DEF Missed
  <2> QED
    BY <2>1, LeastNumber
<1>2. path[k] \in deps[path[k - 1]] /\ path[k - 1] \in Defined /\ path[i] \in Defined
  <2>1. k - 1 \in 1..(Len(path) - 1) /\ k = (k - 1) + 1
    BY <1>0, <1>1
  <2>2. path[(k - 1) + 1] \in deps[path[k - 1]]
    BY <2>1 DEF OnStack
  <2> QED
    BY <1>0, <2>1, <2>2 DEF OnStack, Elements
<1>3. deps[path[i]] \subseteq Mention /\ deps[path[k - 1]] \subseteq Mention
  BY <1>2, DefinedDeps
<1>4. CASE k - 1 = i
  BY <1>1, <1>2, <1>3, <1>4, NeedsEnough
<1>5. CASE k - 1 # i
  <2>1. path[k - 1] \in Needs(deps, path[i])
    BY <1>0, <1>1, <1>5
  <2> QED
    BY <1>1, <1>2, <1>3, <2>1, NeedsEnough DEF Defined
<1> QED
  BY <1>4, <1>5

\* The stack and what its frames have left are equally long.
LEMMA StackSizes ==
  ASSUME TypeOK, StackTyped
  PROVE  /\ Len(path) \in Nat /\ Len(left) = Len(path) /\ Len(order) \in Nat
         /\ \A i \in 1..Len(path) : path[i] \in Mention /\ left[i] \in SUBSET Mention
         /\ path # <<>> <=> Len(path) > 0
<1>1. Len(path) \in Nat /\ Len(left) = Len(path) /\ Len(order) \in Nat
  BY LenProperties DEF TypeOK, StackTyped
<1>2. \A i \in 1..Len(path) : path[i] \in Mention
  BY ElementOfSeq DEF StackTyped
<1>3. \A i \in 1..Len(path) : left[i] \in SUBSET Mention
  BY <1>1 DEF TypeOK
<1>4. path # <<>> <=> Len(path) > 0
  BY <1>1, EmptySeq DEF StackTyped
<1> QED
  BY <1>1, <1>2, <1>3, <1>4

\* What NextRoot and NextDep both ask of visit.
Asked(n, rest) ==
  /\ rest \in Seq(SUBSET Mention) /\ Len(rest) = Len(path)
  /\ \A i \in 1..Len(path) :
       rest[i] \subseteq left[i] /\ left[i] \ rest[i] \subseteq (IF i = Len(path) THEN {n} ELSE {})
  /\ n \in Defined /\ (path # <<>> => n \in deps[path[Len(path)]])
  /\ roots' \subseteq roots /\ roots \ roots' \subseteq {n}
  /\ path # <<>> => roots' = roots
  /\ path = <<>> => \A r \in roots' : n < r

\* A name that is Visited is crossed out for its caller, and no more.
LEMMA VisitVisited ==
  ASSUME SearchInv, FilterInv, Searching, NEW n, NEW rest, Asked(n, rest),
         UNCHANGED <<deps, filterVars>>, marks[n] = "Visited",
         left' = rest, UNCHANGED <<phase, marks, path, order, cycle>>
  PROVE  SearchInv'
<1> USE DEF SearchInv
<1>0. UNCHANGED <<phase, marks, path, order, cycle, deps, only, except, work, found>> /\ left' = rest
      /\ Defined' = Defined
  BY DEF filterVars, Defined
<1>1. n \in Elements(order)
  <2>1. n \in Mention
    BY DefinedDeps DEF Asked
  <2> QED
    BY <2>1 DEF TypeOK
<1>2. TypeOK'
  <2>1. Len(left') = Len(path') /\ \A i \in 1..Len(left') : left'[i] \in SUBSET Mention
    BY <1>0, ElementOfSeq DEF Asked
  <2>2. roots' \subseteq Name
    BY DEF Asked, TypeOK
  <2> QED
    BY <1>0, <2>1, <2>2 DEF TypeOK
<1>3. StackTyped'
  BY <1>0 DEF StackTyped, Asked
<1>4. OnStack'
  <2>1. Elements(path) \cup Elements(order) \cup roots' \subseteq Defined
    BY DEF OnStack, Asked
  <2>2. \A i \in 1..Len(path) : rest[i] \subseteq deps[path[i]]
    BY DEF OnStack, Asked
  <2>3. ASSUME NEW i \in 1..Len(path), NEW d \in deps[path[i]] \ rest[i]
        PROVE  d \in Elements(order) \/ (i < Len(path) /\ d = path[i + 1])
    <3>1. CASE d \in left[i]
      <4>1. d = n
        BY <2>3, <3>1 DEF Asked
      <4> QED
        BY <1>1, <4>1
    <3>2. CASE d \notin left[i]
      BY <2>3, <3>2 DEF OnStack
    <3> QED
      BY <3>1, <3>2
  <2>4. \A m \in Defined \ roots' : m \in Elements(order) \/ (path # <<>> /\ m = path[1])
    BY <1>1 DEF OnStack, Asked
  <2>5. path # <<>> => \A r \in roots' : path[1] < r
    BY DEF OnStack, Asked
  <2>6. \A i \in 1..(Len(path) - 1) : path[i + 1] \in deps[path[i]]
    BY DEF OnStack
  <2> QED
    BY <1>0, <2>1, <2>2, <2>3, <2>4, <2>5, <2>6 DEF OnStack, Searching
<1>5. Ordered' /\ AllOrdered' /\ Acyclic' /\ CycleFound'
  BY <1>0 DEF Ordered, AllOrdered, Acyclic, CycleFound, Searching, Called
<1> QED
  BY <1>2, <1>3, <1>4, <1>5

\* An unmarked name goes on the stack, Visiting, with all its dependencies left.
LEMMA VisitNew ==
  ASSUME SearchInv, FilterInv, Searching, NEW n, NEW rest, Asked(n, rest),
         UNCHANGED <<deps, filterVars>>, marks[n] = "none",
         marks' = [marks EXCEPT ![n] = "Visiting"], path' = Append(path, n),
         left' = Append(rest, deps[n]), UNCHANGED <<phase, order, cycle>>
  PROVE  SearchInv'
<1> USE DEF SearchInv
<1>0. UNCHANGED <<phase, order, cycle, deps, only, except, work, found>> /\ Defined' = Defined
  BY DEF filterVars, Defined
<1>1. /\ n \in Mention /\ n \in Defined /\ deps[n] \subseteq Mention
      /\ n \notin Elements(order) /\ n \notin Elements(path)
  <2>1. n \in Mention /\ n \in Defined /\ deps[n] \subseteq Mention
    BY DefinedDeps DEF Asked
  <2> QED
    BY <2>1 DEF TypeOK
<1>2. /\ path' \in Seq(Mention) /\ Len(path') = Len(path) + 1 /\ Len(path) \in Nat
      /\ path'[Len(path) + 1] = n /\ \A i \in 1..Len(path) : path'[i] = path[i]
      /\ Elements(path') = Elements(path) \cup {n} /\ Distinct(path')
  <2>1. path \in Seq(Mention) /\ Distinct(path)
    BY DEF StackTyped, TypeOK
  <2> QED
    BY <1>1, <2>1, PushElement
<1>3. /\ left' \in Seq(SUBSET Mention) /\ Len(left') = Len(path) + 1
      /\ left'[Len(path) + 1] = deps[n] /\ \A i \in 1..Len(path) : left'[i] = rest[i]
  <2>1. rest \in Seq(SUBSET Mention) /\ Len(rest) = Len(path)
    BY DEF Asked
  <2> QED
    BY <1>1, <2>1, PushElement
<1>4. path' # <<>> /\ path'[1] = (IF path = <<>> THEN n ELSE path[1])
  <2>1. path # <<>> <=> Len(path) > 0
    BY StackSizes
  <2> QED
    BY <1>2, <2>1, EmptySeq
<1>5. TypeOK'
  <2>1. Len(left') = Len(path') /\ \A i \in 1..Len(left') : left'[i] \in SUBSET Mention
    BY <1>2, <1>3, ElementOfSeq
  <2>2. roots' \subseteq Name
    BY DEF Asked, TypeOK
  <2>3. /\ marks' \in [Mention -> {"none", "Visiting", "Visited"}]
        /\ Elements(path') = {m \in Mention : marks'[m] = "Visiting"}
        /\ Elements(order) = {m \in Mention : marks'[m] = "Visited"}
    BY <1>1, <1>2 DEF TypeOK
  <2> QED
    BY <1>0, <1>2, <2>1, <2>2, <2>3 DEF TypeOK
<1>6. StackTyped'
  BY <1>0, <1>2, <1>3 DEF StackTyped
<1>7. OnStack'
  <2>1. Elements(path') \cup Elements(order) \cup roots' \subseteq Defined
    BY <1>1, <1>2 DEF OnStack, Asked
  <2>2. \A i \in 1..Len(path') : left'[i] \subseteq deps[path'[i]]
    <3>1. \A i \in 1..Len(path) : left'[i] \subseteq deps[path'[i]]
      BY <1>2, <1>3 DEF OnStack, Asked
    <3> QED
      BY <1>2, <1>3, <3>1
  <2>3. \A i \in 1..(Len(path') - 1) : path'[i + 1] \in deps[path'[i]]
    <3> SUFFICES ASSUME NEW i \in 1..Len(path) PROVE path'[i + 1] \in deps[path'[i]]
      BY <1>2
    <3>1. CASE i = Len(path)
      BY <1>2, <3>1, StackSizes DEF Asked
    <3>2. CASE i < Len(path)
      <4>1. path[i + 1] \in deps[path[i]]
        BY <1>2, <3>2 DEF OnStack
      <4> QED
        BY <1>2, <3>2, <4>1
    <3> QED
      BY <1>2, <3>1, <3>2
  <2>4. ASSUME NEW i \in 1..Len(path'), NEW d \in deps[path'[i]] \ left'[i]
        PROVE  d \in Elements(order) \/ (i < Len(path') /\ d = path'[i + 1])
    <3>1. CASE i = Len(path) + 1
      BY <1>2, <1>3, <2>4, <3>1
    <3>2. CASE i \in 1..Len(path) /\ d \in left[i]
      <4>1. d \in left[i] \ rest[i] /\ i \in 1..Len(path)
        BY <1>3, <2>4, <3>2
      <4>2. d = n /\ i = Len(path)
        BY <4>1 DEF Asked
      <4> QED
        BY <1>2, <4>2
    <3>3. CASE i \in 1..Len(path) /\ d \notin left[i]
      <4>1. d \in deps[path[i]] \ left[i]
        BY <1>2, <2>4, <3>3
      <4>2. d \in Elements(order) \/ (i < Len(path) /\ d = path[i + 1])
        BY <3>3, <4>1 DEF OnStack
      <4> QED
        BY <1>2, <3>3, <4>2
    <3> QED
      BY <1>2, <3>1, <3>2, <3>3
  <2>5. \A m \in Defined \ roots' : m \in Elements(order) \/ m = path'[1]
    BY <1>4 DEF OnStack, Asked
  <2>6. \A r \in roots' : path'[1] < r
    BY <1>4 DEF OnStack, Asked
  <2> QED
    BY <1>0, <1>4, <2>1, <2>2, <2>3, <2>4, <2>5, <2>6 DEF OnStack, Searching
<1>8. Ordered' /\ AllOrdered' /\ Acyclic' /\ CycleFound'
  BY <1>0 DEF Ordered, AllOrdered, Acyclic, CycleFound, Searching, Called
<1> QED
  BY <1>5, <1>6, <1>7, <1>8

\* What is visited while it is still on the stack needs itself.
LEMMA VisitingNeedsItself ==
  ASSUME SearchInv, FilterInv, Searching, NEW n, NEW rest, Asked(n, rest), NEW i \in 1..Len(path),
         path[i] = n
  PROVE  n \in Needs(deps, n)
<1> USE DEF SearchInv
<1>1. /\ Len(path) \in Nat \ {0} /\ path # <<>> /\ Len(path) \in 1..Len(path)
  BY StackSizes
<1>2. n \in Defined /\ n \in deps[path[Len(path)]] /\ path[Len(path)] \in Defined
  BY <1>1 DEF Asked, OnStack, Elements
<1>3. deps[n] \subseteq Mention /\ deps[path[Len(path)]] \subseteq Mention
  BY <1>2, DefinedDeps
<1>4. CASE i = Len(path)
  BY <1>2, <1>3, <1>4, NeedsEnough
<1>5. CASE i < Len(path)
  <2>1. path[Len(path)] \in Needs(deps, n)
    BY <1>1, <1>5, StackNeeds
  <2> QED
    BY <1>2, <1>3, <2>1, NeedsEnough DEF Defined
<1> QED
  BY <1>1, <1>4, <1>5

\* One that is Visiting ends the first search with a cycle; after it, there is none.
LEMMA VisitVisiting ==
  ASSUME SearchInv, FilterInv, Searching, NEW n, NEW rest, Asked(n, rest),
         UNCHANGED <<deps, filterVars>>, marks[n] = "Visiting", cycle' = CycleTo(n),
         phase' = IF phase = "check" THEN "cyclic" ELSE "unordered",
         left' = rest, UNCHANGED <<marks, path, order>>
  PROVE  SearchInv'
<1> USE DEF SearchInv
<1>0. UNCHANGED <<marks, path, order, deps, only, except, work, found>> /\ left' = rest /\ Defined' = Defined
  BY DEF filterVars, Defined
<1>1. n \in Mention /\ n \in Defined
  BY DefinedDeps DEF Asked
<1>2. n \in Elements(path)
  BY <1>1 DEF TypeOK
<1>3. phase = "check" /\ phase' = "cyclic"
  <2>1. n \in Needs(deps, n)
    BY <1>2, VisitingNeedsItself DEF Elements
  <2> QED
    BY <1>1, <2>1 DEF Acyclic, Searching
<1>4. TypeOK'
  <2>1. Len(left') = Len(path') /\ \A j \in 1..Len(left') : left'[j] \in SUBSET Mention
    BY <1>0, ElementOfSeq DEF Asked
  <2>2. roots' \subseteq Name
    BY DEF Asked, TypeOK
  <2> QED
    BY <1>0, <1>3, <2>1, <2>2 DEF TypeOK
<1>5. StackTyped'
  BY <1>0 DEF StackTyped, Asked
<1>6. OnStack' /\ Ordered' /\ AllOrdered' /\ Acyclic'
  BY <1>3 DEF OnStack, Ordered, AllOrdered, Acyclic, Searching
<1>7. CycleFound'
  <2> DEFINE i == CHOOSE j \in 1..Len(path) : path[j] = n
             s == SubSeq(path, i, Len(path))
             k == Len(path) - i + 1
  <2>1. i \in 1..Len(path) /\ path[i] = n
    BY <1>2 DEF Elements
  <2>2. cycle' = Append(s, n)
    BY DEF CycleTo
  <2> HIDE DEF i
  <2>3. Len(path) \in Nat /\ \A j \in 1..Len(path) : path[j] \in Mention
    BY StackSizes
  <2>4. k \in Nat \ {0} /\ Len(path) = i + k - 1 /\ i \in Nat \ {0}
    BY <2>1, <2>3
  <2>5. /\ s \in Seq(Mention)
        /\ Len(s) = IF i <= Len(path) THEN Len(path) - i + 1 ELSE 0
        /\ \A j \in 1..(Len(path) - i + 1) : s[j] = path[i + j - 1]
    <3>1. \A j \in i..Len(path) : path[j] \in Mention
      BY <2>1, <2>3
    <3>2. i \in Int /\ Len(path) \in Int
      BY <2>3, <2>4
    <3> QED
      BY <3>1, <3>2, SubSeqProperties
  <2> HIDE DEF s
  <2>6. /\ Len(s) = k /\ \A j \in 1..k : s[j] = path[i + j - 1] /\ i + j - 1 \in 1..Len(path)
    BY <2>1, <2>3, <2>5
  <2> HIDE DEF k
  <2>7. /\ cycle' \in Seq(Mention) /\ Len(cycle') = k + 1
        /\ cycle'[k + 1] = n /\ \A j \in 1..k : cycle'[j] = s[j]
    BY <1>1, <2>2, <2>5, <2>6, PushElement
  <2>8. cycle'[1] = n
    <3>1. 1 \in 1..k /\ i + 1 - 1 = i
      BY <2>4
    <3>2. cycle'[1] = s[1] /\ s[1] = path[i + 1 - 1]
      BY <2>6, <2>7, <3>1
    <3> QED
      BY <2>1, <3>1, <3>2
  <2>9. Distinct(Front(cycle'))
    <3>1. cycle' # <<>>
      BY <2>4, <2>7, EmptySeq
    <3>2. Len(Front(cycle')) = k /\ \A j \in 1..k : Front(cycle')[j] = cycle'[j]
      BY <2>4, <2>7, <3>1, FrontProperties
    <3>3. ASSUME NEW a \in 1..k, NEW b \in 1..k, Front(cycle')[a] = Front(cycle')[b] PROVE a = b
      <4>1. path[i + a - 1] = path[i + b - 1]
        BY <2>6, <2>7, <3>2, <3>3
      <4>2. i + a - 1 = i + b - 1
        BY <2>6, <4>1 DEF TypeOK, Distinct
      <4> QED
        BY <2>4, <4>2
    <3> QED
      BY <3>2, <3>3 DEF Distinct
  <2>10. ASSUME NEW j \in 1..k PROVE cycle'[j + 1] \in deps[cycle'[j]]
    <3>1. cycle'[j] = path[i + j - 1] /\ i + j - 1 \in 1..Len(path)
      BY <2>6, <2>7
    <3>2. CASE j = k
      <4>1. i + j - 1 = Len(path) /\ path # <<>>
        BY <2>4, <3>1, <3>2, StackSizes
      <4> QED
        BY <2>7, <3>1, <3>2, <4>1 DEF Asked
    <3>3. CASE j < k
      <4>1. j + 1 \in 1..k /\ i + (j + 1) - 1 = (i + j - 1) + 1 /\ i + j - 1 \in 1..(Len(path) - 1)
        BY <2>4, <3>3
      <4>2. cycle'[j + 1] = path[(i + j - 1) + 1]
        BY <2>6, <2>7, <4>1
      <4> QED
        BY <3>1, <4>1, <4>2 DEF OnStack
    <3> QED
      BY <2>4, <3>2, <3>3
  <2> QED
    BY <1>0, <2>4, <2>7, <2>8, <2>9, <2>10 DEF CycleFound
<1> QED
  BY <1>4, <1>5, <1>6, <1>7

\* Whatever visit finds, the search stays in order ...
LEMMA VisitSearch ==
  ASSUME SearchInv, FilterInv, Searching, NEW n, NEW rest, Asked(n, rest), Visit(n, rest),
         UNCHANGED <<deps, filterVars>>
  PROVE  SearchInv'
<1>1. CASE /\ marks[n] = "Visited" /\ left' = rest
           /\ UNCHANGED <<phase, marks, path, order, cycle>>
  BY <1>1, VisitVisited
<1>2. CASE /\ marks[n] = "Visiting" /\ cycle' = CycleTo(n)
           /\ phase' = IF phase = "check" THEN "cyclic" ELSE "unordered"
           /\ left' = rest /\ UNCHANGED <<marks, path, order>>
  BY <1>2, VisitVisiting
<1>3. CASE /\ marks[n] = "none" /\ marks' = [marks EXCEPT ![n] = "Visiting"]
           /\ path' = Append(path, n)
           /\ left' = Append(rest, IF n \in Defined THEN deps[n] ELSE {})
           /\ UNCHANGED <<phase, order, cycle>>
  <2>1. n \in Defined
    BY DEF Asked
  <2>2. left' = Append(rest, deps[n])
    BY <1>3, <2>1
  <2> QED
    BY <1>3, <2>2, VisitNew
<1> QED
  BY <1>1, <1>2, <1>3 DEF Visit

\* ... called for the next key ...
LEMMA RootSearch == SearchInv /\ FilterInv /\ NextRoot => SearchInv'
<1> SUFFICES ASSUME SearchInv, FilterInv, NextRoot PROVE SearchInv'
  OBVIOUS
<1> USE DEF SearchInv
<1> DEFINE n == Least(roots)
<1>1. /\ Searching /\ path = <<>> /\ roots # {} /\ roots' = roots \ {n} /\ Visit(n, left)
      /\ UNCHANGED <<deps, filterVars>>
  BY DEF NextRoot
<1>2. n \in roots /\ \A m \in roots : n <= m
  <2>1. roots \subseteq Mention
    BY ConfigAssumption DEF TypeOK, Name, Mention
  <2> QED
    BY <1>1, <2>1, LeastIsLeast
<1>3. n \in Defined /\ \A m \in roots : m \in Nat
  BY <1>1, <1>2, ConfigAssumption DEF OnStack, TypeOK, Name
<1>4. left \in Seq(SUBSET Mention) /\ Len(left) = Len(path)
  BY DEF StackTyped, TypeOK
<1> HIDE DEF n
<1>5. Asked(n, left)
  BY <1>1, <1>2, <1>3, <1>4 DEF Asked
<1> QED
  BY <1>1, <1>5, VisitSearch

\* ... or for the next dependency of the name on top.
LEMMA DepSearch == SearchInv /\ FilterInv /\ NextDep => SearchInv'
<1> SUFFICES ASSUME SearchInv, FilterInv, NextDep PROVE SearchInv'
  OBVIOUS
<1> USE DEF SearchInv
<1> DEFINE n == Least(left[Len(left)])
           rest == [left EXCEPT ![Len(left)] = @ \ {n}]
<1>1. /\ Searching /\ path # <<>> /\ left[Len(left)] # {} /\ Visit(n, rest)
      /\ UNCHANGED <<deps, roots, filterVars>>
  BY DEF NextDep
<1>2. /\ Len(path) \in Nat \ {0} /\ Len(left) = Len(path)
      /\ left[Len(path)] \in SUBSET Mention
  BY <1>1, StackSizes
<1>3. n \in left[Len(path)] /\ n \in Mention
  BY <1>1, <1>2, LeastIsLeast
<1> HIDE DEF n
<1>4. n \in deps[path[Len(path)]] /\ path[Len(path)] \in Defined
  BY <1>1, <1>2, <1>3 DEF OnStack, Elements
<1>5. n \in Defined
  BY <1>1, <1>4, DefinedDeps
<1>6. /\ rest \in Seq(SUBSET Mention) /\ Len(rest) = Len(path)
      /\ \A i \in 1..Len(path) : rest[i] = IF i = Len(path) THEN left[i] \ {n} ELSE left[i]
  <2> DEFINE k == Len(left)
             fewer == left[k] \ {n}
  <2>1. left \in Seq(SUBSET Mention) /\ fewer \in SUBSET Mention /\ k \in 1..Len(left)
    BY <1>2 DEF StackTyped
  <2>2. rest = [left EXCEPT ![k] = fewer]
    OBVIOUS
  <2> HIDE DEF k, fewer, rest
  <2>3. /\ rest \in Seq(SUBSET Mention) /\ Len(rest) = Len(left)
        /\ \A j \in 1..Len(left) : rest[j] = IF j = k THEN fewer ELSE left[j]
    BY <2>1, <2>2, ExceptSeq
  <2> QED
    BY <1>2, <2>3 DEF k, fewer
<1> HIDE DEF rest
<1>7. Asked(n, rest)
  BY <1>1, <1>4, <1>5, <1>6 DEF Asked
<1> QED
  BY <1>1, <1>7, VisitSearch

\* A name leaves the stack when its dependencies are in the order; those it overtakes are
\* needed by what the bottom of the stack is, or come later as keys.
LEMMA LeaveSearch == SearchInv /\ FilterInv /\ Leave => SearchInv'
<1> SUFFICES ASSUME SearchInv, FilterInv, Leave PROVE SearchInv'
  OBVIOUS
<1> USE DEF SearchInv
<1> DEFINE k == Len(path)
           x == path[k]
<1>1. /\ Searching /\ path # <<>> /\ left[Len(left)] = {}
      /\ marks' = [marks EXCEPT ![x] = "Visited"] /\ order' = Append(order, x)
      /\ path' = Front(path) /\ left' = Front(left)
      /\ UNCHANGED <<phase, deps, roots, cycle, only, except, work, found>> /\ Defined' = Defined
  BY DEF Leave, filterVars, Defined
<1>2. /\ k \in Nat \ {0} /\ Len(left) = k /\ left # <<>> /\ left[k] = {} /\ Len(order) \in Nat
      /\ \A i \in 1..k : path[i] \in Mention
  <2>1. k \in Nat \ {0} /\ Len(left) = k /\ Len(order) \in Nat /\ \A i \in 1..k : path[i] \in Mention
    BY <1>1, StackSizes
  <2> QED
    BY <1>1, <2>1, EmptySeq
<1>3. /\ path' \in Seq(Mention) /\ Len(path') = k - 1 /\ \A i \in 1..(k - 1) : path'[i] = path[i]
      /\ Elements(path') = Elements(path) \ {x} /\ Distinct(path')
      /\ x \in Mention /\ x \in Elements(path)
  <2>1. path \in Seq(Mention) /\ Distinct(path)
    BY DEF StackTyped, TypeOK
  <2> QED
    BY <1>1, <2>1, FrontProperties, PopElement
<1>4. left' \in Seq(SUBSET Mention) /\ Len(left') = k - 1 /\ \A i \in 1..(k - 1) : left'[i] = left[i]
  BY <1>1, <1>2, FrontProperties DEF StackTyped
<1>5. /\ marks[x] = "Visiting" /\ x \notin Elements(order) /\ x \in Defined
      /\ deps[x] \subseteq Elements(order)
  <2>1. marks[x] = "Visiting" /\ x \notin Elements(order) /\ x \in Defined
    BY <1>1, <1>3 DEF TypeOK, OnStack
  <2>2. \A d \in deps[x] : d \in Elements(order)
    BY <1>1, <1>2 DEF OnStack
  <2> QED
    BY <2>1, <2>2
<1>6. /\ order' \in Seq(Mention) /\ Len(order') = Len(order) + 1
      /\ order'[Len(order) + 1] = x /\ \A i \in 1..Len(order) : order'[i] = order[i]
      /\ Elements(order') = Elements(order) \cup {x} /\ Distinct(order')
  <2>1. order \in Seq(Mention) /\ Distinct(order)
    BY DEF StackTyped, TypeOK
  <2> QED
    BY <1>1, <1>3, <1>5, <2>1, PushElement
<1>7. path' # <<>> => k > 1 /\ path'[1] = path[1]
  BY <1>2, <1>3, EmptySeq
<1>8. path' = <<>> => k = 1 /\ x = path[1]
  <2> SUFFICES ASSUME path' = <<>> PROVE k = 1
    OBVIOUS
  <2>1. Len(path') = 0
    BY EmptySeq
  <2> HIDE DEF k
  <2> QED
    BY <1>2, <1>3, <2>1
<1> HIDE DEF k, x
<1>9. TypeOK'
  <2>1. Len(left') = Len(path') /\ \A i \in 1..Len(left') : left'[i] \in SUBSET Mention
    BY <1>3, <1>4, ElementOfSeq
  <2>2. /\ marks' \in [Mention -> {"none", "Visiting", "Visited"}]
        /\ Elements(path') = {m \in Mention : marks'[m] = "Visiting"}
        /\ Elements(order') = {m \in Mention : marks'[m] = "Visited"}
    BY <1>1, <1>3, <1>5, <1>6 DEF TypeOK
  <2> QED
    BY <1>1, <1>3, <1>6, <2>1, <2>2 DEF TypeOK
<1>10. StackTyped'
  BY <1>3, <1>4, <1>6 DEF StackTyped
<1>11. OnStack'
  <2>1. Elements(path') \cup Elements(order') \cup roots \subseteq Defined
    BY <1>1, <1>3, <1>5, <1>6 DEF OnStack
  <2>2. \A i \in 1..Len(path') : left'[i] \subseteq deps[path'[i]]
    BY <1>1, <1>2, <1>3, <1>4 DEF OnStack, k
  <2>3. ASSUME NEW i \in 1..(Len(path') - 1) PROVE path'[i + 1] \in deps[path'[i]]
    <3>1. i \in 1..(k - 1) /\ i + 1 \in 1..(k - 1)
      BY <1>2, <1>3
    <3> QED
      BY <1>1, <1>3, <3>1 DEF OnStack, k
  <2>4. ASSUME NEW i \in 1..Len(path'), NEW d \in deps[path'[i]] \ left'[i]
        PROVE  d \in Elements(order') \/ (i < Len(path') /\ d = path'[i + 1])
    <3>1. i \in 1..(k - 1) /\ i \in 1..k /\ d \in deps[path[i]] \ left[i]
      BY <1>2, <1>3, <1>4, <2>4
    <3>2. d \in Elements(order) \/ (i < k /\ d = path[i + 1])
      BY <1>1, <3>1 DEF OnStack, k
    <3>3. CASE i + 1 = k
      BY <1>6, <3>2, <3>3 DEF x
    <3>4. CASE i + 1 < k
      BY <1>2, <1>3, <1>6, <3>1, <3>2, <3>4
    <3> QED
      BY <1>2, <3>1, <3>3, <3>4
  <2>5. ASSUME NEW m \in Defined \ roots PROVE m \in Elements(order') \/ (path' # <<>> /\ m = path'[1])
    BY <1>1, <1>6, <1>7, <1>8 DEF OnStack
  <2>6. path' # <<>> => \A r \in roots : path'[1] < r
    BY <1>1, <1>7 DEF OnStack
  <2> QED
    BY <1>1, <2>1, <2>2, <2>3, <2>4, <2>5, <2>6 DEF OnStack, Searching
<1>12. Ordered'
  <2>1. ASSUME NEW j \in 1..Len(order'), NEW d \in deps[order'[j]]
        PROVE  \E i \in 1..(j - 1) : order'[i] = d
    <3>1. CASE j = Len(order) + 1
      <4>1. d \in Elements(order)
        BY <1>5, <1>6, <2>1, <3>1
      <4>2. PICK i \in 1..Len(order) : order[i] = d
        BY <4>1 DEF Elements
      <4> QED
        BY <1>2, <1>6, <3>1, <4>2
    <3>2. CASE j \in 1..Len(order)
      <4>1. PICK i \in 1..(j - 1) : order[i] = d
        BY <1>1, <1>6, <2>1, <3>2 DEF Ordered
      <4> QED
        BY <1>2, <1>6, <3>2, <4>1
    <3> QED
      BY <1>2, <1>6, <3>1, <3>2
  <2>2. ASSUME NEW i \in 1..Len(order'), NEW y \in Defined, y < order'[i],
               \A j \in 1..i : order'[j] # y
        PROVE  Called(order'[i], y)
    <3>1. CASE i \in 1..Len(order)
      <4>1. y < order[i] /\ \A j \in 1..i : order[j] # y
        BY <1>2, <1>6, <2>2, <3>1
      <4>2. Called(order[i], y)
        BY <1>1, <3>1, <4>1 DEF Ordered
      <4> QED
        BY <1>6, <3>1, <4>2
    <3>2. CASE i = Len(order) + 1
      <4>1. y < x /\ y # x /\ y \in Nat /\ x \in Nat /\ y \notin Elements(order)
        <5>1. y < x /\ \A j \in 1..Len(order) : order[j] # y
          BY <1>2, <1>6, <2>2, <3>2
        <5>2. y \in Nat /\ x \in Nat
          BY <1>3, ConfigAssumption DEF TypeOK, Name, Mention
        <5> QED
          BY <5>1, <5>2 DEF Elements
      <4>2. path[1] \in Nat /\ path[1] \in Defined /\ \A r \in roots : path[1] < r
        <5>1. 1 \in 1..k /\ path[1] \in Mention
          BY <1>2
        <5>2. path[1] \in Defined
          BY <1>1, <5>1 DEF OnStack, Elements, k
        <5> QED
          BY <1>1, <5>1, <5>2, ConfigAssumption DEF OnStack, Mention
      <4>3. y \in roots \/ y = path[1]
        BY <1>1, <4>1 DEF OnStack
      <4>4. path[1] <= y
        BY <4>1, <4>2, <4>3
      <4>5. k # 1
        BY <4>1, <4>2, <4>4 DEF x
      <4>6. x \in Needs(deps, path[1])
        <5>1. 1 \in 1..k /\ k \in 1..k /\ 1 < k
          BY <1>2, <4>5
        <5> QED
          BY <1>1, <5>1, StackNeeds DEF k, x
      <4>7. Called(x, y)
        BY <4>2, <4>4, <4>6 DEF Called
      <4> QED
        BY <1>6, <3>2, <4>7
    <3> QED
      BY <1>2, <1>6, <3>1, <3>2
  <2>3. \A a, y : Called(a, y)' = Called(a, y)
    BY <1>1 DEF Called
  <2> QED
    BY <1>1, <2>1, <2>2, <2>3 DEF Ordered
<1>13. AllOrdered' /\ Acyclic' /\ CycleFound'
  BY <1>1 DEF AllOrdered, Acyclic, CycleFound, Searching
<1> QED
  BY <1>9, <1>10, <1>11, <1>12, <1>13

\* Everything is in the order: what a name needs is before it.
LEMMA FinishedSearch == SearchInv /\ FilterInv /\ Finished => SearchInv'
<1> SUFFICES ASSUME SearchInv, FilterInv, Finished PROVE SearchInv'
  OBVIOUS
<1> USE DEF SearchInv
<1>1. /\ Searching /\ path = <<>> /\ roots = {}
      /\ UNCHANGED <<deps, marks, path, left, roots, order, cycle, only, except, work, found>>
      /\ Defined' = Defined
      /\ (phase = "check" /\ phase' = "filter") \/ (phase = "order" /\ phase' = "run")
  BY DEF Finished, Searching, filterVars, dfsVars, Defined
<1>2. Elements(order) = Defined
  BY <1>1 DEF OnStack
<1>3. ASSUME NEW n \in Defined PROVE n \notin Needs(deps, n)
  <2>1. PICK i \in 1..Len(order) : order[i] = n
    BY <1>2 DEF Elements
  <2> DEFINE Before == {order[j] : j \in 1..(i - 1)}
  <2>2. Len(order) \in Nat
    BY StackSizes
  <2>3. \A j \in 1..i : j \in 1..Len(order) /\ deps[order[j]] \subseteq Before
    <3> SUFFICES ASSUME NEW j \in 1..i, NEW d \in deps[order[j]]
                 PROVE  j \in 1..Len(order) /\ d \in Before
      BY <2>2
    <3>1. j \in 1..Len(order)
      BY <2>2
    <3>2. PICK l \in 1..(j - 1) : order[l] = d
      BY <1>1, <3>1 DEF Ordered
    <3> QED
      BY <2>2, <3>1, <3>2
  <2>4. Suffices(deps, n, Before)
    BY <2>1, <2>2, <2>3 DEF Suffices
  <2>5. Before \in SUBSET Mention
    BY <2>2, StackSizes, ElementOfSeq DEF StackTyped
  <2>6. n \notin Before
    BY <2>1, <2>2 DEF TypeOK, Distinct
  <2> HIDE DEF Before
  <2>7. Needs(deps, n) \subseteq Before
    BY <2>4, <2>5, NeedsNoMore
  <2> QED
    BY <2>6, <2>7
<1>4. TypeOK' /\ StackTyped'
  BY <1>1 DEF TypeOK, StackTyped
<1>5. OnStack' /\ CycleFound'
  BY <1>1 DEF OnStack, CycleFound, Searching
<1>6. Ordered'
  <2>1. \A x, y : Called(x, y)' = Called(x, y)
    BY <1>1 DEF Called
  <2>2. Searching \/ phase = "run"
    BY <1>1
  <2> QED
    BY <1>1, <2>1, <2>2 DEF Ordered
<1>7. AllOrdered' /\ Acyclic'
  BY <1>1, <1>2, <1>3 DEF AllOrdered, Acyclic
<1> QED
  BY <1>4, <1>5, <1>6, <1>7

\* No search has begun.
LEMMA SearchInit == Init => SearchInv
<1> SUFFICES ASSUME Init PROVE SearchInv
  OBVIOUS
<1>1. /\ phase = "validate" /\ path = <<>> /\ left = <<>> /\ order = <<>> /\ roots = {}
      /\ only = {} /\ except = {} /\ work = {} /\ found = {}
      /\ marks = [n \in Mention |-> "none"]
  BY DEF Init
<1>2. deps \in [Defined -> SUBSET Mention] /\ Defined = Name
  BY DEF Init, Defined
<1>3. Len(path) = 0 /\ Len(left) = 0 /\ Len(order) = 0
  BY <1>1, EmptySeq
<1>4. Elements(path) = {} /\ Elements(order) = {} /\ Distinct(path) /\ Distinct(order)
  BY <1>3 DEF Elements, Distinct
<1>5. TypeOK
  BY <1>1, <1>2, <1>3, <1>4 DEF TypeOK
<1>6. StackTyped
  BY <1>1, EmptySeq DEF StackTyped
<1> QED
  BY <1>1, <1>5, <1>6 DEF SearchInv, OnStack, Ordered, AllOrdered, Acyclic, CycleFound, Searching

\* What holds whenever a search starts, from an empty stack and every name.
LEMMA StartSearch ==
  ASSUME TypeOK, StartDfs(Defined), UNCHANGED <<deps, filterVars>>, phase' \in {"check", "order"},
         phase' = "order" => \A n \in Defined : n \notin Needs(deps, n)
  PROVE  SearchInv'
<1>1. /\ path' = <<>> /\ left' = <<>> /\ order' = <<>> /\ roots' = Defined /\ Defined' = Defined
      /\ marks' = [n \in Mention |-> "none"] /\ UNCHANGED <<deps, only, except, work, found>>
  BY DEF StartDfs, filterVars, Defined
<1>2. Len(path') = 0 /\ Len(left') = 0 /\ Len(order') = 0
  BY <1>1, EmptySeq
<1>3. Elements(path') = {} /\ Elements(order') = {} /\ Distinct(path') /\ Distinct(order')
  BY <1>2 DEF Elements, Distinct
<1>4. TypeOK'
  BY <1>1, <1>2, <1>3 DEF TypeOK
<1>5. StackTyped'
  BY <1>1, EmptySeq DEF StackTyped
<1>6. OnStack'
  BY <1>1, <1>2, <1>3 DEF OnStack
<1>7. Ordered' /\ AllOrdered' /\ Acyclic' /\ CycleFound'
  BY <1>1, <1>2 DEF Ordered, AllOrdered, Acyclic, CycleFound
<1> QED
  BY <1>4, <1>5, <1>6, <1>7 DEF SearchInv

\* The filters touch nothing of a search, and none runs meanwhile.
LEMMA FilterSearch ==
  ASSUME SearchInv, ~Searching, phase \notin {"cyclic", "run"}, UNCHANGED dfsVars,
         phase' \in {"invalid", "rejected", "reachable", "dependents", "kept", "empty"},
         phase' \in {"reachable", "dependents", "kept"} =>
           phase \in {"filter", "reachable", "dependents", "kept"},
         deps' \in [Defined' -> SUBSET Mention], Defined' \subseteq Defined,
         \A n \in Defined' : deps'[n] = deps[n],
         (only \cup except \cup work \cup found)' \subseteq Mention
  PROVE  SearchInv'
<1> USE DEF SearchInv
<1>1. UNCHANGED <<marks, path, left, roots, order, cycle>>
  BY DEF dfsVars
<1>2. TypeOK'
  BY <1>1 DEF TypeOK
<1>3. StackTyped' /\ OnStack' /\ Ordered' /\ AllOrdered' /\ CycleFound'
  BY <1>1 DEF StackTyped, OnStack, Ordered, AllOrdered, CycleFound, Searching
<1>4. Acyclic'
  <2> SUFFICES ASSUME phase' \in {"reachable", "dependents", "kept"}, NEW n \in Defined'
               PROVE  n \notin Needs(deps', n)
    BY DEF Acyclic
  <2>1. n \in Defined /\ n \notin Needs(deps, n)
    BY DEF Acyclic
  <2>2. \A m \in Defined : deps[m] \subseteq Mention
    BY DEF TypeOK
  <2> DEFINE S == Needs(deps, n)
  <2>3. S \in SUBSET Mention
    BY DEF Needs
  <2>4. deps[n] \subseteq S /\ \A m \in S \cap Defined : deps[m] \subseteq S
    BY <2>1, <2>2, NeedsEnough DEF Defined
  <2> HIDE DEF S
  <2>5. deps'[n] \subseteq S /\ \A m \in S \cap Defined' : deps'[m] \subseteq S
    BY <2>4
  <2>6. Suffices(deps', n, S)
    BY <2>5 DEF Suffices, Defined
  <2>7. Needs(deps', n) \subseteq S
    BY <2>3, <2>6, NeedsNoMore
  <2> QED
    BY <2>1, <2>7 DEF S
<1> QED
  BY <1>2, <1>3, <1>4

\* Each step keeps the searches, and what they found, in order.
LEMMA SearchStep == SearchInv /\ FilterInv /\ [Next]_vars => SearchInv'
<1> SUFFICES ASSUME SearchInv, FilterInv, [Next]_vars PROVE SearchInv'
  OBVIOUS
<1>0. /\ TypeOK /\ Defined \subseteq Mention /\ deps \in [Defined -> SUBSET Mention]
      /\ only \cup except \cup work \cup found \subseteq Mention
  BY ConfigAssumption DEF SearchInv, TypeOK, Name, Mention
<1>1. CASE Validate
  <2>1. CASE phase' = "invalid"
    <3>1. /\ phase = "validate" /\ UNCHANGED dfsVars /\ UNCHANGED <<deps, only, except, work, found>>
          /\ Defined' = Defined
      BY <1>1, <2>1 DEF Validate, filterVars, Defined
    <3> QED
      BY <1>0, <2>1, <3>1, FilterSearch DEF Searching
  <2>2. CASE phase' = "check" /\ StartDfs(Defined)
    <3>1. UNCHANGED <<deps, filterVars>>
      BY <1>1 DEF Validate
    <3> QED
      BY <1>0, <2>2, <3>1, StartSearch
  <2> QED
    BY <1>1, <2>1, <2>2 DEF Validate
<1>2. CASE NextRoot
  BY <1>2, RootSearch
<1>3. CASE NextDep
  BY <1>3, DepSearch
<1>4. CASE Leave
  BY <1>4, LeaveSearch
<1>5. CASE Finished
  BY <1>5, FinishedSearch
<1>6. CASE Filter
  <2>1. /\ phase = "filter" /\ phase' \in {"rejected", "reachable", "dependents", "kept"}
        /\ UNCHANGED dfsVars /\ UNCHANGED <<deps, found>> /\ Defined' = Defined
        /\ (only \cup except \cup work)' \subseteq Mention
    BY <1>6 DEF Filter, Defined
  <2> QED
    BY <1>0, <2>1, FilterSearch DEF Searching
<1>7. CASE PopReachable
  <2>1. PICK n \in work :
          /\ found' = found \cup {n}
          /\ work' = (work \ {n}) \cup (IF n \in found THEN {} ELSE deps[n])
    BY <1>7 DEF PopReachable
  <2>2. /\ phase = "reachable" /\ phase' = phase /\ UNCHANGED dfsVars
        /\ UNCHANGED <<deps, only, except>> /\ Defined' = Defined
    BY <1>7 DEF PopReachable, Defined
  <2>3. deps[n] \subseteq Mention
    BY <1>0, <2>1, <2>2 DEF FilterInv
  <2> QED
    BY <1>0, <2>1, <2>2, <2>3, FilterSearch DEF Searching
<1>8. CASE PopDependents
  <2>1. /\ phase = "dependents" /\ phase' = phase /\ UNCHANGED dfsVars
        /\ UNCHANGED <<deps, only, except>> /\ Defined' = Defined
    BY <1>8 DEF PopDependents, Defined
  <2>2. found' \subseteq found \cup Defined /\ work' \subseteq work \cup Defined
    BY <1>8 DEF PopDependents
  <2> QED
    BY <1>0, <2>1, <2>2, FilterSearch DEF Searching
<1>9. CASE Retain
  <2>1. /\ phase \in {"reachable", "dependents"} /\ phase' = "kept"
        /\ UNCHANGED dfsVars /\ UNCHANGED <<only, except, work, found>>
        /\ deps' = [n \in Retained |-> deps[n]] /\ Defined' = Retained
    BY <1>9 DEF Retain, filterVars, Defined
  <2>2. Retained \subseteq Defined
    BY <2>1 DEF Retained, FilterInv
  <2> QED
    BY <1>0, <2>1, <2>2, FilterSearch DEF Searching
<1>10. CASE Runnable
  <2>1. CASE phase' = "empty"
    <3>1. /\ phase = "kept" /\ UNCHANGED dfsVars /\ UNCHANGED <<deps, only, except, work, found>>
          /\ Defined' = Defined
      BY <1>10, <2>1 DEF Runnable, filterVars, Defined
    <3> QED
      BY <1>0, <2>1, <3>1, FilterSearch DEF Searching
  <2>2. CASE phase' = "order" /\ StartDfs(Defined)
    <3>1. phase = "kept" /\ UNCHANGED <<deps, filterVars>>
      BY <1>10 DEF Runnable
    <3>2. \A n \in Defined : n \notin Needs(deps, n)
      BY <3>1 DEF SearchInv, Acyclic
    <3> QED
      BY <1>0, <2>2, <3>1, <3>2, StartSearch
  <2> QED
    BY <1>10, <2>1, <2>2 DEF Runnable
<1>11. CASE UNCHANGED vars
  <2>1. UNCHANGED <<phase, deps, marks, path, left, roots, order, cycle, only, except, work, found>>
        /\ Defined' = Defined /\ Searching' = Searching
    BY <1>11 DEF vars, dfsVars, filterVars, Defined, Searching
  <2>2. TypeOK' /\ StackTyped' /\ OnStack'
    BY <2>1 DEF SearchInv, TypeOK, StackTyped, OnStack
  <2>3. \A x, y : Called(x, y)' = Called(x, y)
    BY <2>1 DEF Called
  <2>4. Ordered'
    BY <2>1, <2>3 DEF SearchInv, Ordered
  <2>5. AllOrdered' /\ Acyclic' /\ CycleFound'
    BY <2>1 DEF SearchInv, AllOrdered, Acyclic, CycleFound
  <2> QED
    BY <2>2, <2>4, <2>5 DEF SearchInv
<1> QED
  BY <1>1, <1>2, <1>3, <1>4, <1>5, <1>6, <1>7, <1>8, <1>9, <1>10, <1>11 DEF Next, Over

\* The inductive invariant of the searches and of the filters between them.
THEOREM SearchInvariant == Spec => [](FilterInv /\ SearchInv)
<1>1. Init => FilterInv /\ SearchInv
  BY FilterInit, SearchInit
<1>2. FilterInv /\ SearchInv /\ [Next]_vars => (FilterInv /\ SearchInv)'
  BY FilterStep, SearchStep
<1> QED
  BY <1>1, <1>2, PTL DEF Spec

\* The stack, the marks and the order of dfs stay in step, whatever the dependencies: no
\* name is visited twice, and the second search never meets a cycle.
THEOREM TypeCorrect == Spec => []TypeOK
<1>1. SearchInv => TypeOK
  BY DEF SearchInv
<1> QED
  BY <1>1, SearchInvariant, PTL

\* validate rejects a configuration as cyclic exactly when some process needs itself, and
\* the cycle it names is one: however many processes there are and however they depend.
THEOREM CyclesReported == Spec => []CycleReported
<1>1. SearchInv => CycleReported
  BY DEF SearchInv, Acyclic, CycleFound, CycleReported
<1> QED
  BY <1>1, SearchInvariant, PTL

\* start_order is complete, puts every process after its dependencies, and is fixed by the
\* names: the HashMap the configuration is kept in has no say in it.
THEOREM StartsInOrder == Spec => []StartOrder
<1>1. ASSUME SearchInv PROVE StartOrder
  <2> SUFFICES ASSUME phase = "run" PROVE StartOrder
    BY DEF StartOrder
  <2>1. Len(order) \in Nat /\ Distinct(order) /\ Elements(order) = Defined
    BY <1>1, StackSizes DEF SearchInv, TypeOK, AllOrdered
  <2>2. \A i \in 1..Len(order) : Position(order[i]) = i
    BY <2>1 DEF Position, Distinct
  <2>3. \A n \in Defined : Position(n) \in 1..Len(order) /\ order[Position(n)] = n
    BY <2>1, <2>2 DEF Elements
  <2>4. ASSUME NEW n \in Defined, NEW d \in deps[n] PROVE Position(d) < Position(n)
    <3>1. PICK i \in 1..(Position(n) - 1) : order[i] = d
      BY <1>1, <2>3 DEF SearchInv, Ordered
    <3> QED
      BY <2>1, <2>2, <2>3, <3>1
  <2>5. ASSUME NEW x \in Defined, NEW y \in Defined, x > y, Position(x) < Position(y)
        PROVE  Called(x, y)
    <3>1. \A j \in 1..Position(x) : order[j] # y
      BY <2>1, <2>2, <2>3, <2>5
    <3>2. y < order[Position(x)]
      BY <1>1, <2>3, <2>5, ConfigAssumption DEF SearchInv, TypeOK, Name
    <3> QED
      BY <1>1, <2>3, <3>1, <3>2 DEF SearchInv, Ordered
  <2> QED
    BY <2>1, <2>4, <2>5 DEF StartOrder, Called
<1> QED
  BY <1>1, SearchInvariant, PTL

-----------------------------------------------------------------------------
(* The filters: no more is dropped than must be.                           *)

\* Who the walks meet: what a named process needs, who needs one.
SelectInv ==
  /\ phase \in {"validate", "check", "filter"} => only = {} /\ except = {}
  /\ phase = "reachable" =>
       /\ only # {} /\ except = {} /\ only \subseteq found \cup work
       /\ \A n \in found \cup work : n \in only \/ \E m \in only : n \in Needs(deps, m)
       /\ only \subseteq Defined
  /\ phase = "dependents" =>
       /\ only = {} /\ work \subseteq found \cup except
       /\ \A n \in found : n \in Defined /\ Needs(deps, n) \cap except # {}

\* Before the command line is read, nothing is selected.
LEMMA SelectInit == Init => SelectInv
  BY DEF Init, SelectInv

\* Each pop of reachable or dependents keeps to what was asked for.
LEMMA SelectStep == SelectInv /\ FilterInv /\ TypeOK /\ [Next]_vars => SelectInv'
<1> SUFFICES ASSUME SelectInv, FilterInv, TypeOK, [Next]_vars PROVE SelectInv'
  OBVIOUS
<1>0. \A n \in Defined : deps[n] \subseteq Mention
  BY DEF TypeOK
<1>1. CASE Validate
  BY <1>1 DEF Validate, filterVars, SelectInv
<1>2. CASE NextRoot \/ NextDep
  <2>1. UNCHANGED filterVars /\ \E n, rest : Visit(n, rest)
    BY <1>2 DEF NextRoot, NextDep
  <2>2. Searching /\ phase' \in {phase, "cyclic", "unordered"}
    BY <1>2, <2>1 DEF Visit, NextRoot, NextDep
  <2> QED
    BY <2>1, <2>2 DEF SelectInv, Searching, filterVars
<1>3. CASE Leave
  BY <1>3 DEF Leave, Searching, SelectInv, filterVars
<1>4. CASE Finished
  BY <1>4 DEF Finished, Searching, SelectInv, filterVars
<1>5. CASE Filter
  BY <1>5 DEF Filter, FilterInv, SelectInv, Defined
<1>6. CASE PopReachable
  <2>1. PICK n \in work :
          /\ found' = found \cup {n}
          /\ work' = (work \ {n}) \cup (IF n \in found THEN {} ELSE deps[n])
    BY <1>6 DEF PopReachable
  <2>2. phase = "reachable" /\ UNCHANGED <<phase, deps, only, except>> /\ Defined' = Defined
    BY <1>6 DEF PopReachable, Defined
  <2>3. n \in Defined /\ only \subseteq Defined
    BY <2>1, <2>2 DEF FilterInv, SelectInv
  <2>4. ASSUME NEW k \in deps[n] PROVE \E m \in only : k \in Needs(deps, m)
    <3>1. CASE n \in only
      BY <1>0, <2>3, <3>1, NeedsEnough
    <3>2. ASSUME NEW m \in only, n \in Needs(deps, m) PROVE k \in Needs(deps, m)
      BY <1>0, <2>3, <3>2, NeedsEnough DEF Defined
    <3> QED
      BY <2>1, <2>2, <3>1, <3>2 DEF SelectInv
  <2>5. \A k \in found' \cup work' : k \in only \/ \E m \in only : k \in Needs(deps, m)
    BY <2>1, <2>2, <2>4 DEF SelectInv
  <2>6. only \subseteq found' \cup work'
    BY <2>1, <2>2 DEF SelectInv
  <2> QED
    BY <2>2, <2>5, <2>6 DEF SelectInv
<1>7. CASE PopDependents
  <2>1. PICK n \in work :
          /\ found' = found \cup ({m \in Defined : n \in deps[m]} \ (except \cup found))
          /\ work' = (work \ {n}) \cup ({m \in Defined : n \in deps[m]} \ (except \cup found))
    BY <1>7 DEF PopDependents
  <2>2. phase = "dependents" /\ UNCHANGED <<phase, deps, only, except>> /\ Defined' = Defined
    BY <1>7 DEF PopDependents, Defined
  <2>3. ASSUME NEW m \in Defined, n \in deps[m] PROVE Needs(deps, m) \cap except # {}
    <3>1. CASE n \in except
      BY <1>0, <2>3, <3>1, NeedsEnough
    <3>2. CASE n \in found
      <4>1. n \in Defined /\ Needs(deps, n) \cap except # {}
        BY <2>2, <3>2 DEF SelectInv
      <4>2. Needs(deps, n) \subseteq Needs(deps, m)
        BY <1>0, <2>3, <4>1, NeedsTransitive DEF Defined
      <4> QED
        BY <4>1, <4>2
    <3> QED
      BY <2>1, <2>2, <3>1, <3>2 DEF SelectInv
  <2>4. \A k \in found' : k \in Defined /\ Needs(deps, k) \cap except # {}
    BY <2>1, <2>2, <2>3 DEF SelectInv
  <2>5. work' \subseteq found' \cup except
    BY <2>1, <2>2 DEF SelectInv
  <2> QED
    BY <2>2, <2>4, <2>5 DEF SelectInv
<1>8. CASE Retain
  BY <1>8 DEF Retain, SelectInv
<1>9. CASE Runnable
  BY <1>9 DEF Runnable, SelectInv
<1>10. CASE UNCHANGED vars
  BY <1>10 DEF vars, filterVars, SelectInv, Defined
<1> QED
  BY <1>1, <1>2, <1>3, <1>4, <1>5, <1>6, <1>7, <1>8, <1>9, <1>10 DEF Next, Over

\* What FilterDropsNoMore says of a step.
Kept ==
  phase' = "kept" =>
    DOMAIN deps' = {n \in Defined :
      /\ n \notin except /\ Needs(deps, n) \cap except = {}
      /\ only # {} => n \in only \/ \E m \in only : n \in Needs(deps, m)}

\* The steps that keep are an empty filter and retain, once the stack is empty.
LEMMA KeptStep == SelectInv /\ FilterInv /\ TypeOK /\ [Next]_vars => [Kept]_vars
<1> SUFFICES ASSUME SelectInv, FilterInv, TypeOK, Next, phase' = "kept", ~ UNCHANGED vars PROVE Kept
  BY DEF Kept
<1>0. Defined \subseteq Mention /\ \A n \in Defined : deps[n] \subseteq Mention
  BY ConfigAssumption DEF TypeOK, Name, Mention
<1>1. CASE Filter
  <2>1. only = {} /\ except = {} /\ deps' = deps
    BY <1>1 DEF Filter, SelectInv
  <2> QED
    BY <2>1 DEF Kept, Defined
<1>2. CASE Retain /\ phase = "reachable"
  <2>1. /\ work = {} /\ DOMAIN deps' = found /\ except = {} /\ only # {} /\ only \subseteq found
        /\ found \subseteq Defined /\ \A n \in found : deps[n] \subseteq found
        /\ \A n \in found : n \in only \/ \E m \in only : n \in Needs(deps, m)
    BY <1>2 DEF Retain, Retained, SelectInv, FilterInv
  <2>2. ASSUME NEW m \in only PROVE Needs(deps, m) \subseteq found
    <3>1. found \in SUBSET Mention /\ Suffices(deps, m, found)
      BY <1>0, <2>1 DEF Suffices, Defined
    <3> QED
      BY <3>1, NeedsNoMore
  <2> QED
    BY <2>1, <2>2 DEF Kept
<1>3. CASE Retain /\ phase = "dependents"
  <2> DEFINE Rest == Mention \ (found \cup except)
  <2>1. /\ work = {} /\ DOMAIN deps' = Defined \ (found \cup except) /\ only = {}
        /\ \A n \in found : Needs(deps, n) \cap except # {}
        /\ \A m \in Defined : \A n \in deps[m] : n \in found \cup except => m \in found \cup except
    BY <1>3 DEF Retain, Retained, SelectInv, FilterInv
  <2>2. ASSUME NEW n \in Defined, n \notin found \cup except PROVE Needs(deps, n) \subseteq Rest
    <3>1. Suffices(deps, n, Rest) /\ Rest \in SUBSET Mention
      BY <1>0, <2>1, <2>2 DEF Suffices, Defined
    <3> QED
      BY <3>1, NeedsNoMore
  <2> QED
    BY <2>1, <2>2 DEF Kept
<1>4. phase # "kept" \/ Runnable \/ Over
  BY DEF Next, Validate, NextRoot, NextDep, Leave, Finished, Filter, PopReachable, PopDependents, Retain, Searching
<1>5. ~Runnable /\ ~Over
  BY DEF Runnable, Over
<1>6. phase' = phase \/ phase' \in {"invalid", "check", "cyclic", "unordered", "filter", "run"} \/ Filter \/ Retain
  BY <1>5 DEF Next, Validate, NextRoot, NextDep, Visit, Leave, Finished, PopReachable, PopDependents
<1>7. Filter \/ Retain
  BY <1>4, <1>5, <1>6
<1>8. Retain => phase \in {"reachable", "dependents"}
  BY DEF Retain
<1> QED
  BY <1>1, <1>2, <1>3, <1>7, <1>8

\* --only keeps the named processes and all they need, --except drops the named ones and
\* all that need them; neither drops, or keeps, one process more.
THEOREM FiltersDropNoMore == Spec => FilterDropsNoMore
<1>1. SelectInv /\ FilterInv /\ SearchInv /\ [Next]_vars => SelectInv'
  BY SelectStep DEF SearchInv
<1>2. SelectInv /\ FilterInv /\ SearchInv /\ [Next]_vars => [Kept]_vars
  BY KeptStep DEF SearchInv
<1>3. Spec => []SelectInv
  BY <1>1, SelectInit, SearchInvariant, PTL DEF Spec
<1>4. Spec => [][Kept]_vars
  BY <1>2, <1>3, SearchInvariant, PTL DEF Spec
<1> QED
  BY <1>4, PTL DEF FilterDropsNoMore, Kept
===============================================================================
