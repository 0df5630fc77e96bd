---------------------------- MODULE LogViewProofs ----------------------------
(***************************************************************************)
(* For every number of services, writers and lines, and whatever keys are  *)
(* pressed: no wake-up of the log viewer is lost, its tab bar is current   *)
(* when it rests, a scroll position stays with its tab, and the view of    *)
(* all services has no hole.                                               *)
(***************************************************************************)
EXTENDS LogView, SequenceTheorems, FiniteSetTheorems, WellFoundedInduction, TLAPS

\* A set of numbers has a least one.
LEMMA LeastNumber ==
  ASSUME NEW S \in SUBSET Nat, S # {}
  PROVE  \E n \in S : \A m \in S : n <= m
<1> DEFINE below == {ss \in Nat \X Nat : ss[1] < ss[2]}
<1>1. OpToRel(<, Nat) = below
  BY DEF OpToRel
<1>2. IsWellFoundedOn(below, Nat)
  BY <1>1, NatLessThanWellFounded
<1>3. PICK n \in S : \A m \in S : <<m, n>> \notin below
  BY <1>2, WFMin
<1>4. \A x, y \in Nat : x < y => <<x, y>> \in below
  OBVIOUS
<1> HIDE DEF below
<1>5. ASSUME NEW m \in S PROVE n <= m
  <2>1. m \in Nat /\ n \in Nat /\ <<m, n>> \notin below
    BY <1>3
  <2>2. ~(m < n)
    BY <1>4, <2>1
  <2> QED
    BY <2>1, <2>2
<1> QED
  BY <1>5

-----------------------------------------------------------------------------
(* The sum over the stores.                                                *)

\* all_stores visits every store.
LEMMA StoresSeq ==
  /\ Stores \in Seq(Store) /\ Len(Stores) \in Nat /\ Len(Stores) = Len(Services) + 1
  /\ \A i \in 1..Len(Stores) : Stores[i] \in Store
  /\ \A s \in Store : \E i \in 1..Len(Stores) : Stores[i] = s
<1>1. Services \in Seq(Store) /\ System \in Store
  BY ViewAssumption, SeqMonotonic DEF Store
<1>2. /\ Stores \in Seq(Store) /\ Len(Stores) = Len(Services) + 1 /\ Len(Services) \in Nat
      /\ Stores[Len(Services) + 1] = System /\ \A i \in 1..Len(Services) : Stores[i] = Services[i]
  BY <1>1, AppendProperties, LenProperties DEF Stores
<1>3. \A s \in Service : \E i \in 1..Len(Stores) : Stores[i] = s
  BY <1>2 DEF Service
<1>4. \E i \in 1..Len(Stores) : Stores[i] = System
  BY <1>2
<1> QED
  BY <1>2, <1>3, <1>4, ElementOfSeq DEF Store

\* Its partial sums are well defined ...
LEMMA PartialSums ==
  ASSUME NEW f \in [Store -> Nat]
  PROVE  \E g \in [0..Len(Stores) -> Nat] :
           /\ g[0] = 0 /\ \A i \in 1..Len(Stores) : g[i] = g[i - 1] + f[Stores[i]]
           /\ SumOf(f) = g[Len(Stores)]
<1> DEFINE n == Len(Stores)
           Upto(g, k) == g[0] = 0 /\ \A i \in 1..k : g[i] = g[i - 1] + f[Stores[i]]
           Has(k) == \E g \in [0..n -> Nat] : Upto(g, k)
           Bad == {k \in 0..n : ~Has(k)}
<1>0. n \in Nat /\ \A i \in 1..n : f[Stores[i]] \in Nat
  BY StoresSeq
<1> HIDE DEF n, Upto, Has
<1>1. Bad = {}
  <2> SUFFICES ASSUME Bad # {} PROVE FALSE
    OBVIOUS
  <2>1. Bad \in SUBSET Nat
    BY <1>0
  <2>2. PICK k \in Bad : \A m \in Bad : k <= m
    <3> HIDE DEF Bad
    <3> QED
      BY <2>1, LeastNumber
  <2>3. CASE k = 0
    <3>1. [i \in 0..n |-> 0] \in [0..n -> Nat] /\ Upto([i \in 0..n |-> 0], k)
      BY <1>0, <2>3 DEF Upto
    <3>2. Has(k)
      BY <3>1 DEF Has
    <3> QED
      BY <2>2, <3>2
  <2>4. CASE k # 0
    <3>1. k - 1 \in 0..n /\ k - 1 \notin Bad /\ k \in 1..n
      BY <1>0, <2>2, <2>4
    <3>2. PICK g \in [0..n -> Nat] : Upto(g, k - 1)
      <4>1. Has(k - 1)
        BY <3>1
      <4> QED
        BY <4>1 DEF Has
    <3> DEFINE h == [g EXCEPT ![k] = g[k - 1] + f[Stores[k]]]
    <3>3. h \in [0..n -> Nat]
      BY <1>0, <3>1
    <3>4. Upto(h, k)
      <4>1. h[0] = 0 /\ h[k] = g[k - 1] + f[Stores[k]]
        BY <1>0, <3>1, <3>2 DEF Upto
      <4>2. \A i \in 0..(k - 1) : h[i] = g[i]
        BY <1>0, <3>1
      <4>3. ASSUME NEW i \in 1..k PROVE h[i] = h[i - 1] + f[Stores[i]]
        <5>1. CASE i = k
          BY <3>1, <4>1, <4>2, <5>1
        <5>2. CASE i \in 1..(k - 1)
          <6>1. i \in 0..(k - 1) /\ i - 1 \in 0..(k - 1) /\ g[i] = g[i - 1] + f[Stores[i]]
            BY <3>1, <3>2, <5>2 DEF Upto
          <6> QED
            BY <4>2, <6>1
        <5> QED
          BY <3>1, <5>1, <5>2
      <4> QED
        BY <4>1, <4>3 DEF Upto
    <3> HIDE DEF h
    <3>5. Has(k)
      BY <3>3, <3>4 DEF Has
    <3> QED
      BY <2>2, <3>5
  <2> QED
    BY <2>3, <2>4
<1>2. PICK g \in [0..n -> Nat] : Upto(g, n)
  <2>1. Has(n)
    BY <1>0, <1>1
  <2> QED
    BY <2>1 DEF Has
<1> DEFINE Sums(h) == [i \in 0..n |-> IF i = 0 THEN 0 ELSE h[i - 1] + f[Stores[i]]]
           sum == CHOOSE h : h = Sums(h)
<1>3. g = Sums(g)
  <2>1. \A i \in 0..n : g[i] = Sums(g)[i]
    BY <1>0, <1>2 DEF Upto
  <2>2. g = [i \in 0..n |-> g[i]]
    OBVIOUS
  <2> QED
    BY <2>1, <2>2
<1>4. SumOf(f) = sum[n]
  BY DEF SumOf, n
<1>5. sum = Sums(sum)
  <2> HIDE DEF Sums
  <2> QED
    BY <1>3
<1> HIDE DEF sum
<1>6. \A i \in 0..n : sum[i] = g[i]
  <2> DEFINE Off == {i \in 0..n : sum[i] # g[i]}
  <2> SUFFICES ASSUME Off # {} PROVE FALSE
    OBVIOUS
  <2>1. PICK k \in Off : \A m \in Off : k <= m
    <3>1. Off \in SUBSET Nat
      BY <1>0
    <3> HIDE DEF Off
    <3> QED
      BY <3>1, LeastNumber
  <2>2. \A i \in 0..n : sum[i] = IF i = 0 THEN 0 ELSE sum[i - 1] + f[Stores[i]]
    BY <1>5
  <2>3. k # 0
    BY <1>2, <2>1, <2>2 DEF Upto
  <2>4. k - 1 \in 0..n /\ k - 1 \notin Off /\ k \in 1..n
    BY <1>0, <2>1, <2>3
  <2>5. sum[k - 1] = g[k - 1]
    BY <2>4
  <2>6. sum[k] = sum[k - 1] + f[Stores[k]] /\ g[k] = g[k - 1] + f[Stores[k]]
    BY <1>2, <2>2, <2>3, <2>4 DEF Upto
  <2> QED
    BY <2>1, <2>5, <2>6
<1> QED
  BY <1>0, <1>2, <1>4, <1>6 DEF n, Upto

\* ... and it is a number that grows with any of its terms.
LEMMA SumGrows ==
  ASSUME NEW f \in [Store -> Nat], NEW h \in [Store -> Nat], \A s \in Store : f[s] <= h[s]
  PROVE  /\ SumOf(f) \in Nat /\ SumOf(f) <= SumOf(h)
         /\ (\E s \in Store : f[s] < h[s]) => SumOf(f) < SumOf(h)
<1> DEFINE n == Len(Stores)
<1>0. /\ n \in Nat /\ \A i \in 1..n : Stores[i] \in Store
      /\ \A s \in Store : \E i \in 1..n : Stores[i] = s
  BY StoresSeq
<1>1. PICK a \in [0..n -> Nat] :
        a[0] = 0 /\ (\A i \in 1..n : a[i] = a[i - 1] + f[Stores[i]]) /\ SumOf(f) = a[n]
  BY PartialSums
<1>2. PICK b \in [0..n -> Nat] :
        b[0] = 0 /\ (\A i \in 1..n : b[i] = b[i - 1] + h[Stores[i]]) /\ SumOf(h) = b[n]
  BY PartialSums
<1> HIDE DEF n
<1>3. \A i \in 1..n : f[Stores[i]] \in Nat /\ h[Stores[i]] \in Nat /\ f[Stores[i]] <= h[Stores[i]]
  BY <1>0
<1> DEFINE Bad == {k \in 0..n : ~ (a[k] <= b[k])}
<1>4. Bad = {}
  <2> SUFFICES ASSUME Bad # {} PROVE FALSE
    OBVIOUS
  <2>1. PICK k \in Bad : \A m \in Bad : k <= m
    <3>1. Bad \in SUBSET Nat
      BY <1>0
    <3> HIDE DEF Bad
    <3> QED
      BY <3>1, LeastNumber
  <2>2. k # 0
    BY <1>1, <1>2, <2>1
  <2>3. k - 1 \in 0..n /\ k - 1 \notin Bad /\ k \in 1..n
    BY <1>0, <2>1, <2>2
  <2>4. a[k - 1] <= b[k - 1] /\ a[k] = a[k - 1] + f[Stores[k]] /\ b[k] = b[k - 1] + h[Stores[k]]
    BY <1>1, <1>2, <2>3
  <2>5. a[k] <= b[k]
    BY <1>3, <2>3, <2>4
  <2> QED
    BY <2>1, <2>5
<1>5. ASSUME NEW j \in 1..n, f[Stores[j]] < h[Stores[j]] PROVE a[n] < b[n]
  <2> DEFINE Low == {k \in j..n : ~ (a[k] < b[k])}
  <2>0. n \in j..n
    BY <1>0
  <2> SUFFICES ASSUME Low # {} PROVE FALSE
    BY <2>0
  <2>1. PICK k \in Low : \A m \in Low : k <= m
    <3>1. Low \in SUBSET Nat
      BY <1>0
    <3> HIDE DEF Low
    <3> QED
      BY <3>1, LeastNumber
  <2>2. k \in 1..n /\ k - 1 \in 0..n
    BY <1>0, <2>1
  <2>3. a[k] = a[k - 1] + f[Stores[k]] /\ b[k] = b[k - 1] + h[Stores[k]]
    BY <1>1, <1>2, <2>2
  <2>4. CASE k = j
    <3>1. a[k - 1] <= b[k - 1]
      BY <1>4, <2>2
    <3> QED
      BY <1>3, <1>5, <2>1, <2>2, <2>3, <2>4, <3>1
  <2>5. CASE k # j
    <3>1. k - 1 \in j..n /\ k - 1 \notin Low
      BY <1>0, <2>1, <2>5
    <3>2. a[k - 1] < b[k - 1]
      BY <3>1
    <3> QED
      BY <1>3, <2>1, <2>2, <2>3, <3>2
  <2> QED
    BY <2>4, <2>5
<1>6. SumOf(f) \in Nat /\ SumOf(f) <= SumOf(h)
  <2>1. n \in 0..n
    <3>1. n \in Nat
      BY <1>0
    <3> QED
      BY <3>1
  <2>2. a[n] \in Nat /\ a[n] <= b[n]
    BY <1>4, <2>1
  <2> QED
    BY <1>1, <1>2, <2>2 DEF n
<1>7. ASSUME NEW s \in Store, f[s] < h[s] PROVE SumOf(f) < SumOf(h)
  <2>1. PICK j \in 1..n : Stores[j] = s
    BY <1>0
  <2>2. a[n] < b[n]
    BY <1>5, <1>7, <2>1
  <2> QED
    BY <1>1, <1>2, <2>2 DEF n
<1> QED
  BY <1>6, <1>7

-----------------------------------------------------------------------------
(* Tabs and the lines they show.                                           *)

\* The last lines of a store are lines of it, and no more than asked for.
LEMMA LastOfFits ==
  ASSUME NEW S, NEW s \in Seq(S), NEW n \in Nat
  PROVE  LastOf(n, s) \in Seq(S) /\ Len(LastOf(n, s)) \in Nat /\ Len(LastOf(n, s)) <= n
<1> DEFINE m == IF Len(s) > n THEN Len(s) - n + 1 ELSE 1
           l == Len(s)
<1>1. l \in Nat /\ m \in Nat \ {0} /\ l - m + 1 <= n /\ l - m + 1 <= l
  BY LenProperties
<1>2. \A i \in m..l : s[i] \in S
  BY <1>1, ElementOfSeq
<1> HIDE DEF m, l
<1>3. SubSeq(s, m, l) \in Seq(S) /\ Len(SubSeq(s, m, l)) = IF m <= l THEN l - m + 1 ELSE 0
  BY <1>1, <1>2, SubSeqProperties
<1>4. LastOf(n, s) = SubSeq(s, m, l)
  BY DEF LastOf, m, l
<1> QED
  BY <1>1, <1>3, <1>4

\* What is left of a sequence when one of its elements is removed.
LEMMA RemoveAtShifts ==
  ASSUME NEW S, NEW s \in Seq(S), NEW k \in 1..Len(s)
  PROVE  /\ Len(s) \in Nat /\ RemoveAt(s, k) \in Seq(S) /\ Len(RemoveAt(s, k)) = Len(s) - 1
         /\ \A i \in 1..(Len(s) - 1) : RemoveAt(s, k)[i] = IF i < k THEN s[i] ELSE s[i + 1]
<1> DEFINE l == Len(s)
           a == SubSeq(s, 1, k - 1)
           b == SubSeq(s, k + 1, l)
<1>1. l \in Nat /\ k \in 1..l /\ \A i \in 1..l : s[i] \in S
  BY LenProperties, ElementOfSeq
<1> HIDE DEF l
<1>2. a \in Seq(S) /\ Len(a) = k - 1 /\ \A i \in 1..(k - 1) : a[i] = s[i]
  <2>1. \A i \in 1..(k - 1) : s[i] \in S
    BY <1>1
  <2>2. /\ a \in Seq(S) /\ Len(a) = (IF 1 <= k - 1 THEN (k - 1) - 1 + 1 ELSE 0)
        /\ \A i \in 1..((k - 1) - 1 + 1) : a[i] = s[1 + i - 1]
    BY <1>1, <2>1, SubSeqProperties
  <2> HIDE DEF a
  <2>3. \A i \in 1..(k - 1) : 1 + i - 1 = i /\ i \in 1..((k - 1) - 1 + 1)
    BY <1>1
  <2> QED
    BY <1>1, <2>2, <2>3
<1>3. b \in Seq(S) /\ Len(b) = l - k /\ \A i \in 1..(l - k) : b[i] = s[k + i]
  <2>1. \A i \in (k + 1)..l : s[i] \in S
    BY <1>1
  <2>2. /\ b \in Seq(S) /\ Len(b) = (IF k + 1 <= l THEN l - (k + 1) + 1 ELSE 0)
        /\ \A i \in 1..(l - (k + 1) + 1) : b[i] = s[(k + 1) + i - 1]
    BY <1>1, <2>1, SubSeqProperties
  <2> HIDE DEF b
  <2>3. \A i \in 1..(l - k) : (k + 1) + i - 1 = k + i /\ i \in 1..(l - (k + 1) + 1)
    BY <1>1
  <2> QED
    BY <1>1, <2>2, <2>3
<1>4. RemoveAt(s, k) = a \o b
  BY DEF RemoveAt, l
<1> HIDE DEF a, b
<1>5. /\ a \o b \in Seq(S) /\ Len(a \o b) = l - 1
      /\ \A i \in 1..(l - 1) : (a \o b)[i] = IF i <= k - 1 THEN a[i] ELSE b[i - (k - 1)]
  <2>1. /\ a \o b \in Seq(S) /\ Len(a \o b) = Len(a) + Len(b)
        /\ \A i \in 1..Len(a) + Len(b) : (a \o b)[i] = IF i <= Len(a) THEN a[i] ELSE b[i - Len(a)]
    BY <1>2, <1>3, ConcatProperties
  <2> QED
    BY <1>1, <1>2, <1>3, <2>1
<1>6. ASSUME NEW i \in 1..(l - 1) PROVE (a \o b)[i] = IF i < k THEN s[i] ELSE s[i + 1]
  <2>1. CASE i < k
    BY <1>1, <1>2, <1>5, <2>1
  <2>2. CASE ~(i < k)
    <3>1. i - (k - 1) \in 1..(l - k) /\ k + (i - (k - 1)) = i + 1
      BY <1>1, <2>2
    <3> QED
      BY <1>1, <1>3, <1>5, <2>2, <3>1
  <2> QED
    BY <2>1, <2>2
<1> QED
  BY <1>1, <1>4, <1>5, <1>6 DEF l

\* Each tab is open once and has a scroll position; each open service has a seen count.
TabsInv ==
  /\ tabs \in Seq(Service \cup {All}) /\ scroll \in Seq(Nat)
  /\ \A i, j \in 1..Len(tabs) : tabs[i] = tabs[j] => i = j
  /\ Len(scroll) = Len(tabs) /\ active \in 1..Len(tabs)
  /\ tabs[1] = All /\ DOMAIN seen = Elements(tabs) \ {All}
  /\ seen \in [DOMAIN seen -> Nat]

ViewInv ==
  /\ TypeOK /\ TabsInv
  /\ stamp \in [Writer -> Nat] /\ left \in [Writer -> Nat]
  /\ due \in [Writer -> Seq(ServiceStatus)]
  /\ \A w \in Writer : due[w] # <<>> => StoreOf[w] \in Service

\* The active tab is All or a service that is open.
LEMMA TabKinds ==
  ASSUME TabsInv
  PROVE  /\ Len(tabs) \in Nat \ {0} /\ DOMAIN seen \subseteq Service
         /\ ActiveTab \in Service \cup {All} /\ (ActiveTab # All => ActiveTab \in DOMAIN seen)
         /\ Offset \in Nat
<1>1. Len(tabs) \in Nat /\ active \in 1..Len(tabs)
  BY LenProperties DEF TabsInv
<1>2. \A i \in 1..Len(tabs) : tabs[i] \in Service \cup {All}
  BY ElementOfSeq DEF TabsInv
<1>3. Elements(tabs) \subseteq Service \cup {All}
  BY <1>2 DEF Elements
<1>4. ActiveTab \in Elements(tabs) /\ ActiveTab \in Service \cup {All}
  BY <1>1, <1>2 DEF ActiveTab, Elements
<1>5. Offset \in Nat
  BY <1>1, ElementOfSeq DEF Offset, TabsInv
<1> QED
  BY <1>1, <1>3, <1>4, <1>5 DEF TabsInv

\* Every service has a tab at first, after All.
LEMMA ViewInit == Init => ViewInv
<1> SUFFICES ASSUME Init PROVE ViewInv
  OBVIOUS
<1>1. /\ tabs = <<All>> \o Services /\ scroll = [i \in 1..(Len(Services) + 1) |-> 0]
      /\ active = 1 /\ seen = [s \in Service |-> 0]
  BY DEF Init
<1>2. Services \in Seq(Service \cup {All}) /\ <<All>> \in Seq(Service \cup {All}) /\ Len(<<All>>) = 1
  BY ViewAssumption, SeqMonotonic
<1>3. /\ tabs \in Seq(Service \cup {All}) /\ Len(tabs) = Len(Services) + 1 /\ Len(Services) \in Nat
      /\ tabs[1] = All /\ \A i \in 2..Len(tabs) : tabs[i] = Services[i - 1]
  <2>1. Len(Services) \in Nat
    BY <1>2, LenProperties
  <2>2. /\ tabs \in Seq(Service \cup {All}) /\ Len(tabs) = 1 + Len(Services)
        /\ \A i \in 1..1 + Len(Services) :
             tabs[i] = IF i <= 1 THEN <<All>>[i] ELSE Services[i - 1]
    BY <1>1, <1>2, ConcatProperties
  <2> QED
    BY <2>1, <2>2
<1>4. All \notin Service
  BY ViewAssumption DEF Store
<1>5. \A i \in 2..Len(tabs) : i - 1 \in 1..Len(Services) /\ tabs[i] = Services[i - 1] /\ tabs[i] \in Service
  BY <1>3, <1>4 DEF Service
<1>6. \A i, j \in 1..Len(tabs) : tabs[i] = tabs[j] => i = j
  <2> SUFFICES ASSUME NEW i \in 1..Len(tabs), NEW j \in 1..Len(tabs), tabs[i] = tabs[j]
               PROVE  i = j
    OBVIOUS
  <2>1. CASE i = 1 \/ j = 1
    BY <1>3, <1>4, <1>5, <2>1
  <2>2. CASE i \in 2..Len(tabs) /\ j \in 2..Len(tabs)
    <3>1. \A m, n \in 1..Len(Services) : Services[m] = Services[n] => m = n
      BY ViewAssumption
    <3>2. Services[i - 1] = Services[j - 1] /\ i - 1 \in 1..Len(Services) /\ j - 1 \in 1..Len(Services)
      BY <1>5, <2>2
    <3>3. i - 1 = j - 1 /\ i \in Int /\ j \in Int
      BY <1>3, <2>2, <3>1, <3>2
    <3> QED
      BY <3>3
  <2> QED
    BY <1>3, <2>1, <2>2
<1>7. scroll \in Seq(Nat) /\ Len(scroll) = Len(tabs)
  BY <1>1, <1>3
<1>8. Elements(tabs) \ {All} = Service
  <2>1. Elements(tabs) \ {All} \subseteq Service
    BY <1>3, <1>5 DEF Elements
  <2>2. ASSUME NEW i \in 1..Len(Services) PROVE Services[i] \in Elements(tabs)
    <3>1. i + 1 \in 2..Len(tabs) /\ i + 1 \in 1..Len(tabs) /\ (i + 1) - 1 = i
      BY <1>3
    <3> QED
      BY <1>5, <3>1 DEF Elements
  <2> QED
    BY <1>4, <2>1, <2>2 DEF Service
<1>9. TabsInv
  BY <1>1, <1>3, <1>6, <1>7, <1>8 DEF TabsInv
<1>10. \A s \in Store : lines[s] \in Seq(Nat) /\ Len(lines[s]) <= MaxLines
  BY ViewAssumption, EmptySeq DEF Init
<1>11. TypeOK
  BY <1>9, <1>10 DEF Init, TypeOK, TabsInv, ServiceStatus
<1> QED
  BY <1>9, <1>11, ViewAssumption DEF Init, ViewInv

\* The writers change no tab, and the stores stay within their cap.
LEMMA WriterKeeps ==
  ASSUME ViewInv, NEW w \in Writer, WriterStep(w)
  PROVE  ViewInv' /\ UNCHANGED writerFrame
<1> USE DEF ViewInv
<1>0. StoreOf[w] \in Store /\ stamp[w] \in Nat /\ due[w] \in Seq(ServiceStatus)
  BY ViewAssumption
<1>1. UNCHANGED <<tabs, scroll, active, seen, ui, coalescing>> /\ UNCHANGED writerFrame
  BY DEF WriterStep, TakeSeq, CountLine, AppendLine, NotifyRedraw, SetStatus, FinishIfActive,
         writerFrame, appVars
<1>2. TabsInv'
  BY <1>1 DEF TabsInv
<1>3. /\ clock' \in Nat /\ total' \in [Store -> Nat] /\ stamp' \in [Writer -> Nat]
      /\ left' \in [Writer -> Nat] /\ permit' \in BOOLEAN
      /\ status' \in [Service -> ServiceStatus] /\ queued' \subseteq Service
      /\ due' \in [Writer -> Seq(ServiceStatus)]
      /\ \A v \in Writer : due'[v] # <<>> => StoreOf[v] \in Service
      /\ pc' \in [Writer -> {"idle", "count", "append", "notify"}]
  <2>1. CASE TakeSeq(w)
    BY <1>0, <2>1 DEF TakeSeq, TypeOK, statusVars
  <2>2. CASE CountLine(w)
    BY <1>0, <2>2 DEF CountLine, TypeOK, statusVars
  <2>3. CASE AppendLine(w)
    BY <1>0, <2>3 DEF AppendLine, TypeOK, statusVars
  <2>4. CASE NotifyRedraw(w)
    BY <1>0, <2>4 DEF NotifyRedraw, TypeOK, storeVars, statusVars
  <2>5. CASE SetStatus(w) \/ FinishIfActive(w)
    <3>1. due[w] # <<>> /\ due' = [due EXCEPT ![w] = Tail(@)] /\ StoreOf[w] \in Service
      BY <2>5 DEF SetStatus, FinishIfActive
    <3>2. Head(due[w]) \in ServiceStatus /\ Tail(due[w]) \in Seq(ServiceStatus)
      BY <1>0, <3>1, HeadTailProperties
    <3>3. status' = status \/ status' = [status EXCEPT ![StoreOf[w]] = Head(due[w])]
      BY <2>5 DEF SetStatus, FinishIfActive
    <3>4. queued' \subseteq queued /\ (pc' = pc \/ pc' = [pc EXCEPT ![w] = "notify"])
      BY <2>5 DEF SetStatus, FinishIfActive
    <3>5. UNCHANGED <<clock, total, stamp, left, permit>>
      BY <2>5 DEF SetStatus, FinishIfActive, storeVars
    <3>6. status' \in [Service -> ServiceStatus] /\ queued' \subseteq Service
          /\ pc' \in [Writer -> {"idle", "count", "append", "notify"}]
      <4>1. /\ status \in [Service -> ServiceStatus] /\ queued \subseteq Service
            /\ pc \in [Writer -> {"idle", "count", "append", "notify"}]
        BY DEF TypeOK
      <4>2. status' \in [Service -> ServiceStatus]
        BY <3>1, <3>2, <3>3, <4>1
      <4>3. queued' \subseteq Service /\ pc' \in [Writer -> {"idle", "count", "append", "notify"}]
        BY <3>4, <4>1
      <4> QED
        BY <4>2, <4>3
    <3>7. /\ due' \in [Writer -> Seq(ServiceStatus)]
          /\ \A v \in Writer : due'[v] # <<>> => StoreOf[v] \in Service
      <4>1. due' = [due EXCEPT ![w] = Tail(due[w])]
        BY <3>1
      <4> QED
        BY <3>1, <3>2, <4>1
    <3> QED
      BY <3>5, <3>6, <3>7 DEF TypeOK
  <2> QED
    BY <2>1, <2>2, <2>3, <2>4, <2>5 DEF WriterStep
<1>4. ASSUME NEW s \in Store PROVE lines'[s] \in Seq(Nat) /\ Len(lines'[s]) <= MaxLines
  <2>0. lines[s] \in Seq(Nat) /\ Len(lines[s]) <= MaxLines
    BY DEF TypeOK
  <2>1. CASE AppendLine(w)
    <3> DEFINE grown == Append(lines[s], stamp[w])
    <3>1. grown \in Seq(Nat)
      BY <1>0, <2>0, AppendProperties
    <3> HIDE DEF grown
    <3>2. LastOf(MaxLines, grown) \in Seq(Nat) /\ Len(LastOf(MaxLines, grown)) <= MaxLines
      BY <3>1, LastOfFits, ViewAssumption
    <3>3. lines'[s] \in {lines[s], LastOf(MaxLines, grown)}
      BY <2>1 DEF AppendLine, grown
    <3> QED
      BY <2>0, <3>2, <3>3
  <2>2. CASE ~AppendLine(w)
    BY <2>0, <2>2 DEF WriterStep, TakeSeq, CountLine, NotifyRedraw, SetStatus, FinishIfActive, storeVars
  <2> QED
    BY <2>1, <2>2
<1>5. TypeOK'
  BY <1>1, <1>3, <1>4 DEF TypeOK
<1> QED
  BY <1>1, <1>2, <1>3, <1>5

\* What the loop's own steps leave alone.
LEMMA LoopFrame ==
  ASSUME ViewInv, uiFrame' = uiFrame, TabsInv',
         ui' \in {"clamp", "seen", "print", "bar", "seqs", "tail", "show", "wait"},
         permit' \in BOOLEAN, coalescing' \in BOOLEAN
  PROVE  ViewInv'
<1> USE DEF ViewInv
<1>1. UNCHANGED <<clock, total, lines, status, queued, pc, stamp, left, due>>
  BY DEF uiFrame, storeVars, statusVars, writerVars
<1>2. Len(scroll') = Len(tabs') /\ active' \in 1..Len(tabs') /\ tabs'[1] = All
      /\ DOMAIN seen' = Elements(tabs') \ {All}
  BY DEF TabsInv
<1> QED
  BY <1>1, <1>2 DEF TypeOK

\* What a tab holds is a number of lines.
LEMMA ContentIsNumber == ASSUME ViewInv PROVE ContentLen \in Nat
<1> USE DEF ViewInv
<1>1. \A s \in Store : Len(lines[s]) \in Nat
  BY LenProperties DEF TypeOK
<1> DEFINE sizes == [s \in Store |-> Len(lines[s])]
<1>2. sizes \in [Store -> Nat]
  BY <1>1
<1>3. SumOf(sizes) \in Nat
  <2> HIDE DEF sizes
  <2>1. \A s \in Store : sizes[s] <= sizes[s]
    BY <1>2
  <2> QED
    BY <1>2, <2>1, SumGrows
<1>4. ActiveTab = All \/ ActiveTab \in Store
  BY TabKinds DEF Store
<1> QED
  BY <1>1, <1>3, <1>4 DEF ContentLen

\* Scrolling moves the active tab and no other.
LEMMA ScrollActive ==
  ASSUME TabsInv, NEW n \in Nat, scroll' = [scroll EXCEPT ![active] = n],
         UNCHANGED <<tabs, active, seen>>
  PROVE  TabsInv' /\ \A t \in DOMAIN seen : t # ActiveTab => OffsetOf(t)' = OffsetOf(t)
<1>1. /\ scroll' \in Seq(Nat) /\ Len(scroll') = Len(scroll)
      /\ \A i \in 1..Len(scroll) : i # active => scroll'[i] = scroll[i]
  <2>1. scroll \in Seq(Nat) /\ active \in 1..Len(scroll)
    BY DEF TabsInv
  <2> QED
    BY <2>1, ExceptSeq
<1>2. TabsInv'
  BY <1>1 DEF TabsInv
<1>3. ASSUME NEW t \in DOMAIN seen, t # ActiveTab PROVE OffsetOf(t)' = OffsetOf(t)
  <2> DEFINE i == CHOOSE j \in 1..Len(tabs) : tabs[j] = t
  <2>1. t \in Elements(tabs)
    BY <1>3 DEF TabsInv
  <2>2. i \in 1..Len(tabs) /\ tabs[i] = t
    BY <2>1 DEF Elements
  <2>3. OffsetOf(t)' = scroll'[i] /\ OffsetOf(t) = scroll[i]
    BY DEF OffsetOf
  <2> HIDE DEF i
  <2> QED
    BY <1>1, <1>3, <2>2, <2>3 DEF TabsInv, ActiveTab
<1> QED
  BY <1>2, <1>3

\* Closing the active tab moves the tabs after it, and each takes its position along.
LEMMA CloseKeeps ==
  ASSUME TabsInv, ActiveTab # All, tabs' = RemoveAt(tabs, active),
         scroll' = RemoveAt(scroll, active),
         seen' = [s \in DOMAIN seen \ {ActiveTab} |-> seen[s]],
         active' = Least(active, Len(tabs) - 1)
  PROVE  /\ TabsInv' /\ Len(tabs') = Len(tabs) - 1
         /\ \A t \in DOMAIN seen' : OffsetOf(t)' = OffsetOf(t)
<1> DEFINE n == Len(tabs)
<1>1. n \in Nat \ {0} /\ active \in 1..n /\ active # 1 /\ Len(scroll) = n
  BY TabKinds DEF TabsInv, ActiveTab
<1>2. /\ tabs' \in Seq(Service \cup {All}) /\ Len(tabs') = n - 1
      /\ \A i \in 1..(n - 1) : tabs'[i] = IF i < active THEN tabs[i] ELSE tabs[i + 1]
  <2>1. tabs \in Seq(Service \cup {All}) /\ active \in 1..Len(tabs)
    BY DEF TabsInv
  <2> QED
    BY <2>1, RemoveAtShifts
<1>3. /\ scroll' \in Seq(Nat) /\ Len(scroll') = n - 1
      /\ \A i \in 1..(n - 1) : scroll'[i] = IF i < active THEN scroll[i] ELSE scroll[i + 1]
  <2>1. scroll \in Seq(Nat) /\ active \in 1..Len(scroll)
    BY DEF TabsInv
  <2> QED
    BY <1>1, <2>1, RemoveAtShifts
<1> HIDE DEF n
<1>4. \A i, j \in 1..n : tabs[i] = tabs[j] => i = j
  BY DEF TabsInv, n
<1>5. \A i, j \in 1..(n - 1) : tabs'[i] = tabs'[j] => i = j
  <2> SUFFICES ASSUME NEW i \in 1..(n - 1), NEW j \in 1..(n - 1), tabs'[i] = tabs'[j]
               PROVE  i = j
    OBVIOUS
  <2> DEFINE Was(k) == IF k < active THEN k ELSE k + 1
  <2>1. Was(i) \in 1..n /\ Was(j) \in 1..n /\ tabs'[i] = tabs[Was(i)] /\ tabs'[j] = tabs[Was(j)]
    BY <1>1, <1>2
  <2>2. Was(i) = Was(j)
    BY <1>4, <2>1
  <2> QED
    BY <1>1, <2>2
<1>6. active' \in 1..(n - 1) /\ tabs'[1] = All
  <2>1. n - 1 \in Nat \ {0} /\ 1 < active /\ 1 \in 1..(n - 1)
    BY <1>1
  <2>2. active' = (IF active < n - 1 THEN active ELSE n - 1)
    BY DEF Least, n
  <2>3. active' \in 1..(n - 1)
    BY <1>1, <2>1, <2>2
  <2>4. tabs'[1] = tabs[1] /\ tabs[1] = All
    BY <1>2, <2>1 DEF TabsInv
  <2> QED
    BY <2>3, <2>4
<1>7. Elements(tabs') = Elements(tabs) \ {ActiveTab}
  <2>1. ASSUME NEW i \in 1..(n - 1) PROVE tabs'[i] \in Elements(tabs) \ {ActiveTab}
    <3> DEFINE k == IF i < active THEN i ELSE i + 1
    <3>1. k \in 1..n /\ k # active /\ tabs'[i] = tabs[k]
      BY <1>1, <1>2
    <3> HIDE DEF k
    <3>2. tabs[k] # tabs[active] /\ tabs[k] \in Elements(tabs)
      BY <1>1, <1>4, <3>1 DEF Elements, n
    <3> QED
      BY <3>1, <3>2 DEF ActiveTab
  <2>2. ASSUME NEW k \in 1..n, k # active PROVE \E i \in 1..(n - 1) : tabs'[i] = tabs[k]
    <3>1. CASE k < active
      BY <1>1, <1>2, <2>2, <3>1
    <3>2. CASE k > active
      <4>1. k - 1 \in 1..(n - 1) /\ ~(k - 1 < active) /\ (k - 1) + 1 = k
        BY <1>1, <3>2
      <4> QED
        BY <1>2, <4>1
    <3> QED
      BY <1>1, <2>2, <3>1, <3>2
  <2>3. \A t \in Elements(tabs) \ {ActiveTab} : \E k \in 1..n : k # active /\ tabs[k] = t
    <3>1. Elements(tabs) = {tabs[k] : k \in 1..n} /\ ActiveTab = tabs[active]
      BY DEF Elements, ActiveTab, n
    <3> QED
      BY <3>1
  <2>4. \A t \in Elements(tabs) \ {ActiveTab} : \E i \in 1..(n - 1) : tabs'[i] = t
    BY <2>2, <2>3
  <2>5. Elements(tabs') = {tabs'[i] : i \in 1..(n - 1)}
    BY <1>2 DEF Elements
  <2> QED
    BY <2>1, <2>4, <2>5
<1>8. TabsInv'
  <2>1. /\ DOMAIN seen' = Elements(tabs') \ {All} /\ seen' \in [DOMAIN seen' -> Nat]
    BY <1>7 DEF TabsInv
  <2> QED
    BY <1>1, <1>2, <1>3, <1>5, <1>6, <2>1 DEF TabsInv
<1>9. ASSUME NEW t \in DOMAIN seen' PROVE OffsetOf(t)' = OffsetOf(t)
  <2> DEFINE i == CHOOSE j \in 1..Len(tabs') : tabs'[j] = t
             k == CHOOSE j \in 1..Len(tabs) : tabs[j] = t
             was == IF i < active THEN i ELSE i + 1
  <2>1. t \in Elements(tabs') /\ t \in Elements(tabs)
    BY <1>8, <1>7 DEF TabsInv
  <2>2. i \in 1..(n - 1) /\ tabs'[i] = t /\ k \in 1..n /\ tabs[k] = t
    BY <1>2, <2>1 DEF Elements, n
  <2>3. OffsetOf(t)' = scroll'[i] /\ OffsetOf(t) = scroll[k]
    BY DEF OffsetOf
  <2> HIDE DEF i, k
  <2>4. was \in 1..n /\ tabs[was] = t /\ scroll'[i] = scroll[was]
    BY <1>1, <1>2, <1>3, <2>2
  <2>5. was = k
    BY <1>4, <2>2, <2>4
  <2> QED
    BY <2>3, <2>4, <2>5
<1> QED
  BY <1>2, <1>8, <1>9 DEF n

\* What ScrollStaysWithTab says of a step.
Moved == \A t \in DOMAIN seen \cap DOMAIN seen' : t # ActiveTab => OffsetOf(t)' = OffsetOf(t)

\* The loop clamps the active tab and marks services seen; the frame changes no tab.
LEMMA LoopKeeps ==
  ASSUME ViewInv, LoopStep
  PROVE  ViewInv' /\ Moved
<1> USE DEF ViewInv
<1>0. /\ permit \in BOOLEAN /\ coalescing \in BOOLEAN /\ TabsInv
      /\ ui \in {"clamp", "seen", "print", "bar", "seqs", "tail", "show", "wait"}
  BY DEF TypeOK
<1>1. CASE ClampScroll
  <2> DEFINE n == IF Offset = 0 \/ Offset + Height <= ContentLen THEN Offset
                  ELSE Least(Offset, IF ContentLen > Height THEN ContentLen - Height ELSE 0)
  <2>1. n \in Nat
    BY TabKinds, ContentIsNumber, ViewAssumption DEF Least
  <2>2. scroll' = [scroll EXCEPT ![active] = n]
    BY <1>1 DEF ClampScroll, Offset
  <2>3. /\ UNCHANGED <<uiFrame, permit, tabs, active, seen, coalescing>> /\ ui' = "seen"
    BY <1>1 DEF ClampScroll
  <2> HIDE DEF n
  <2>4. TabsInv' /\ Moved
    BY <2>1, <2>2, <2>3, ScrollActive DEF Moved
  <2> QED
    BY <1>0, <2>3, <2>4, LoopFrame
<1>2. CASE MarkSeen
  <2>1. UNCHANGED <<uiFrame, permit, tabs, scroll, active, coalescing>> /\ ui' = "print"
    BY <1>2 DEF MarkSeen
  <2>2. DOMAIN seen' = DOMAIN seen /\ seen' \in [DOMAIN seen -> Nat]
    BY <1>2, TabKinds DEF MarkSeen, TabsInv, TypeOK, Store
  <2>3. TabsInv'
    BY <2>1, <2>2 DEF TabsInv
  <2>4. Moved
    BY <2>1 DEF Moved, OffsetOf
  <2> QED
    BY <1>0, <2>1, <2>3, <2>4, LoopFrame
<1>3. CASE ~ClampScroll /\ ~MarkSeen
  <2>1. /\ UNCHANGED <<uiFrame, appVars>> /\ permit' \in BOOLEAN /\ coalescing' \in BOOLEAN
        /\ ui' \in {"clamp", "seen", "print", "bar", "seqs", "tail", "show", "wait"}
    <3>1. CASE CheckFingerprint
      BY <1>0, <3>1 DEF CheckFingerprint
    <3>2. CASE RenderTabs
      BY <1>0, <3>2 DEF RenderTabs
    <3>3. CASE TailSeqs
      BY <1>0, <3>3 DEF TailSeqs
    <3>4. CASE TailLines
      BY <1>0, <3>4 DEF TailLines
    <3>5. CASE Draw
      BY <1>0, <3>5 DEF Draw
    <3>6. CASE Notified
      BY <1>0, <3>6 DEF Notified
    <3>7. CASE CoalesceElapsed
      BY <1>0, <3>7 DEF CoalesceElapsed
    <3> QED
      BY <1>3, <3>1, <3>2, <3>3, <3>4, <3>5, <3>6, <3>7 DEF LoopStep
  <2>2. UNCHANGED <<tabs, scroll, active, seen>>
    BY <2>1 DEF appVars
  <2>3. TabsInv' /\ Moved
    BY <2>2 DEF TabsInv, Moved, OffsetOf
  <2> QED
    BY <2>1, <2>3, LoopFrame
<1> QED
  BY <1>1, <1>2, <1>3

\* A key moves to a tab that exists, scrolls it, closes it or restarts its service.
LEMMA KeyKeeps ==
  ASSUME ViewInv, SwitchTab \/ ScrollTab \/ CloseActive \/ RestartActive
  PROVE  ViewInv' /\ Moved
<1> USE DEF ViewInv
<1>0. /\ UNCHANGED <<clock, total, lines, pc, stamp, left, due, coalescing>> /\ ui' = "clamp"
      /\ permit' \in BOOLEAN /\ status' \in [Service -> ServiceStatus] /\ queued' \subseteq Service
  <2>1. UNCHANGED <<clock, total, lines, pc, stamp, left, due, coalescing>> /\ ui' = "clamp"
    BY DEF SwitchTab, ScrollTab, CloseActive, RestartActive, Key, storeVars, writerVars
  <2>2. CASE RestartActive
    <3>1. ActiveTab \in Service /\ "Stopped" \in ServiceStatus
      BY <2>2, TabKinds DEF RestartActive, ServiceStatus
    <3>2. /\ status' = status \/ status' = [status EXCEPT ![ActiveTab] = "Stopped"]
          /\ permit' = permit \/ permit' = TRUE
          /\ queued' = queued \cup {ActiveTab}
      BY <2>2 DEF RestartActive
    <3> QED
      BY <2>1, <3>1, <3>2 DEF TypeOK
  <2>3. CASE SwitchTab \/ ScrollTab \/ CloseActive
    BY <2>1, <2>3 DEF SwitchTab, ScrollTab, CloseActive, statusVars, TypeOK
  <2> QED
    BY <2>2, <2>3
<1>1. TabsInv' => ViewInv'
  BY <1>0 DEF TypeOK, TabsInv
<1>2. CASE SwitchTab
  <2>1. UNCHANGED <<tabs, scroll, seen>>
    BY <1>2 DEF SwitchTab
  <2>2. active' \in 1..Len(tabs)
    <3> DEFINE n == Len(tabs)
    <3>1. n \in Nat \ {0} /\ active \in 1..n
      BY TabKinds DEF TabsInv
    <3>2. active' = (active % n) + 1 \/ active' = ((active + n - 2) % n) + 1
      BY <1>2 DEF SwitchTab
    <3> HIDE DEF n, ViewInv
    <3>3. \A k \in Int : k % n \in 0..(n - 1)
      BY <3>1
    <3>4. active \in Int /\ active + n - 2 \in Int
      BY <3>1
    <3>5. active' \in 1..n
      BY <3>1, <3>2, <3>3, <3>4
    <3> QED
      BY <3>5 DEF n
  <2> QED
    BY <1>1, <2>1, <2>2 DEF TabsInv, Moved, OffsetOf
<1>3. CASE ScrollTab
  <2>1. UNCHANGED <<tabs, active, seen>>
    BY <1>3 DEF ScrollTab
  <2>2. PICK n \in {1, Height} :
          scroll' \in {[scroll EXCEPT ![active] = @ + n],
                       [scroll EXCEPT ![active] = IF @ > n THEN @ - n ELSE 0],
                       [scroll EXCEPT ![active] = ScrollToTop],
                       [scroll EXCEPT ![active] = 0]}
    BY <1>3 DEF ScrollTab
  <2>3. n \in Nat /\ scroll[active] \in Nat /\ ScrollToTop \in Nat
    <3>1. MaxLines \in Nat /\ Len(Stores) \in Nat /\ Height \in Nat
      BY ViewAssumption, StoresSeq
    <3> QED
      BY <3>1, TabKinds DEF ScrollToTop, Offset
  <2>4. \E k \in Nat : scroll' = [scroll EXCEPT ![active] = k]
    <3>1. /\ scroll[active] + n \in Nat
          /\ (IF scroll[active] > n THEN scroll[active] - n ELSE 0) \in Nat
          /\ ScrollToTop \in Nat /\ 0 \in Nat
      BY <2>3
    <3> QED
      BY <2>2, <3>1
  <2> QED
    BY <1>1, <2>1, <2>4, ScrollActive DEF Moved
<1>4. CASE CloseActive
  <2>1. TabsInv' /\ \A t \in DOMAIN seen' : OffsetOf(t)' = OffsetOf(t)
    BY <1>4, CloseKeeps DEF CloseActive
  <2> QED
    BY <1>1, <2>1 DEF Moved
<1>5. CASE RestartActive
  <2>1. UNCHANGED <<tabs, scroll, active, seen>>
    BY <1>5 DEF RestartActive, appVars
  <2> QED
    BY <1>1, <2>1 DEF TabsInv, Moved, OffsetOf
<1> QED
  BY <1>2, <1>3, <1>4, <1>5

\* Each step keeps the tabs in order and moves only the active one.
LEMMA ViewStep == ViewInv /\ [Next]_vars => ViewInv' /\ [Moved]_vars
<1> SUFFICES ASSUME ViewInv, [Next]_vars PROVE ViewInv' /\ [Moved]_vars
  OBVIOUS
<1>1. ASSUME NEW w \in Writer, WriterStep(w) PROVE ViewInv' /\ Moved
  <2>1. ViewInv' /\ UNCHANGED writerFrame
    BY <1>1, WriterKeeps
  <2> QED
    BY <2>1 DEF writerFrame, appVars, Moved, OffsetOf
<1>2. CASE LoopStep
  BY <1>2, LoopKeeps
<1>3. CASE SwitchTab \/ ScrollTab \/ CloseActive \/ RestartActive
  BY <1>3, KeyKeeps
<1>4. CASE UNCHANGED vars
  BY <1>4 DEF vars, storeVars, statusVars, writerVars, appVars, ViewInv, TypeOK, TabsInv
<1> QED
  BY <1>1, <1>2, <1>3, <1>4 DEF Next, Rest

\* The invariant of tabs, positions and seen counts that the other theorems rest on.
THEOREM ViewInvariant == Spec => []ViewInv
  BY ViewInit, ViewStep, PTL DEF Spec

\* tabs, scroll and seen stay parallel, whichever tabs are closed, and no store outgrows
\* MAX_LINES, however many services and writers there are.
THEOREM TypeCorrect == Spec => []TypeOK
<1>1. ViewInv => TypeOK
  BY DEF ViewInv
<1> QED
  BY <1>1, ViewInvariant, PTL

\* Scrolling, clamping or closing a tab moves the text of no other.
THEOREM ScrollsStayWithTabs == Spec => ScrollStaysWithTab
<1>1. Spec => [][Moved]_vars
  BY ViewInvariant, ViewStep, PTL DEF Spec
<1> QED
  BY <1>1, PTL DEF ScrollStaysWithTab, Moved

-----------------------------------------------------------------------------
(* Wake-ups: a frame is as new as the last notification taken.             *)

Shown == ui \in {"bar", "seqs", "tail", "show", "wait"}

\* Once the fingerprint is compared it stands, until a line is counted or a status set;
\* that writer then notifies, and the permit stays until the loop goes round.
DrawnInv ==
  Shown /\ ~permit /\ (\A w \in Writer : pc[w] \notin {"append", "notify"}) =>
    last_drawn = Fingerprint

\* The fingerprint depends on the tabs, the totals and the statuses only.
LEMMA SameFingerprint ==
  ASSUME UNCHANGED <<total, status, appVars>>
  PROVE  Fingerprint' = Fingerprint
<1>1. UNCHANGED <<total, status, tabs, scroll, active, seen>>
  BY DEF appVars
<1>2. \A s : HasUnread(s)' = HasUnread(s)
  BY <1>1 DEF HasUnread
<1>3. Offset' = Offset /\ ActiveTab' = ActiveTab
  BY <1>1 DEF Offset, ActiveTab
<1> QED
  BY <1>1, <1>2, <1>3 DEF Fingerprint

\* Whatever changes the fingerprint leads to a notification or to a round of the loop.
LEMMA DrawnStep == ViewInv /\ DrawnInv /\ [Next]_vars => DrawnInv'
<1> SUFFICES ASSUME ViewInv, DrawnInv, [Next]_vars PROVE DrawnInv'
  OBVIOUS
<1>1. ASSUME NEW w \in Writer, WriterStep(w) PROVE DrawnInv'
  <2>0. pc \in [Writer -> {"idle", "count", "append", "notify"}] /\ permit \in BOOLEAN
    BY DEF ViewInv, TypeOK
  <2>1. CASE TakeSeq(w)
    <3>1. /\ UNCHANGED <<total, status, appVars, ui, permit, last_drawn>> /\ pc[w] = "idle"
          /\ pc' = [pc EXCEPT ![w] = "count"]
      BY <2>1 DEF TakeSeq, writerFrame, statusVars
    <3> QED
      BY <2>0, <3>1, SameFingerprint DEF DrawnInv, Shown
  <2>2. CASE CountLine(w)
    BY <2>0, <2>2 DEF CountLine, DrawnInv
  <2>3. CASE AppendLine(w)
    BY <2>0, <2>3 DEF AppendLine, DrawnInv
  <2>4. CASE NotifyRedraw(w)
    BY <2>4 DEF NotifyRedraw, DrawnInv
  <2>5. CASE SetStatus(w)
    BY <2>0, <2>5 DEF SetStatus, DrawnInv
  <2>6. CASE FinishIfActive(w)
    <3>1. CASE pc' = [pc EXCEPT ![w] = "notify"]
      BY <2>0, <3>1 DEF DrawnInv
    <3>2. CASE UNCHANGED <<status, pc>>
      <4>1. UNCHANGED <<total, status, appVars, ui, permit, last_drawn, pc>>
        BY <2>6, <3>2 DEF FinishIfActive, writerFrame, storeVars
      <4> QED
        BY <4>1, SameFingerprint DEF DrawnInv, Shown
    <3> QED
      BY <2>6, <3>1, <3>2 DEF FinishIfActive
  <2> QED
    BY <1>1, <2>1, <2>2, <2>3, <2>4, <2>5, <2>6 DEF WriterStep
<1>2. CASE LoopStep
  <2>1. CASE ClampScroll \/ MarkSeen \/ Notified \/ CoalesceElapsed
    BY <2>1 DEF ClampScroll, MarkSeen, Notified, CoalesceElapsed, DrawnInv, Shown
  <2>2. CASE CheckFingerprint
    <3>1. UNCHANGED <<total, status, appVars>> /\ last_drawn' = Fingerprint
      BY <2>2 DEF CheckFingerprint, uiFrame, storeVars, statusVars, Repaints
    <3> QED
      BY <3>1, SameFingerprint DEF DrawnInv
  <2>3. CASE RenderTabs \/ TailSeqs \/ TailLines \/ Draw
    <3>1. UNCHANGED <<total, status, appVars, last_drawn, permit, pc>> /\ Shown
      BY <2>3 DEF RenderTabs, TailSeqs, TailLines, Draw, uiFrame, storeVars, statusVars, writerVars,
                  Shown
    <3> QED
      BY <3>1, SameFingerprint DEF DrawnInv
  <2> QED
    BY <1>2, <2>1, <2>2, <2>3 DEF LoopStep
<1>3. CASE SwitchTab \/ ScrollTab \/ CloseActive \/ RestartActive
  BY <1>3 DEF SwitchTab, ScrollTab, CloseActive, RestartActive, Key, DrawnInv, Shown
<1>4. CASE UNCHANGED vars
  <2>1. UNCHANGED <<total, status, appVars, last_drawn, permit, pc, ui>>
    BY <1>4 DEF vars, storeVars, statusVars, writerVars
  <2> QED
    BY <2>1, SameFingerprint DEF DrawnInv, Shown
<1> QED
  BY <1>1, <1>2, <1>3, <1>4 DEF Next, Rest

\* A frame without a pending notification is of the present.
THEOREM DrawnInvariant == Spec => []DrawnInv
<1>1. Init => DrawnInv
  BY DEF Init, DrawnInv, Shown
<1> QED
  BY <1>1, ViewInvariant, DrawnStep, PTL DEF Spec

\* No wake-up is lost between the writers and event_loop, whatever the coalesce window and
\* the keys do: when all are at rest, the fingerprint drawn last is the present one.
THEOREM RedrawsNotLost == Spec => []RedrawNotLost
<1>1. DrawnInv => RedrawNotLost
  BY DEF DrawnInv, RedrawNotLost, Quiet, Shown
<1> QED
  BY <1>1, DrawnInvariant, PTL

-----------------------------------------------------------------------------
(* The unread marks of the tab bar.                                        *)

\* The seen count of a service, and the lines of the active tab, as the fingerprint has them.
SeenOf(s) == IF s \in DOMAIN seen THEN seen[s] ELSE 0
LinesOf(t) == IF ActiveTab = All THEN SumOf(t) ELSE t[ActiveTab]
Drawn == last_drawn # <<>>

\* The marks on screen are the ones the last fingerprint promised, ...
Fresh == \A s \in DOMAIN seen : frame.bar[s][2] = last_drawn.bar[s][2]

\* ... or what came in between makes the next fingerprint another one.
Doomed ==
  \/ last_drawn.active # active \/ last_drawn.tabs # Len(tabs)
  \/ last_drawn.lines < LinesOf(total)
  \/ ActiveTab # All /\ \E s \in DOMAIN seen \ {ActiveTab} : HasUnread(s) /\ ~last_drawn.bar[s][2]

Past == last_drawn.lines \in Nat /\ \A s \in Service : last_drawn.bar[s][2] \in BOOLEAN

\* What it was taken of, while nothing is marked seen since.
TakenOf(t) ==
  /\ \A s \in Store : t[s] <= total[s]
  /\ last_drawn.lines = LinesOf(t)
  /\ \A s \in Service : last_drawn.bar[s][2] = (t[s] > SeenOf(s))

BarInv ==
  /\ frame = [bar |-> frame.bar, lines |-> frame.lines]
  /\ Shown => Drawn /\ last_drawn.active = active /\ last_drawn.tabs = Len(tabs)
  /\ Drawn => Past
  /\ ui = "bar" => \E t \in [Store -> Nat] : TakenOf(t)
  /\ ui # "bar" /\ Drawn => Fresh \/ Doomed

\* A fingerprint is never taken for none.
LEMMA FingerprintDrawn == Fingerprint # <<>>
  BY DEF Fingerprint

\* One more line of the active tab makes its count larger.
LEMMA LinesGrow ==
  ASSUME TabsInv, NEW f \in [Store -> Nat], NEW h \in [Store -> Nat], \A s \in Store : f[s] <= h[s]
  PROVE  /\ LinesOf(f) \in Nat /\ LinesOf(f) <= LinesOf(h)
         /\ \A s \in Store : (ActiveTab = All \/ ActiveTab = s) /\ f[s] < h[s] => LinesOf(f) < LinesOf(h)
<1>1. CASE ActiveTab = All
  BY <1>1, SumGrows DEF LinesOf
<1>2. CASE ActiveTab # All
  <2>1. ActiveTab \in Store
    BY <1>2, TabKinds DEF Store
  <2> QED
    BY <1>2, <2>1 DEF LinesOf
<1> QED
  BY <1>1, <1>2

\* Steps that only let lines in, or take the frame further.
LEMMA BarKept ==
  ASSUME ViewInv, ViewInv', BarInv, UNCHANGED <<tabs, active, seen, last_drawn>>,
         frame' = [bar |-> frame'.bar, lines |-> frame'.lines], frame'.bar = frame.bar,
         \A s \in Store : total[s] <= total'[s],
         Shown' => Shown, ui' = "bar" <=> ui = "bar"
  PROVE  BarInv'
<1>0. total \in [Store -> Nat] /\ total' \in [Store -> Nat] /\ DOMAIN seen \subseteq Service /\ TabsInv
  BY TabKinds DEF ViewInv, TypeOK
<1>1. \A f : LinesOf(f)' = LinesOf(f)
  BY DEF LinesOf, ActiveTab
<1>2. Drawn' = Drawn /\ ActiveTab' = ActiveTab /\ Fresh' = Fresh
  BY DEF Drawn, ActiveTab, Fresh
<1>3. Drawn => Past'
  BY DEF BarInv, Past
<1>4. ui = "bar" => \E t \in [Store -> Nat] : TakenOf(t)'
  <2> SUFFICES ASSUME ui = "bar" PROVE \E t \in [Store -> Nat] : TakenOf(t)'
    OBVIOUS
  <2>1. PICK t \in [Store -> Nat] : TakenOf(t)
    BY DEF BarInv
  <2>2. \A s \in Store : t[s] <= total'[s]
    BY <1>0, <2>1 DEF TakenOf
  <2>3. LinesOf(t)' = LinesOf(t)
    BY DEF LinesOf, ActiveTab
  <2>4. \A s : SeenOf(s)' = SeenOf(s)
    BY DEF SeenOf
  <2>5. TakenOf(t)'
    BY <2>1, <2>2, <2>3, <2>4 DEF TakenOf
  <2> QED
    BY <2>5
<1>5. ASSUME Drawn, Doomed PROVE Doomed'
  <2>1. CASE last_drawn.active # active \/ last_drawn.tabs # Len(tabs)
    BY <2>1 DEF Doomed
  <2>3. CASE last_drawn.lines < LinesOf(total)
    <3>1. LinesOf(total) \in Nat /\ LinesOf(total) <= LinesOf(total') /\ LinesOf(total') \in Nat
      <4>1. \A s \in Store : total'[s] <= total'[s]
        BY <1>0
      <4> QED
        BY <1>0, <4>1, LinesGrow
    <3>2. last_drawn.lines \in Nat
      BY <1>5 DEF BarInv, Past
    <3>3. last_drawn.lines < LinesOf(total')
      BY <2>3, <3>1, <3>2
    <3>4. LinesOf(total)' = LinesOf(total')
      BY DEF LinesOf, ActiveTab
    <3> QED
      BY <3>3, <3>4 DEF Doomed
  <2>4. CASE ActiveTab # All /\ \E s \in DOMAIN seen \ {ActiveTab} : HasUnread(s) /\ ~last_drawn.bar[s][2]
    <3>1. PICK s \in DOMAIN seen \ {ActiveTab} : HasUnread(s) /\ ~last_drawn.bar[s][2]
      BY <2>4
    <3>2. s \in Store /\ seen[s] \in Nat
      BY <1>0, <3>1 DEF Store, TabsInv
    <3>3. HasUnread(s)'
      BY <1>0, <3>1, <3>2 DEF HasUnread
    <3> QED
      BY <1>2, <2>4, <3>1, <3>3 DEF Doomed
  <2> QED
    BY <1>5, <2>1, <2>3, <2>4 DEF Doomed
<1> QED
  BY <1>2, <1>3, <1>4, <1>5 DEF BarInv

\* Writers only add lines.
LEMMA WriterBar == ViewInv /\ ViewInv' /\ BarInv /\ (\E w \in Writer : WriterStep(w)) => BarInv'
<1> SUFFICES ASSUME ViewInv, ViewInv', BarInv, NEW w \in Writer, WriterStep(w) PROVE BarInv'
  OBVIOUS
<1>0. total \in [Store -> Nat] /\ StoreOf[w] \in Store
  BY ViewAssumption DEF ViewInv, TypeOK
<1>1. UNCHANGED <<tabs, active, seen, last_drawn, frame, ui>>
  BY WriterKeeps DEF writerFrame, appVars, frameVars
<1>2. total' = total \/ total' = [total EXCEPT ![StoreOf[w]] = @ + 1]
  BY DEF WriterStep, TakeSeq, CountLine, AppendLine, NotifyRedraw, SetStatus, FinishIfActive, storeVars
<1>4. \A s \in Store : total[s] <= total'[s]
  BY <1>0, <1>2
<1>6. frame' = [bar |-> frame'.bar, lines |-> frame'.lines]
  BY <1>1 DEF BarInv
<1> QED
  BY <1>1, <1>4, <1>6, BarKept DEF Shown

\* The tabs and the counts the loop's own steps leave alone.
LEMMA LoopBarKept ==
  ASSUME ViewInv, ViewInv', BarInv, UNCHANGED <<uiFrame, tabs, active, seen, last_drawn>>,
         frame' = [bar |-> frame'.bar, lines |-> frame'.lines], frame'.bar = frame.bar,
         Shown' => Shown, ui' = "bar" <=> ui = "bar"
  PROVE  BarInv'
<1>1. total' = total /\ total \in [Store -> Nat]
  BY DEF uiFrame, storeVars, ViewInv, TypeOK
<1>2. \A s \in Store : total[s] <= total'[s]
  BY <1>1
<1> QED
  BY <1>2, BarKept

\* Marking seen clears no unread mark of a service whose lines are not counted.
LEMMA MarkSeenBar == ViewInv /\ BarInv /\ MarkSeen => BarInv'
<1> SUFFICES ASSUME ViewInv, BarInv, MarkSeen PROVE BarInv'
  OBVIOUS
<1>0. /\ UNCHANGED <<total, tabs, active, frame, last_drawn>> /\ ui = "seen" /\ ui' = "print"
      /\ ActiveTab' = ActiveTab /\ DOMAIN seen' = DOMAIN seen
  BY DEF MarkSeen, uiFrame, storeVars, frameVars, ActiveTab
<1>1. Drawn' = Drawn /\ (Drawn => Past')
  BY <1>0 DEF Drawn, BarInv, Past
<1>2. Fresh' = Fresh
  BY <1>0 DEF Fresh
<1>3. ASSUME Doomed PROVE Doomed'
  <2>1. LinesOf(total)' = LinesOf(total)
    BY <1>0 DEF LinesOf
  <2>2. ASSUME NEW s \in DOMAIN seen \ {ActiveTab}, ActiveTab # All, HasUnread(s) PROVE HasUnread(s)'
    <3>1. seen'[s] = seen[s]
      BY <2>2 DEF MarkSeen
    <3> QED
      BY <1>0, <2>2, <3>1 DEF HasUnread
  <2> QED
    BY <1>0, <1>3, <2>1, <2>2 DEF Doomed
<1> QED
  BY <1>0, <1>1, <1>2, <1>3 DEF BarInv, Shown

\* The fingerprint that is compared is of the present; one that matches was drawn.
LEMMA CheckBar == ViewInv /\ BarInv /\ CheckFingerprint => BarInv'
<1> SUFFICES ASSUME ViewInv, BarInv, CheckFingerprint PROVE BarInv'
  OBVIOUS
<1>0. /\ UNCHANGED <<total, tabs, scroll, active, seen, frame>> /\ ui = "print"
      /\ last_drawn' = Fingerprint /\ ui' \in {"bar", "wait"} /\ (ui' = "wait" => last_drawn' = last_drawn)
  BY DEF CheckFingerprint, Repaints, uiFrame, storeVars, frameVars, appVars
<1>1. total \in [Store -> Nat] /\ TabsInv
  BY DEF ViewInv, TypeOK
<1>2. /\ last_drawn'.active = active /\ last_drawn'.tabs = Len(tabs)
      /\ last_drawn'.lines = LinesOf(total)
      /\ last_drawn'.bar = [s \in Service |-> <<status[s], HasUnread(s)>>]
  BY <1>0 DEF Fingerprint, LinesOf
<1>3. Drawn'
  BY <1>0, FingerprintDrawn DEF Drawn
<1>4. Past'
  <2>1. LinesOf(total) \in Nat
    <3>1. \A s \in Store : total[s] <= total[s]
      BY <1>1
    <3> QED
      BY <1>1, <3>1, LinesGrow
  <2>2. \A s \in Service : HasUnread(s) \in BOOLEAN
    BY DEF HasUnread
  <2>4. \A s \in Service : last_drawn'.bar[s][2] = HasUnread(s)
    BY <1>2
  <2> QED
    BY <1>0, <1>1, <1>2, <2>1, <2>2, <2>4 DEF Past
<1>5. TakenOf(total)'
  <2>1. LinesOf(total)' = LinesOf(total)
    BY <1>0 DEF LinesOf, ActiveTab
  <2>2. \A s \in Service : last_drawn'.bar[s][2] = (total[s] > SeenOf(s))
    BY <1>2 DEF HasUnread, SeenOf
  <2>3. \A s : SeenOf(s)' = SeenOf(s)
    BY <1>0 DEF SeenOf
  <2>4. \A s \in Store : total[s] <= total[s]
    BY <1>1
  <2> QED
    BY <1>0, <1>2, <2>1, <2>2, <2>3, <2>4 DEF TakenOf
<1>6. ui' = "bar" => \E t \in [Store -> Nat] : TakenOf(t)'
  <2>1. TakenOf(total)' => \E t \in [Store -> Nat] : TakenOf(t)'
    BY <1>0, <1>1 DEF TakenOf, LinesOf, ActiveTab
  <2> QED
    BY <1>5, <2>1
<1>7. ui' = "wait" => Fresh' \/ Doomed'
  <2> SUFFICES ASSUME ui' = "wait" PROVE Fresh' \/ Doomed'
    OBVIOUS
  <2>1. last_drawn' = last_drawn /\ Drawn
    BY <1>0, <1>3 DEF Drawn
  <2>2. Fresh \/ Doomed
    BY <1>0, <2>1 DEF BarInv
  <2>3. Fresh' = Fresh
    BY <1>0, <2>1 DEF Fresh
  <2>4. Doomed' = Doomed
    <3>1. LinesOf(total)' = LinesOf(total) /\ ActiveTab' = ActiveTab
      BY <1>0 DEF LinesOf, ActiveTab
    <3>2. \A s : HasUnread(s)' = HasUnread(s)
      BY <1>0 DEF HasUnread
    <3> QED
      BY <1>0, <2>1, <3>1, <3>2 DEF Doomed
  <2> QED
    BY <2>2, <2>3, <2>4
<1> QED
  BY <1>0, <1>2, <1>3, <1>4, <1>6, <1>7 DEF BarInv, Shown

\* What is drawn is the fingerprint's, or what has changed since dooms it.
LEMMA RenderBar == ViewInv /\ BarInv /\ RenderTabs => BarInv'
<1> SUFFICES ASSUME ViewInv, BarInv, RenderTabs PROVE BarInv'
  OBVIOUS
<1>0. /\ UNCHANGED <<total, tabs, scroll, active, seen, last_drawn>> /\ ui = "bar"
      /\ ui' \in {"seqs", "tail"}
      /\ frame' = [bar |-> [s \in DOMAIN seen |-> <<status[s], HasUnread(s)>>], lines |-> <<>>]
  BY DEF RenderTabs, uiFrame, storeVars, appVars
<1>1. total \in [Store -> Nat] /\ TabsInv /\ DOMAIN seen \subseteq Service
  BY TabKinds DEF ViewInv, TypeOK
<1>2. Drawn /\ last_drawn.active = active /\ last_drawn.tabs = Len(tabs) /\ Past
  BY <1>0 DEF BarInv, Shown
<1>3. PICK t \in [Store -> Nat] : TakenOf(t)
  BY <1>0 DEF BarInv
<1>4. ASSUME ~Doomed, NEW s \in DOMAIN seen PROVE HasUnread(s) = last_drawn.bar[s][2]
  <2>0. s \in Service /\ s \in Store /\ SeenOf(s) \in Nat
    BY <1>1 DEF Store, SeenOf, TabsInv
  <2>2. last_drawn.bar[s][2] = (t[s] > SeenOf(s)) /\ t[s] <= total[s]
    BY <1>3, <2>0 DEF TakenOf
  <2>3. HasUnread(s) = (total[s] > SeenOf(s))
    BY DEF HasUnread, SeenOf
  <2>4. last_drawn.bar[s][2] => HasUnread(s)
    <3> SUFFICES ASSUME last_drawn.bar[s][2] PROVE HasUnread(s)
      OBVIOUS
    <3>1. t[s] > SeenOf(s) /\ t[s] <= total[s]
      BY <2>2
    <3>2. t[s] \in Nat /\ total[s] \in Nat
      BY <1>1, <2>0
    <3>3. total[s] > SeenOf(s)
      BY <2>0, <3>1, <3>2
    <3> QED
      BY <2>3, <3>3
  <2>5. HasUnread(s) => last_drawn.bar[s][2]
    <3> SUFFICES ASSUME HasUnread(s), ~last_drawn.bar[s][2] PROVE FALSE
      OBVIOUS
    <3>1. t[s] < total[s]
      BY <1>1, <2>0, <2>2, <2>3
    <3>2. ActiveTab = All \/ ActiveTab = s
      BY <1>4 DEF Doomed
    <3>3. LinesOf(t) < LinesOf(total)
      BY <1>1, <1>3, <2>0, <3>1, <3>2, LinesGrow DEF TakenOf
    <3> QED
      BY <1>3, <1>4, <3>3 DEF TakenOf, Doomed
  <2>6. last_drawn.bar[s][2] = HasUnread(s)
    <3>1. last_drawn.bar[s][2] \in BOOLEAN /\ HasUnread(s) \in BOOLEAN
      BY <1>2, <2>0 DEF Past, HasUnread
    <3> QED
      BY <2>4, <2>5, <3>1
  <2> QED
    BY <2>6
<1>5. ~Doomed => Fresh'
  <2>1. \A s \in DOMAIN seen : frame'.bar[s][2] = HasUnread(s)
    BY <1>0
  <2> QED
    BY <1>0, <1>4, <2>1 DEF Fresh
<1>6. Doomed' = Doomed /\ Past' /\ Drawn'
  <2>1. LinesOf(total)' = LinesOf(total) /\ ActiveTab' = ActiveTab
    BY <1>0 DEF LinesOf, ActiveTab
  <2>2. \A s : HasUnread(s)' = HasUnread(s)
    BY <1>0 DEF HasUnread
  <2>3. Doomed' = Doomed
    BY <1>0, <2>1, <2>2 DEF Doomed
  <2> QED
    BY <1>0, <1>2, <2>3 DEF Past, Drawn
<1> QED
  BY <1>0, <1>2, <1>5, <1>6 DEF BarInv, Shown

\* Each step of the loop keeps it so that the bar drawn is fresh or doomed.
LEMMA LoopBar == ViewInv /\ ViewInv' /\ BarInv /\ LoopStep => BarInv'
<1> SUFFICES ASSUME ViewInv, ViewInv', BarInv, LoopStep PROVE BarInv'
  OBVIOUS
<1>0. frame = [bar |-> frame.bar, lines |-> frame.lines]
  BY DEF BarInv
<1>1. CASE ClampScroll \/ Notified \/ CoalesceElapsed
  <2>1. UNCHANGED <<uiFrame, tabs, active, seen, last_drawn, frame>>
    BY <1>1 DEF ClampScroll, Notified, CoalesceElapsed, appVars, frameVars
  <2>2. ui' \in {"clamp", "seen"} /\ ui # "bar"
    BY <1>1 DEF ClampScroll, Notified, CoalesceElapsed
  <2> QED
    BY <1>0, <2>1, <2>2, LoopBarKept DEF Shown
<1>2. CASE TailSeqs \/ TailLines \/ Draw
  <2>1. UNCHANGED <<uiFrame, tabs, active, seen, last_drawn>>
    BY <1>2 DEF TailSeqs, TailLines, Draw, appVars
  <2>2. frame' = [bar |-> frame'.bar, lines |-> frame'.lines] /\ frame'.bar = frame.bar
    <3>1. frame' = frame \/ \E l : frame' = [frame EXCEPT !.lines = l]
      BY <1>2 DEF TailSeqs, TailLines, Draw
    <3> QED
      BY <1>0, <3>1
  <2>3. Shown /\ ui # "bar" /\ ui' # "bar"
    BY <1>2 DEF TailSeqs, TailLines, Draw, Shown
  <2> QED
    BY <2>1, <2>2, <2>3, LoopBarKept
<1> QED
  BY <1>1, <1>2, MarkSeenBar, CheckBar, RenderBar DEF LoopStep

\* A tab switched to or closed is told by the next fingerprint.
LEMMA KeyBar ==
  ASSUME ViewInv, ViewInv', BarInv, SwitchTab \/ ScrollTab \/ CloseActive \/ RestartActive
  PROVE  BarInv'
<1>0. /\ UNCHANGED <<total, frame, last_drawn>> /\ ui = "wait" /\ ui' = "clamp"
  BY DEF SwitchTab, ScrollTab, CloseActive, RestartActive, Key, storeVars, frameVars
<1>1. Drawn /\ Drawn' /\ Past' /\ last_drawn.active = active /\ last_drawn.tabs = Len(tabs)
  BY <1>0 DEF BarInv, Shown, Past, Drawn
<1>2. Fresh' \/ Doomed'
  <2>1. CASE CloseActive
    <3>1. Len(tabs') = Len(tabs) - 1 /\ Len(tabs) \in Nat
      BY <2>1, CloseKeeps, TabKinds DEF CloseActive, ViewInv
    <3>2. last_drawn'.tabs # Len(tabs')
      BY <1>0, <1>1, <3>1
    <3> QED
      BY <3>2 DEF Doomed
  <2>2. CASE SwitchTab \/ ScrollTab \/ RestartActive
    <3>1. UNCHANGED <<tabs, seen>>
      BY <2>2 DEF SwitchTab, ScrollTab, RestartActive, appVars
    <3>2. CASE active' # active
      BY <1>0, <1>1, <3>2 DEF Doomed
    <3>3. CASE active' = active
      <4>1. LinesOf(total)' = LinesOf(total) /\ ActiveTab' = ActiveTab
        BY <1>0, <3>1, <3>3 DEF LinesOf, ActiveTab
      <4>2. \A s : HasUnread(s)' = HasUnread(s)
        BY <1>0, <3>1 DEF HasUnread
      <4>3. Doomed' = Doomed
        BY <1>0, <3>1, <3>3, <4>1, <4>2 DEF Doomed
      <4>4. Fresh' = Fresh
        BY <1>0, <3>1 DEF Fresh
      <4> QED
        BY <1>0, <1>1, <4>3, <4>4 DEF BarInv
    <3> QED
      BY <3>2, <3>3
  <2> QED
    BY <2>1, <2>2
<1> QED
  BY <1>0, <1>1, <1>2 DEF BarInv, Shown

\* So does every step.
LEMMA BarStep == ViewInv /\ ViewInv' /\ BarInv /\ [Next]_vars => BarInv'
<1> SUFFICES ASSUME ViewInv, ViewInv', BarInv, [Next]_vars PROVE BarInv'
  OBVIOUS
<1>1. CASE UNCHANGED vars
  <2>1. UNCHANGED <<uiFrame, tabs, active, seen, last_drawn, frame, ui>>
    BY <1>1 DEF vars, appVars, frameVars, uiFrame
  <2>2. frame' = [bar |-> frame'.bar, lines |-> frame'.lines]
    BY <2>1 DEF BarInv
  <2> QED
    BY <2>1, <2>2, LoopBarKept DEF Shown
<1> QED
  BY <1>1, WriterBar, LoopBar, KeyBar DEF Next, Rest

\* A bar that shows anything else than the last fingerprint does not survive the next.
THEOREM BarInvariant == Spec => []BarInv
<1>1. Init => BarInv
  BY DEF Init, BarInv, Shown, Drawn
<1> QED
  BY <1>1, ViewInvariant, BarStep, PTL DEF Spec

\* The unread marks that tabs::render reads after the fingerprint, while lines come in, are
\* never left stale by the comparison: at rest they are those of the present.
THEOREM UnreadMarksCurrent == Spec => []UnreadCurrent
<1>1. ASSUME ViewInv, DrawnInv, BarInv PROVE UnreadCurrent
  <2> SUFFICES ASSUME Quiet PROVE \A s \in DOMAIN seen : frame.bar[s][2] = HasUnread(s)
    BY DEF UnreadCurrent
  <2>1. last_drawn = Fingerprint /\ Shown /\ ui # "bar"
    BY <1>1 DEF DrawnInv, Quiet, Shown
  <2>2. Fresh \/ Doomed
    BY <1>1, <2>1 DEF BarInv
  <2>3. /\ last_drawn.active = active /\ last_drawn.tabs = Len(tabs)
        /\ last_drawn.lines = LinesOf(total)
        /\ last_drawn.bar = [s \in Service |-> <<status[s], HasUnread(s)>>]
    BY <2>1 DEF Fingerprint, LinesOf
  <2>4. DOMAIN seen \subseteq Service
    BY <1>1, TabKinds DEF ViewInv
  <2>5. \A s \in Service : last_drawn.bar[s][2] = HasUnread(s)
    BY <2>3
  <2>6. last_drawn.lines \in Nat
    BY <1>1, <2>1 DEF BarInv, Past
  <2>7. ~Doomed
    BY <2>3, <2>4, <2>5, <2>6 DEF Doomed
  <2> QED
    BY <2>2, <2>4, <2>5, <2>7 DEF Fresh
<1> QED
  BY <1>1, ViewInvariant, DrawnInvariant, BarInvariant, PTL

-----------------------------------------------------------------------------
(* The merged view: sets in order.                                         *)

\* The members of a finite set of numbers are told apart by how many are below each.
LEMMA Ranks ==
  ASSUME NEW S \in SUBSET Nat, IsFiniteSet(S)
  PROVE  /\ Cardinality(S) \in Nat
         /\ \A n \in S : Below(S, n) \in 0..(Cardinality(S) - 1)
         /\ \A m, n \in S : m < n => Below(S, m) < Below(S, n)
         /\ \A i \in 0..(Cardinality(S) - 1) : \E n \in S : Below(S, n) = i
<1> DEFINE k == Cardinality(S)
           under(n) == {m \in S : m < n}
           r == [n \in S |-> Cardinality(under(n))]
<1>0. \A n \in S : n \in Nat
  OBVIOUS
<1>1. k \in Nat
  BY FS_CardinalityType
<1>2. ASSUME NEW n \in S
      PROVE  IsFiniteSet(under(n)) /\ Cardinality(under(n)) \in 0..(k - 1)
  <2>1. IsFiniteSet(S \ {n}) /\ Cardinality(S \ {n}) = k - 1
    BY <1>2, FS_RemoveElement
  <2>2. under(n) \in SUBSET (S \ {n})
    OBVIOUS
  <2>3. IsFiniteSet(under(n)) /\ Cardinality(under(n)) <= k - 1
    BY <2>1, <2>2, FS_Subset
  <2>4. Cardinality(under(n)) \in Nat
    BY <2>3, FS_CardinalityType
  <2> QED
    BY <1>1, <2>3, <2>4
<1>3. ASSUME NEW m \in S, NEW n \in S, m < n
      PROVE  Cardinality(under(m)) < Cardinality(under(n))
  <2>0. m \in Nat /\ n \in Nat /\ m < n
    BY <1>0, <1>3
  <2>1. under(m) \in SUBSET under(n) /\ m \in under(n) /\ m \notin under(m)
    <3>1. \A x \in S : x < m => x < n
      BY <1>0, <2>0
    <3>2. ~(m < m)
      BY <2>0
    <3> QED
      BY <2>0, <3>1, <3>2
  <2>2. Cardinality(under(m)) <= Cardinality(under(n)) /\ Cardinality(under(m)) # Cardinality(under(n))
    <3> HIDE DEF under
    <3> QED
      BY <1>2, <2>1, FS_Subset
  <2>3. Cardinality(under(m)) \in Nat /\ Cardinality(under(n)) \in Nat
    BY <1>1, <1>2
  <2> QED
    BY <2>2, <2>3
<1>4. r \in Injection(S, 0..(k - 1))
  <2>1. r \in [S -> 0..(k - 1)]
    BY <1>2
  <2>2. ASSUME NEW m \in S, NEW n \in S, r[m] = r[n] PROVE m = n
    <3>0. m \in Nat /\ n \in Nat
      BY <1>0
    <3>1. Cardinality(under(m)) = Cardinality(under(n)) /\ Cardinality(under(n)) \in Nat
      BY <1>1, <1>2, <2>2
    <3>2. ~(m < n) /\ ~(n < m)
      <4> HIDE DEF under
      <4> QED
        BY <1>3, <3>1
    <3> QED
      BY <3>0, <3>2
  <2> QED
    BY <2>1, <2>2 DEF Injection, IsInjective
<1>5. IsFiniteSet(0..(k - 1)) /\ Cardinality(0..(k - 1)) = k
  <2> HIDE DEF k
  <2>1. 0 \in Int /\ k - 1 \in Int
    BY <1>1
  <2>2. IsFiniteSet(0..(k - 1)) /\ Cardinality(0..(k - 1)) = IF 0 > k - 1 THEN 0 ELSE (k - 1) - 0 + 1
    BY <2>1, FS_Interval
  <2> QED
    BY <1>1, <2>2
<1>6. r \in Surjection(S, 0..(k - 1))
  <2> HIDE DEF r
  <2> QED
    BY <1>4, <1>5, FS_Injection
<1>7. \A i \in 0..(k - 1) : \E n \in S : r[n] = i
  BY <1>6 DEF Surjection
<1>8. \A n \in S : Below(S, n) = Cardinality(under(n)) /\ r[n] = Cardinality(under(n))
  BY DEF Below
<1>9. \A i \in 0..(k - 1) : \E n \in S : Below(S, n) = i
  BY <1>7, <1>8
<1> QED
  BY <1>1, <1>2, <1>3, <1>8, <1>9

\* A buffer in seq order.
Increasing(s) == \A i, j \in 1..Len(s) : i < j => s[i] < s[j]

\* What Sorted promises.
LEMMA SortedIs ==
  ASSUME NEW S \in SUBSET Nat, IsFiniteSet(S)
  PROVE  /\ Cardinality(S) \in Nat /\ Sorted(S) \in Seq(S) /\ Len(Sorted(S)) = Cardinality(S)
         /\ Elements(Sorted(S)) = S /\ Increasing(Sorted(S))
         /\ \A i \in 1..Cardinality(S) : Sorted(S)[i] \in S /\ Below(S, Sorted(S)[i]) = i - 1
<1> DEFINE k == Cardinality(S)
           s == Sorted(S)
<1>0. \A n \in S : n \in Nat
  OBVIOUS
<1>1. k \in Nat
  BY Ranks
<1>6. /\ \A n \in S : Below(S, n) \in Nat
      /\ \A m, n \in S : m < n => Below(S, m) < Below(S, n)
  BY <1>1, Ranks
<1>2. ASSUME NEW i \in 1..k PROVE s[i] \in S /\ Below(S, s[i]) = i - 1
  <2>1. i - 1 \in 0..(k - 1)
    BY <1>1
  <2>2. \E n \in S : Below(S, n) = i - 1
    BY <2>1, Ranks
  <2>3. s[i] = CHOOSE n \in S : Below(S, n) = i - 1
    BY DEF Sorted
  <2> QED
    BY <2>2, <2>3
<1>3. s \in Seq(S) /\ Len(s) = k
  <2>1. s = [i \in 1..k |-> s[i]]
    BY DEF Sorted
  <2>2. s \in [1..k -> S]
    <3> HIDE DEF s
    <3> QED
      BY <1>2, <2>1
  <2> HIDE DEF s, k
  <2> QED
    BY <1>1, <2>2, IsASeq
<1>4. Elements(s) = S
  <2>1. Elements(s) \subseteq S
    BY <1>2, <1>3 DEF Elements
  <2>2. ASSUME NEW n \in S PROVE n \in Elements(s)
    <3>1. Below(S, n) \in 0..(k - 1)
      BY Ranks
    <3> DEFINE i == Below(S, n) + 1
    <3>2. i \in 1..k /\ Below(S, s[i]) = Below(S, n) /\ s[i] \in S
      BY <1>1, <1>2, <3>1
    <3> HIDE DEF i, s
    <3>3. s[i] = n
      <4>1. s[i] \in Nat /\ n \in Nat /\ Below(S, n) \in Nat
        BY <1>0, <1>6, <3>2
      <4> QED
        BY <1>6, <3>2, <4>1
    <3> QED
      BY <1>3, <3>2, <3>3 DEF Elements
  <2> QED
    BY <2>1, <2>2
<1>5. Increasing(s)
  <2> SUFFICES ASSUME NEW i \in 1..k, NEW j \in 1..k, i < j PROVE s[i] < s[j]
    BY <1>3 DEF Increasing
  <2>1. s[i] \in S /\ s[j] \in S /\ Below(S, s[i]) < Below(S, s[j])
    BY <1>1, <1>2
  <2> HIDE DEF s
  <2>2. /\ Below(S, s[i]) \in Nat /\ Below(S, s[j]) \in Nat
        /\ s[i] \in Nat /\ s[j] \in Nat
    BY <1>0, <1>6, <2>1
  <2>3. ~(s[j] < s[i]) /\ s[i] # s[j]
    BY <1>6, <2>1, <2>2
  <2> QED
    BY <2>2, <2>3
<1> QED
  BY <1>1, <1>2, <1>3, <1>4, <1>5

-----------------------------------------------------------------------------
(* Tails of a buffer.                                                      *)

LEMMA TailIs ==
  ASSUME NEW S, NEW s \in Seq(S), NEW n \in Nat
  PROVE  /\ Len(s) \in Nat /\ Len(LastOf(n, s)) \in 0..Len(s) /\ LastOf(n, s) \in Seq(S)
         /\ Len(LastOf(n, s)) = IF Len(s) > n THEN n ELSE Len(s)
         /\ \A i \in 1..Len(LastOf(n, s)) : LastOf(n, s)[i] = s[Len(s) - Len(LastOf(n, s)) + i]
         /\ \A x \in Elements(LastOf(n, s)) : \E i \in (Len(s) - Len(LastOf(n, s)) + 1)..Len(s) : x = s[i]
         /\ \A i \in (Len(s) - Len(LastOf(n, s)) + 1)..Len(s) : s[i] \in Elements(LastOf(n, s))
         /\ \A i \in 1..Len(s) : s[i] \in S
<1> DEFINE l == Len(s)
           m == IF l > n THEN l - n + 1 ELSE 1
           t == LastOf(n, s)
           k == IF l > n THEN n ELSE l
<1>1. l \in Nat /\ \A i \in 1..l : s[i] \in S
  BY LenProperties, ElementOfSeq
<1>2. m \in Nat \ {0} /\ k \in 0..l /\ m = l - k + 1
  BY <1>1
<1>3. t = SubSeq(s, m, l)
  BY DEF LastOf
<1>4. \A i \in m..l : s[i] \in S
  BY <1>1, <1>2
<1> HIDE DEF l, m, k, t
<1>5. /\ t \in Seq(S) /\ Len(t) = IF m <= l THEN l - m + 1 ELSE 0
      /\ \A i \in 1..(l - m + 1) : t[i] = s[m + i - 1]
  BY <1>1, <1>2, <1>3, <1>4, SubSeqProperties
<1>6. Len(t) = k /\ \A i \in 1..k : t[i] = s[l - k + i]
  <2>1. Len(t) = k /\ l - m + 1 = k
    BY <1>1, <1>2, <1>5
  <2>2. ASSUME NEW i \in 1..k PROVE t[i] = s[l - k + i]
    <3>1. i \in Nat /\ m + i - 1 = l - k + i
      BY <1>1, <1>2
    <3>2. t[i] = s[m + i - 1]
      BY <1>5, <2>1
    <3> QED
      BY <3>1, <3>2
  <2> QED
    BY <2>1, <2>2
<1>7. /\ \A x \in Elements(t) : \E i \in (l - k + 1)..l : x = s[i]
      /\ \A i \in (l - k + 1)..l : s[i] \in Elements(t)
  <2>1. ASSUME NEW i \in 1..k PROVE \E j \in (l - k + 1)..l : t[i] = s[j]
    <3>1. l - k + i \in (l - k + 1)..l
      BY <1>1, <1>2
    <3> QED
      BY <1>6, <3>1
  <2>2. ASSUME NEW j \in (l - k + 1)..l PROVE \E i \in 1..k : t[i] = s[j]
    <3>1. j - (l - k) \in 1..k /\ l - k + (j - (l - k)) = j
      BY <1>1, <1>2
    <3> QED
      BY <1>6, <3>1
  <2>3. Elements(t) = {t[i] : i \in 1..k}
    BY <1>6 DEF Elements
  <2>4. \A x \in Elements(t) : \E i \in (l - k + 1)..l : x = s[i]
    BY <2>1, <2>3
  <2>5. \A i \in (l - k + 1)..l : s[i] \in Elements(t)
    BY <2>2, <2>3
  <2> QED
    BY <2>4, <2>5
<1> QED
  BY <1>1, <1>2, <1>5, <1>6, <1>7 DEF l, m, k, t

\* The tail has lines of the buffer only.
LEMMA TailWithin ==
  ASSUME NEW S, NEW s \in Seq(S), NEW n \in Nat
  PROVE  Elements(LastOf(n, s)) \subseteq Elements(s)
<1> DEFINE l == Len(s)
           t == LastOf(n, s)
<1>1. /\ l \in Nat /\ Len(t) \in 0..l
      /\ \A x \in Elements(t) : \E i \in (l - Len(t) + 1)..l : x = s[i]
  BY TailIs
<1>2. \A i \in (l - Len(t) + 1)..l : i \in 1..l
  BY <1>1
<1> QED
  BY <1>1, <1>2 DEF Elements

\* An ordered buffer has as many lines as numbers.
LEMMA CountOf ==
  ASSUME NEW s \in Seq(Nat), Increasing(s)
  PROVE  IsFiniteSet(Elements(s)) /\ Cardinality(Elements(s)) = Len(s) /\ Len(s) \in Nat
<1> DEFINE l == Len(s)
           f == [i \in 1..l |-> s[i]]
<1>1. l \in Nat /\ \A i \in 1..l : s[i] \in Nat
  BY LenProperties, ElementOfSeq
<1>2. f \in Bijection(1..l, Elements(s))
  <2>1. f \in [1..l -> Elements(s)]
    BY DEF Elements
  <2>2. ASSUME NEW i \in 1..l, NEW j \in 1..l, f[i] = f[j] PROVE i = j
    <3>1. s[i] = s[j] /\ s[i] \in Nat /\ s[j] \in Nat
      BY <1>1, <2>2
    <3>2. ~(i < j) /\ ~(j < i)
      BY <3>1 DEF Increasing
    <3> QED
      BY <1>1, <3>2
  <2>3. \A x \in Elements(s) : \E i \in 1..l : f[i] = x
    BY DEF Elements
  <2> QED
    BY <2>1, <2>2, <2>3 DEF Bijection, Injection, Surjection, IsInjective
<1>3. IsFiniteSet(1..l) /\ Cardinality(1..l) = l
  <2> HIDE DEF l
  <2>1. 1 \in Int /\ l \in Int
    BY <1>1
  <2>2. IsFiniteSet(1..l) /\ Cardinality(1..l) = IF 1 > l THEN 0 ELSE l - 1 + 1
    BY <2>1, FS_Interval
  <2> QED
    BY <1>1, <2>2
<1>4. ExistsBijection(1..l, Elements(s))
  BY <1>2 DEF ExistsBijection
<1> QED
  BY <1>1, <1>3, <1>4, FS_Bijection

\* No more numbers are found in a part of it than it is long.
LEMMA FewAbove ==
  ASSUME NEW s, NEW a \in Nat, NEW b \in Nat, a <= b,
         NEW T, \A x \in T : \E i \in (a + 1)..b : x = s[i]
  PROVE  IsFiniteSet(T) /\ Cardinality(T) \in Nat /\ Cardinality(T) <= b - a
<1> DEFINE R == {s[i] : i \in (a + 1)..b}
           f == [i \in (a + 1)..b |-> s[i]]
<1>1. IsFiniteSet((a + 1)..b) /\ Cardinality((a + 1)..b) = b - a
  <2>1. a + 1 \in Int /\ b \in Int
    OBVIOUS
  <2>2. /\ IsFiniteSet((a + 1)..b)
        /\ Cardinality((a + 1)..b) = IF a + 1 > b THEN 0 ELSE b - (a + 1) + 1
    BY <2>1, FS_Interval
  <2> QED
    BY <2>2
<1>2. f \in Surjection((a + 1)..b, R)
  BY DEF Surjection
<1>3. IsFiniteSet(R) /\ Cardinality(R) <= b - a
  <2> HIDE DEF f, R
  <2> QED
    BY <1>1, <1>2, FS_Surjection
<1>4. T \in SUBSET R
  OBVIOUS
<1>5. IsFiniteSet(T) /\ Cardinality(T) <= Cardinality(R)
  BY <1>3, <1>4, FS_Subset
<1>6. Cardinality(T) \in Nat /\ Cardinality(R) \in Nat
  BY <1>3, <1>5, FS_CardinalityType
<1> HIDE DEF R
<1> QED
  BY <1>3, <1>5, <1>6

\* The tail of an ordered buffer is ordered.
LEMMA TailIncreases ==
  ASSUME NEW s \in Seq(Nat), Increasing(s), NEW n \in Nat
  PROVE  LastOf(n, s) \in Seq(Nat) /\ Increasing(LastOf(n, s))
<1> DEFINE l == Len(s)
           t == LastOf(n, s)
           k == Len(t)
<1>1. /\ l \in Nat /\ t \in Seq(Nat) /\ k \in 0..l
      /\ \A i \in 1..k : t[i] = s[l - k + i]
  BY TailIs
<1> HIDE DEF t
<1>2. ASSUME NEW i \in 1..k, NEW j \in 1..k, i < j PROVE t[i] < t[j]
  <2>1. l - k + i \in 1..l /\ l - k + j \in 1..l /\ l - k + i < l - k + j
    BY <1>1, <1>2
  <2> QED
    BY <1>1, <2>1 DEF Increasing
<1> QED
  BY <1>1, <1>2 DEF Increasing, t

\* A line that is not in the tail is older than the tail, which is then full.
LEMMA DroppedOlder ==
  ASSUME NEW s \in Seq(Nat), Increasing(s), NEW n \in Nat,
         NEW y \in Elements(s), y \notin Elements(LastOf(n, s))
  PROVE  /\ \A x \in Elements(LastOf(n, s)) : y < x
         /\ Cardinality(Elements(LastOf(n, s))) = n /\ IsFiniteSet(Elements(LastOf(n, s)))
<1> DEFINE l == Len(s)
           t == LastOf(n, s)
           k == Len(t)
<1>1. /\ l \in Nat /\ k \in 0..l /\ k = IF l > n THEN n ELSE l
      /\ \A x \in Elements(t) : \E i \in (l - k + 1)..l : x = s[i]
      /\ \A i \in (l - k + 1)..l : s[i] \in Elements(t)
  BY TailIs
<1>2. IsFiniteSet(Elements(t)) /\ Cardinality(Elements(t)) = Len(t)
  BY TailIncreases, CountOf
<1>3. PICK i \in 1..l : y = s[i]
  BY DEF Elements
<1>4. i <= l - k
  BY <1>1, <1>3
<1>5. k = n
  BY <1>1, <1>3, <1>4
<1>6. ASSUME NEW j \in (l - k + 1)..l PROVE y < s[j]
  <2> HIDE DEF k
  <2>1. i < j /\ j \in 1..l
    BY <1>1, <1>4
  <2> QED
    BY <1>3, <2>1 DEF Increasing
<1> QED
  BY <1>1, <1>2, <1>5, <1>6

\* Where n are newer than y, the last n are.
LEMMA TopIsNewer ==
  ASSUME NEW s \in Seq(Nat), Increasing(s), NEW n \in Nat, NEW y \in Nat,
         n <= Cardinality({x \in Elements(s) : x > y})
  PROVE  /\ \A x \in Elements(LastOf(n, s)) : y < x
         /\ Cardinality(Elements(LastOf(n, s))) = n
<1> DEFINE l == Len(s)
           t == LastOf(n, s)
           k == Len(t)
           T == {x \in Elements(s) : x > y}
<1>1. /\ l \in Nat /\ k \in 0..l /\ k = IF l > n THEN n ELSE l
      /\ \A x \in Elements(t) : \E i \in (l - k + 1)..l : x = s[i]
      /\ \A i \in (l - k + 1)..l : s[i] \in Elements(t)
      /\ \A i \in 1..l : s[i] \in Nat
  <2>1. l \in Nat /\ k \in 0..l /\ k = IF l > n THEN n ELSE l
    BY TailIs
  <2>2. /\ \A x \in Elements(t) : \E i \in (l - k + 1)..l : x = s[i]
        /\ \A i \in (l - k + 1)..l : s[i] \in Elements(t)
    BY TailIs
  <2>3. \A i \in 1..l : s[i] \in Nat
    BY ElementOfSeq
  <2> QED
    BY <2>1, <2>2, <2>3
<1>2. Cardinality(Elements(t)) = Len(t)
  BY TailIncreases, CountOf
<1>3. ASSUME NEW a \in 0..l, \A x \in T : \E i \in (a + 1)..l : x = s[i]
      PROVE  n <= l - a
  <2>1. Cardinality(T) \in Nat /\ Cardinality(T) <= l - a
    <3>1. l \in Nat /\ a \in Nat /\ a <= l
      BY <1>1, <1>3
    <3> HIDE DEF T, l
    <3> QED
      BY <1>3, <3>1, FewAbove
  <2> QED
    BY <1>1, <2>1
<1>4. k = n
  <2>1. \A x \in T : \E i \in (0 + 1)..l : x = s[i]
    BY DEF Elements
  <2>2. n <= l - 0
    BY <1>1, <1>3, <2>1
  <2> QED
    BY <1>1, <2>2
<1>5. ASSUME NEW j \in (l - k + 1)..l PROVE y < s[j]
  <2>1. j \in 1..l /\ s[j] \in Nat /\ ~(n <= l - j)
    BY <1>1, <1>4
  <2>2. SUFFICES ASSUME ~(y < s[j]) PROVE FALSE
    OBVIOUS
  <2>3. ASSUME NEW x \in T PROVE \E i \in (j + 1)..l : x = s[i]
    <3>1. PICK i \in 1..l : x = s[i]
      BY <2>3 DEF Elements
    <3>2. y < s[i] /\ s[i] \in Nat
      BY <1>1, <3>1
    <3>3. ~(i <= j)
      <4>1. i < j => s[i] < s[j]
        BY <2>1, <3>1 DEF Increasing
      <4> QED
        BY <2>1, <2>2, <3>1, <3>2, <4>1
    <3> QED
      BY <2>1, <3>1, <3>3
  <2> QED
    BY <1>1, <1>3, <2>1, <2>3
<1> QED
  BY <1>1, <1>2, <1>4, <1>5

\* A line newer than an ordered buffer keeps it in order.
LEMMA AppendIncreases ==
  ASSUME NEW s \in Seq(Nat), Increasing(s), NEW x \in Nat, \A y \in Elements(s) : y < x
  PROVE  /\ Append(s, x) \in Seq(Nat) /\ Increasing(Append(s, x))
         /\ Len(s) \in Nat /\ Len(Append(s, x)) = Len(s) + 1
         /\ Elements(Append(s, x)) = Elements(s) \cup {x}
<1> DEFINE l == Len(s)
           u == Append(s, x)
<1>1. /\ l \in Nat /\ u \in Seq(Nat) /\ Len(u) = l + 1 /\ u[l + 1] = x
      /\ \A i \in 1..l : u[i] = s[i] /\ s[i] \in Nat
  BY AppendProperties, LenProperties, ElementOfSeq
<1> HIDE DEF u
<1>2. Increasing(u)
  <2> SUFFICES ASSUME NEW i \in 1..(l + 1), NEW j \in 1..(l + 1), i < j PROVE u[i] < u[j]
    BY <1>1 DEF Increasing
  <2>1. i \in 1..l /\ s[i] \in Elements(s)
    BY <1>1 DEF Elements
  <2>2. CASE j = l + 1
    BY <1>1, <2>1, <2>2
  <2>3. CASE j \in 1..l
    BY <1>1, <2>1, <2>3 DEF Increasing
  <2>4. j = l + 1 \/ j \in 1..l
    <3> HIDE DEF l
    <3> QED
      BY <1>1
  <2> QED
    BY <2>2, <2>3, <2>4
<1>3. \A i \in 1..(l + 1) : i \in 1..l \/ i = l + 1
  BY <1>1
<1>4. \A i \in 1..l : i \in 1..(l + 1)
  BY <1>1
<1>5. l + 1 \in 1..(l + 1)
  BY <1>1
<1>6. Elements(u) = Elements(s) \cup {x}
  BY <1>1, <1>3, <1>4, <1>5 DEF Elements
<1> QED
  BY <1>1, <1>2, <1>6 DEF u

\* Past the cap the oldest line makes room for it.
LEMMA AppendTail ==
  ASSUME NEW s \in Seq(Nat), Increasing(s), NEW n \in Nat \ {0}, Len(s) <= n,
         NEW x \in Nat, \A y \in Elements(s) : y < x
  PROVE  LET t == LastOf(n, Append(s, x)) IN
         /\ t \in Seq(Nat) /\ Increasing(t) /\ Elements(t) \subseteq Elements(s) \cup {x}
         /\ Len(s) \in Nat /\ Len(t) \in Nat /\ Len(s) <= Len(t)
<1> DEFINE u == Append(s, x)
           t == LastOf(n, u)
<1>1. /\ u \in Seq(Nat) /\ Increasing(u) /\ Elements(u) = Elements(s) \cup {x}
      /\ Len(s) \in Nat /\ Len(u) = Len(s) + 1
  BY AppendIncreases
<1> HIDE DEF u
<1>2. Len(t) \in 0..Len(u) /\ Len(t) = IF Len(u) > n THEN n ELSE Len(u)
  BY <1>1, TailIs
<1>3. t \in Seq(Nat) /\ Increasing(t) /\ Elements(t) \subseteq Elements(u)
  BY <1>1, TailIncreases, TailWithin
<1> HIDE DEF t
<1>4. Len(t) \in Nat /\ Len(s) <= Len(t)
  BY <1>1, <1>2
<1> QED
  BY <1>1, <1>3, <1>4 DEF t, u

-----------------------------------------------------------------------------
(* The two passes: what is pooled of a store, and what its tail still has.  *)

\* The stores a pass has still to read, as far as the lines taken into the frame go.
Ahead == IF ui = "seqs" THEN Store ELSE Elements(todo)

\* Of a store, from seq c on: the lines pooled, and those now among its last Depth.
PooledOf(o, s, c) == {p \in pooled : o[p] = s /\ p >= c}
TailOf(s, c) == {x \in Elements(LastOf(Depth, lines[s])) : x >= c}

\* The pooled lines that the frame has to account for.
Counted(o) == {p \in pooled : p >= Cutoff /\ o[p] \notin Ahead}
Newer(n) == {x \in Elements(frame.lines) : x > n}

\* o tells of each seq the store its line goes to; a store takes its lines in seq order.
Own(o) ==
  /\ o \in [Nat -> Store] /\ lines \in [Store -> Seq(Nat)]
  /\ \A s \in Store : Increasing(lines[s]) /\ \A x \in Elements(lines[s]) : x < clock /\ o[x] = s
  /\ \A w \in Writer : pc[w] \in {"count", "append"} =>
       /\ stamp[w] < clock /\ o[stamp[w]] = StoreOf[w] /\ stamp[w] \notin pooled
       /\ \A x \in Elements(lines[StoreOf[w]]) : x < stamp[w]
  /\ \A p \in pooled : p \in Nat /\ p < clock

\* Of each store still to be read the tail has as many lines from any seq on as are pooled
\* of it; the frame has as many as are pooled of the others from Cutoff on, and a pooled
\* line of those that is still buffered is in the frame, or Depth newer ones are.
Gathered(o) ==
  /\ todo \in Seq(Store) /\ (\A i, j \in 1..Len(todo) : todo[i] = todo[j] => i = j)
  /\ ui = "show" <=> Len(todo) = 0
  /\ ui = "seqs" => frame.lines = <<>> /\ \A p \in pooled : o[p] \notin Elements(todo)
  /\ frame.lines \in Seq(Nat) /\ Increasing(frame.lines)
  /\ \A x \in Elements(frame.lines) : x < clock /\ x >= Cutoff /\ o[x] \notin Ahead
  /\ \A s \in Ahead, c \in Nat : Cardinality(PooledOf(o, s, c)) <= Cardinality(TailOf(s, c))
  /\ Cardinality(Counted(o)) <= Cardinality(Elements(frame.lines))
  /\ \A n \in Counted(o) : n \in Elements(lines[o[n]]) =>
       n \in Elements(frame.lines) \/ Depth <= Cardinality(Newer(n))

\* An owner that accounts for the stores, the writers and a merge under way.
Gathering == ui \in {"seqs", "tail", "show"}
HoleInv(o) ==
  /\ Own(o)
  /\ (~Gathering => pooled = {}) /\ (ui = "seqs" => ActiveTab = All)
  /\ Gathering /\ ActiveTab = All => Gathered(o)

\* What is pooled and what a tail holds are finite sets of seqs.
LEMMA SetsAreFinite ==
  ASSUME ViewInv, NEW o, Own(o)
  PROVE  /\ IsFiniteSet(pooled) /\ pooled \in SUBSET Nat /\ Depth \in Nat \ {0}
         /\ \A P \in SUBSET pooled : IsFiniteSet(P) /\ Cardinality(P) \in Nat
         /\ \A s \in Store :
              /\ lines[s] \in Seq(Nat) /\ Increasing(lines[s])
              /\ LastOf(Depth, lines[s]) \in Seq(Nat) /\ Increasing(LastOf(Depth, lines[s]))
              /\ Elements(LastOf(Depth, lines[s])) \subseteq Elements(lines[s])
              /\ IsFiniteSet(Elements(LastOf(Depth, lines[s])))
              /\ \A c : TailOf(s, c) \subseteq Nat /\ IsFiniteSet(TailOf(s, c))
                          /\ Cardinality(TailOf(s, c)) \in Nat
<1>1. pooled \in SUBSET Nat /\ clock \in Nat /\ \A p \in pooled : p <= clock
  <2>1. clock \in Nat
    BY DEF ViewInv, TypeOK
  <2>2. \A p \in pooled : p \in Nat /\ p < clock
    BY DEF Own
  <2> QED
    BY <2>1, <2>2
<1>2. IsFiniteSet(pooled)
  BY <1>1, FS_BoundedSetOfNaturals
<1>3. ASSUME NEW P \in SUBSET pooled PROVE IsFiniteSet(P) /\ Cardinality(P) \in Nat
  BY <1>2, FS_Subset, FS_CardinalityType
<1>4. Depth \in Nat \ {0}
  <2>1. Offset \in Nat /\ Height \in Nat \ {0}
    BY TabKinds, ViewAssumption DEF ViewInv
  <2> QED
    BY <2>1 DEF Depth
<1>5. ASSUME NEW s \in Store
      PROVE  /\ lines[s] \in Seq(Nat) /\ Increasing(lines[s])
             /\ LastOf(Depth, lines[s]) \in Seq(Nat) /\ Increasing(LastOf(Depth, lines[s]))
             /\ Elements(LastOf(Depth, lines[s])) \subseteq Elements(lines[s])
             /\ IsFiniteSet(Elements(LastOf(Depth, lines[s])))
             /\ \A c : TailOf(s, c) \subseteq Nat /\ IsFiniteSet(TailOf(s, c))
                         /\ Cardinality(TailOf(s, c)) \in Nat
  <2> DEFINE b == lines[s]
             t == LastOf(Depth, b)
  <2>1. b \in Seq(Nat) /\ Increasing(b)
    BY DEF Own, ViewInv, TypeOK
  <2> HIDE DEF b
  <2>2. t \in Seq(Nat) /\ Increasing(t)
    BY <1>4, <2>1, TailIncreases
  <2>3. Elements(t) \subseteq Elements(b)
    BY <1>4, <2>1, TailWithin
  <2>4. IsFiniteSet(Elements(t)) /\ Elements(t) \subseteq Nat
    <3>1. \A i \in 1..Len(t) : t[i] \in Nat
      BY <2>2, ElementOfSeq
    <3> HIDE DEF t
    <3> QED
      BY <2>2, <3>1, CountOf DEF Elements
  <2>5. ASSUME NEW c
        PROVE  TailOf(s, c) \subseteq Nat /\ IsFiniteSet(TailOf(s, c)) /\ Cardinality(TailOf(s, c)) \in Nat
    <3>1. TailOf(s, c) \in SUBSET Elements(t)
      BY DEF TailOf, b
    <3> QED
      BY <2>4, <3>1, FS_Subset, FS_CardinalityType
  <2> QED
    BY <2>1, <2>2, <2>3, <2>4, <2>5 DEF b
<1> QED
  BY <1>1, <1>2, <1>3, <1>4, <1>5

\* Depth of the pooled lines are from Cutoff on, unless all are.
LEMMA CutoffIs ==
  ASSUME ViewInv, NEW o, Own(o)
  PROVE  /\ Cutoff \in Nat
         /\ Cutoff # 0 => Cardinality({p \in pooled : p >= Cutoff}) = Depth
<1> DEFINE k == Cardinality(pooled)
           d == Depth
           c == Sorted(pooled)[k - d + 1]
           P == {p \in pooled : p >= c}
<1>1. IsFiniteSet(pooled) /\ pooled \in SUBSET Nat /\ d \in Nat \ {0} /\ k \in Nat
  BY SetsAreFinite
<1> HIDE DEF d
<1>2. CASE ~(k > d)
  BY <1>1, <1>2 DEF Cutoff, d
<1>3. CASE k > d
  <2>1. k - d + 1 \in 1..k /\ (k - d + 1) - 1 = k - d
    BY <1>1, <1>3
  <2>2. c \in pooled /\ Below(pooled, c) = k - d
    <3>1. \A i \in 1..k : Sorted(pooled)[i] \in pooled /\ Below(pooled, Sorted(pooled)[i]) = i - 1
      BY <1>1, SortedIs
    <3> HIDE DEF k
    <3> QED
      BY <2>1, <3>1
  <2> HIDE DEF c
  <2>3. c \in Nat /\ \A p \in pooled : p \in Nat
    BY <1>1, <2>2
  <2> DEFINE U == {p \in pooled : p < c}
  <2>4. U \cup P = pooled /\ U \cap P = {}
    BY <2>3
  <2>5. /\ IsFiniteSet(U) /\ IsFiniteSet(P) /\ Cardinality(U) = k - d
        /\ Cardinality(U) \in Nat /\ Cardinality(P) \in Nat
    <3>1. U \in SUBSET pooled /\ P \in SUBSET pooled
      OBVIOUS
    <3>2. Cardinality(U) = k - d
      BY <2>2 DEF Below
    <3> HIDE DEF U, P
    <3> QED
      BY <3>1, <3>2, SetsAreFinite
  <2>6. k = Cardinality(U) + Cardinality(P) - Cardinality({})
    <3> HIDE DEF U, P
    <3> QED
      BY <2>4, <2>5, FS_Union
  <2>7. Cardinality(P) = d
    <3> HIDE DEF U, P, k
    <3> QED
      BY <1>1, <2>5, <2>6, FS_EmptySet
  <2>8. Cutoff = c
    BY <1>3 DEF Cutoff, c, d
  <2> QED
    BY <2>3, <2>7, <2>8 DEF d
<1> QED
  BY <1>2, <1>3

\* A newer line appended, the tail has no fewer lines from any seq on.
LEMMA TailGrows ==
  ASSUME NEW s \in Seq(Nat), Increasing(s), NEW n \in Nat \ {0}, Len(s) <= n,
         NEW x \in Nat, \A y \in Elements(s) : y < x, NEW d \in Nat, NEW c \in Nat
  PROVE  LET b == LastOf(n, Append(s, x)) IN
         Cardinality({y \in Elements(LastOf(d, s)) : y >= c})
           <= Cardinality({y \in Elements(LastOf(d, b)) : y >= c})
<1> DEFINE u == Append(s, x)
           b == LastOf(n, u)
           t == LastOf(d, s)
           v == LastOf(d, b)
           T == {y \in Elements(t) : y >= c}
           V == {y \in Elements(v) : y >= c}
<1>1. /\ b \in Seq(Nat) /\ Increasing(b) /\ Len(b) \in Nat /\ Len(s) \in Nat /\ Len(s) <= Len(b)
  BY AppendTail
<1>2. u \in Seq(Nat) /\ Increasing(u) /\ Elements(s) \subseteq Elements(u)
  BY AppendIncreases
<1> HIDE DEF u, b
<1>3. /\ Elements(t) \subseteq Elements(s) /\ Len(t) \in Nat /\ Len(t) <= d /\ Len(t) <= Len(s)
      /\ t \in Seq(Nat) /\ Increasing(t)
  <2>1. Len(s) \in Nat /\ Len(t) \in 0..Len(s) /\ Len(t) = IF Len(s) > d THEN d ELSE Len(s)
    BY TailIs
  <2>2. Elements(t) \subseteq Elements(s)
    BY TailWithin
  <2>3. t \in Seq(Nat) /\ Increasing(t)
    BY TailIncreases
  <2> HIDE DEF t
  <2> QED
    BY <2>1, <2>2, <2>3
<1>4. /\ v \in Seq(Nat) /\ Increasing(v) /\ Len(v) \in Nat
      /\ Len(v) = IF Len(b) > d THEN d ELSE Len(b)
      /\ Elements(v) \subseteq Elements(b)
  BY <1>1, TailIs, TailWithin, TailIncreases
<1> HIDE DEF t, v
<1>5. /\ IsFiniteSet(Elements(t)) /\ Cardinality(Elements(t)) = Len(t)
      /\ IsFiniteSet(Elements(v)) /\ Cardinality(Elements(v)) = Len(v)
      /\ \A y \in Elements(t) \cup Elements(v) : y \in Nat
  <2>1. \A i \in 1..Len(t) : t[i] \in Nat
    BY <1>3, ElementOfSeq
  <2>2. \A i \in 1..Len(v) : v[i] \in Nat
    BY <1>4, ElementOfSeq
  <2> QED
    BY <1>3, <1>4, <2>1, <2>2, CountOf DEF Elements
<1>6. /\ IsFiniteSet(T) /\ Cardinality(T) \in Nat /\ Cardinality(T) <= Len(t)
      /\ IsFiniteSet(V) /\ Cardinality(V) \in Nat
  <2>1. T \in SUBSET Elements(t) /\ V \in SUBSET Elements(v)
    OBVIOUS
  <2> HIDE DEF T, V
  <2> QED
    BY <1>5, <2>1, FS_Subset, FS_CardinalityType
<1>7. ASSUME T \subseteq V PROVE Cardinality(T) <= Cardinality(V)
  <2> HIDE DEF T, V
  <2> QED
    BY <1>6, <1>7, FS_Subset
<1>8. ASSUME ~(T \subseteq V) PROVE Cardinality(T) <= Cardinality(V)
  <2>1. PICK y \in Elements(t) : y >= c /\ y \notin Elements(v)
    BY <1>8
  <2>2. y \in Elements(s) /\ y \in Elements(u) /\ y \in Nat
    BY <1>2, <1>3, <1>5, <2>1
  <2>3. (\A z \in Elements(v) : y < z) /\ Len(t) <= Len(v)
    <3>1. CASE y \in Elements(b)
      <4>1. (\A z \in Elements(v) : y < z) /\ Cardinality(Elements(v)) = d
        BY <1>1, <2>1, <3>1, DroppedOlder DEF v
      <4> QED
        BY <1>3, <1>5, <4>1
    <3>2. CASE y \notin Elements(b)
      <4>1. (\A z \in Elements(b) : y < z)
        BY <1>2, <2>2, <3>2, DroppedOlder DEF b
      <4> QED
        BY <1>1, <1>3, <1>4, <4>1
    <3> QED
      BY <3>1, <3>2
  <2>4. V = Elements(v)
    <3>1. \A z \in Elements(v) : y < z /\ z \in Nat
      BY <1>5, <2>3
    <3>2. \A z \in Elements(v) : z >= c
      <4> SUFFICES ASSUME NEW z \in Elements(v) PROVE z >= c
        OBVIOUS
      <4> QED
        BY <2>1, <2>2, <3>1
    <3> QED
      BY <3>2
  <2> HIDE DEF T, V
  <2> QED
    BY <1>3, <1>4, <1>5, <1>6, <2>3, <2>4
<1> QED
  BY <1>7, <1>8 DEF T, V, t, v, b, u

\* A pass goes on to the stores behind the first.
LEMMA BehindHead ==
  ASSUME NEW S, NEW s \in Seq(S), Len(s) # 0, \A i, j \in 1..Len(s) : s[i] = s[j] => i = j
  PROVE  /\ Len(s) \in Nat /\ Head(s) \in S /\ Head(s) \in Elements(s)
         /\ Tail(s) \in Seq(S) /\ Len(Tail(s)) = Len(s) - 1
         /\ \A i, j \in 1..Len(Tail(s)) : Tail(s)[i] = Tail(s)[j] => i = j
         /\ Elements(Tail(s)) = Elements(s) \ {Head(s)}
<1>1. Len(s) \in Nat /\ s # <<>> /\ \A i \in 1..Len(s) : s[i] \in S
  BY EmptySeq, LenProperties, ElementOfSeq
<1>2. /\ Head(s) = s[1] /\ Tail(s) \in Seq(S) /\ Len(Tail(s)) = Len(s) - 1
      /\ \A i \in 1..Len(Tail(s)) : Tail(s)[i] = s[i + 1]
  BY <1>1, HeadTailProperties
<1>3. ASSUME NEW i \in 1..Len(Tail(s)), NEW j \in 1..Len(Tail(s)), Tail(s)[i] = Tail(s)[j]
      PROVE  i = j
  <2>1. i + 1 \in 1..Len(s) /\ j + 1 \in 1..Len(s)
    BY <1>1, <1>2
  <2> QED
    BY <1>2, <1>3, <2>1
<1>4. Elements(Tail(s)) \subseteq Elements(s) \ {Head(s)}
  <2> SUFFICES ASSUME NEW i \in 1..Len(Tail(s))
               PROVE  Tail(s)[i] \in Elements(s) /\ Tail(s)[i] # Head(s)
    BY DEF Elements
  <2>1. i + 1 \in 1..Len(s) /\ 1 \in 1..Len(s) /\ i + 1 # 1
    BY <1>1, <1>2
  <2> QED
    BY <1>2, <2>1 DEF Elements
<1>5. Elements(s) \ {Head(s)} \subseteq Elements(Tail(s))
  <2> SUFFICES ASSUME NEW i \in 1..Len(s), s[i] # Head(s) PROVE s[i] \in Elements(Tail(s))
    BY DEF Elements
  <2>1. i - 1 \in 1..Len(Tail(s)) /\ (i - 1) + 1 = i
    BY <1>1, <1>2
  <2> QED
    BY <1>2, <2>1 DEF Elements
<1>6. Head(s) \in Elements(s) /\ Head(s) \in S
  <2>1. 1 \in 1..Len(s)
    BY <1>1
  <2> QED
    BY <1>1, <1>2, <2>1 DEF Elements
<1> QED
  BY <1>1, <1>2, <1>3, <1>4, <1>5, <1>6

\* all_stores visits each store once.
LEMMA StoresOnce ==
  /\ Stores \in Seq(Store) /\ Elements(Stores) = Store /\ Len(Stores) # 0
  /\ \A i, j \in 1..Len(Stores) : Stores[i] = Stores[j] => i = j
<1>1. Elements(Stores) = Store
  BY StoresSeq DEF Elements
<1>2. /\ Services \in Seq(Store) /\ System \in Store /\ Len(Services) \in Nat
      /\ \A i \in 1..Len(Services) : Services[i] \in Service
  BY ViewAssumption, SeqMonotonic, LenProperties DEF Store, Service
<1>3. /\ Len(Stores) = Len(Services) + 1 /\ Stores[Len(Services) + 1] = System
      /\ \A i \in 1..Len(Services) : Stores[i] = Services[i]
  BY <1>2, AppendProperties DEF Stores
<1>4. ASSUME NEW i \in 1..Len(Stores), NEW j \in 1..Len(Stores), Stores[i] = Stores[j] PROVE i = j
  <2>1. CASE i \in 1..Len(Services) /\ j \in 1..Len(Services)
    BY <1>3, <1>4, <2>1, ViewAssumption
  <2>2. CASE i = Len(Services) + 1 /\ j = Len(Services) + 1
    BY <2>2
  <2>3. CASE i \in 1..Len(Services) /\ j = Len(Services) + 1
    BY <1>2, <1>3, <1>4, <2>3, ViewAssumption
  <2>4. CASE i = Len(Services) + 1 /\ j \in 1..Len(Services)
    BY <1>2, <1>3, <1>4, <2>4, ViewAssumption
  <2> QED
    BY <1>2, <1>3, <2>1, <2>2, <2>3, <2>4
<1> QED
  BY <1>1, <1>2, <1>3, <1>4, StoresSeq

-----------------------------------------------------------------------------
(* Each step, with an owner of the seqs that goes with it.                 *)

\* A writer's step lets the loop's half stand: what is pooled keeps its place in its tail.
LEMMA GatheredKept ==
  ASSUME ViewInv, NEW o, Own(o), NEW q, Own(q)', Gathered(o),
         UNCHANGED <<todo, pooled, frame, ui, appVars>>, clock' \in Nat, clock <= clock',
         \A n \in Nat : n < clock => q[n] = o[n],
         \A s \in Store, c \in Nat : Cardinality(TailOf(s, c)') \in Nat
                                       /\ Cardinality(TailOf(s, c)) <= Cardinality(TailOf(s, c)'),
         \A p \in pooled : p \in Elements(lines'[o[p]]) => p \in Elements(lines[o[p]])
  PROVE  Gathered(q)'
<1>1. /\ Depth' = Depth /\ Cutoff' = Cutoff /\ Ahead' = Ahead
      /\ \A n : Newer(n)' = Newer(n)
  BY DEF appVars, Depth, Offset, Cutoff, Below, Sorted, Ahead, Newer
<1>2. \A p \in pooled : q[p] = o[p] /\ o[p] \in Store
  BY DEF Own
<1>3. Counted(q)' = Counted(o)
  BY <1>1, <1>2 DEF Counted
<1>4. ASSUME NEW s \in Ahead, NEW c \in Nat
      PROVE  Cardinality(PooledOf(q, s, c)') <= Cardinality(TailOf(s, c)')
  <2>1. PooledOf(q, s, c)' = PooledOf(o, s, c)
    BY <1>2 DEF PooledOf
  <2>2. s \in Store
    <3>1. \A i \in 1..Len(todo) : todo[i] \in Store
      BY ElementOfSeq DEF Gathered
    <3> QED
      BY <3>1 DEF Ahead, Elements
  <2>3. Cardinality(TailOf(s, c)) \in Nat /\ Cardinality(TailOf(s, c)') \in Nat
    BY <2>2, SetsAreFinite
  <2>4. Cardinality(PooledOf(o, s, c)) \in Nat
    <3>1. PooledOf(o, s, c) \in SUBSET pooled
      BY DEF PooledOf
    <3> QED
      BY <3>1, SetsAreFinite
  <2>5. Cardinality(PooledOf(o, s, c)) <= Cardinality(TailOf(s, c))
    BY <1>4 DEF Gathered
  <2>6. Cardinality(TailOf(s, c)) <= Cardinality(TailOf(s, c)')
    BY <2>2
  <2> QED
    BY <2>1, <2>3, <2>4, <2>5, <2>6
<1>5. ASSUME NEW x \in Elements(frame.lines) PROVE x < clock' /\ x >= Cutoff /\ q[x] \notin Ahead
  <2>1. x \in Nat /\ x < clock /\ x >= Cutoff /\ o[x] \notin Ahead
    <3>1. \A i \in 1..Len(frame.lines) : frame.lines[i] \in Nat
      BY ElementOfSeq DEF Gathered
    <3> QED
      BY <1>5, <3>1 DEF Gathered, Elements
  <2>2. clock \in Nat /\ q[x] = o[x]
    BY <2>1 DEF ViewInv, TypeOK
  <2> QED
    BY <2>1, <2>2
<1>6. ASSUME NEW n \in Counted(o), n \in Elements(lines'[q[n]])
      PROVE  n \in Elements(frame.lines) \/ Depth <= Cardinality(Newer(n))
  <2>1. n \in pooled /\ q[n] = o[n]
    BY <1>2 DEF Counted
  <2> QED
    BY <1>6, <2>1 DEF Gathered
<1> QED
  BY <1>1, <1>2, <1>3, <1>4, <1>5, <1>6 DEF Gathered

\* A writer takes the next seq, which is its store's.
LEMMA TakeSeqHole ==
  ASSUME ViewInv, NEW o, HoleInv(o), NEW w \in Writer, TakeSeq(w)
  PROVE  \E q : HoleInv(q)'
<1>0. /\ clock \in Nat /\ clock' = clock + 1 /\ StoreOf[w] \in Store /\ stamp \in [Writer -> Nat]
      /\ pc' = [pc EXCEPT ![w] = "count"] /\ stamp' = [stamp EXCEPT ![w] = clock]
      /\ pc \in [Writer -> {"idle", "count", "append", "notify"}]
      /\ UNCHANGED <<lines, todo, pooled, frame, ui, appVars>>
  BY ViewAssumption DEF TakeSeq, ViewInv, TypeOK, writerFrame, frameVars
<1>1. PICK q : q = [o EXCEPT ![clock] = StoreOf[w]]
  OBVIOUS
<1>2. Own(o)
  BY DEF HoleInv
<1>3. /\ q \in [Nat -> Store] /\ q[clock] = StoreOf[w]
      /\ \A n \in Nat : n < clock => q[n] = o[n]
  <2>1. o \in [Nat -> Store]
    BY <1>2 DEF Own
  <2> QED
    BY <1>0, <1>1, <2>1
<1>4. ASSUME NEW s \in Store
      PROVE  Increasing(lines[s]) /\ \A x \in Elements(lines[s]) : x \in Nat /\ x < clock /\ q[x] = s
  <2>1. \A i \in 1..Len(lines[s]) : lines[s][i] \in Nat
    BY ElementOfSeq DEF ViewInv, TypeOK
  <2>2. \A x \in Elements(lines[s]) : x \in Nat
    BY <2>1 DEF Elements
  <2>3. Increasing(lines[s]) /\ \A x \in Elements(lines[s]) : x < clock /\ o[x] = s
    BY <1>2 DEF Own
  <2> QED
    BY <1>3, <2>2, <2>3
<1>5. \A p \in pooled : p \in Nat /\ p < clock
  BY <1>2 DEF Own
<1>6. ASSUME NEW v \in Writer, pc'[v] \in {"count", "append"}
      PROVE  /\ stamp'[v] < clock' /\ q[stamp'[v]] = StoreOf[v] /\ stamp'[v] \notin pooled
             /\ \A x \in Elements(lines[StoreOf[v]]) : x < stamp'[v]
  <2>1. CASE v = w
    <3>1. stamp'[v] = clock
      BY <1>0, <2>1
    <3> QED
      BY <1>0, <1>3, <1>4, <1>5, <2>1, <3>1
  <2>2. CASE v # w
    <3>1. stamp'[v] = stamp[v] /\ pc'[v] = pc[v] /\ stamp[v] \in Nat
      BY <1>0, <2>2
    <3>2. /\ stamp[v] < clock /\ o[stamp[v]] = StoreOf[v] /\ stamp[v] \notin pooled
          /\ \A x \in Elements(lines[StoreOf[v]]) : x < stamp[v]
      BY <1>2, <1>6, <3>1 DEF Own
    <3> QED
      BY <1>0, <1>3, <3>1, <3>2
  <2> QED
    BY <2>1, <2>2
<1>7. \A x \in Nat : x < clock => x < clock'
  BY <1>0
<1>8. Own(q)'
  <2>1. ASSUME NEW s \in Store
        PROVE  Increasing(lines[s]) /\ \A x \in Elements(lines[s]) : x < clock' /\ q[x] = s
    BY <1>4, <1>7
  <2>2. \A p \in pooled : p \in Nat /\ p < clock'
    BY <1>5, <1>7
  <2>3. lines \in [Store -> Seq(Nat)]
    BY <1>2 DEF Own
  <2> QED
    BY <1>0, <1>3, <1>6, <2>1, <2>2, <2>3 DEF Own
<1>9. ASSUME Gathered(o) PROVE Gathered(q)'
  <2>1. \A s, c : TailOf(s, c)' = TailOf(s, c)
    BY <1>0 DEF TailOf, Depth, Offset, appVars
  <2>2. \A s \in Store, c \in Nat : Cardinality(TailOf(s, c)') \in Nat
                                      /\ Cardinality(TailOf(s, c)) <= Cardinality(TailOf(s, c)')
    BY <1>2, <2>1, SetsAreFinite
  <2>3. clock' \in Nat /\ clock <= clock'
    BY <1>0
  <2> QED
    BY <1>0, <1>2, <1>3, <1>8, <1>9, <2>2, <2>3, GatheredKept
<1>10. HoleInv(q)'
  <2>1. ActiveTab' = ActiveTab
    BY <1>0 DEF appVars, ActiveTab
  <2> QED
    BY <1>0, <1>8, <1>9, <2>1 DEF HoleInv, Gathering
<1> QED
  BY <1>10

\* A writer appends its line to its store, past every line there.
LEMMA AppendHole ==
  ASSUME OneWriterEach, ViewInv, NEW o, HoleInv(o), NEW w \in Writer, AppendLine(w)
  PROVE  HoleInv(o)'
<1> DEFINE z == StoreOf[w]
           x == stamp[w]
           old == lines[z]
           new == LastOf(MaxLines, Append(old, x))
<1>0. /\ z \in Store /\ x \in Nat /\ MaxLines \in Nat \ {0}
      /\ pc[w] = "append" /\ pc' = [pc EXCEPT ![w] = "notify"] /\ stamp' = [stamp EXCEPT ![w] = 0]
      /\ pc \in [Writer -> {"idle", "count", "append", "notify"}] /\ stamp \in [Writer -> Nat]
      /\ UNCHANGED <<clock, todo, pooled, frame, ui, appVars>> /\ clock \in Nat
  BY ViewAssumption DEF AppendLine, ViewInv, TypeOK, writerFrame, frameVars
<1>1. /\ Own(o) /\ lines \in [Store -> Seq(Nat)] /\ lines' = [lines EXCEPT ![z] = new]
      /\ x < clock /\ o[x] = z /\ x \notin pooled /\ \A y \in Elements(old) : y < x
  BY <1>0 DEF AppendLine, HoleInv, Own
<1>2. /\ old \in Seq(Nat) /\ Increasing(old) /\ Len(old) <= MaxLines
      /\ \A y \in Elements(old) : y < clock /\ o[y] = z
  BY <1>0, <1>1 DEF Own, ViewInv, TypeOK
<1>3. new \in Seq(Nat) /\ Increasing(new) /\ Elements(new) \subseteq Elements(old) \cup {x}
  <2> HIDE DEF x, old
  <2> QED
    BY <1>0, <1>1, <1>2, AppendTail
<1>4. /\ lines' \in [Store -> Seq(Nat)] /\ lines'[z] = new
      /\ \A s \in Store : s # z => lines'[s] = lines[s]
  <2> HIDE DEF z, new
  <2> QED
    BY <1>0, <1>1, <1>3
<1> HIDE DEF new
<1>5. Own(o)'
  <2>1. ASSUME NEW s \in Store
        PROVE  Increasing(lines'[s]) /\ \A y \in Elements(lines'[s]) : y < clock /\ o[y] = s
    <3>1. CASE s = z
      BY <1>1, <1>2, <1>3, <1>4, <3>1
    <3>2. CASE s # z
      BY <1>1, <1>4, <3>2 DEF Own
    <3> QED
      BY <3>1, <3>2
  <2>2. ASSUME NEW v \in Writer, pc'[v] \in {"count", "append"}
        PROVE  /\ stamp'[v] < clock /\ o[stamp'[v]] = StoreOf[v] /\ stamp'[v] \notin pooled
               /\ \A y \in Elements(lines'[StoreOf[v]]) : y < stamp'[v]
    <3>1. v # w /\ pc'[v] = pc[v] /\ stamp'[v] = stamp[v]
      BY <1>0, <2>2
    <3>2. StoreOf[v] \in Store /\ StoreOf[v] # z
      BY <3>1, ViewAssumption DEF OneWriterEach
    <3>3. lines'[StoreOf[v]] = lines[StoreOf[v]]
      BY <1>4, <3>2
    <3> QED
      BY <1>1, <2>2, <3>1, <3>3 DEF Own
  <2> QED
    BY <1>0, <1>1, <1>4, <2>1, <2>2 DEF Own
<1>6. Depth' = Depth /\ ActiveTab' = ActiveTab
  BY <1>0 DEF Depth, Offset, ActiveTab, appVars
<1>7. ASSUME NEW s \in Store, NEW c \in Nat
      PROVE  Cardinality(TailOf(s, c)') \in Nat
             /\ Cardinality(TailOf(s, c)) <= Cardinality(TailOf(s, c)')
  <2>0. Cardinality(TailOf(s, c)) \in Nat /\ Depth \in Nat
    BY <1>1, SetsAreFinite
  <2>1. CASE s # z
    <3>1. TailOf(s, c)' = TailOf(s, c)
      BY <1>4, <1>6, <2>1 DEF TailOf
    <3> QED
      BY <2>0, <3>1
  <2>2. CASE s = z
    <3> DEFINE T == {y \in Elements(LastOf(Depth, new)) : y >= c}
    <3>1. TailOf(s, c)' = T
      BY <1>4, <1>6, <2>2 DEF TailOf
    <3>2. TailOf(s, c) = {y \in Elements(LastOf(Depth, old)) : y >= c}
      BY <2>2 DEF TailOf
    <3>3. Cardinality({y \in Elements(LastOf(Depth, old)) : y >= c}) <= Cardinality(T)
      <4>1. /\ old \in Seq(Nat) /\ Increasing(old) /\ MaxLines \in Nat \ {0}
            /\ Len(old) <= MaxLines /\ x \in Nat /\ \A y \in Elements(old) : y < x
        BY <1>0, <1>1, <1>2
      <4> HIDE DEF x, old
      <4> USE DEF new
      <4> QED
        BY <2>0, <4>1, TailGrows
    <3>4. Cardinality(T) \in Nat
      <4>1. LastOf(Depth, new) \in Seq(Nat) /\ Increasing(LastOf(Depth, new))
        BY <1>3, <2>0, TailIncreases
      <4>2. IsFiniteSet(Elements(LastOf(Depth, new)))
        BY <4>1, CountOf
      <4>3. T \in SUBSET Elements(LastOf(Depth, new))
        OBVIOUS
      <4> QED
        BY <4>2, <4>3, FS_Subset, FS_CardinalityType
    <3> QED
      BY <3>1, <3>2, <3>3, <3>4
  <2> QED
    BY <2>1, <2>2
<1>8. ASSUME NEW p \in pooled, p \in Elements(lines'[o[p]]) PROVE p \in Elements(lines[o[p]])
  <2>1. o[p] \in Store /\ p # x
    BY <1>1 DEF Own
  <2>2. CASE o[p] = z
    BY <1>3, <1>4, <1>8, <2>1, <2>2
  <2>3. CASE o[p] # z
    BY <1>4, <1>8, <2>1, <2>3
  <2> QED
    BY <2>2, <2>3
<1>9. ASSUME Gathered(o) PROVE Gathered(o)'
  <2>1. clock' \in Nat /\ clock <= clock'
    BY <1>0
  <2> QED
    BY <1>0, <1>1, <1>5, <1>7, <1>8, <1>9, <2>1, GatheredKept
<1> QED
  BY <1>0, <1>5, <1>6, <1>9 DEF HoleInv, Gathering

\* The other steps of a writer touch neither stores nor seqs.
LEMMA WriterHole ==
  ASSUME OneWriterEach, ViewInv, NEW o, HoleInv(o), NEW w \in Writer, WriterStep(w)
  PROVE  \E q : HoleInv(q)'
<1>1. CASE CountLine(w) \/ NotifyRedraw(w) \/ SetStatus(w) \/ FinishIfActive(w)
  <2>1. /\ UNCHANGED <<clock, lines, stamp, todo, pooled, frame, ui, appVars>> /\ clock \in Nat
        /\ \A v \in Writer : pc'[v] \in {"count", "append"} => pc[v] \in {"count", "append"}
    BY <1>1 DEF CountLine, NotifyRedraw, SetStatus, FinishIfActive, ViewInv, TypeOK, writerFrame,
                frameVars, storeVars
  <2>2. Own(o) /\ Own(o)'
    BY <2>1 DEF HoleInv, Own
  <2>3. Depth' = Depth /\ ActiveTab' = ActiveTab
    BY <2>1 DEF Depth, Offset, ActiveTab, appVars
  <2>4. ASSUME Gathered(o) PROVE Gathered(o)'
    <3>1. \A s, c : TailOf(s, c)' = TailOf(s, c)
      BY <2>1, <2>3 DEF TailOf
    <3>2. \A s \in Store, c \in Nat : Cardinality(TailOf(s, c)') \in Nat
                                        /\ Cardinality(TailOf(s, c)) <= Cardinality(TailOf(s, c)')
      BY <2>2, <3>1, SetsAreFinite
    <3> QED
      BY <2>1, <2>2, <2>4, <3>2, GatheredKept
  <2> QED
    BY <2>1, <2>2, <2>3, <2>4 DEF HoleInv, Gathering
<1> QED
  BY <1>1, TakeSeqHole, AppendHole DEF WriterStep

\* The loop's own steps write no line and take no seq.
LEMMA OwnKept ==
  ASSUME NEW o, Own(o), UNCHANGED <<storeVars, writerVars>>, pooled' \in SUBSET pooled
  PROVE  Own(o)'
<1>1. UNCHANGED <<clock, lines, pc, stamp>>
  BY DEF storeVars, writerVars
<1> QED
  BY <1>1 DEF Own

\* Outside the merge nothing is pooled, whatever keys and rounds come.
LEMMA RestingHole ==
  ASSUME NEW o, HoleInv(o), UNCHANGED <<storeVars, writerVars, pooled>>, ~Gathering, ~Gathering'
  PROVE  HoleInv(o)'
<1>1. Own(o)'
  BY OwnKept DEF HoleInv
<1> QED
  BY <1>1 DEF HoleInv, Gathering

\* The first pass begins with nothing pooled and every store ahead.
LEMMA RenderHole ==
  ASSUME ViewInv, NEW o, HoleInv(o), RenderTabs
  PROVE  HoleInv(o)'
<1>1. /\ UNCHANGED <<storeVars, writerVars, pooled, appVars>> /\ pooled = {} /\ frame'.lines = <<>>
      /\ ActiveTab' = ActiveTab
  BY DEF RenderTabs, uiFrame, HoleInv, Gathering, ActiveTab, appVars
<1>2. Own(o)' /\ pooled' = {}
  BY <1>1, OwnKept DEF HoleInv
<1>3. ASSUME ActiveTab = All PROVE Gathered(o)'
  <2>1. ui' = "seqs" /\ todo' = Stores
    BY <1>3 DEF RenderTabs
  <2>2. Elements(<<>>) = {} /\ <<>> \in Seq(Nat) /\ Increasing(<<>>)
    BY EmptySeq DEF Elements, Increasing
  <2>3. Ahead' = Store /\ Counted(o)' = {} /\ \A s, c : PooledOf(o, s, c)' = {}
    BY <1>2, <2>1 DEF Ahead, Counted, PooledOf
  <2>4. ASSUME NEW s \in Store, NEW c \in Nat PROVE Cardinality({}) <= Cardinality(TailOf(s, c)')
    <3>1. TailOf(s, c)' = TailOf(s, c)
      BY <1>1 DEF TailOf, Depth, Offset, storeVars, appVars
    <3>2. Cardinality(TailOf(s, c)) \in Nat
      BY SetsAreFinite DEF HoleInv
    <3> QED
      BY <3>1, <3>2, FS_EmptySet
  <2>5. Cardinality({}) <= Cardinality(Elements(<<>>))
    BY <2>2, FS_EmptySet
  <2> QED
    BY <1>1, <1>2, <2>1, <2>2, <2>3, <2>4, <2>5, StoresOnce DEF Gathered
<1>4. ui' = "seqs" => ActiveTab = All
  BY DEF RenderTabs
<1> QED
  BY <1>1, <1>2, <1>3, <1>4 DEF HoleInv

\* The first pass pools the tail of one more store as it is then.
LEMMA TailSeqsHole ==
  ASSUME ViewInv, NEW o, HoleInv(o), TailSeqs
  PROVE  HoleInv(o)'
<1> DEFINE s == Head(todo)
           T == Elements(LastOf(Depth, lines[s]))
<1>1. /\ UNCHANGED <<storeVars, writerVars, frame, appVars>> /\ ui = "seqs"
      /\ ActiveTab' = ActiveTab /\ Depth' = Depth /\ UNCHANGED <<clock, lines, pc, stamp>>
      /\ pooled' = pooled \cup T
      /\ \/ ui' = "tail" /\ todo' = Stores
         \/ Len(todo) # 1 /\ ui' = "seqs" /\ todo' = Tail(todo)
  BY DEF TailSeqs, uiFrame, ActiveTab, Depth, Offset, appVars, storeVars, writerVars
<1>2. CASE ActiveTab # All
  BY <1>1, <1>2 DEF HoleInv
<1>3. CASE ActiveTab = All
  <2>1. Own(o) /\ Gathered(o)
    BY <1>1, <1>3 DEF HoleInv, Gathering
  <2>2. /\ todo \in Seq(Store) /\ Len(todo) # 0 /\ frame.lines = <<>>
        /\ \A i, j \in 1..Len(todo) : todo[i] = todo[j] => i = j
        /\ \A p \in pooled : o[p] \notin Elements(todo)
    BY <1>1, <2>1 DEF Gathered
  <2>3. /\ Len(todo) \in Nat /\ s \in Store /\ s \in Elements(todo)
        /\ Tail(todo) \in Seq(Store) /\ Len(Tail(todo)) = Len(todo) - 1
        /\ \A i, j \in 1..Len(Tail(todo)) : Tail(todo)[i] = Tail(todo)[j] => i = j
        /\ Elements(Tail(todo)) = Elements(todo) \ {s}
    BY <2>2, BehindHead
  <2> HIDE DEF s
  <2>4. T \subseteq Elements(lines[s]) /\ \A x \in T : x \in Nat
    <3>1. LastOf(Depth, lines[s]) \in Seq(Nat) /\ T \subseteq Elements(lines[s])
      BY <2>1, <2>3, SetsAreFinite
    <3>2. \A i \in 1..Len(LastOf(Depth, lines[s])) : LastOf(Depth, lines[s])[i] \in Nat
      BY <3>1, ElementOfSeq
    <3> QED
      BY <3>1, <3>2 DEF Elements
  <2>5. \A x \in T : x < clock /\ o[x] = s
    BY <2>1, <2>3, <2>4 DEF Own
  <2> HIDE DEF T
  <2>6. Own(o)'
    <3>1. ASSUME NEW w \in Writer, pc[w] \in {"count", "append"} PROVE stamp[w] \notin pooled'
      <4>1. o[stamp[w]] = StoreOf[w] /\ stamp[w] \notin pooled
            /\ \A x \in Elements(lines[StoreOf[w]]) : x < stamp[w]
        BY <2>1, <3>1 DEF Own
      <4>2. SUFFICES ASSUME stamp[w] \in T PROVE FALSE
        BY <1>1, <4>1
      <4>3. stamp[w] < stamp[w] /\ stamp[w] \in Nat
        BY <2>4, <2>5, <4>1, <4>2
      <4> QED
        BY <4>3
    <3>2. \A p \in pooled' : p \in Nat /\ p < clock
      <4>1. \A p \in pooled : p \in Nat /\ p < clock
        BY <2>1 DEF Own
      <4> QED
        BY <1>1, <2>4, <2>5, <4>1
    <3> QED
      BY <1>1, <2>1, <3>1, <3>2 DEF Own
  <2>7. /\ todo' \in Seq(Store) /\ Len(todo') # 0 /\ ui' # "show"
        /\ \A i, j \in 1..Len(todo') : todo'[i] = todo'[j] => i = j
        /\ ui' = "seqs" => \A p \in pooled' : o[p] \notin Elements(todo')
    <3>1. CASE ui' = "tail" /\ todo' = Stores
      BY <3>1, StoresOnce
    <3>2. CASE Len(todo) # 1 /\ ui' = "seqs" /\ todo' = Tail(todo)
      BY <1>1, <2>2, <2>3, <2>5, <3>2
    <3> QED
      BY <1>1, <3>1, <3>2
  <2>8. Ahead' = Store /\ Ahead = Store
    BY <1>1, StoresOnce DEF Ahead
  <2>9. ASSUME NEW z \in Store, NEW c \in Nat
        PROVE  Cardinality(PooledOf(o, z, c)') <= Cardinality(TailOf(z, c)')
    <3>1. TailOf(z, c)' = TailOf(z, c)
      BY <1>1 DEF TailOf
    <3>2. CASE z = s
      <4>1. PooledOf(o, z, c)' = TailOf(z, c)
        BY <1>1, <2>2, <2>3, <2>5, <3>2 DEF PooledOf, TailOf, T
      <4>2. Cardinality(TailOf(z, c)) \in Nat
        BY <2>1, SetsAreFinite
      <4> QED
        BY <3>1, <4>1, <4>2
    <3>3. CASE z # s
      <4>1. PooledOf(o, z, c)' = PooledOf(o, z, c)
        BY <1>1, <2>5, <3>3 DEF PooledOf
      <4> QED
        BY <2>1, <2>8, <3>1, <4>1 DEF Gathered
    <3> QED
      BY <3>2, <3>3
  <2>10. Counted(o)' = {}
    <3>1. \A p \in pooled' : o[p] \in Store
      BY <2>6 DEF Own
    <3> QED
      BY <2>8, <3>1 DEF Counted
  <2>11. /\ Elements(<<>>) = {} /\ <<>> \in Seq(Nat) /\ Increasing(<<>>)
         /\ Cardinality({}) <= Cardinality({})
    BY EmptySeq, FS_EmptySet DEF Elements, Increasing
  <2>12. Gathered(o)'
    BY <1>1, <2>2, <2>7, <2>8, <2>9, <2>10, <2>11 DEF Gathered
  <2> QED
    BY <1>1, <2>6, <2>12 DEF HoleInv, Gathering
<1> QED
  BY <1>2, <1>3

\* The second pass takes a store's lines from Cutoff on: as many as were pooled of it.
LEMMA TailLinesHole ==
  ASSUME ViewInv, BarInv, NEW o, HoleInv(o), TailLines
  PROVE  HoleInv(o)'
<1> DEFINE s == Head(todo)
           c == Cutoff
           t == LastOf(Depth, lines[s])
           F == Elements(frame.lines)
           T == TailOf(s, c)
<1>1. /\ UNCHANGED <<storeVars, writerVars, pooled, appVars>> /\ ui = "tail"
      /\ UNCHANGED lines /\ UNCHANGED clock /\ ActiveTab' = ActiveTab /\ Depth' = Depth
      /\ Cutoff' = Cutoff
      /\ todo' = Tail(todo) /\ ui' = IF Len(todo) = 1 THEN "show" ELSE "tail"
  BY DEF TailLines, uiFrame, ActiveTab, Depth, Offset, Cutoff, Sorted, Below, appVars, storeVars
<1>2. Own(o) /\ Own(o)' /\ Gathering /\ Gathering' /\ ui' # "seqs"
  BY <1>1, OwnKept DEF HoleInv, Gathering
<1>3. CASE ActiveTab # All
  BY <1>1, <1>2, <1>3 DEF HoleInv
<1>4. CASE ActiveTab = All
  <2>1. Gathered(o)
    BY <1>1, <1>2, <1>4 DEF HoleInv
  <2>2. /\ todo \in Seq(Store) /\ Len(todo) # 0 /\ frame.lines \in Seq(Nat) /\ Increasing(frame.lines)
        /\ \A i, j \in 1..Len(todo) : todo[i] = todo[j] => i = j
        /\ \A x \in F : x < clock /\ x >= c /\ o[x] \notin Elements(todo)
        /\ Ahead = Elements(todo)
    BY <1>1, <2>1 DEF Gathered, Ahead
  <2>3. /\ Len(todo) \in Nat /\ s \in Store /\ s \in Elements(todo)
        /\ Tail(todo) \in Seq(Store) /\ Len(Tail(todo)) = Len(todo) - 1
        /\ \A i, j \in 1..Len(Tail(todo)) : Tail(todo)[i] = Tail(todo)[j] => i = j
        /\ Elements(Tail(todo)) = Elements(todo) \ {s}
    BY <2>2, BehindHead
  <2>4. /\ IsFiniteSet(F) /\ F \subseteq Nat /\ Cardinality(F) \in Nat
        /\ c \in Nat /\ Depth \in Nat \ {0}
    <3>1. \A i \in 1..Len(frame.lines) : frame.lines[i] \in Nat
      BY <2>2, ElementOfSeq
    <3>2. F \subseteq Nat
      BY <3>1 DEF Elements
    <3>3. IsFiniteSet(F) /\ Cardinality(F) \in Nat
      BY <2>2, CountOf
    <3>4. c \in Nat /\ Depth \in Nat \ {0}
      BY <1>2, CutoffIs, SetsAreFinite
    <3> QED
      BY <3>2, <3>3, <3>4
  <2>5. frame'.lines = Sorted(F \cup T)
    <3>1. "lines" \in DOMAIN frame
      <4>1. frame = [bar |-> frame.bar, lines |-> frame.lines]
        BY DEF BarInv
      <4> QED
        BY <4>1
    <3>2. frame' = [frame EXCEPT !.lines = Sorted(F \cup T)]
      BY <1>4 DEF TailLines, TailOf
    <3> QED
      BY <3>1, <3>2
  <2> HIDE DEF s, c, F
  <2>6. /\ lines[s] \in Seq(Nat) /\ Increasing(lines[s]) /\ Elements(t) \subseteq Elements(lines[s])
        /\ IsFiniteSet(Elements(t))
        /\ T \subseteq Nat /\ IsFiniteSet(T) /\ Cardinality(T) \in Nat
    BY <1>2, <2>3, SetsAreFinite
  <2>7. \A x \in T : x \in Elements(t) /\ x >= c /\ x < clock /\ o[x] = s
    BY <1>2, <2>3, <2>6 DEF Own, TailOf
  <2> HIDE DEF T
  <2>8. IsFiniteSet(F \cup T) /\ F \cup T \in SUBSET Nat
        /\ Cardinality(F \cup T) = Cardinality(F) + Cardinality(T)
    <3>1. F \cap T = {}
      BY <2>2, <2>3, <2>7
    <3>2. /\ IsFiniteSet(F \cup T)
          /\ Cardinality(F \cup T) = Cardinality(F) + Cardinality(T) - Cardinality(F \cap T)
      BY <2>4, <2>6, FS_Union
    <3>3. F \cup T \in SUBSET Nat
      BY <2>4, <2>6
    <3>4. Cardinality(F \cap T) = 0
      BY <3>1, FS_EmptySet
    <3>5. Cardinality(F \cup T) = Cardinality(F) + Cardinality(T)
      BY <2>4, <2>6, <3>2, <3>4
    <3> QED
      BY <3>2, <3>3, <3>5
  <2> DEFINE G == Elements(frame'.lines)
  <2>9. frame'.lines \in Seq(Nat) /\ Increasing(frame'.lines) /\ G = F \cup T
    <3>1. /\ Sorted(F \cup T) \in Seq(F \cup T) /\ Increasing(Sorted(F \cup T))
          /\ Elements(Sorted(F \cup T)) = F \cup T
      BY <2>8, SortedIs
    <3> QED
      BY <2>5, <2>8, <3>1, SeqMonotonic
  <2> HIDE DEF G
  <2>10. Ahead' = Elements(todo) \ {s} /\ s \in Elements(todo)
    BY <1>1, <2>3 DEF Ahead
  <2>11. \A x \in G : x < clock /\ x >= c /\ o[x] \notin Elements(todo) \ {s}
    BY <2>2, <2>7, <2>9
  <2>12. ASSUME NEW z \in Elements(todo) \ {s}, NEW k \in Nat
         PROVE  Cardinality(PooledOf(o, z, k)') <= Cardinality(TailOf(z, k)')
    <3>1. PooledOf(o, z, k)' = PooledOf(o, z, k) /\ TailOf(z, k)' = TailOf(z, k)
      BY <1>1 DEF PooledOf, TailOf
    <3> QED
      BY <2>1, <2>2, <3>1 DEF Gathered
  <2> DEFINE P == PooledOf(o, s, c)
  <2>13. Counted(o)' = Counted(o) \cup P
    BY <1>1, <2>2, <2>10 DEF Counted, PooledOf, c
  <2>14. Cardinality(Counted(o) \cup P) <= Cardinality(G)
    <3>1. P \in SUBSET pooled /\ Counted(o) \in SUBSET pooled
          /\ Counted(o) \cap P \in SUBSET pooled
      BY DEF PooledOf, Counted
    <3>2. Cardinality(P) <= Cardinality(T) /\ Cardinality(Counted(o)) <= Cardinality(F)
      BY <2>1, <2>2, <2>3, <2>4 DEF Gathered, T, F
    <3> HIDE DEF P
    <3>3. /\ IsFiniteSet(P) /\ IsFiniteSet(Counted(o))
          /\ Cardinality(P) \in Nat /\ Cardinality(Counted(o)) \in Nat
          /\ Cardinality(Counted(o) \cap P) \in Nat
      BY <1>2, <3>1, SetsAreFinite
    <3>4. Cardinality(Counted(o) \cup P)
            = Cardinality(Counted(o)) + Cardinality(P) - Cardinality(Counted(o) \cap P)
      BY <3>3, FS_Union
    <3> QED
      BY <2>4, <2>6, <2>8, <2>9, <3>2, <3>3, <3>4
  <2>15. ASSUME NEW n \in Counted(o) \cup P, n \in Elements(lines[o[n]])
         PROVE  n \in G \/ Depth <= Cardinality(Newer(n)')
    <3>0. Newer(n)' = {x \in G : x > n}
      BY DEF Newer, G
    <3>1. IsFiniteSet(Newer(n)') /\ Cardinality(Newer(n)') \in Nat
      <4>1. Newer(n)' \in SUBSET G /\ IsFiniteSet(G)
        BY <2>8, <2>9, <3>0
      <4> QED
        BY <4>1, FS_Subset, FS_CardinalityType
    <3>2. CASE n \in Counted(o)
      <4>1. n \in F \/ Depth <= Cardinality(Newer(n))
        BY <2>1, <2>15, <3>2 DEF Gathered, F
      <4>2. Newer(n) \in SUBSET (Newer(n)')
        BY <2>9, <3>0 DEF Newer, F
      <4>3. Cardinality(Newer(n)) <= Cardinality(Newer(n)') /\ Cardinality(Newer(n)) \in Nat
        BY <3>1, <4>2, FS_Subset, FS_CardinalityType
      <4> QED
        BY <2>4, <2>9, <3>1, <4>1, <4>3
    <3>3. CASE n \in P
      <4>1. n \in Elements(lines[s]) /\ n >= c /\ n \in Nat
        BY <1>2, <2>15, <3>3 DEF PooledOf, Own
      <4>2. CASE n \in Elements(t)
        BY <2>9, <4>1, <4>2 DEF T, TailOf
      <4>3. CASE n \notin Elements(t)
        <5>1. (\A x \in Elements(t) : n < x) /\ Cardinality(Elements(t)) = Depth
          BY <2>4, <2>6, <4>1, <4>3, DroppedOlder
        <5>2. \A x \in Elements(t) : x \in Nat
          <6>1. t \in Seq(Nat)
            BY <2>4, <2>6, TailIncreases
          <6> QED
            BY <6>1, ElementOfSeq DEF Elements
        <5>3. \A x \in Elements(t) : x >= c
          <6> SUFFICES ASSUME NEW x \in Elements(t) PROVE x >= c
            OBVIOUS
          <6> QED
            BY <2>4, <4>1, <5>1, <5>2
        <5>4. \A x \in Elements(t) : x \in T /\ x > n
          <6> SUFFICES ASSUME NEW x \in Elements(t) PROVE x \in T /\ x > n
            OBVIOUS
          <6>1. n < x /\ x \in Nat /\ x >= c
            BY <5>1, <5>2, <5>3
          <6> QED
            BY <4>1, <6>1 DEF T, TailOf
        <5>5. Elements(t) \in SUBSET (Newer(n)')
          BY <2>9, <3>0, <5>4
        <5> QED
          BY <3>1, <5>1, <5>5, FS_Subset
      <4> QED
        BY <4>2, <4>3
    <3> QED
      BY <2>15, <3>2, <3>3
  <2>16. Gathered(o)'
    <3>1. ui' = "show" <=> Len(todo') = 0
      BY <1>1, <2>2, <2>3
    <3> HIDE DEF P
    <3> QED
      BY <1>1, <1>2, <2>3, <2>9, <2>10, <2>11, <2>12, <2>13, <2>14, <2>15, <3>1
         DEF Gathered, G, c
  <2> QED
    BY <1>1, <1>2, <2>16 DEF HoleInv
<1> QED
  BY <1>3, <1>4

\* The owner changes with TakeSeq only.
LEMMA LoopHole ==
  ASSUME ViewInv, BarInv, NEW o, HoleInv(o),
         LoopStep \/ SwitchTab \/ ScrollTab \/ CloseActive \/ RestartActive
  PROVE  HoleInv(o)'
<1>1. CASE ClampScroll \/ MarkSeen \/ CheckFingerprint \/ Notified \/ CoalesceElapsed
  <2>1. UNCHANGED <<storeVars, writerVars, pooled>> /\ ~Gathering /\ ~Gathering'
    BY <1>1 DEF ClampScroll, MarkSeen, CheckFingerprint, Notified, CoalesceElapsed,
                uiFrame, frameVars, Gathering
  <2> QED
    BY <2>1, RestingHole
<1>2. CASE SwitchTab \/ ScrollTab \/ CloseActive \/ RestartActive
  <2>1. UNCHANGED <<storeVars, writerVars, pooled>> /\ ~Gathering /\ ~Gathering'
    BY <1>2 DEF SwitchTab, ScrollTab, CloseActive, RestartActive, Key, frameVars, Gathering
  <2> QED
    BY <2>1, RestingHole
<1>3. CASE Draw
  <2>1. UNCHANGED <<storeVars, writerVars>> /\ pooled' = {} /\ ~Gathering' /\ ui' = "wait"
    BY <1>3 DEF Draw, uiFrame, Gathering
  <2>2. Own(o)'
    BY <2>1, OwnKept DEF HoleInv
  <2> QED
    BY <2>1, <2>2 DEF HoleInv
<1> QED
  BY <1>1, <1>2, <1>3, RenderHole, TailSeqsHole, TailLinesHole DEF LoopStep

\* What the two passes have gathered, where each store has one writer.
MergeInv == OneWriterEach => \E o : HoleInv(o)

\* Each step keeps it, a new seq given its owner.
LEMMA MergeStep == ViewInv /\ BarInv /\ MergeInv /\ [Next]_vars => MergeInv'
<1> SUFFICES ASSUME ViewInv, BarInv, MergeInv, [Next]_vars, OneWriterEach PROVE \E q : HoleInv(q)'
  BY DEF MergeInv, OneWriterEach
<1>1. PICK o : HoleInv(o)
  BY DEF MergeInv
<1>2. ASSUME NEW w \in Writer, WriterStep(w) PROVE \E q : HoleInv(q)'
  BY <1>1, <1>2, WriterHole
<1>3. CASE LoopStep \/ SwitchTab \/ ScrollTab \/ CloseActive \/ RestartActive
  BY <1>1, <1>3, LoopHole
<1>4. CASE UNCHANGED vars
  <2>1. /\ UNCHANGED <<clock, lines, todo, pooled, frame, ui, appVars>>
        /\ UNCHANGED <<storeVars, writerVars>> /\ clock \in Nat
    BY <1>4 DEF vars, storeVars, frameVars, ViewInv, TypeOK
  <2>2. Own(o) /\ Own(o)'
    BY <1>1, <2>1, OwnKept DEF HoleInv
  <2>3. ActiveTab' = ActiveTab /\ \A s, c : TailOf(s, c)' = TailOf(s, c)
    BY <2>1 DEF ActiveTab, TailOf, Depth, Offset, appVars
  <2>4. ASSUME Gathered(o) PROVE Gathered(o)'
    <3>1. \A s \in Store, c \in Nat : Cardinality(TailOf(s, c)') \in Nat
                                        /\ Cardinality(TailOf(s, c)) <= Cardinality(TailOf(s, c)')
      BY <2>2, <2>3, SetsAreFinite
    <3> QED
      BY <2>1, <2>2, <2>4, <3>1, GatheredKept
  <2>5. HoleInv(o)'
    BY <1>1, <2>1, <2>2, <2>3, <2>4 DEF HoleInv, Gathering
  <2> QED
    BY <2>5
<1> QED
  BY <1>2, <1>3, <1>4 DEF Next, Rest

\* The invariant of the two passes of merge_tail that the theorem on the All view rests on.
THEOREM MergeInvariant == Spec => []MergeInv
<1>1. Init => MergeInv
  <2> SUFFICES ASSUME Init PROVE \E o : HoleInv(o)
    BY DEF MergeInv
  <2> DEFINE o == [n \in Nat |-> System]
  <2>1. o \in [Nat -> Store] /\ lines \in [Store -> Seq(Nat)] /\ \A s \in Store : lines[s] = <<>>
    BY EmptySeq DEF Init, Store
  <2>2. Increasing(<<>>) /\ Elements(<<>>) = {}
    BY DEF Increasing, Elements
  <2>3. pooled = {} /\ ui = "clamp" /\ \A w \in Writer : pc[w] = "idle"
    BY DEF Init
  <2>4. HoleInv(o)
    BY <2>1, <2>2, <2>3 DEF HoleInv, Own, Gathering
  <2> QED
    BY <2>4
<1> QED
  BY <1>1, ViewInvariant, BarInvariant, MergeStep, PTL DEF Spec

\* However pushes and evictions fall between merge_tail's two passes, a pooled line that is
\* still buffered is left out of the All view only for a screenful of newer ones.
THEOREM NoHoles == Spec => []WindowHasNoHole
<1>1. ASSUME ViewInv, MergeInv PROVE WindowHasNoHole
  <2> DEFINE kept == Elements(LastOf(Depth, frame.lines))
  <2> SUFFICES ASSUME OneWriterEach, ui = "show", ActiveTab = All, NEW n \in pooled \ kept,
                      NEW s \in Store, n \in Elements(lines[s])
               PROVE  Cardinality(kept) >= Depth /\ \A k \in kept : n < k
    BY DEF WindowHasNoHole
  <2>1. PICK o : HoleInv(o)
    BY <1>1 DEF MergeInv
  <2>2. Own(o) /\ Gathered(o)
    BY <2>1 DEF HoleInv, Gathering
  <2>3. n \in pooled /\ n \in Nat /\ o[n] = s
    BY <2>2 DEF Own
  <2>4. /\ frame.lines \in Seq(Nat) /\ Increasing(frame.lines) /\ Depth \in Nat \ {0} /\ Cutoff \in Nat
        /\ Ahead = {}
    <3>1. Ahead = {}
      BY <2>2 DEF Gathered, Ahead, Elements
    <3> QED
      BY <1>1, <2>2, <3>1, SetsAreFinite, CutoffIs DEF Gathered
  <2>5. Counted(o) = {p \in pooled : p >= Cutoff}
    BY <2>4 DEF Counted
  <2>6. CASE n \in Elements(frame.lines)
    <3>1. (\A x \in kept : n < x) /\ Cardinality(kept) = Depth
      BY <2>4, <2>6, DroppedOlder
    <3> QED
      BY <2>4, <3>1
  <2>7. ASSUME Depth <= Cardinality({x \in Elements(frame.lines) : x > n})
        PROVE  Cardinality(kept) >= Depth /\ \A k \in kept : n < k
    <3>1. (\A x \in kept : n < x) /\ Cardinality(kept) = Depth
      BY <2>3, <2>4, <2>7, TopIsNewer
    <3> QED
      BY <2>4, <3>1
  <2>8. CASE n >= Cutoff
    <3>1. n \in Elements(frame.lines) \/ Depth <= Cardinality(Newer(n))
      BY <2>2, <2>3, <2>5, <2>8 DEF Gathered
    <3> QED
      BY <2>6, <2>7, <3>1 DEF Newer
  <2>9. CASE ~(n >= Cutoff)
    <3>1. Cutoff # 0
      BY <2>3, <2>9
    <3>2. Depth <= Cardinality(Elements(frame.lines))
      BY <1>1, <2>2, <2>5, <3>1, CutoffIs DEF Gathered
    <3>3. \A i \in 1..Len(frame.lines) : frame.lines[i] \in Nat
      BY <2>4, ElementOfSeq
    <3>4. \A x \in Elements(frame.lines) : x \in Nat /\ x >= Cutoff
      BY <2>2, <3>3 DEF Gathered, Elements
    <3>5. \A x \in Elements(frame.lines) : x > n
      <4> SUFFICES ASSUME NEW x \in Elements(frame.lines) PROVE x > n
        OBVIOUS
      <4>1. x \in Nat /\ x >= Cutoff /\ n \in Nat /\ Cutoff \in Nat
        BY <2>3, <2>4, <3>4
      <4> QED
        BY <2>9, <4>1
    <3>6. {x \in Elements(frame.lines) : x > n} = Elements(frame.lines)
      BY <3>5
    <3> QED
      BY <2>7, <3>2, <3>6
  <2> QED
    BY <2>8, <2>9
<1> QED
  BY <1>1, ViewInvariant, MergeInvariant, PTL
===============================================================================
