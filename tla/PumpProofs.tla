----------------------------- MODULE PumpProofs -----------------------------
(***************************************************************************)
(* What the pump does for every output, every pair of limits and every     *)
(* consumer: the drain is patient and bounded, no partial line stays       *)
(* behind, the needle is seen exactly when it has been printed, and what   *)
(* is read is logged whole, once and in order.                             *)
(*                                                                         *)
(* Strip and Lines go over a sequence byte by byte. What they compute is   *)
(* proved by taking the least number of bytes after which it would fail.   *)
(***************************************************************************)
EXTENDS Pump, SequenceTheorems, WellFoundedInduction, TLAPS

USE DEF pipeVars, scanVars, lineVars, sinkVars, drainVars, pumpVars

-----------------------------------------------------------------------------
(* The drain.                                                              *)

\* What a window still owes: its timeout lies within the cap and a grace ahead, a
\* quiet one began a grace before it, and in one with output the last read is no
\* older than a grace when it ends.
WindowSound ==
  /\ now <= wake /\ wake <= DrainMax
  /\ wake <= now + Grace /\ wake <= last_read + 2 * Grace
  /\ read = before => wake = DrainMax \/ last_read + Grace <= wake
  /\ read # before => wake <= last_read + Grace

DrainInv ==
  /\ now \in Nat /\ wake \in Nat /\ before \in Nat /\ last_read \in Nat
  /\ read \in Nat /\ written \in Nat /\ before <= read
  /\ drain \in {"off", "window", "wait", "abort", "flush", "done"}
  /\ last_read <= now /\ now <= DrainMax /\ now <= last_read + 2 * Grace
  /\ "command" \in holders => drain = "off"
  /\ drain \in {"off", "window"} => now <= last_read + Grace
  /\ drain = "wait" => WindowSound

LEMMA DrainInit == Init => DrainInv
  BY PumpAssumption DEF Init, DrainInv

\* The pump reads forward, and notes when.
LEMMA ReadKeeps == ASSUME DrainInv, ReadChunk PROVE DrainInv'
<1>1. PICK n \in 1..Least(ChunkSize, written - read) : read' = read + n
  BY DEF ReadChunk
<1>2. n \in Nat /\ n > 0
  BY <1>1, PumpAssumption DEF Least, DrainInv
<1>3. last_read' = now /\ UNCHANGED <<written, holders, drain, now, wake, before>>
  BY DEF ReadChunk
<1> QED
  BY <1>1, <1>2, <1>3, PumpAssumption DEF DrainInv, WindowSound

\* Writers, the sink and the rest of the pump do not touch what the drain looks at.
LEMMA RestKeeps ==
  ASSUME DrainInv,
         \/ WriteOutput \/ GrandchildCloses \/ WriteChunk \/ SendChunk \/ StopReading
         \/ JoinSink \/ DropPump \/ SinkStep \/ UNCHANGED vars
  PROVE  DrainInv'
<1>1. UNCHANGED <<read, last_read, drain, now, wake, before>>
  BY DEF WriteOutput, GrandchildCloses, WriteChunk, SendChunk, StopReading, JoinSink, DropPump,
     SinkStep, SinkReceives, SinkWrites, SinkCloses, vars
<1>2. written' \in Nat /\ holders' \subseteq holders
  BY DEF DrainInv, WriteOutput, GrandchildCloses, WriteChunk, SendChunk, StopReading, JoinSink,
     DropPump, SinkStep, SinkReceives, SinkWrites, SinkCloses, vars
<1> QED
  BY <1>1, <1>2 DEF DrainInv, WindowSound

LEMMA DrainKeeps ==
  ASSUME DrainInv, CommandExits \/ DrainStep \/ Tick
  PROVE  DrainInv'
<1>1. UNCHANGED <<read, last_read, written>> /\ holders' \subseteq holders
  BY DEF CommandExits, DrainStep, OpenWindow, PumpJoined, WindowElapses, AbortPump,
     FlushAbandoned, Tick
<1>2. CASE CommandExits
  <2>1. drain' = "window" /\ UNCHANGED <<now, wake, before>>
    BY <1>2 DEF CommandExits
  <2>2. drain = "off" /\ "command" \notin holders'
    BY <1>2 DEF CommandExits, DrainInv
  <2> QED
    BY <1>1, <2>1, <2>2 DEF DrainInv
<1>3. CASE OpenWindow
  BY <1>1, <1>3, PumpAssumption DEF OpenWindow, Least, Greater, DrainInv, WindowSound
<1>4. CASE WindowElapses
  BY <1>1, <1>4, PumpAssumption DEF WindowElapses, DrainInv, WindowSound
<1>5. CASE PumpJoined \/ AbortPump \/ FlushAbandoned
  BY <1>1, <1>5 DEF PumpJoined, AbortPump, FlushAbandoned, DrainInv
<1>6. CASE Tick
  BY <1>1, <1>6, PumpAssumption DEF Tick, DrainInv, WindowSound
<1> QED
  BY <1>2, <1>3, <1>4, <1>5, <1>6 DEF DrainStep

LEMMA DrainInvStep == DrainInv /\ [Next]_vars => DrainInv'
  BY ReadKeeps, RestKeeps, DrainKeeps
  DEF Next, CommandStep, PumpStep, EndOfOutput, ReadFails, Drained

\* The exit waits for its output no longer than the cap, and no longer than two graces
\* once the pipe has gone silent: drain_output's windows add up, for all lengths of both.
THEOREM DrainStaysBounded == Spec => []DrainBounded
<1>1. DrainInv => DrainBounded
  BY DEF DrainInv, DrainBounded
<1> QED
  BY <1>1, DrainInit, DrainInvStep, PTL DEF Spec

\* drain_output gives a pump up only at the cap or after a whole grace without a read,
\* also when reads fall on the edge of a window.
THEOREM DrainStaysPatient == Spec => DrainPatient
<1> DEFINE Gives == drain' = "abort" /\ drain # "abort"
           Late == now >= DrainMax \/ now >= last_read + Grace
<1>1. DrainInv /\ [Next]_vars => (Gives => Late)
  <2> SUFFICES ASSUME DrainInv, [Next]_vars, Gives PROVE Late
    OBVIOUS
  <2>1. WindowElapses
    BY DEF Next, CommandStep, PumpStep, SinkStep, DrainStep, WriteOutput, CommandExits,
       GrandchildCloses, ReadChunk, WriteChunk, SendChunk, EndOfOutput, ReadFails, StopReading,
       JoinSink, DropPump, SinkReceives, SinkWrites, SinkCloses, OpenWindow, PumpJoined,
       AbortPump, FlushAbandoned, Tick, Drained, vars
  <2> QED
    BY <2>1, PumpAssumption DEF WindowElapses, DrainInv, WindowSound
<1> HIDE DEF Gives, Late
<1>2. DrainInv /\ [Next]_vars => [Gives => Late]_vars
  BY <1>1
<1>3. Spec => [][Gives => Late]_vars
  BY <1>2, DrainInit, DrainInvStep, PTL DEF Spec
<1> QED
  BY <1>3 DEF DrainPatient, Gives, Late

-----------------------------------------------------------------------------
(* Where the pump, its sink and the drain stand to each other.             *)

PlaceInv ==
  /\ mode \in {"store", "stream"}
  /\ pump \in {"read", "write", "send", "await", "done", "gone"}
  /\ sink \in {"none", "recv", "write", "done"}
  /\ mode = "store" => sink = "none" /\ queue = <<>> /\ pump \notin {"send", "await"}
  /\ mode = "stream" => sink # "none" /\ pump # "write"
  /\ pump \notin {"write", "send"} => chunk = <<>>
  /\ sink # "write" => sink_chunk = <<>>
  /\ sink = "done" => queue = <<>> /\ pump \in {"await", "done", "gone"} /\ buf = <<>>
  /\ pump = "gone" => drain \in {"flush", "done"}
  /\ pump = "done" => buf = <<>> /\ (mode = "stream" => sink = "done")
  /\ pump = "write" => last_read = now
  /\ mode = "store" /\ drain = "done" /\ buf # <<>> => last_read = now

LEMMA PlaceInit == Init => PlaceInv
  BY DEF Init, PlaceInv

\* The pump and its end ...
LEMMA PumpPlaced ==
  ASSUME PlaceInv, PumpStep \/ ReadFails
  PROVE  PlaceInv'
<1>1. CASE ReadChunk
  BY <1>1 DEF ReadChunk, PlaceInv
<1>2. CASE WriteChunk
  BY <1>2 DEF WriteChunk, PlaceInv
<1>3. CASE SendChunk
  BY <1>3 DEF SendChunk, PlaceInv
<1>4. CASE StopReading
  BY <1>4 DEF StopReading, Flush, PlaceInv
<1>5. CASE JoinSink
  BY <1>5 DEF JoinSink, PlaceInv
<1>6. CASE DropPump
  BY <1>6 DEF DropPump, Abandoned, PlaceInv
<1> QED
  BY <1>1, <1>2, <1>3, <1>4, <1>5, <1>6 DEF PumpStep, EndOfOutput, ReadFails

\* ... and everyone else.
LEMMA RestPlaced ==
  ASSUME PlaceInv, DrainInv, CommandStep \/ SinkStep \/ DrainStep \/ Tick
  PROVE  PlaceInv'
<1>1. CASE WriteOutput \/ GrandchildCloses
  BY <1>1 DEF WriteOutput, GrandchildCloses, PlaceInv
<1>2. CASE CommandExits
  <2>1. drain = "off" /\ drain' = "window"
    BY <1>2 DEF CommandExits, DrainInv
  <2> QED
    BY <1>2, <2>1 DEF CommandExits, PlaceInv
<1>3. CASE SinkReceives
  BY <1>3 DEF SinkReceives, PlaceInv
<1>4. CASE SinkWrites
  BY <1>4 DEF SinkWrites, PlaceInv
<1>5. CASE SinkCloses
  BY <1>5 DEF SinkCloses, Flush, PlaceInv
<1>6. CASE OpenWindow \/ PumpJoined \/ WindowElapses
  BY <1>6 DEF OpenWindow, PumpJoined, WindowElapses, PlaceInv
<1>7. CASE AbortPump
  BY <1>7 DEF AbortPump, Parked, PlaceInv
<1>8. CASE FlushAbandoned
  BY <1>8 DEF FlushAbandoned, Flush, PlaceInv
<1>9. CASE Tick
  BY <1>9 DEF Tick, PlaceInv
<1> QED
  BY <1>1, <1>2, <1>3, <1>4, <1>5, <1>6, <1>7, <1>8, <1>9 DEF CommandStep, SinkStep, DrainStep

LEMMA PlaceStep == PlaceInv /\ DrainInv /\ [Next]_vars => PlaceInv'
<1> SUFFICES ASSUME PlaceInv, DrainInv, [Next]_vars PROVE PlaceInv'
  OBVIOUS
<1>1. CASE UNCHANGED vars \/ Drained
  BY <1>1 DEF Drained, vars, PlaceInv
<1> QED
  BY <1>1, PumpPlaced, RestPlaced DEF Next

\* What the code flushes at the end of a pump, of a sink and of a given up store leaves
\* no partial line behind, for every order in which they end.
THEOREM TailsFlushed == Spec => []TailFlushed
<1>1. PlaceInv => TailFlushed
  BY DEF PlaceInv, TailFlushed
<1> QED
  BY <1>1, DrainInit, DrainInvStep, PlaceInit, PlaceStep, PTL DEF Spec

-----------------------------------------------------------------------------
(* Numbers, and what goes over a sequence one byte after another.          *)

\* A set of numbers has a least one.
LEMMA LeastNumber ==
  ASSUME NEW S \in SUBSET Nat, S # {}
  PROVE  \E n \in S : \A m \in S : n <= m
<1> DEFINE below == {ss \in Nat \X Nat : ss[1] < ss[2]}
<1>1. OpToRel(<, Nat) = below
  BY DEF OpToRel
<1>2. IsWellFoundedOn(below, Nat)
  BY <1>1, NatLessThanWellFounded
<1>3. PICK n \in S : \A m \in S : <<m, n>> \notin below
  BY <1>2, WFMin
<1>4. \A x, y \in Nat : x < y => <<x, y>> \in below
  OBVIOUS
<1> HIDE DEF below
<1>5. ASSUME NEW m \in S PROVE n <= m
  <2>1. m \in Nat /\ n \in Nat /\ <<m, n>> \notin below
    BY <1>3
  <2>2. ~(m < n)
    BY <1>4, <2>1
  <2> QED
    BY <2>1, <2>2
<1> QED
  BY <1>5

\* The steps from a first state can be taken all the way.
Stays(n, S, z, step) == z \in S /\ \A k \in 1..n : \A x \in S : step[k][x] \in S
Takes(n, S, z, step, g) ==
  g \in [0..n -> S] /\ g[0] = z /\ \A k \in 1..n : g[k] = step[k][g[k - 1]]

\* A function that takes the steps exists.
LEMMA Recursion ==
  ASSUME NEW n \in Nat, NEW S, NEW z, NEW step, Stays(n, S, z, step)
  PROVE  \E g : Takes(n, S, z, step, g)
<1> DEFINE Upto(g, k) == g[0] = z /\ \A i \in 1..k : g[i] = step[i][g[i - 1]]
           Has(k) == \E g \in [0..n -> S] : Upto(g, k)
           Bad == {k \in 0..n : ~Has(k)}
<1>0. z \in S /\ \A k \in 1..n : \A x \in S : step[k][x] \in S
  BY DEF Stays
<1> HIDE DEF Upto, Has
<1>1. Bad = {}
  <2> SUFFICES ASSUME Bad # {} PROVE FALSE
    OBVIOUS
  <2>1. Bad \in SUBSET Nat
    OBVIOUS
  <2>2. PICK k \in Bad : \A m \in Bad : k <= m
    <3> HIDE DEF Bad
    <3> QED
      BY <2>1, LeastNumber
  <2>3. CASE k = 0
    <3>1. [i \in 0..n |-> z] \in [0..n -> S] /\ Upto([i \in 0..n |-> z], k)
      BY <1>0, <2>3 DEF Upto
    <3>2. Has(k)
      BY <3>1 DEF Has
    <3> QED
      BY <2>2, <3>2
  <2>4. CASE k # 0
    <3>1. k - 1 \in 0..n /\ k - 1 \notin Bad /\ k \in 1..n
      BY <2>2, <2>4
    <3>2. PICK g \in [0..n -> S] : Upto(g, k - 1)
      <4>1. Has(k - 1)
        BY <3>1
      <4> QED
        BY <4>1 DEF Has
    <3> DEFINE h == [g EXCEPT ![k] = step[k][g[k - 1]]]
    <3>3. h \in [0..n -> S]
      <4>1. step[k][g[k - 1]] \in S
        BY <1>0, <3>1
      <4> QED
        BY <3>1, <4>1
    <3>4. Upto(h, k)
      <4>1. h[0] = z /\ h[k] = step[k][g[k - 1]]
        BY <3>1, <3>2 DEF Upto
      <4>2. \A i \in 0..(k - 1) : h[i] = g[i]
        BY <3>1
      <4>3. ASSUME NEW i \in 1..k PROVE h[i] = step[i][h[i - 1]]
        <5>1. CASE i = k
          BY <3>1, <4>1, <4>2, <5>1
        <5>2. CASE i \in 1..(k - 1)
          <6>1. i \in 0..(k - 1) /\ i - 1 \in 0..(k - 1) /\ g[i] = step[i][g[i - 1]]
            BY <3>1, <3>2, <5>2 DEF Upto
          <6> QED
            BY <4>2, <6>1
        <5> QED
          BY <3>1, <5>1, <5>2
      <4> QED
        BY <4>1, <4>3 DEF Upto
    <3> HIDE DEF h
    <3>5. Has(k)
      BY <3>3, <3>4 DEF Has
    <3> QED
      BY <2>2, <3>5
  <2> QED
    BY <2>3, <2>4
<1>2. Has(n)
  BY <1>1
<1> QED
  BY <1>2 DEF Has, Upto, Takes

\* Two that begin alike and step alike are the same.
Alike(n, f, g) == f[0] = g[0] /\ \A k \in 1..n : f[k - 1] = g[k - 1] => f[k] = g[k]

LEMMA SameSteps ==
  ASSUME NEW n \in Nat, NEW f, NEW g, Alike(n, f, g)
  PROVE  \A k \in 0..n : f[k] = g[k]
<1> DEFINE Off == {k \in 0..n : f[k] # g[k]}
<1> SUFFICES ASSUME Off # {} PROVE FALSE
  OBVIOUS
<1>1. PICK k \in Off : \A m \in Off : k <= m
  <2>1. Off \in SUBSET Nat
    OBVIOUS
  <2> HIDE DEF Off
  <2> QED
    BY <2>1, LeastNumber
<1>2. k \in 1..n /\ k - 1 \in 0..n /\ k - 1 \notin Off
  BY <1>1 DEF Alike
<1> QED
  BY <1>1, <1>2 DEF Alike

-----------------------------------------------------------------------------
(* The scanner's view of the output.                                       *)

Scanned(S) == [inside : BOOLEAN, shown : Seq(S)]

LEMMA StripByteType ==
  ASSUME NEW S, NEW state \in Scanned(S), NEW p \in S
  PROVE  StripByte(state, p) \in Scanned(S)
<1>1. state.shown \in Seq(S) /\ state.inside \in BOOLEAN
  BY DEF Scanned
<1>2. Append(state.shown, p) \in Seq(S)
  BY <1>1
<1>3. (~state.inside /\ text[p] = "esc") \in BOOLEAN
  OBVIOUS
<1> QED
  BY <1>1, <1>2, <1>3 DEF StripByte, Scanned

Strips(S, s, open, g) ==
  /\ g \in [0..Len(s) -> Scanned(S)]
  /\ g[0] = [inside |-> open, shown |-> <<>>]
  /\ \A k \in 1..Len(s) : g[k] = StripByte(g[k - 1], s[k])
  /\ Strip(s, open) = g[Len(s)]

\* Strip goes through the bytes from its first state to its last ...
LEMMA StripSteps ==
  ASSUME NEW S, NEW s \in Seq(S), NEW open \in BOOLEAN
  PROVE  \E g : Strips(S, s, open, g)
<1> DEFINE n == Len(s)
           z == [inside |-> open, shown |-> <<>>]
           step == [k \in 1..n |-> [a \in Scanned(S) |-> StripByte(a, s[k])]]
<1>1. n \in Nat /\ z \in Scanned(S)
  BY DEF Scanned
<1>2. Stays(n, Scanned(S), z, step)
  BY <1>1, StripByteType DEF Stays
<1>3. PICK g \in [0..n -> Scanned(S)] : g[0] = z /\ \A k \in 1..n : g[k] = step[k][g[k - 1]]
  <2>1. \E g : Takes(n, Scanned(S), z, step, g)
    <3> HIDE DEF n, z, step
    <3> QED
      BY <1>1, <1>2, Recursion
  <2> QED
    BY <2>1 DEF Takes
<1>4. \A k \in 1..n : g[k] = StripByte(g[k - 1], s[k])
  <2> SUFFICES ASSUME NEW k \in 1..n PROVE g[k] = StripByte(g[k - 1], s[k])
    OBVIOUS
  <2>1. k - 1 \in 0..n
    BY <1>1
  <2> QED
    BY <1>3, <2>1
<1> DEFINE After(h) == [k \in 0..n |-> IF k = 0 THEN z ELSE StripByte(h[k - 1], s[k])]
           after == CHOOSE h : h = After(h)
<1>5. g = After(g)
  <2>1. \A k \in 0..n : g[k] = After(g)[k]
    BY <1>1, <1>3, <1>4
  <2>2. g = [k \in 0..n |-> g[k]]
    OBVIOUS
  <2> QED
    BY <2>1, <2>2
<1>6. Strip(s, open) = after[n]
  BY DEF Strip
<1>7. after = After(after)
  <2> HIDE DEF After
  <2> QED
    BY <1>5
<1>8. \A k \in 0..n : after[k] = g[k]
  <2> HIDE DEF after
  <2>1. \A k \in 0..n : after[k] = IF k = 0 THEN z ELSE StripByte(after[k - 1], s[k])
    BY <1>7
  <2>2. after[0] = g[0]
    BY <1>1, <1>3, <2>1
  <2>3. \A k \in 1..n : after[k - 1] = g[k - 1] => after[k] = g[k]
    BY <1>1, <1>4, <2>1
  <2>4. Alike(n, after, g)
    BY <2>2, <2>3 DEF Alike
  <2> HIDE DEF n
  <2> QED
    BY <1>1, <2>4, SameSteps
<1>9. g[0] = z /\ Strip(s, open) = g[n]
  BY <1>1, <1>3, <1>6, <1>8
<1>10. Strips(S, s, open, g)
  BY <1>4, <1>9 DEF Strips
<1> QED
  BY <1>10

LEMMA AppendOfConcat ==
  ASSUME NEW S, NEW u \in Seq(S), NEW v \in Seq(S), NEW p \in S
  PROVE  u \o Append(v, p) = Append(u \o v, p)
<1>1. <<p>> \in Seq(S) /\ u \o v \in Seq(S)
  BY ConcatProperties
<1>2. Append(v, p) = v \o <<p>> /\ Append(u \o v, p) = (u \o v) \o <<p>>
  BY <1>1, AppendIsConcat
<1> QED
  BY <1>1, <1>2, ConcatAssociative

\* Stripping goes on where it left off.
LEMMA StripGoesOn ==
  ASSUME NEW S, NEW s \in Seq(S), NEW t \in Seq(S), NEW open \in BOOLEAN
  PROVE  LET first == Strip(s, open)
             then  == Strip(t, first.inside)
         IN  /\ first \in Scanned(S) /\ then \in Scanned(S)
             /\ Strip(s \o t, open) = [inside |-> then.inside, shown |-> first.shown \o then.shown]
<1> DEFINE n == Len(s)
           m == Len(t)
           first == Strip(s, open)
           then == Strip(t, first.inside)
<1>0. n \in Nat /\ m \in Nat
  OBVIOUS
<1>1. /\ s \o t \in Seq(S) /\ Len(s \o t) = n + m
      /\ \A k \in 1..(n + m) : (s \o t)[k] = IF k <= n THEN s[k] ELSE t[k - n]
  BY ConcatProperties
<1>2. PICK a : Strips(S, s, open, a)
  BY StripSteps
<1>3. /\ a \in [0..n -> Scanned(S)] /\ a[0] = [inside |-> open, shown |-> <<>>]
      /\ \A k \in 1..n : a[k] = StripByte(a[k - 1], s[k])
      /\ first = a[n]
  BY <1>2 DEF Strips
<1>4. first \in Scanned(S)
  <2> HIDE DEF first, n
  <2> QED
    BY <1>0, <1>3
<1>5. first.inside \in BOOLEAN /\ first.shown \in Seq(S)
  BY <1>4 DEF Scanned
<1>6. PICK b : Strips(S, t, first.inside, b)
  <2> HIDE DEF first
  <2> QED
    BY <1>5, StripSteps
<1>7. /\ b \in [0..m -> Scanned(S)] /\ b[0] = [inside |-> first.inside, shown |-> <<>>]
      /\ \A k \in 1..m : b[k] = StripByte(b[k - 1], t[k])
      /\ then = b[m]
  BY <1>6 DEF Strips
<1>8. PICK g : Strips(S, s \o t, open, g)
  BY <1>1, StripSteps
<1>9. /\ g[0] = [inside |-> open, shown |-> <<>>]
      /\ \A k \in 1..(n + m) : g[k] = StripByte(g[k - 1], (s \o t)[k])
      /\ Strip(s \o t, open) = g[n + m]
  <2> HIDE DEF n, m
  <2> QED
    BY <1>1, <1>8 DEF Strips
<1>10. \A k \in 1..m : t[k] \in S
  BY ElementOfSeq
<1> HIDE DEF n, m, first, then
<1>11. \A k \in 1..m : b[k - 1] \in Scanned(S)
  BY <1>0, <1>7
\* The first part ...
<1>12. g[n] = first
  <2>1. \A k \in 1..n : (s \o t)[k] = s[k] /\ k \in 1..(n + m)
    BY <1>0, <1>1
  <2>2. Alike(n, g, a)
    BY <1>3, <1>9, <2>1 DEF Alike
  <2>3. \A k \in 0..n : g[k] = a[k]
    BY <1>0, <2>2, SameSteps
  <2> QED
    BY <1>0, <1>3, <2>3
\* ... and the second.
<1> DEFINE Both(state) == [inside |-> state.inside, shown |-> first.shown \o state.shown]
           both == [k \in 0..m |-> Both(b[k])]
           tail == [k \in 0..m |-> g[n + k]]
<1>13. tail[0] = both[0]
  <2>1. first.shown \o <<>> = first.shown
    BY <1>5, ConcatEmptySeq
  <2>2. first = [inside |-> first.inside, shown |-> first.shown]
    BY <1>4 DEF Scanned
  <2>3. b[0].inside = first.inside /\ b[0].shown = <<>>
    BY <1>7
  <2>4. Both(b[0]) = first
    BY <2>1, <2>2, <2>3
  <2> HIDE DEF Both
  <2> QED
    BY <1>0, <1>12, <2>4
<1>14. ASSUME NEW state \in Scanned(S), NEW p \in S
      PROVE  Both(StripByte(state, p)) = StripByte(Both(state), p)
  <2> DEFINE u == first.shown
             v == state.shown
  <2>1. u \in Seq(S) /\ v \in Seq(S)
    BY <1>5 DEF Scanned
  <2>2. u \o Append(v, p) = Append(u \o v, p)
    <3> HIDE DEF u, v
    <3> QED
      BY <2>1, AppendOfConcat
  <2> QED
    BY <2>2 DEF StripByte
<1>15. \A k \in 0..m : tail[k] = both[k]
  <2>1. ASSUME NEW k \in 1..m PROVE tail[k] = StripByte(tail[k - 1], t[k])
    <3>1. /\ n + k \in 1..(n + m) /\ (s \o t)[n + k] = t[k] /\ (n + k) - 1 = n + (k - 1)
          /\ k \in 0..m /\ k - 1 \in 0..m
      BY <1>0, <1>1
    <3>2. g[n + k] = StripByte(g[n + (k - 1)], t[k])
      BY <1>9, <3>1
    <3> QED
      BY <3>1, <3>2
  <2>2. ASSUME NEW k \in 1..m PROVE both[k] = StripByte(both[k - 1], t[k])
    <3>1. k \in 0..m /\ k - 1 \in 0..m /\ b[k] = StripByte(b[k - 1], t[k])
      BY <1>0, <1>7
    <3>2. Both(b[k]) = StripByte(Both(b[k - 1]), t[k])
      BY <1>10, <1>11, <1>14, <3>1
    <3> HIDE DEF Both
    <3> QED
      BY <3>1, <3>2
  <2> HIDE DEF tail, both
  <2>3. Alike(m, tail, both)
    BY <1>13, <2>1, <2>2 DEF Alike
  <2> QED
    BY <1>0, <2>3, SameSteps
<1>16. then \in Scanned(S)
  BY <1>0, <1>7
<1>17. Strip(s \o t, open) = [inside |-> then.inside, shown |-> first.shown \o then.shown]
  <2>1. g[n + m] = Both(b[m])
    <3> HIDE DEF Both
    <3> QED
      BY <1>0, <1>15
  <2> QED
    BY <1>7, <1>9, <2>1
<1> QED
  BY <1>4, <1>16, <1>17 DEF first, then

-----------------------------------------------------------------------------
(* The lines of a stretch of output.                                       *)

Cutting == [lines : Seq(Seq(Nat)), rest : Seq(Nat)]

LEMMA CutByteType ==
  ASSUME NEW state \in Cutting, NEW p \in Nat
  PROVE  CutByte(state, p) \in Cutting
<1>1. state.lines \in Seq(Seq(Nat)) /\ state.rest \in Seq(Nat)
  BY DEF Cutting
<1>2. Append(state.rest, p) \in Seq(Nat) /\ Append(state.lines, state.rest) \in Seq(Seq(Nat))
  BY <1>1
<1>3. CASE NotBreak(p)
  <2>1. CutByte(state, p) = [lines |-> state.lines, rest |-> Append(state.rest, p)]
    BY <1>3 DEF CutByte, Cutting
  <2> QED
    BY <1>1, <1>2, <2>1 DEF Cutting
<1>4. CASE ~NotBreak(p)
  BY <1>2, <1>4 DEF CutByte, Cutting
<1> QED
  BY <1>3, <1>4

Cuts(s, g) ==
  /\ g \in [0..Len(s) -> Cutting]
  /\ g[0] = [lines |-> <<>>, rest |-> <<>>]
  /\ \A k \in 1..Len(s) : g[k] = CutByte(g[k - 1], s[k])
  /\ Lines(s) = g[Len(s)].lines

\* Lines goes through the bytes as Strip does.
LEMMA LinesSteps ==
  ASSUME NEW s \in Seq(Nat)
  PROVE  \E g : Cuts(s, g)
<1> DEFINE n == Len(s)
           z == [lines |-> <<>>, rest |-> <<>>]
           step == [k \in 1..n |-> [a \in Cutting |-> CutByte(a, s[k])]]
<1>1. n \in Nat /\ z \in Cutting
  BY DEF Cutting
<1>2. Stays(n, Cutting, z, step)
  BY <1>1, CutByteType DEF Stays
<1>3. PICK g \in [0..n -> Cutting] : g[0] = z /\ \A k \in 1..n : g[k] = step[k][g[k - 1]]
  <2>1. \E g : Takes(n, Cutting, z, step, g)
    <3> HIDE DEF n, z, step
    <3> QED
      BY <1>1, <1>2, Recursion
  <2> QED
    BY <2>1 DEF Takes
<1>4. \A k \in 1..n : g[k] = CutByte(g[k - 1], s[k])
  <2> SUFFICES ASSUME NEW k \in 1..n PROVE g[k] = CutByte(g[k - 1], s[k])
    OBVIOUS
  <2>1. k - 1 \in 0..n
    BY <1>1
  <2> QED
    BY <1>3, <2>1
<1> DEFINE Cut(h) == [k \in 0..n |-> IF k = 0 THEN z ELSE CutByte(h[k - 1], s[k])]
           cut == CHOOSE h : h = Cut(h)
<1>5. g = Cut(g)
  <2>1. \A k \in 0..n : g[k] = Cut(g)[k]
    BY <1>1, <1>3, <1>4
  <2>2. g = [k \in 0..n |-> g[k]]
    OBVIOUS
  <2> QED
    BY <2>1, <2>2
<1>6. Lines(s) = cut[n].lines
  BY DEF Lines
<1>7. cut = Cut(cut)
  <2> HIDE DEF Cut
  <2> QED
    BY <1>5
<1>8. \A k \in 0..n : cut[k] = g[k]
  <2> HIDE DEF cut
  <2>1. \A k \in 0..n : cut[k] = IF k = 0 THEN z ELSE CutByte(cut[k - 1], s[k])
    BY <1>7
  <2>2. cut[0] = g[0]
    BY <1>1, <1>3, <2>1
  <2>3. \A k \in 1..n : cut[k - 1] = g[k - 1] => cut[k] = g[k]
    BY <1>1, <1>4, <2>1
  <2>4. Alike(n, cut, g)
    BY <2>2, <2>3 DEF Alike
  <2> HIDE DEF n
  <2> QED
    BY <1>1, <2>4, SameSteps
<1>9. g[0] = z /\ Lines(s) = g[n].lines
  BY <1>1, <1>3, <1>6, <1>8
<1>10. Cuts(s, g)
  BY <1>4, <1>9 DEF Cuts
<1> QED
  BY <1>10

-----------------------------------------------------------------------------
(* The needle.                                                             *)

\* n elements of a sequence, from the one after the d-th.
LEMMA Stretched ==
  ASSUME NEW S, NEW s \in Seq(S), NEW d \in Nat, NEW n \in Nat, d + n <= Len(s)
  PROVE  /\ SubSeq(s, d + 1, d + n) \in Seq(S) /\ Len(SubSeq(s, d + 1, d + n)) = n
         /\ \A k \in 1..n : SubSeq(s, d + 1, d + n)[k] = s[d + k]
<1>1. \A i \in (d + 1)..(d + n) : s[i] \in S
  <2>1. \A i \in (d + 1)..(d + n) : i \in 1..Len(s)
    BY LenProperties
  <2> QED
    BY <2>1, ElementOfSeq
<1> DEFINE lo == d + 1
           hi == d + n
<1>2. /\ SubSeq(s, lo, hi) \in Seq(S)
      /\ Len(SubSeq(s, lo, hi)) = IF lo <= hi THEN hi - lo + 1 ELSE 0
      /\ \A i \in 1..(hi - lo + 1) : SubSeq(s, lo, hi)[i] = s[lo + i - 1]
  <2>1. lo \in Int /\ hi \in Int /\ \A i \in lo..hi : s[i] \in S
    BY <1>1
  <2> HIDE DEF lo, hi
  <2> QED
    BY <2>1, SubSeqProperties
<1>3. hi - lo + 1 = n /\ (IF lo <= hi THEN hi - lo + 1 ELSE 0) = n
  OBVIOUS
<1>4. \A k \in 1..n : lo + k - 1 = d + k
  OBVIOUS
<1> HIDE DEF lo, hi
<1>5. \A k \in 1..n : SubSeq(s, lo, hi)[k] = s[d + k]
  <2> SUFFICES ASSUME NEW k \in 1..n PROVE SubSeq(s, lo, hi)[k] = s[d + k]
    OBVIOUS
  <2>1. SubSeq(s, lo, hi)[k] = s[lo + k - 1]
    BY <1>2, <1>3
  <2> QED
    BY <1>4, <2>1
<1> QED
  BY <1>2, <1>3, <1>5 DEF lo, hi

\* The n bytes after the i-th.
LEMMA FromSeq ==
  ASSUME NEW i \in Nat, NEW n \in Nat, NEW S, (i + 1)..(i + n) \subseteq S
  PROVE  /\ From(i, n) \in Seq(S) /\ Len(From(i, n)) = n
         /\ \A k \in 1..n : From(i, n)[k] = i + k
<1>1. \A k \in 1..n : i + k \in S
  OBVIOUS
<1>2. From(i, n) \in [1..n -> S]
  BY <1>1 DEF From
<1>3. From(i, n) \in Seq(S)
  BY <1>2
<1> QED
  BY <1>2, <1>3, LenProperties DEF From

\* The first r bytes and the n after them are the first r + n.
LEMMA FromGoesOn ==
  ASSUME NEW r \in Nat, NEW n \in Nat
  PROVE  From(0, r + n) = From(0, r) \o From(r, n)
<1>1. /\ From(0, r) \in Seq(Nat) /\ Len(From(0, r)) = r /\ \A k \in 1..r : From(0, r)[k] = k
      /\ From(r, n) \in Seq(Nat) /\ Len(From(r, n)) = n /\ \A k \in 1..n : From(r, n)[k] = r + k
      /\ From(0, r + n) \in Seq(Nat) /\ Len(From(0, r + n)) = r + n
      /\ \A k \in 1..(r + n) : From(0, r + n)[k] = k
  <2>1. \A i, m \in Nat : (i + 1)..(i + m) \subseteq Nat
    OBVIOUS
  <2>2. r + n \in Nat /\ 0 \in Nat
    OBVIOUS
  <2>3. /\ From(0, r) \in Seq(Nat) /\ Len(From(0, r)) = r
        /\ \A k \in 1..r : From(0, r)[k] = 0 + k
    BY <2>1, <2>2, FromSeq
  <2>4. /\ From(r, n) \in Seq(Nat) /\ Len(From(r, n)) = n
        /\ \A k \in 1..n : From(r, n)[k] = r + k
    BY <2>1, FromSeq
  <2>5. /\ From(0, r + n) \in Seq(Nat) /\ Len(From(0, r + n)) = r + n
        /\ \A k \in 1..(r + n) : From(0, r + n)[k] = 0 + k
    BY <2>1, <2>2, FromSeq
  <2> QED
    BY <2>3, <2>4, <2>5
<1> DEFINE f == From(0, r)
           g == From(r, n)
           h == From(0, r + n)
<1> HIDE DEF f, g, h
<1>2. /\ f \o g \in Seq(Nat) /\ Len(f \o g) = r + n
      /\ \A k \in 1..(r + n) : (f \o g)[k] = IF k <= r THEN f[k] ELSE g[k - r]
  <2>1. f \in Seq(Nat) /\ g \in Seq(Nat) /\ Len(f) = r /\ Len(g) = n
    BY <1>1 DEF f, g
  <2> QED
    BY <2>1, ConcatProperties
<1>3. \A k \in 1..(r + n) : (f \o g)[k] = h[k]
  <2>1. /\ \A k \in 1..r : f[k] = k
        /\ \A k \in 1..n : g[k] = r + k
        /\ \A k \in 1..(r + n) : h[k] = k
    BY <1>1 DEF f, g, h
  <2>2. ASSUME NEW k \in 1..(r + n) PROVE (f \o g)[k] = h[k]
    <3>1. CASE k <= r
      BY <1>2, <2>1, <3>1
    <3>2. CASE k > r
      <4>1. k - r \in 1..n /\ r + (k - r) = k
        BY <3>2
      <4> QED
        BY <1>2, <2>1, <3>2, <4>1
    <3>3. k <= r \/ k > r
      OBVIOUS
    <3> QED
      BY <3>1, <3>2, <3>3
  <2> QED
    BY <2>2
<1>4. h \in Seq(Nat) /\ Len(h) = r + n
  BY <1>1 DEF h
<1>5. h = f \o g
  BY <1>2, <1>3, <1>4, SeqEqual
<1> QED
  BY <1>5 DEF f, g, h

NeedleLen == Len(Needle)

LEMMA NeedleType == NeedleLen \in Nat \ {0} /\ Needle \in Seq({"a", "b"})
  BY PumpAssumption, EmptySeq DEF NeedleLen

ShownAt(s, i) == \A k \in 1..NeedleLen : text[s[i + k]] = Needle[k]

\* An occurrence is a place where the bytes shown are the needle's.
LEMMA OccursAt ==
  ASSUME NEW s \in Seq(Nat)
  PROVE  Occurs(Needle, s) <=> \E i \in 0..(Len(s) - NeedleLen) : ShownAt(s, i)
<1> DEFINE U == {text[p] : p \in Nat} \cup {"a", "b"}
           B == Bytes(s)
<1>1. Len(s) \in Nat /\ \A k \in 1..Len(s) : s[k] \in Nat
  BY ElementOfSeq
<1>2. B \in [1..Len(s) -> U] /\ \A k \in 1..Len(s) : B[k] = text[s[k]]
  BY <1>1 DEF Bytes
<1>3. B \in Seq(U) /\ Len(B) = Len(s)
  <2> HIDE DEF B, U
  <2>1. B \in Seq(U)
    BY <1>1, <1>2
  <2> QED
    BY <1>1, <1>2, <2>1, LenProperties
<1>4. Needle \in Seq(U)
  BY NeedleType, SeqMonotonic
<1> HIDE DEF B, U
<1>5. ASSUME NEW i \in 0..(Len(s) - NeedleLen)
      PROVE  SubSeq(B, i + 1, i + NeedleLen) = Needle <=> ShownAt(s, i)
  <2> DEFINE w == SubSeq(B, i + 1, i + NeedleLen)
  <2>1. i \in Nat /\ i + NeedleLen <= Len(s) /\ \A k \in 1..NeedleLen : i + k \in 1..Len(s)
    BY <1>1, NeedleType
  <2>2. /\ w \in Seq(U) /\ Len(w) = NeedleLen
        /\ \A k \in 1..NeedleLen : w[k] = B[i + k]
    BY <1>3, <2>1, NeedleType, Stretched
  <2> HIDE DEF w
  <2>3. \A k \in 1..NeedleLen : w[k] = text[s[i + k]]
    BY <1>2, <2>1, <2>2
  <2>4. ASSUME \A k \in 1..NeedleLen : w[k] = Needle[k] PROVE w = Needle
    BY <1>4, <2>2, <2>4, SeqEqual DEF NeedleLen
  <2> QED
    BY <2>3, <2>4 DEF w, ShownAt
<1> QED
  BY <1>5 DEF Occurs, NeedleLen, B

\* What the scanner keeps of what it has shown.
Carried(s) == SubSeq(s, Len(s) - Least(Len(s), Len(Needle) - 1) + 1, Len(s))
Skipped(s) == Len(s) - Least(Len(s), NeedleLen - 1)

\* How many bytes shown the scanner forgets.
LEMMA SkippedIs ==
  ASSUME NEW s, Len(s) \in Nat
  PROVE  Skipped(s) = IF Len(s) < NeedleLen - 1 THEN 0 ELSE Len(s) - NeedleLen + 1
<1> DEFINE n == Len(s)
<1>1. n \in Nat /\ NeedleLen \in Nat
  BY NeedleType
<1>2. Skipped(s) = IF n < NeedleLen - 1 THEN n - n ELSE n - (NeedleLen - 1)
  BY DEF Skipped, Least
<1> HIDE DEF n
<1>3. (IF n < NeedleLen - 1 THEN n - n ELSE n - (NeedleLen - 1))
        = IF n < NeedleLen - 1 THEN 0 ELSE n - NeedleLen + 1
  BY <1>1
<1> QED
  BY <1>2, <1>3 DEF n

\* What it remembers is the end of what it has shown.
LEMMA CarriedType ==
  ASSUME NEW S, NEW s \in Seq(S)
  PROVE  /\ Carried(s) \in Seq(S) /\ Len(Carried(s)) = Len(s) - Skipped(s)
         /\ Skipped(s) \in 0..Len(s)
         /\ \A k \in 1..Len(Carried(s)) : Carried(s)[k] = s[Skipped(s) + k]
<1> DEFINE n == Len(s)
           d == Skipped(s)
<1>1. n \in Nat
  OBVIOUS
<1>2. d \in 0..n
  <2> HIDE DEF n
  <2> QED
    BY <1>1, NeedleType DEF Skipped, Least, n
<1>3. Carried(s) = SubSeq(s, d + 1, n)
  BY DEF Carried, Skipped, NeedleLen
<1> HIDE DEF n, d
<1>4. n - d \in Nat /\ d \in Nat /\ d + (n - d) = n
  BY <1>1, <1>2
<1>5. /\ SubSeq(s, d + 1, d + (n - d)) \in Seq(S) /\ Len(SubSeq(s, d + 1, d + (n - d))) = n - d
      /\ \A k \in 1..(n - d) : SubSeq(s, d + 1, d + (n - d))[k] = s[d + k]
  <2>1. d + (n - d) <= Len(s)
    BY <1>4 DEF n
  <2> HIDE DEF n, d
  <2> QED
    BY <1>4, <2>1, Stretched
<1> QED
  BY <1>2, <1>3, <1>4, <1>5 DEF n, d

\* What is carried over overlaps what has been shown ...
LEMMA Overlap ==
  ASSUME NEW P \in Seq(Nat), NEW Q \in Seq(Nat)
  PROVE  LET X == P \o Q
             Y == Carried(P) \o Q
             p == Len(P)
             d == Skipped(P)
         IN  /\ p \in Nat /\ d \in 0..p /\ (d = 0 \/ d = p - NeedleLen + 1)
             /\ d = IF p < NeedleLen - 1 THEN 0 ELSE p - NeedleLen + 1
             /\ X \in Seq(Nat) /\ Len(X) \in Nat /\ Y \in Seq(Nat) /\ Len(Y) \in Nat
             /\ p <= Len(X) /\ Len(X) = d + Len(Y)
             /\ \A k \in 1..p : X[k] = P[k]
             /\ \A k \in 1..Len(Y) : Y[k] = X[d + k]
<1> DEFINE p == Len(P)
           q == Len(Q)
           d == Skipped(P)
           C == Carried(P)
           X == P \o Q
           Y == C \o Q
           c == Len(C)
<1>1. p \in Nat /\ q \in Nat /\ NeedleLen \in Nat \ {0}
  BY NeedleType
<1>2. d \in 0..p /\ C \in Seq(Nat) /\ c = p - d /\ \A k \in 1..c : C[k] = P[d + k]
  BY CarriedType
<1>3. d = IF p < NeedleLen - 1 THEN 0 ELSE p - NeedleLen + 1
  BY SkippedIs
<1>4. X \in Seq(Nat) /\ Len(X) = p + q
      /\ \A k \in 1..(p + q) : X[k] = IF k <= p THEN P[k] ELSE Q[k - p]
  BY ConcatProperties
<1>5. Y \in Seq(Nat) /\ Len(Y) = c + q
      /\ \A k \in 1..(c + q) : Y[k] = IF k <= c THEN C[k] ELSE Q[k - c]
  <2> HIDE DEF C
  <2> QED
    BY <1>2, ConcatProperties
<1> HIDE DEF p, q, d, c, C, X, Y
<1>6. \A k \in 1..(c + q) : Y[k] = X[d + k]
  <2> SUFFICES ASSUME NEW k \in 1..(c + q) PROVE Y[k] = X[d + k]
    OBVIOUS
  <2>1. d + k \in 1..(p + q) /\ (d + k <= p <=> k <= c) /\ (d + k) - p = k - c
    BY <1>1, <1>2
  <2>2. CASE k <= c
    <3>1. k \in 1..c
      BY <1>1, <1>2, <2>2
    <3> QED
      BY <1>2, <1>4, <1>5, <2>1, <2>2, <3>1
  <2>3. CASE ~(k <= c)
    BY <1>4, <1>5, <2>1, <2>3
  <2> QED
    BY <2>2, <2>3
<1>7. /\ Len(X) \in Nat /\ Len(Y) \in Nat /\ p <= Len(X) /\ Len(X) = d + Len(Y)
  BY <1>1, <1>2, <1>4, <1>5
<1>8. \A k \in 1..p : X[k] = P[k]
  <2>1. \A k \in 1..p : k \in 1..(p + q) /\ k <= p
    BY <1>1
  <2> QED
    BY <1>4, <2>1
<1>9. \A k \in 1..Len(Y) : Y[k] = X[d + k]
  BY <1>5, <1>6
<1> QED
  BY <1>1, <1>2, <1>3, <1>4, <1>5, <1>7, <1>8, <1>9 DEF p, d, X, Y, C

\* ... suffices to see a needle that goes on into the next chunk ...
LEMMA OccursGoesOn ==
  ASSUME NEW P \in Seq(Nat), NEW Q \in Seq(Nat)
  PROVE  Occurs(Needle, P \o Q) <=> Occurs(Needle, P) \/ Occurs(Needle, Carried(P) \o Q)
<1> DEFINE N == NeedleLen
           p == Len(P)
           d == Skipped(P)
           X == P \o Q
           Y == Carried(P) \o Q
           x == Len(X)
           y == Len(Y)
<1>1. /\ p \in Nat /\ d \in 0..p /\ (d = 0 \/ d = p - N + 1)
      /\ X \in Seq(Nat) /\ x \in Nat /\ Y \in Seq(Nat) /\ y \in Nat
      /\ p <= x /\ x = d + y
      /\ \A k \in 1..p : X[k] = P[k]
      /\ \A k \in 1..y : Y[k] = X[d + k]
  BY Overlap
<1>2. N \in Nat \ {0}
  BY NeedleType
<1> HIDE DEF X, Y
<1>3. /\ Occurs(Needle, P) <=> \E i \in 0..(p - N) : ShownAt(P, i)
      /\ Occurs(Needle, X) <=> \E i \in 0..(x - N) : ShownAt(X, i)
      /\ Occurs(Needle, Y) <=> \E i \in 0..(y - N) : ShownAt(Y, i)
  BY <1>1, OccursAt
<1> HIDE DEF N, p, d, x, y
<1>4. ASSUME NEW i \in 0..(p - N)
      PROVE  i \in 0..(x - N) /\ (ShownAt(X, i) <=> ShownAt(P, i))
  <2>1. \A k \in 1..N : i + k \in 1..p
    BY <1>1, <1>2
  <2>2. \A k \in 1..N : X[i + k] = P[i + k]
    BY <1>1, <2>1
  <2>3. i \in 0..(x - N)
    BY <1>1, <1>2
  <2> QED
    BY <2>2, <2>3 DEF ShownAt, N
<1>5. ASSUME NEW i \in 0..(y - N)
      PROVE  d + i \in 0..(x - N) /\ (ShownAt(X, d + i) <=> ShownAt(Y, i))
  <2>1. \A k \in 1..N : i + k \in 1..y /\ d + (i + k) = (d + i) + k
    BY <1>1, <1>2
  <2>2. \A k \in 1..N : Y[i + k] = X[(d + i) + k]
    BY <1>1, <2>1
  <2>3. d + i \in 0..(x - N)
    BY <1>1, <1>2
  <2> QED
    BY <2>2, <2>3 DEF ShownAt, N
<1>6. ASSUME NEW i \in 0..(x - N), ~(i \in 0..(p - N))
      PROVE  i - d \in 0..(y - N) /\ d + (i - d) = i
  BY <1>1, <1>2, <1>6
<1>7. Occurs(Needle, P) \/ Occurs(Needle, Y) => Occurs(Needle, X)
  BY <1>3, <1>4, <1>5
<1>8. Occurs(Needle, X) => Occurs(Needle, P) \/ Occurs(Needle, Y)
  <2> SUFFICES ASSUME NEW i \in 0..(x - N), ShownAt(X, i), ~(i \in 0..(p - N))
               PROVE  Occurs(Needle, Y)
    BY <1>3, <1>4
  <2>1. i - d \in 0..(y - N) /\ d + (i - d) = i
    BY <1>6
  <2>2. ShownAt(X, d + (i - d)) <=> ShownAt(Y, i - d)
    BY <1>5, <2>1
  <2> QED
    BY <1>3, <2>1, <2>2
<1> QED
  BY <1>7, <1>8 DEF X, Y

\* ... and what is carried on from there is what the whole would leave.
LEMMA CarriedGoesOn ==
  ASSUME NEW P \in Seq(Nat), NEW Q \in Seq(Nat)
  PROVE  Carried(Carried(P) \o Q) = Carried(P \o Q)
<1> DEFINE p == Len(P)
           d == Skipped(P)
           X == P \o Q
           Y == Carried(P) \o Q
           x == Len(X)
           y == Len(Y)
           e == Skipped(X)
           f == Skipped(Y)
           U == Carried(X)
           V == Carried(Y)
<1>1. /\ p \in Nat /\ d \in 0..p /\ d = IF p < NeedleLen - 1 THEN 0 ELSE p - NeedleLen + 1
      /\ X \in Seq(Nat) /\ x \in Nat /\ Y \in Seq(Nat) /\ y \in Nat
      /\ p <= x /\ x = d + y
      /\ \A k \in 1..y : Y[k] = X[d + k]
  BY Overlap
<1>2. NeedleLen \in Nat \ {0}
  BY NeedleType
<1> HIDE DEF X, Y
<1>3. /\ U \in Seq(Nat) /\ Len(U) = x - e /\ e \in 0..x /\ \A k \in 1..Len(U) : U[k] = X[e + k]
      /\ e = IF x < NeedleLen - 1 THEN 0 ELSE x - NeedleLen + 1
  BY <1>1, CarriedType, SkippedIs
<1>4. /\ V \in Seq(Nat) /\ Len(V) = y - f /\ f \in 0..y /\ \A k \in 1..Len(V) : V[k] = Y[f + k]
      /\ f = IF y < NeedleLen - 1 THEN 0 ELSE y - NeedleLen + 1
  BY <1>1, CarriedType, SkippedIs
<1> HIDE DEF p, d, x, y, e, f, U, V
<1>5. e = d + f /\ Len(U) = Len(V) /\ Len(U) \in Nat
  BY <1>1, <1>2, <1>3, <1>4
<1>6. ASSUME NEW k \in 1..Len(V) PROVE V[k] = U[k]
  <2>1. k \in 1..Len(U)
    BY <1>5
  <2>2. k \in 1..(y - f)
    BY <1>4
  <2>3. f + k \in 1..y
    BY <1>1, <1>4, <2>2
  <2>4. d + (f + k) = e + k
    <3>1. d \in Nat /\ f \in Nat /\ k \in Nat /\ e = d + f
      BY <1>1, <1>4, <1>5, <2>3
    <3> QED
      BY <3>1
  <2>5. V[k] = Y[f + k] /\ Y[f + k] = X[d + (f + k)] /\ U[k] = X[e + k]
    BY <1>1, <1>3, <1>4, <2>1, <2>3
  <2> QED
    BY <2>4, <2>5
<1>7. V = U
  BY <1>3, <1>4, <1>5, <1>6, SeqEqual
<1> QED
  BY <1>7 DEF U, V, X, Y

LEMMA StripType ==
  ASSUME NEW S, NEW s \in Seq(S), NEW open \in BOOLEAN
  PROVE  Strip(s, open) \in Scanned(S)
<1>1. PICK g : Strips(S, s, open, g)
  BY StripSteps
<1>2. Len(s) \in 0..Len(s)
  BY LenProperties
<1> QED
  BY <1>1, <1>2 DEF Strips

\* The scanner has seen the needle, or it remembers what it must of what it has shown.
Seen(n) == Strip(From(0, n), FALSE)
ScanInv ==
  /\ read \in Nat /\ written \in Nat
  /\ matched \in BOOLEAN /\ in_escape \in BOOLEAN
  /\ matched <=> Occurs(Needle, Seen(read).shown)
  /\ IF matched THEN carry = <<>>
     ELSE in_escape = Seen(read).inside /\ carry = Carried(Seen(read).shown)

LEMMA SeenType ==
  ASSUME NEW n \in Nat
  PROVE  Seen(n) \in Scanned(1..n)
<1>1. From(0, n) \in Seq(1..n)
  BY FromSeq
<1> QED
  BY <1>1, StripType DEF Seen

LEMMA SeenNat == \A n \in Nat : Seen(n).inside \in BOOLEAN /\ Seen(n).shown \in Seq(Nat)
<1> SUFFICES ASSUME NEW n \in Nat PROVE Seen(n).inside \in BOOLEAN /\ Seen(n).shown \in Seq(Nat)
  OBVIOUS
<1>1. Seen(n).inside \in BOOLEAN /\ Seen(n).shown \in Seq(1..n)
  BY SeenType DEF Scanned
<1>2. 1..n \subseteq Nat
  OBVIOUS
<1> QED
  BY <1>1, <1>2, SeqMonotonic

\* What is seen of a chunk follows what has been seen before it.
LEMMA SeenGoesOn ==
  ASSUME NEW r \in Nat, NEW n \in Nat
  PROVE  LET new == Strip(From(r, n), Seen(r).inside)
         IN  /\ new.shown \in Seq(Nat) /\ new.inside \in BOOLEAN
             /\ Seen(r + n).inside = new.inside
             /\ Seen(r + n).shown = Seen(r).shown \o new.shown
<1>1. From(0, r) \in Seq(Nat) /\ From(r, n) \in Seq(Nat)
  <2>1. \A i, m \in Nat : (i + 1)..(i + m) \subseteq Nat
    OBVIOUS
  <2> QED
    BY <2>1, FromSeq
<1>2. Seen(r + n) = Strip(From(0, r) \o From(r, n), FALSE)
  BY FromGoesOn DEF Seen
<1> DEFINE new == Strip(From(r, n), Seen(r).inside)
<1>3. new \in Scanned(Nat)
  BY <1>1, SeenNat, StripType
<1>4. Seen(r + n) = [inside |-> new.inside, shown |-> Seen(r).shown \o new.shown]
  BY <1>1, <1>2, StripGoesOn DEF Seen
<1>5. new.shown \in Seq(Nat) /\ new.inside \in BOOLEAN
  BY <1>3 DEF Scanned
<1> DEFINE all == Seen(r + n)
           shown == Seen(r).shown \o new.shown
<1> HIDE DEF new
<1>6. Seen(r + n).inside = new.inside /\ Seen(r + n).shown = Seen(r).shown \o new.shown
  <2>1. all = [inside |-> new.inside, shown |-> shown]
    BY <1>4
  <2> HIDE DEF all, shown
  <2>2. all.inside = new.inside /\ all.shown = shown
    BY <2>1
  <2> QED
    BY <2>2 DEF all, shown
<1> QED
  BY <1>5, <1>6 DEF new

LEMMA ScanInit == Init => ScanInv
<1> SUFFICES ASSUME Init PROVE ScanInv
  OBVIOUS
<1>1. From(0, 0) = <<>>
  BY DEF From
<1>2. Seen(0) = [inside |-> FALSE, shown |-> <<>>]
  <2>1. PICK g : Strips(Nat, <<>>, FALSE, g)
    BY StripSteps, EmptySeq
  <2> QED
    BY <1>1, <2>1, EmptySeq DEF Strips, Seen
<1>3. ~Occurs(Needle, <<>>)
  BY EmptySeq, NeedleType DEF Occurs, NeedleLen
<1>4. Carried(<<>>) = <<>>
  <2>1. Carried(<<>>) \in Seq(Nat) /\ Len(Carried(<<>>)) = 0 - Skipped(<<>>) /\ Skipped(<<>>) \in 0..0
    BY EmptySeq, CarriedType
  <2> QED
    BY <2>1, EmptySeq
<1>5. read = 0 /\ written = 0 /\ in_escape = FALSE /\ carry = <<>> /\ matched = FALSE
  BY DEF Init
<1>6. Seen(read).inside = FALSE /\ Seen(read).shown = <<>>
  BY <1>2, <1>5
<1> QED
  BY <1>3, <1>4, <1>5, <1>6 DEF ScanInv

\* The output does not change under the scanner.
LEMMA SameText ==
  ASSUME text' = text
  PROVE  /\ \A s : Occurs(Needle, s)' = Occurs(Needle, s)
         /\ \A n : Seen(n)' = Seen(n)
         /\ \A s : Occurs(Needle, s') = Occurs(Needle, s)'
  BY DEF Occurs, Bytes, Seen, Strip, StripByte, From

\* A chunk is fed whole, before anything else happens to it.
LEMMA FeedKeeps == ASSUME ScanInv, ReadChunk PROVE ScanInv'
<1>1. PICK n \in 1..Least(ChunkSize, written - read) :
        read' = read + n /\ Feed(From(read, n))
  BY DEF ReadChunk
<1>2. n \in Nat /\ read \in Nat /\ read' \in Nat /\ read' = read + n
      /\ text' = text /\ written' = written /\ written \in Nat
  BY <1>1, PumpAssumption DEF ScanInv, ReadChunk, Least
<1>3. /\ \A s : Occurs(Needle, s)' = Occurs(Needle, s)
      /\ \A m : Seen(m)' = Seen(m)
  BY <1>2, SameText
<1> DEFINE new == Strip(From(read, n), Seen(read).inside)
           P == Seen(read).shown
           hay == Carried(P) \o new.shown
<1>4. /\ new.shown \in Seq(Nat) /\ new.inside \in BOOLEAN /\ P \in Seq(Nat)
      /\ Seen(read').inside = new.inside
      /\ Seen(read').shown = P \o new.shown
  BY <1>2, SeenGoesOn, SeenNat
<1>5. /\ Occurs(Needle, P \o new.shown) <=> Occurs(Needle, P) \/ Occurs(Needle, hay)
      /\ Carried(hay) = Carried(P \o new.shown)
  <2> HIDE DEF P, new
  <2> QED
    BY <1>4, OccursGoesOn, CarriedGoesOn
<1>6. CASE matched
  <2>1. UNCHANGED <<in_escape, carry, matched>>
    BY <1>1, <1>6 DEF Feed
  <2> QED
    BY <1>2, <1>3, <1>4, <1>5, <1>6, <2>1 DEF ScanInv
<1>7. CASE ~matched
  <2>1. in_escape = Seen(read).inside /\ carry = Carried(P) /\ ~Occurs(Needle, P)
    BY <1>7 DEF ScanInv
  <2>2. /\ in_escape' = new.inside
        /\ matched' = Occurs(Needle, hay)
        /\ carry' = IF matched' THEN <<>> ELSE Carried(hay)
    BY <1>1, <1>7, <2>1 DEF Feed, Carried
  <2>3. matched' \in BOOLEAN
    BY <2>2 DEF Occurs
  <2> QED
    BY <1>2, <1>3, <1>4, <1>5, <2>1, <2>2, <2>3 DEF ScanInv
<1> QED
  BY <1>6, <1>7

LEMMA ScanStep == ScanInv /\ [Next]_vars => ScanInv'
<1> SUFFICES ASSUME ScanInv, [Next]_vars, ~ReadChunk PROVE ScanInv'
  BY FeedKeeps
<1>1. UNCHANGED <<text, read, in_escape, carry, matched>> /\ written' \in Nat
  BY DEF ScanInv, Next, CommandStep, PumpStep, SinkStep, DrainStep, WriteOutput, CommandExits,
     GrandchildCloses, WriteChunk, SendChunk, EndOfOutput, ReadFails, StopReading, JoinSink,
     DropPump, SinkReceives, SinkWrites, SinkCloses, OpenWindow, PumpJoined, WindowElapses,
     AbortPump, FlushAbandoned, Tick, Drained, vars
<1>2. Seen(read)' = Seen(read) /\ Occurs(Needle, Seen(read).shown)' = Occurs(Needle, Seen(read).shown)
  <2>1. \A n : Seen(n)' = Seen(n)
    BY <1>1, SameText
  <2>2. \A s : Occurs(Needle, s)' = Occurs(Needle, s)
    BY <1>1, SameText
  <2> QED
    BY <1>1, <2>1, <2>2
<1>3. Carried(Seen(read).shown)' = Carried(Seen(read).shown)
  BY <1>2 DEF Carried, Least
<1> QED
  BY <1>1, <1>2, <1>3 DEF ScanInv

\* OutputScanner trips if and only if the needle has been printed, for every needle and
\* every output, however reads and escape sequences cut it.
THEOREM NeedleSeen == Spec => []NeedleExact
<1>1. ScanInv => NeedleExact
  BY DEF ScanInv, NeedleExact, Seen
<1> QED
  BY <1>1, ScanInit, ScanStep, PTL DEF Spec

-----------------------------------------------------------------------------
(* Stretches of the output.                                                *)

\* The bytes after lo up to hi, and that none of them is a newline.
Stretch(s, lo, hi) == s \in Seq(Nat) /\ Len(s) = hi - lo /\ \A k \in 1..Len(s) : s[k] = lo + k
Clean(lo, hi) == \A p \in (lo + 1)..hi : NotBreak(p)

\* The lines ls, each between the bounds that z gives it, hold the bytes after lo up to
\* hi, in order and but for newlines.
Covers(ls, z, lo, hi) ==
  /\ ls \in Seq(Seq(Nat)) /\ z \in Seq(Nat \X Nat) /\ Len(z) = Len(ls)
  /\ \A i \in 1..Len(ls) : /\ Stretch(ls[i], z[i][1], z[i][2])
                           /\ lo <= z[i][1] /\ z[i][1] <= z[i][2] /\ z[i][2] <= hi
  /\ \A i, j \in 1..Len(ls) : i < j => z[i][2] <= z[j][1]
  /\ \A p \in (lo + 1)..hi :
       NotBreak(p) => \E i \in 1..Len(ls) : z[i][1] < p /\ p <= z[i][2]

\* Lines that go on where others end.
LEMMA CoversConcat ==
  ASSUME NEW lo \in Nat, NEW mid \in Nat, NEW hi \in Nat, lo <= mid, mid <= hi,
         NEW l, NEW y, NEW m, NEW z, Covers(l, y, lo, mid), Covers(m, z, mid, hi)
  PROVE  Covers(l \o m, y \o z, lo, hi)
<1> DEFINE a == Len(l)
           b == Len(m)
           L == l \o m
           Z == y \o z
<1>1. /\ l \in Seq(Seq(Nat)) /\ m \in Seq(Seq(Nat)) /\ y \in Seq(Nat \X Nat) /\ z \in Seq(Nat \X Nat)
      /\ a \in Nat /\ b \in Nat /\ Len(y) = a /\ Len(z) = b
  BY DEF Covers
<1>2. /\ L \in Seq(Seq(Nat)) /\ Len(L) = a + b
      /\ \A i \in 1..(a + b) : L[i] = IF i <= a THEN l[i] ELSE m[i - a]
  BY <1>1, ConcatProperties
<1>3. /\ Z \in Seq(Nat \X Nat) /\ Len(Z) = a + b
      /\ \A i \in 1..(a + b) : Z[i] = IF i <= a THEN y[i] ELSE z[i - a]
  <2> HIDE DEF a, b
  <2>1. /\ Z \in Seq(Nat \X Nat) /\ Len(Z) = Len(y) + Len(z)
        /\ \A i \in 1..(Len(y) + Len(z)) : Z[i] = IF i <= Len(y) THEN y[i] ELSE z[i - Len(y)]
    BY <1>1, ConcatProperties
  <2> QED
    BY <1>1, <2>1
<1>4. /\ \A i \in 1..a : /\ Stretch(l[i], y[i][1], y[i][2])
                         /\ lo <= y[i][1] /\ y[i][1] <= y[i][2] /\ y[i][2] <= mid
      /\ \A i, j \in 1..a : i < j => y[i][2] <= y[j][1]
      /\ \A p \in (lo + 1)..mid : NotBreak(p) => \E i \in 1..a : y[i][1] < p /\ p <= y[i][2]
  BY DEF Covers
<1>5. /\ \A i \in 1..b : /\ Stretch(m[i], z[i][1], z[i][2])
                         /\ mid <= z[i][1] /\ z[i][1] <= z[i][2] /\ z[i][2] <= hi
      /\ \A i, j \in 1..b : i < j => z[i][2] <= z[j][1]
      /\ \A p \in (mid + 1)..hi : NotBreak(p) => \E i \in 1..b : z[i][1] < p /\ p <= z[i][2]
  BY DEF Covers
<1>6. /\ \A i \in 1..a : y[i][1] \in Nat /\ y[i][2] \in Nat
      /\ \A i \in 1..b : z[i][1] \in Nat /\ z[i][2] \in Nat
  <2>1. /\ \A i \in 1..a : y[i] \in Nat \X Nat
        /\ \A i \in 1..b : z[i] \in Nat \X Nat
    BY <1>1, ElementOfSeq
  <2> QED
    BY <2>1
<1> HIDE DEF a, b, L, Z
<1>7. /\ \A i \in 1..a : i \in 1..(a + b) /\ L[i] = l[i] /\ Z[i] = y[i]
      /\ \A i \in 1..b : a + i \in 1..(a + b) /\ L[a + i] = m[i] /\ Z[a + i] = z[i]
      /\ \A i \in 1..(a + b) : i \in 1..a \/ (i - a \in 1..b /\ a + (i - a) = i)
  <2>1. \A i \in 1..a : i \in 1..(a + b) /\ i <= a
    BY <1>1
  <2>2. \A i \in 1..b : a + i \in 1..(a + b) /\ ~(a + i <= a) /\ (a + i) - a = i
    BY <1>1
  <2>3. \A i \in 1..(a + b) : i \in 1..a \/ (i - a \in 1..b /\ a + (i - a) = i)
    BY <1>1
  <2> QED
    BY <1>2, <1>3, <2>1, <2>2, <2>3
<1>8. ASSUME NEW i \in 1..(a + b)
      PROVE  /\ Stretch(L[i], Z[i][1], Z[i][2])
             /\ lo <= Z[i][1] /\ Z[i][1] <= Z[i][2] /\ Z[i][2] <= hi
  <2>1. CASE i \in 1..a
    BY <1>4, <1>6, <1>7, <2>1
  <2>2. CASE i - a \in 1..b /\ a + (i - a) = i
    <3>1. L[i] = m[i - a] /\ Z[i] = z[i - a]
      BY <1>7, <2>2
    <3> QED
      BY <1>5, <1>6, <2>2, <3>1
  <2> QED
    BY <1>7, <2>1, <2>2
<1>9. ASSUME NEW i \in 1..(a + b), NEW j \in 1..(a + b), i < j PROVE Z[i][2] <= Z[j][1]
  <2>1. CASE j \in 1..a
    <3>1. i \in 1..a
      BY <1>1, <1>9, <2>1
    <3> QED
      BY <1>4, <1>7, <1>9, <2>1, <3>1
  <2>2. CASE ~(j \in 1..a)
    <3>1. j - a \in 1..b /\ Z[j] = z[j - a]
      BY <1>7, <2>2
    <3>2. CASE i \in 1..a
      BY <1>4, <1>5, <1>6, <1>7, <3>1, <3>2
    <3>3. CASE ~(i \in 1..a)
      <4>1. i - a \in 1..b /\ Z[i] = z[i - a]
        BY <1>7, <3>3
      <4>2. i - a < j - a
        BY <1>1, <1>9
      <4> QED
        BY <1>5, <3>1, <4>1, <4>2
    <3> QED
      BY <3>2, <3>3
  <2> QED
    BY <2>1, <2>2
<1>10. ASSUME NEW p \in (lo + 1)..hi, NotBreak(p)
       PROVE  \E i \in 1..(a + b) : Z[i][1] < p /\ p <= Z[i][2]
  <2>1. CASE p \in (lo + 1)..mid
    <3>1. PICK i \in 1..a : y[i][1] < p /\ p <= y[i][2]
      BY <1>4, <1>10, <2>1
    <3> QED
      BY <1>7, <3>1
  <2>2. CASE p \in (mid + 1)..hi
    <3>1. PICK i \in 1..b : z[i][1] < p /\ p <= z[i][2]
      BY <1>5, <1>10, <2>2
    <3> QED
      BY <1>7, <3>1
  <2> QED
    BY <2>1, <2>2
<1>11. L \in Seq(Seq(Nat)) /\ Z \in Seq(Nat \X Nat) /\ Len(L) = a + b /\ Len(Z) = a + b
  BY <1>2, <1>3
<1>12. Covers(L, Z, lo, hi)
  BY <1>8, <1>9, <1>10, <1>11 DEF Covers
<1> QED
  BY <1>12 DEF L, Z

LEMMA CoversNone ==
  ASSUME NEW lo \in Nat, NEW hi \in Nat, \A p \in (lo + 1)..hi : ~NotBreak(p)
  PROVE  Covers(<<>>, <<>>, lo, hi)
  BY EmptySeq DEF Covers

LEMMA CoversOne ==
  ASSUME NEW lo \in Nat, NEW hi \in Nat, lo <= hi, NEW l, Stretch(l, lo, hi)
  PROVE  Covers(<<l>>, << <<lo, hi>> >>, lo, hi)
<1>1. l \in Seq(Nat)
  BY DEF Stretch
<1>2. <<l>> \in Seq(Seq(Nat)) /\ Len(<<l>>) = 1 /\ <<l>>[1] = l
  BY <1>1
<1> DEFINE z == << <<lo, hi>> >>
<1>3. z \in Seq(Nat \X Nat) /\ Len(z) = 1 /\ z[1][1] = lo /\ z[1][2] = hi
  OBVIOUS
<1> HIDE DEF z
<1>4. Covers(<<l>>, z, lo, hi)
  <2>1. \A i \in 1..1 : i = 1
    OBVIOUS
  <2>2. \A p \in (lo + 1)..hi : z[1][1] < p /\ p <= z[1][2]
    BY <1>3
  <2> QED
    BY <1>2, <1>3, <2>1, <2>2 DEF Covers
<1> QED
  BY <1>4 DEF z

\* Newlines after the last line belong to no line.
LEMMA CoversGap ==
  ASSUME NEW lo \in Nat, NEW mid \in Nat, NEW hi \in Nat, mid <= hi,
         \A p \in (mid + 1)..hi : ~NotBreak(p), NEW l, NEW z, Covers(l, z, lo, mid)
  PROVE  Covers(l, z, lo, hi)
<1> DEFINE n == Len(l)
<1>1. /\ l \in Seq(Seq(Nat)) /\ z \in Seq(Nat \X Nat) /\ Len(z) = n
      /\ \A i \in 1..n : Stretch(l[i], z[i][1], z[i][2])
                         /\ lo <= z[i][1] /\ z[i][1] <= z[i][2] /\ z[i][2] <= mid
      /\ \A i, j \in 1..n : i < j => z[i][2] <= z[j][1]
      /\ \A p \in (lo + 1)..mid : NotBreak(p) => \E i \in 1..n : z[i][1] < p /\ p <= z[i][2]
  BY DEF Covers
<1>2. \A i \in 1..n : z[i][2] \in Nat
  <2>1. \A i \in 1..Len(z) : z[i] \in Nat \X Nat
    BY <1>1, ElementOfSeq
  <2> QED
    BY <1>1, <2>1
<1>3. \A p \in (lo + 1)..hi : NotBreak(p) => p \in (lo + 1)..mid
  OBVIOUS
<1> HIDE DEF n
<1>4. \A i \in 1..n : z[i][2] <= hi
  BY <1>1, <1>2
<1>5. \A p \in (lo + 1)..hi : NotBreak(p) => \E i \in 1..n : z[i][1] < p /\ p <= z[i][2]
  BY <1>1, <1>3
<1>6. n = Len(l)
  BY DEF n
<1> QED
  BY <1>1, <1>4, <1>5, <1>6 DEF Covers

LEMMA StretchNone == ASSUME NEW lo \in Nat PROVE Stretch(<<>>, lo, lo) /\ Clean(lo, lo)
  BY EmptySeq DEF Stretch, Clean

LEMMA StretchAppend ==
  ASSUME NEW lo \in Nat, NEW hi \in Nat, lo <= hi, NEW s, Stretch(s, lo, hi)
  PROVE  Stretch(Append(s, hi + 1), lo, hi + 1)
<1> DEFINE n == Len(s)
           t == Append(s, hi + 1)
<1>1. s \in Seq(Nat) /\ n = hi - lo /\ \A k \in 1..n : s[k] = lo + k
  BY DEF Stretch
<1>2. n \in Nat /\ n + 1 = (hi + 1) - lo /\ hi + 1 \in Nat /\ lo + (n + 1) = hi + 1
  BY <1>1
<1>3. /\ t \in Seq(Nat) /\ Len(t) = n + 1
      /\ \A k \in 1..n : t[k] = s[k]
      /\ t[n + 1] = hi + 1
  BY <1>1, <1>2, AppendProperties
<1> HIDE DEF n, t
<1>4. \A k \in 1..(n + 1) : k \in 1..n \/ k = n + 1
  BY <1>2
<1>5. \A k \in 1..(n + 1) : t[k] = lo + k
  BY <1>1, <1>2, <1>3, <1>4
<1>6. Stretch(t, lo, hi + 1)
  BY <1>2, <1>3, <1>5 DEF Stretch
<1> QED
  BY <1>6 DEF t

\* A stretch and the one after it are one.
LEMMA StretchConcat ==
  ASSUME NEW lo \in Nat, NEW mid \in Nat, NEW hi \in Nat, lo <= mid, mid <= hi,
         NEW s, NEW t, Stretch(s, lo, mid), Stretch(t, mid, hi)
  PROVE  Stretch(s \o t, lo, hi)
<1> DEFINE m == Len(s)
           n == Len(t)
           u == s \o t
<1>1. /\ s \in Seq(Nat) /\ m = mid - lo /\ \A k \in 1..m : s[k] = lo + k
      /\ t \in Seq(Nat) /\ n = hi - mid /\ \A k \in 1..n : t[k] = mid + k
  BY DEF Stretch
<1>2. /\ u \in Seq(Nat) /\ Len(u) = m + n
      /\ \A k \in 1..(m + n) : u[k] = IF k <= m THEN s[k] ELSE t[k - m]
  BY <1>1, ConcatProperties
<1> HIDE DEF m, n, u
<1>3. m \in Nat /\ n \in Nat /\ m + n = hi - lo
  BY <1>1
<1>4. ASSUME NEW k \in 1..(m + n) PROVE u[k] = lo + k
  <2>1. CASE k <= m
    <3>1. k \in 1..m
      BY <1>3, <2>1
    <3> QED
      BY <1>1, <1>2, <2>1, <3>1
  <2>2. CASE ~(k <= m)
    <3>1. k - m \in 1..n /\ mid + (k - m) = lo + k
      BY <1>1, <1>3, <2>2
    <3> QED
      BY <1>1, <1>2, <2>2, <3>1
  <2> QED
    BY <2>1, <2>2
<1>5. Stretch(u, lo, hi)
  BY <1>2, <1>3, <1>4 DEF Stretch
<1> QED
  BY <1>5 DEF u

\* A stretch is cut in two anywhere.
LEMMA StretchCut ==
  ASSUME NEW lo \in Nat, NEW mid \in Nat, NEW hi \in Nat, lo <= mid, mid <= hi,
         NEW s, Stretch(s, lo, hi)
  PROVE  /\ Stretch(SubSeq(s, 1, mid - lo), lo, mid)
         /\ Stretch(SubSeq(s, (mid - lo) + 1, Len(s)), mid, hi)
<1> DEFINE n == Len(s)
           d == mid - lo
           e == hi - mid
<1>1. s \in Seq(Nat) /\ n = hi - lo /\ \A k \in 1..n : s[k] = lo + k
  BY DEF Stretch
<1>2. d \in Nat /\ e \in Nat /\ n = d + e /\ n \in Nat
  BY <1>1
<1> DEFINE a == SubSeq(s, 0 + 1, 0 + d)
           b == SubSeq(s, d + 1, d + e)
<1>3. 0 + d <= n /\ d + e <= n /\ 0 \in Nat
  BY <1>2
<1>4. /\ a \in Seq(Nat) /\ Len(a) = d /\ \A k \in 1..d : a[k] = s[0 + k]
      /\ b \in Seq(Nat) /\ Len(b) = e /\ \A k \in 1..e : b[k] = s[d + k]
  <2> HIDE DEF d, e
  <2> QED
    BY <1>1, <1>2, <1>3, Stretched
<1>5. a = SubSeq(s, 1, d) /\ b = SubSeq(s, d + 1, n)
  <2>1. 0 + 1 = 1 /\ 0 + d = d /\ d + e = n
    BY <1>2
  <2> QED
    BY <2>1
<1> HIDE DEF a, b, n
<1>6. /\ \A k \in 1..d : 0 + k = k /\ k \in 1..n
      /\ \A k \in 1..e : d + k \in 1..n /\ lo + (d + k) = mid + k
  BY <1>2
<1>7. /\ \A k \in 1..d : a[k] = lo + k
      /\ \A k \in 1..e : b[k] = mid + k
  <2> HIDE DEF d, e
  <2>1. ASSUME NEW k \in 1..d PROVE a[k] = lo + k
    BY <1>1, <1>4, <1>6
  <2>2. ASSUME NEW k \in 1..e PROVE b[k] = mid + k
    <3>1. b[k] = s[d + k] /\ s[d + k] = lo + (d + k)
      BY <1>1, <1>4, <1>6
    <3> QED
      BY <1>6, <3>1
  <2> QED
    BY <2>1, <2>2
<1>8. Stretch(a, lo, mid) /\ Stretch(b, mid, hi)
  BY <1>4, <1>7 DEF Stretch
<1> QED
  BY <1>5, <1>8 DEF n

\* Lines that end at a newline, and hold none.
Lined(z) == \A i \in 1..Len(z) : Clean(z[i][1], z[i][2]) /\ ~NotBreak(z[i][2] + 1)
CutTo(state, lo, hi) ==
  \E r \in lo..hi :
    /\ \E z : Covers(state.lines, z, lo, r) /\ Lined(z)
    /\ Stretch(state.rest, r, hi) /\ Clean(r, hi)

LEMMA LinedConcat ==
  ASSUME NEW y \in Seq(Nat \X Nat), NEW z \in Seq(Nat \X Nat),
         Lined(y), Lined(z)
  PROVE  Lined(y \o z)
<1> DEFINE a == Len(y)
           b == Len(z)
           Z == y \o z
<1>1. /\ a \in Nat /\ b \in Nat /\ Len(Z) = a + b
      /\ \A i \in 1..(a + b) : Z[i] = IF i <= a THEN y[i] ELSE z[i - a]
  BY ConcatProperties
<1>2. /\ \A i \in 1..a : Clean(y[i][1], y[i][2]) /\ ~NotBreak(y[i][2] + 1)
      /\ \A i \in 1..b : Clean(z[i][1], z[i][2]) /\ ~NotBreak(z[i][2] + 1)
  BY DEF Lined
<1> HIDE DEF a, b, Z
<1>3. ASSUME NEW i \in 1..(a + b)
      PROVE  Clean(Z[i][1], Z[i][2]) /\ ~NotBreak(Z[i][2] + 1)
  <2>1. CASE i <= a
    <3>1. i \in 1..a
      BY <1>1, <2>1
    <3> QED
      BY <1>1, <1>2, <2>1, <3>1
  <2>2. CASE ~(i <= a)
    <3>1. i - a \in 1..b
      BY <1>1, <2>2
    <3> QED
      BY <1>1, <1>2, <2>2, <3>1
  <2> QED
    BY <2>1, <2>2
<1>4. Lined(Z)
  BY <1>1, <1>3 DEF Lined
<1> QED
  BY <1>4 DEF Z

\* One more byte: it joins the open line, or it ends it.
LEMMA CutByteCovers ==
  ASSUME NEW lo \in Nat, NEW hi \in Nat, lo <= hi, NEW state \in Cutting, CutTo(state, lo, hi)
  PROVE  CutTo(CutByte(state, hi + 1), lo, hi + 1)
<1>0. PICK r \in lo..hi : /\ \E z : Covers(state.lines, z, lo, r) /\ Lined(z)
                          /\ Stretch(state.rest, r, hi) /\ Clean(r, hi)
  BY DEF CutTo
<1>1. PICK z : /\ r \in lo..hi /\ Covers(state.lines, z, lo, r) /\ Lined(z)
               /\ Stretch(state.rest, r, hi) /\ Clean(r, hi)
  BY <1>0
<1>2. r \in Nat /\ lo <= r /\ r <= hi /\ hi + 1 \in Nat /\ z \in Seq(Nat \X Nat)
  BY <1>1 DEF Covers
<1>3. CASE NotBreak(hi + 1)
  <2>1. /\ CutByte(state, hi + 1).lines = state.lines
        /\ CutByte(state, hi + 1).rest = Append(state.rest, hi + 1)
    BY <1>3 DEF CutByte, Cutting
  <2>2. Stretch(Append(state.rest, hi + 1), r, hi + 1)
    BY <1>1, <1>2, StretchAppend
  <2>3. Clean(r, hi + 1)
    <3>1. \A p \in (r + 1)..(hi + 1) : p \in (r + 1)..hi \/ p = hi + 1
      BY <1>2
    <3> QED
      BY <1>1, <1>3, <3>1 DEF Clean
  <2>4. r \in lo..(hi + 1)
    BY <1>2
  <2> DEFINE new == CutByte(state, hi + 1)
  <2>5. new.lines = state.lines /\ Stretch(new.rest, r, hi + 1)
    BY <2>1, <2>2
  <2> HIDE DEF new
  <2>6. CutTo(new, lo, hi + 1)
    BY <1>1, <2>3, <2>4, <2>5 DEF CutTo
  <2> QED
    BY <2>6 DEF new
<1>4. CASE ~NotBreak(hi + 1)
  <2> DEFINE l == state.rest
             y == << <<r, hi>> >>
  <2>1. /\ CutByte(state, hi + 1).lines = state.lines \o <<l>>
        /\ CutByte(state, hi + 1).rest = <<>>
    <3>1. state.lines \in Seq(Seq(Nat)) /\ l \in Seq(Nat)
      BY DEF Cutting
    <3>2. Append(state.lines, l) = state.lines \o <<l>>
      BY <3>1, AppendIsConcat
    <3> QED
      BY <1>4, <3>2 DEF CutByte
  <2>2. Covers(<<l>>, y, r, hi)
    BY <1>1, <1>2, CoversOne
  <2>3. y \in Seq(Nat \X Nat) /\ Len(y) = 1 /\ y[1][1] = r /\ y[1][2] = hi
    BY <1>2
  <2>4. Lined(y)
    <3> HIDE DEF y
    <3>1. \A i \in 1..1 : i = 1
      OBVIOUS
    <3> QED
      BY <1>1, <1>2, <1>4, <2>3, <3>1 DEF Lined
  <2> HIDE DEF l, y
  <2>6. Covers(state.lines \o <<l>>, z \o y, lo, hi)
    BY <1>1, <1>2, <2>2, CoversConcat
  <2>7. Covers(state.lines \o <<l>>, z \o y, lo, hi + 1)
    <3>1. hi <= hi + 1 /\ \A p \in (hi + 1)..(hi + 1) : ~NotBreak(p)
      BY <1>4
    <3> QED
      BY <1>2, <2>6, <3>1, CoversGap
  <2>8. Lined(z \o y)
    BY <1>2, <1>1, <2>3, <2>4, LinedConcat
  <2>9. Stretch(<<>>, hi + 1, hi + 1) /\ Clean(hi + 1, hi + 1) /\ hi + 1 \in lo..(hi + 1)
    BY <1>2, StretchNone
  <2> DEFINE new == CutByte(state, hi + 1)
  <2>10. new.lines = state.lines \o <<l>> /\ new.rest = <<>>
    BY <2>1
  <2> HIDE DEF new
  <2>11. CutTo(new, lo, hi + 1)
    BY <2>7, <2>8, <2>9, <2>10 DEF CutTo
  <2> QED
    BY <2>11 DEF new
<1> QED
  BY <1>3, <1>4

\* The lines of a stretch that ends with a newline are all of it.
LEMMA LinesCover ==
  ASSUME NEW lo \in Nat, NEW hi \in Nat, lo <= hi, lo = hi \/ ~NotBreak(hi),
         NEW s, Stretch(s, lo, hi)
  PROVE  \E z : Covers(Lines(s), z, lo, hi) /\ Lined(z)
<1> DEFINE n == Len(s)
<1>1. s \in Seq(Nat) /\ n = hi - lo /\ n \in Nat /\ \A k \in 1..n : s[k] = lo + k
  BY DEF Stretch
<1>2. PICK g : Cuts(s, g)
  BY <1>1, LinesSteps
<1>3. /\ g \in [0..n -> Cutting] /\ g[0] = [lines |-> <<>>, rest |-> <<>>]
      /\ \A k \in 1..n : g[k] = CutByte(g[k - 1], s[k])
      /\ Lines(s) = g[n].lines
  BY <1>2 DEF Cuts
<1> DEFINE Off == {k \in 0..n : ~CutTo(g[k], lo, lo + k)}
<1> HIDE DEF n
<1>4. CutTo(g[0], lo, lo + 0)
  <2>1. Covers(<<>>, <<>>, lo, lo)
    <3>1. \A p \in (lo + 1)..lo : ~NotBreak(p)
      OBVIOUS
    <3> QED
      BY <3>1, CoversNone
  <2>2. Lined(<<>>)
    BY EmptySeq DEF Lined
  <2>3. lo \in lo..lo /\ lo + 0 = lo
    OBVIOUS
  <2>4. Stretch(<<>>, lo, lo) /\ Clean(lo, lo)
    BY StretchNone
  <2>5. g[0].lines = <<>> /\ g[0].rest = <<>>
    BY <1>3
  <2>6. CutTo(g[0], lo, lo)
    BY <2>1, <2>2, <2>3, <2>4, <2>5 DEF CutTo
  <2> QED
    BY <2>3, <2>6
<1>5. ASSUME NEW k \in 1..n, CutTo(g[k - 1], lo, lo + (k - 1)) PROVE CutTo(g[k], lo, lo + k)
  <2>1. /\ k - 1 \in 0..n /\ lo + (k - 1) \in Nat /\ lo <= lo + (k - 1)
        /\ (lo + (k - 1)) + 1 = lo + k
    BY <1>1
  <2>2. g[k] = CutByte(g[k - 1], lo + k) /\ g[k - 1] \in Cutting
    BY <1>1, <1>3, <2>1
  <2>3. CutTo(CutByte(g[k - 1], (lo + (k - 1)) + 1), lo, (lo + (k - 1)) + 1)
    BY <1>5, <2>1, <2>2, CutByteCovers
  <2> QED
    BY <2>1, <2>2, <2>3
<1>6. Off = {}
  <2> SUFFICES ASSUME Off # {} PROVE FALSE
    OBVIOUS
  <2>1. PICK k \in Off : \A m \in Off : k <= m
    <3>1. Off \in SUBSET Nat
      BY <1>1
    <3> HIDE DEF Off
    <3> QED
      BY <3>1, LeastNumber
  <2>2. k \in 0..n /\ ~CutTo(g[k], lo, lo + k)
    OBVIOUS
  <2>3. k # 0
    BY <1>4, <2>2
  <2>4. k \in 1..n /\ k - 1 \in 0..n /\ ~(k <= k - 1)
    BY <1>1, <2>2, <2>3
  <2>5. k - 1 \notin Off
    <3> HIDE DEF Off
    <3> QED
      BY <2>1, <2>4
  <2>6. CutTo(g[k - 1], lo, lo + (k - 1))
    BY <2>4, <2>5
  <2> QED
    BY <1>5, <2>2, <2>4, <2>6
<1>7. CutTo(g[n], lo, hi)
  <2>1. n \in 0..n /\ lo + n = hi
    BY <1>1
  <2> QED
    BY <1>6, <2>1
<1>8a. PICK r \in lo..hi : (\E z : Covers(g[n].lines, z, lo, r) /\ Lined(z)) /\ Clean(r, hi)
  BY <1>7 DEF CutTo
<1>8. PICK z : r \in lo..hi /\ Covers(g[n].lines, z, lo, r) /\ Lined(z) /\ Clean(r, hi)
  BY <1>8a
<1>9. r = hi
  <2>1. ~(hi \in (r + 1)..hi) \/ lo = hi
    BY <1>8 DEF Clean
  <2> QED
    BY <2>1
<1> QED
  BY <1>3, <1>8, <1>9

-----------------------------------------------------------------------------
(* The channel: stretches that follow each other without a gap.            *)

Chain(q, b, lo, hi) ==
  /\ q \in Seq(Seq(Nat)) /\ b \in [0..Len(q) -> Nat] /\ b[0] = lo /\ b[Len(q)] = hi
  /\ \A i, j \in 0..Len(q) : i <= j => b[i] <= b[j]
  /\ \A i \in 1..Len(q) : Stretch(q[i], b[i - 1], b[i])
Chained(q, lo, hi) == \E b : Chain(q, b, lo, hi)

LEMMA ChainedNone ==
  ASSUME NEW lo \in Nat, NEW hi \in Nat
  PROVE  Chained(<<>>, lo, hi) <=> lo = hi
<1>1. <<>> \in Seq(Seq(Nat)) /\ Len(<<>>) = 0
  BY EmptySeq
<1>2. ASSUME lo = hi PROVE Chained(<<>>, lo, hi)
  <2> DEFINE b == [i \in 0..0 |-> lo]
  <2>1. Chain(<<>>, b, lo, hi)
    BY <1>1, <1>2 DEF Chain
  <2> QED
    BY <2>1 DEF Chained
<1>3. ASSUME Chained(<<>>, lo, hi) PROVE lo = hi
  BY <1>1, <1>3 DEF Chained, Chain
<1> QED
  BY <1>2, <1>3

LEMMA ChainedOrder ==
  ASSUME NEW lo, NEW hi, NEW q, Chained(q, lo, hi)
  PROVE  lo \in Nat /\ hi \in Nat /\ lo <= hi /\ q \in Seq(Seq(Nat))
<1>1. PICK b : Chain(q, b, lo, hi)
  BY DEF Chained
<1>2. q \in Seq(Seq(Nat)) /\ Len(q) \in Nat /\ 0 \in 0..Len(q) /\ Len(q) \in 0..Len(q) /\ 0 <= Len(q)
  BY <1>1, LenProperties DEF Chain
<1> QED
  BY <1>1, <1>2 DEF Chain

\* The pump sends a chunk ...
LEMMA ChainedAppend ==
  ASSUME NEW lo \in Nat, NEW mid \in Nat, NEW hi \in Nat, mid <= hi, NEW q, NEW l,
         Chained(q, lo, mid), Stretch(l, mid, hi)
  PROVE  Chained(Append(q, l), lo, hi)
<1> DEFINE n == Len(q)
           t == Append(q, l)
<1>1. PICK b : Chain(q, b, lo, mid)
  BY DEF Chained
<1>2. /\ q \in Seq(Seq(Nat)) /\ n \in Nat /\ b \in [0..n -> Nat] /\ b[0] = lo /\ b[n] = mid
      /\ \A i, j \in 0..n : i <= j => b[i] <= b[j]
      /\ \A i \in 1..n : Stretch(q[i], b[i - 1], b[i])
  BY <1>1, LenProperties DEF Chain
<1>3. l \in Seq(Nat)
  BY DEF Stretch
<1>4. t \in Seq(Seq(Nat)) /\ Len(t) = n + 1 /\ (\A i \in 1..n : t[i] = q[i]) /\ t[n + 1] = l
  BY <1>2, <1>3, AppendProperties
<1> DEFINE c == [i \in 0..(n + 1) |-> IF i <= n THEN b[i] ELSE hi]
<1>5. c \in [0..(n + 1) -> Nat] /\ c[n + 1] = hi /\ \A i \in 0..n : c[i] = b[i]
  <2> HIDE DEF n
  <2> QED
    BY <1>2
<1> HIDE DEF n, t, c
<1>6. \A i \in 0..(n + 1) : i \in 0..n \/ i = n + 1
  BY <1>2
<1>7. \A i \in 0..n : b[i] <= mid /\ b[i] \in Nat
  BY <1>2
<1>8. ASSUME NEW i \in 0..(n + 1), NEW j \in 0..(n + 1), i <= j PROVE c[i] <= c[j]
  <2>1. CASE j \in 0..n
    <3>1. i \in 0..n
      BY <1>2, <1>8, <2>1
    <3> QED
      BY <1>2, <1>5, <1>8, <2>1, <3>1
  <2>2. CASE j = n + 1
    <3>1. CASE i \in 0..n
      BY <1>5, <1>7, <2>2, <3>1
    <3>2. CASE i = n + 1
      BY <1>5, <2>2, <3>2
    <3> QED
      BY <1>6, <3>1, <3>2
  <2> QED
    BY <1>6, <2>1, <2>2
<1>9. ASSUME NEW i \in 1..(n + 1) PROVE Stretch(t[i], c[i - 1], c[i])
  <2>1. CASE i \in 1..n
    <3>1. i \in 0..n /\ i - 1 \in 0..n
      BY <1>2, <2>1
    <3> QED
      BY <1>2, <1>4, <1>5, <2>1, <3>1
  <2>2. CASE i = n + 1
    <3>1. n \in 0..n /\ i - 1 = n
      BY <1>2, <2>2
    <3> QED
      BY <1>2, <1>4, <1>5, <2>2, <3>1
  <2> QED
    BY <1>2, <2>1, <2>2
<1>10. c[0] = lo
  BY <1>2, <1>5
<1>11. Chain(t, c, lo, hi)
  BY <1>4, <1>5, <1>8, <1>9, <1>10 DEF Chain
<1> QED
  BY <1>11 DEF Chained, t

\* ... the sink receives the oldest ...
LEMMA ChainedTail ==
  ASSUME NEW lo \in Nat, NEW hi \in Nat, NEW q, q # <<>>, Chained(q, lo, hi)
  PROVE  \E mid \in Nat : lo <= mid /\ mid <= hi /\ Stretch(Head(q), lo, mid) /\ Chained(Tail(q), mid, hi)
<1> DEFINE n == Len(q)
           t == Tail(q)
<1>1. PICK b : Chain(q, b, lo, hi)
  BY DEF Chained
<1>2. /\ q \in Seq(Seq(Nat)) /\ n \in Nat /\ b \in [0..n -> Nat] /\ b[0] = lo /\ b[n] = hi
      /\ \A i, j \in 0..n : i <= j => b[i] <= b[j]
      /\ \A i \in 1..n : Stretch(q[i], b[i - 1], b[i])
  BY <1>1, LenProperties DEF Chain
<1>3. /\ n \in Nat \ {0} /\ Head(q) = q[1]
      /\ t \in Seq(Seq(Nat)) /\ Len(t) = n - 1 /\ \A i \in 1..(n - 1) : t[i] = q[i + 1]
  BY <1>2, EmptySeq, HeadTailProperties
<1> DEFINE c == [i \in 0..(n - 1) |-> b[i + 1]]
<1> HIDE DEF n, t
<1>4. \A i \in 0..(n - 1) : i + 1 \in 0..n
  BY <1>3
<1>5. c \in [0..(n - 1) -> Nat] /\ \A i \in 0..(n - 1) : c[i] = b[i + 1]
  BY <1>2, <1>4
<1> HIDE DEF c
<1>6. ASSUME NEW i \in 0..(n - 1), NEW j \in 0..(n - 1), i <= j PROVE c[i] <= c[j]
  <2>1. i + 1 <= j + 1
    BY <1>6
  <2> QED
    BY <1>2, <1>4, <1>5, <2>1
<1>7. ASSUME NEW i \in 1..(n - 1) PROVE Stretch(t[i], c[i - 1], c[i])
  <2>1. i + 1 \in 1..n /\ i \in 0..(n - 1) /\ i - 1 \in 0..(n - 1) /\ (i - 1) + 1 = i /\ (i + 1) - 1 = i
    BY <1>3
  <2>2. Stretch(q[i + 1], b[(i + 1) - 1], b[i + 1])
    BY <1>2, <2>1
  <2> QED
    BY <1>3, <1>5, <2>1, <2>2
<1>8. 0 \in 0..(n - 1) /\ n - 1 \in 0..(n - 1) /\ (n - 1) + 1 = n /\ 1 \in 1..n /\ 1 - 1 = 0 /\ 0 + 1 = 1
      /\ 0 \in 0..n /\ 1 \in 0..n /\ n \in 0..n /\ 1 <= n
  BY <1>3
<1>9. Chain(t, c, b[1], hi)
  <2>1. c[0] = b[1] /\ c[n - 1] = hi
    BY <1>2, <1>5, <1>8
  <2> QED
    BY <1>3, <1>5, <1>6, <1>7, <2>1 DEF Chain
<1>10. b[1] \in Nat /\ lo <= b[1] /\ b[1] <= hi
  BY <1>2, <1>8
<1>11. Stretch(Head(q), lo, b[1])
  <2>1. Stretch(q[1], b[1 - 1], b[1])
    BY <1>2, <1>8
  <2> QED
    BY <1>2, <1>3, <1>8, <2>1
<1> QED
  BY <1>9, <1>10, <1>11 DEF Chained, t

\* ... and what lies between them is in the channel, in order.
LEMMA ChainedCovers ==
  ASSUME NEW lo \in Nat, NEW hi \in Nat, NEW q, Chained(q, lo, hi)
  PROVE  \E z : Covers(q, z, lo, hi)
<1> DEFINE n == Len(q)
<1>1. PICK b : Chain(q, b, lo, hi)
  BY DEF Chained
<1>2. /\ q \in Seq(Seq(Nat)) /\ n \in Nat /\ b \in [0..n -> Nat] /\ b[0] = lo /\ b[n] = hi
      /\ \A i, j \in 0..n : i <= j => b[i] <= b[j]
      /\ \A i \in 1..n : Stretch(q[i], b[i - 1], b[i])
  BY <1>1, LenProperties DEF Chain
<1> DEFINE z == [i \in 1..n |-> <<b[i - 1], b[i]>>]
<1> HIDE DEF n
<1>3. \A i \in 1..n : i \in 0..n /\ i - 1 \in 0..n /\ i - 1 <= i
  BY <1>2
<1>4. z \in Seq(Nat \X Nat) /\ Len(z) = n /\ \A i \in 1..n : z[i][1] = b[i - 1] /\ z[i][2] = b[i]
  <2>1. z \in [1..n -> Nat \X Nat]
    BY <1>2, <1>3
  <2>2. z \in Seq(Nat \X Nat)
    BY <1>2, <2>1
  <2> QED
    BY <1>2, <2>1, <2>2, LenProperties
<1> HIDE DEF z
<1>5. ASSUME NEW i \in 1..n
      PROVE  /\ Stretch(q[i], z[i][1], z[i][2])
             /\ lo <= z[i][1] /\ z[i][1] <= z[i][2] /\ z[i][2] <= hi
  <2>1. b[0] <= b[i - 1] /\ b[i - 1] <= b[i] /\ b[i] <= b[n]
    <3>1. 0 \in 0..n /\ n \in 0..n /\ 0 <= i - 1 /\ i <= n
      BY <1>2
    <3> QED
      BY <1>2, <1>3, <3>1
  <2> QED
    BY <1>2, <1>4, <2>1
<1>6. ASSUME NEW i \in 1..n, NEW j \in 1..n, i < j PROVE z[i][2] <= z[j][1]
  <2>1. i <= j - 1
    BY <1>2, <1>6
  <2> QED
    BY <1>2, <1>3, <1>4, <2>1
<1>7. ASSUME NEW p \in (lo + 1)..hi PROVE \E i \in 1..n : z[i][1] < p /\ p <= z[i][2]
  <2> DEFINE Up == {i \in 0..n : p <= b[i]}
  <2>1. n \in Up
    BY <1>2
  <2>2. PICK k \in Up : \A m \in Up : k <= m
    <3>1. Up \in SUBSET Nat
      BY <1>2
    <3> HIDE DEF Up
    <3> QED
      BY <2>1, <3>1, LeastNumber
  <2>3. k \in 0..n /\ p <= b[k] /\ k # 0
    BY <1>2
  <2>4. k \in 1..n /\ k - 1 \in 0..n /\ ~(k <= k - 1)
    BY <1>2, <2>3
  <2>5. k - 1 \notin Up
    <3> HIDE DEF Up
    <3> QED
      BY <2>2, <2>4
  <2>6. b[k - 1] < p
    <3>1. b[k - 1] \in Nat /\ ~(p <= b[k - 1])
      BY <1>2, <2>4, <2>5
    <3> QED
      BY <3>1
  <2> QED
    BY <1>4, <2>3, <2>4, <2>6
<1>8. n = Len(q)
  BY DEF n
<1>9. Covers(q, z, lo, hi)
  BY <1>2, <1>4, <1>5, <1>6, <1>7, <1>8 DEF Covers
<1> QED
  BY <1>9

-----------------------------------------------------------------------------
(* The writer.                                                             *)

\* A line as write_chunk lets it go: to the newline, or longer than the limit.
Cut(c) == Clean(c[1], c[2]) /\ (~NotBreak(c[2] + 1) \/ c[2] - c[1] > MaxLine)

\* Where the lines leave: at the last newline of the new data.
Leave(data) ==
  LET ends == {Len(buf) + k : k \in {i \in 1..Len(data) : ~NotBreak(data[i])}}
  IN  CHOOSE e \in ends \cup {0} : \A d \in ends : d <= e

LEMMA LastBreak ==
  ASSUME NEW v \in Nat, NEW w \in Nat, NEW u \in Nat, v <= w, w <= u,
         NEW data, Stretch(data, w, u), Stretch(buf, v, w), Clean(v, w)
  PROVE  /\ Leave(data) \in 0..(u - v)
         /\ Leave(data) = 0 \/ ~NotBreak(v + Leave(data))
         /\ Clean(v + Leave(data), u)
<1> DEFINE ends == {Len(buf) + k : k \in {i \in 1..Len(data) : ~NotBreak(data[i])}}
           last == CHOOSE e \in ends \cup {0} : \A d \in ends : d <= e
<1>1. Len(buf) = w - v /\ Len(data) = u - w /\ \A k \in 1..Len(data) : data[k] = w + k
  BY DEF Stretch
<1>2. ends = {(w - v) + k : k \in {i \in 1..(u - w) : ~NotBreak(w + i)}}
  BY <1>1
<1>3. \A e : e \in ends <=> e \in ((w - v) + 1)..(u - v) /\ ~NotBreak(v + e)
  <2>1. ASSUME NEW e \in ends PROVE e \in ((w - v) + 1)..(u - v) /\ ~NotBreak(v + e)
    <3>1. PICK k \in 1..(u - w) : e = (w - v) + k /\ ~NotBreak(w + k)
      BY <1>2
    <3>2. v + e = w + k /\ e \in ((w - v) + 1)..(u - v)
      BY <3>1
    <3> QED
      BY <3>1, <3>2
  <2>2. ASSUME NEW e \in ((w - v) + 1)..(u - v), ~NotBreak(v + e) PROVE e \in ends
    <3> DEFINE k == e - (w - v)
    <3>1. k \in 1..(u - w) /\ e = (w - v) + k /\ w + k = v + e
      OBVIOUS
    <3> HIDE DEF k
    <3> QED
      BY <1>2, <2>2, <3>1
  <2> QED
    BY <2>1, <2>2
<1> HIDE DEF ends
<1>4. \E e \in ends \cup {0} : \A d \in ends : d <= e
  <2>1. CASE ends = {}
    BY <2>1
  <2>2. CASE ends # {}
    <3> DEFINE left == {(u - v) - e : e \in ends}
    <3>1. left \in SUBSET Nat /\ left # {}
      BY <1>3, <2>2
    <3>2. PICK x \in left : \A y \in left : x <= y
      <4> HIDE DEF left
      <4> QED
        BY <3>1, LeastNumber
    <3>3. PICK e \in ends : x = (u - v) - e
      OBVIOUS
    <3>4. ASSUME NEW d \in ends PROVE d <= e
      <4>1. (u - v) - e <= (u - v) - d
        BY <3>2, <3>3
      <4>2. d \in Int /\ e \in Int
        BY <1>3
      <4> QED
        BY <4>1, <4>2
    <3> QED
      BY <3>4
  <2> QED
    BY <2>1, <2>2
<1>5. last \in ends \cup {0} /\ \A d \in ends : d <= last
  BY <1>4
<1> HIDE DEF last
<1>6. last \in 0..(u - v) /\ (last = 0 \/ ~NotBreak(v + last))
  BY <1>3, <1>5
<1>7. ASSUME NEW p \in ((v + last) + 1)..u PROVE NotBreak(p)
  <2>1. CASE p <= w
    <3>1. p \in (v + 1)..w
      BY <1>6, <2>1
    <3> QED
      BY <3>1 DEF Clean
  <2>2. CASE ~(p <= w)
    <3> DEFINE e == p - v
    <3>1. e \in ((w - v) + 1)..(u - v) /\ v + e = p /\ ~(e <= last)
      BY <1>6, <2>2
    <3> HIDE DEF e
    <3> QED
      BY <1>3, <1>5, <3>1
  <2> QED
    BY <2>1, <2>2
<1>8. Clean(v + last, u)
  BY <1>7 DEF Clean
<1> QED
  BY <1>6, <1>8 DEF last, ends, Leave

\* New lines y behind the lines z, up to byte r.
Written(z, y, r, u) ==
  /\ y \in Seq(Nat \X Nat) /\ Covers(emitted', z \o y, 0, r)
  /\ Stretch(buf', r, u) /\ Clean(r, u)
  /\ \A i \in 1..Len(y) : Cut(y[i])

\* The data of one chunk, behind a partial line: the lines that leave end where they
\* should, and what stays is the rest.
LEMMA WriteCovers ==
  ASSUME NEW v \in Nat, NEW w \in Nat, NEW u \in Nat, v <= w, w <= u,
         NEW z, Covers(emitted, z, 0, v), Stretch(buf, v, w), Clean(v, w),
         NEW data, Stretch(data, w, u), Write(data)
  PROVE  \E r \in v..u : \E y : Written(z, y, r, u)
<1> DEFINE all == buf \o data
           last == Leave(data)
           rest == SubSeq(all, last + 1, Len(all))
           long == Len(rest) > MaxLine
           lines == Lines(SubSeq(all, 1, last))
           r == v + last
<1>1. /\ emitted' = (emitted \o lines) \o IF long THEN <<rest>> ELSE <<>>
      /\ buf' = IF long THEN <<>> ELSE rest
  BY Zenon DEF Write, Leave
<1>2. last \in 0..(u - v) /\ (last = 0 \/ ~NotBreak(v + last)) /\ Clean(v + last, u)
  BY LastBreak
<1>3. Stretch(all, v, u)
  BY StretchConcat
<1> HIDE DEF all, last
<1>4. /\ r \in Nat /\ v <= r /\ r <= u /\ r - v = last /\ r \in v..u
      /\ (v = r \/ ~NotBreak(r)) /\ Clean(r, u)
  BY <1>2
<1> HIDE DEF r
<1>5. Stretch(SubSeq(all, 1, last), v, r) /\ Stretch(rest, r, u)
  <2>1. /\ Stretch(SubSeq(all, 1, r - v), v, r)
        /\ Stretch(SubSeq(all, (r - v) + 1, Len(all)), r, u)
    BY <1>3, <1>4, StretchCut
  <2> QED
    BY <1>4, <2>1
<1>6. PICK x : Covers(lines, x, v, r) /\ Lined(x)
  BY <1>4, <1>5, LinesCover
<1> HIDE DEF lines, rest
<1>7. /\ x \in Seq(Nat \X Nat) /\ z \in Seq(Nat \X Nat)
      /\ emitted \in Seq(Seq(Nat)) /\ lines \in Seq(Seq(Nat))
  BY <1>6 DEF Covers
<1>8. Covers(emitted \o lines, z \o x, 0, r)
  BY <1>4, <1>6, CoversConcat
<1>9. \A i \in 1..Len(x) : Cut(x[i])
  BY <1>6 DEF Lined, Cut
<1>10. CASE ~long
  <2>1. emitted' = emitted \o lines /\ buf' = rest
    <3>1. emitted \o lines \in Seq(Seq(Nat))
      BY <1>7, ConcatProperties
    <3> QED
      BY <1>1, <1>10, <3>1, ConcatEmptySeq
  <2> QED
    BY <1>4, <1>5, <1>7, <1>8, <1>9, <2>1 DEF Written
<1>11. CASE long
  <2> DEFINE c == << <<r, u>> >>
             y == x \o c
  <2>1. emitted' = (emitted \o lines) \o <<rest>> /\ buf' = <<>>
    BY <1>1, <1>11
  <2>2. Covers(<<rest>>, c, r, u)
    BY <1>4, <1>5, CoversOne
  <2>3. c \in Seq(Nat \X Nat) /\ Len(c) = 1 /\ c[1] = <<r, u>>
    BY <1>4
  <2>4. Cut(c[1])
    <3>1. Len(rest) = u - r
      BY <1>5 DEF Stretch
    <3> QED
      BY <1>4, <1>11, <2>3, <3>1 DEF Cut
  <2> HIDE DEF c
  <2> DEFINE S == Nat \X Nat
  <2>4a. x \in Seq(S) /\ z \in Seq(S) /\ c \in Seq(S)
    BY <1>7, <2>3
  <2> HIDE DEF S
  <2>5. /\ y \in Seq(S) /\ Len(y) = Len(x) + 1
        /\ \A i \in 1..(Len(x) + 1) : y[i] = IF i <= Len(x) THEN x[i] ELSE c[i - Len(x)]
    <3>1. /\ y \in Seq(S) /\ Len(y) = Len(x) + Len(c)
          /\ \A i \in 1..(Len(x) + Len(c)) : y[i] = IF i <= Len(x) THEN x[i] ELSE c[i - Len(x)]
      BY <2>4a, ConcatProperties
    <3> QED
      BY <2>3, <3>1
  <2>6. (z \o x) \o c = z \o y
    BY <2>4a, ConcatAssociative
  <2> DEFINE n == Len(x)
  <2>7. n \in Nat
    BY <1>7
  <2> HIDE DEF y
  <2>8. \A i \in 1..(n + 1) : y[i] = IF i <= n THEN x[i] ELSE c[i - n]
    BY <2>5
  <2>9. Len(y) = n + 1 /\ \A i \in 1..n : Cut(x[i])
    BY <1>9, <2>5
  <2> HIDE DEF n
  <2>10. ASSUME NEW i \in 1..(n + 1) PROVE Cut(y[i])
    <3>1. CASE i <= n
      <4>1. i \in 1..n
        BY <2>7, <3>1
      <4> QED
        BY <2>8, <2>9, <3>1, <4>1
    <3>2. CASE ~(i <= n)
      <4>1. i - n = 1
        BY <2>7, <3>2
      <4> QED
        BY <2>4, <2>8, <3>2, <4>1
    <3> QED
      BY <3>1, <3>2
  <2>11. Covers(emitted', z \o y, 0, u)
    <3>1. Covers((emitted \o lines) \o <<rest>>, (z \o x) \o c, 0, u)
      <4> DEFINE A == emitted \o lines
                 B == z \o x
      <4>1. Covers(A, B, 0, r)
        BY <1>8
      <4> HIDE DEF A, B
      <4>2. Covers(A \o <<rest>>, B \o c, 0, u)
        BY <1>4, <2>2, <4>1, CoversConcat
      <4> QED
        BY <4>2 DEF A, B
    <3> QED
      BY <2>1, <2>6, <3>1
  <2>12. Stretch(buf', u, u) /\ Clean(u, u) /\ u \in v..u
    BY <2>1, StretchNone
  <2>13. y \in Seq(Nat \X Nat) /\ \A i \in 1..Len(y) : Cut(y[i])
    BY <2>5, <2>9, <2>10 DEF S
  <2> QED
    BY <2>11, <2>12, <2>13 DEF Written
<1> QED
  BY <1>10, <1>11

-----------------------------------------------------------------------------
(* Where the bytes read are.                                               *)

\* A line that is allowed to end where it does.
Whole(c) ==
  /\ Clean(c[1], c[2])
  /\ \/ drain \in {"flush", "done"}
     \/ ~NotBreak(c[2] + 1)
     \/ c[2] - c[1] > MaxLine
     \/ c[2] = read /\ (pump = "done" \/ sink = "done")

\* The lines logged reach up to byte v and the partial line up to w; the sink and the
\* channel hold what follows up to y, and the pump has the rest in hand.
Logged(z, v, w) ==
  /\ Covers(emitted, z, 0, v) /\ Stretch(buf, v, w) /\ Clean(v, w)
  /\ \A i \in 1..Len(z) : Whole(z[i])
Sent(w, y) == \E x \in w..y : Stretch(sink_chunk, w, x) /\ Chained(queue, x, y)
OrderInv ==
  \E v, w, y, m \in Nat :
    /\ v <= w /\ w <= y /\ y <= m /\ m <= read
    /\ \E z : Logged(z, v, w)
    /\ Sent(w, y)
    /\ Stretch(chunk, y, m)
    /\ m = read \/ (mode = "stream" /\ pump = "gone")

LEMMA StretchIs ==
  ASSUME NEW lo \in Nat, NEW hi \in Nat
  PROVE  Stretch(<<>>, lo, hi) => lo = hi
  BY EmptySeq DEF Stretch

\* With the sink and the channel empty there is nothing between the log and the pump.
LEMMA SentNone ==
  ASSUME NEW w \in Nat, NEW y \in Nat, w <= y, sink_chunk = <<>>, queue = <<>>
  PROVE  Sent(w, y) <=> w = y
<1>1. ASSUME Sent(w, y) PROVE w = y
  <2>1. PICK x \in w..y : Stretch(<<>>, w, x) /\ Chained(<<>>, x, y)
    BY <1>1 DEF Sent
  <2> QED
    BY <2>1, StretchIs, ChainedNone
<1>2. ASSUME w = y PROVE Sent(w, y)
  <2>1. w \in w..y /\ Stretch(<<>>, w, w) /\ Chained(<<>>, w, y)
    BY <1>2, StretchNone, ChainedNone
  <2> QED
    BY <2>1 DEF Sent
<1> QED
  BY <1>1, <1>2

LEMMA OrderInit == Init => OrderInv
<1> SUFFICES ASSUME Init PROVE OrderInv
  OBVIOUS
<1>1. /\ emitted = <<>> /\ buf = <<>> /\ sink_chunk = <<>> /\ queue = <<>> /\ chunk = <<>> /\ read = 0
  BY DEF Init
<1>2. Covers(<<>>, <<>>, 0, 0) /\ Stretch(<<>>, 0, 0) /\ Clean(0, 0)
  <2>1. \A p \in (0 + 1)..0 : ~NotBreak(p)
    OBVIOUS
  <2> QED
    BY <2>1, CoversNone, StretchNone
<1>3. Logged(<<>>, 0, 0)
  BY <1>1, <1>2, EmptySeq DEF Logged
<1>4. Sent(0, 0)
  BY <1>1, SentNone
<1>5. 0 \in Nat /\ 0 <= 0 /\ Stretch(chunk, 0, 0)
  BY <1>1, <1>2
<1> QED
  BY <1>1, <1>3, <1>4, <1>5 DEF OrderInv

\* What was let through stays so.
LEMMA WholeStays ==
  ASSUME PlaceInv, DrainInv, [Next]_vars
  PROVE  \A c : Whole(c) => Whole(c)'
<1>1. text' = text
  BY DEF Next, CommandStep, PumpStep, SinkStep, DrainStep, WriteOutput, CommandExits,
     GrandchildCloses, ReadChunk, WriteChunk, SendChunk, EndOfOutput, ReadFails, StopReading,
     JoinSink, DropPump, SinkReceives, SinkWrites, SinkCloses, OpenWindow, PumpJoined,
     WindowElapses, AbortPump, FlushAbandoned, Tick, Drained, vars
<1>2. drain \in {"flush", "done"} => drain' \in {"flush", "done"}
  BY DEF DrainInv, Next, CommandStep, PumpStep, SinkStep, DrainStep, WriteOutput, CommandExits,
     GrandchildCloses, ReadChunk, WriteChunk, SendChunk, EndOfOutput, ReadFails, StopReading,
     JoinSink, DropPump, SinkReceives, SinkWrites, SinkCloses, OpenWindow, PumpJoined,
     WindowElapses, AbortPump, FlushAbandoned, Tick, Drained, vars
<1>3. ASSUME pump = "done" \/ sink = "done"
      PROVE  read' = read /\ (pump' = "done" \/ sink' = "done")
  <2>1. pump \in {"await", "done", "gone"} /\ (sink = "done" \/ pump = "done")
    BY <1>3 DEF PlaceInv
  <2>2. ~ReadChunk /\ ~WriteChunk /\ ~SendChunk /\ ~StopReading
    BY <2>1 DEF ReadChunk, WriteChunk, SendChunk, StopReading
  <2>3. sink = "done" \/ (pump = "done" /\ sink = "none")
    BY <1>3 DEF PlaceInv
  <2> QED
    BY <2>1, <2>2, <2>3 DEF Next, CommandStep, PumpStep, SinkStep, DrainStep, WriteOutput,
       CommandExits, GrandchildCloses, EndOfOutput, ReadFails, JoinSink, DropPump, Abandoned,
       SinkReceives, SinkWrites, SinkCloses, OpenWindow, PumpJoined, WindowElapses, AbortPump,
       Parked, FlushAbandoned, Tick, Drained, vars
<1>4. ASSUME NEW p PROVE NotBreak(p)' = NotBreak(p)
  BY <1>1 DEF NotBreak
<1>5. ASSUME NEW c PROVE Clean(c[1], c[2])' <=> Clean(c[1], c[2])
  BY <1>1 DEF NotBreak, Clean
<1> SUFFICES ASSUME NEW c, Whole(c) PROVE Whole(c)'
  OBVIOUS
<1>6. (c[2] = read)' = (c[2] = read') /\ (c[2] - c[1] > MaxLine)' = (c[2] - c[1] > MaxLine)
  OBVIOUS
<1>7. NotBreak(c[2] + 1)' = NotBreak(c[2] + 1)
  BY <1>1 DEF NotBreak
<1> QED
  BY <1>2, <1>3, <1>5, <1>7 DEF Whole

\* How the next state is recognised.
LEMMA LoggedNext ==
  ASSUME text' = text, NEW z, NEW v \in Nat, NEW w \in Nat,
         Covers(emitted', z, 0, v), Stretch(buf', v, w), Clean(v, w),
         \A i \in 1..Len(z) : Whole(z[i])'
  PROVE  Logged(z, v, w)'
<1>1. Covers(emitted, z, 0, v)'
  BY DEF Covers, NotBreak
<1>2. Stretch(buf, v, w)' /\ Clean(v, w)'
  BY DEF Stretch, Clean, NotBreak
<1> QED
  BY <1>1, <1>2 DEF Logged

LEMMA LoggedStays ==
  ASSUME PlaceInv, DrainInv, [Next]_vars, text' = text, UNCHANGED lineVars,
         NEW v \in Nat, NEW w \in Nat, NEW z, Logged(z, v, w)
  PROVE  Logged(z, v, w)'
<1>1. \A i \in 1..Len(z) : Whole(z[i])'
  BY WholeStays DEF Logged
<1>2. Covers(emitted', z, 0, v) /\ Stretch(buf', v, w) /\ Clean(v, w)
  BY DEF Logged
<1> QED
  BY <1>1, <1>2, LoggedNext

LEMMA SentNext ==
  ASSUME NEW w \in Nat, NEW y \in Nat, NEW x \in w..y, Stretch(sink_chunk', w, x), Chained(queue', x, y)
  PROVE  Sent(w, y)'
  BY DEF Sent

LEMMA OrderNext ==
  ASSUME NEW v \in Nat, NEW w \in Nat, NEW y \in Nat, NEW m \in Nat, NEW z,
         v <= w, w <= y, y <= m, m <= read', Logged(z, v, w)', Sent(w, y)', Stretch(chunk', y, m),
         m = read' \/ (mode' = "stream" /\ pump' = "gone")
  PROVE  OrderInv'
  BY DEF OrderInv

LEMMA OrderStays ==
  ASSUME OrderInv, PlaceInv, DrainInv, [Next]_vars,
         UNCHANGED <<mode, text, read, chunk, lineVars, queue, sink_chunk>>,
         pump = "gone" => pump' = "gone"
  PROVE  OrderInv'
<1>0. PICK v \in Nat, w \in Nat, y \in Nat, m \in Nat :
        /\ v <= w /\ w <= y /\ y <= m /\ m <= read
        /\ (\E z : Logged(z, v, w)) /\ Sent(w, y) /\ Stretch(chunk, y, m)
        /\ m = read \/ (mode = "stream" /\ pump = "gone")
  BY DEF OrderInv
<1>1. PICK z :
        /\ v \in Nat /\ w \in Nat /\ y \in Nat /\ m \in Nat
        /\ v <= w /\ w <= y /\ y <= m /\ m <= read
        /\ Logged(z, v, w) /\ Sent(w, y) /\ Stretch(chunk, y, m)
        /\ m = read \/ (mode = "stream" /\ pump = "gone")
  BY <1>0
<1>2. Logged(z, v, w)'
  BY <1>1, LoggedStays
<1>3. Sent(w, y)'
  BY <1>1 DEF Sent
<1> QED
  BY <1>1, <1>2, <1>3, OrderNext

\* The partial line leaves as a line.
LEMMA FlushKeeps ==
  ASSUME PlaceInv, DrainInv, [Next]_vars, text' = text, Flush,
         NEW v \in Nat, NEW w \in Nat, v <= w, NEW z, Logged(z, v, w),
         drain' \in {"flush", "done"} \/ (w = read' /\ (pump' = "done" \/ sink' = "done"))
  PROVE  \E y : Logged(y, w, w)'
<1>1. \A i \in 1..Len(z) : Whole(z[i])'
  BY WholeStays DEF Logged
<1>2. Covers(emitted, z, 0, v) /\ Stretch(buf, v, w) /\ Clean(v, w)
  BY DEF Logged
<1>3. buf' = <<>> /\ Stretch(buf', w, w) /\ Clean(w, w)
  BY StretchNone DEF Flush
<1>4. CASE buf = <<>>
  <2>1. v = w /\ emitted' = emitted
    BY <1>2, <1>4, StretchIs DEF Flush
  <2>2. Covers(emitted', z, 0, w)
    BY <1>2, <2>1
  <2> QED
    BY <1>1, <1>3, <2>2, LoggedNext
<1>5. CASE buf # <<>>
  <2> DEFINE c == << <<v, w>> >>
             y == z \o c
             n == Len(z)
  <2>1. Covers(<<buf>>, c, v, w)
    BY <1>2, CoversOne
  <2>2. emitted \in Seq(Seq(Nat)) /\ z \in Seq(Nat \X Nat) /\ buf \in Seq(Nat)
    BY <1>2 DEF Covers, Stretch
  <2>3. emitted' = emitted \o <<buf>>
    <3>1. emitted' = Append(emitted, buf)
      BY <1>5 DEF Flush
    <3> QED
      BY <2>2, <3>1, AppendIsConcat
  <2>4. c \in Seq(Nat \X Nat) /\ Len(c) = 1 /\ c[1] = <<v, w>>
    OBVIOUS
  <2>5. Whole(c[1])'
    <3>1. Clean(v, w)'
      BY <1>2 DEF Clean, NotBreak
    <3> QED
      BY <2>4, <3>1 DEF Whole
  <2> HIDE DEF c
  <2>6. Covers(emitted', y, 0, w)
    <3>1. Covers(emitted \o <<buf>>, z \o c, 0, w)
      BY <1>2, <2>1, CoversConcat
    <3> QED
      BY <2>3, <3>1
  <2> DEFINE S == Nat \X Nat
  <2>7. z \in Seq(S) /\ c \in Seq(S)
    BY <2>2, <2>4
  <2> HIDE DEF S
  <2>8. /\ Len(y) = Len(z) + Len(c)
        /\ \A i \in 1..(Len(z) + Len(c)) : y[i] = IF i <= Len(z) THEN z[i] ELSE c[i - Len(z)]
    BY <2>7, ConcatProperties
  <2>9. n \in Nat
    BY <2>2
  <2> HIDE DEF y
  <2>10. Len(y) = n + 1 /\ \A i \in 1..(n + 1) : y[i] = IF i <= n THEN z[i] ELSE c[i - n]
    BY <2>4, <2>8
  <2>11. \A i \in 1..n : Whole(z[i])'
    BY <1>1
  <2> HIDE DEF n
  <2>12. ASSUME NEW i \in 1..(n + 1) PROVE Whole(y[i])'
    <3>1. CASE i <= n
      <4>1. i \in 1..n /\ y[i] = z[i]
        BY <2>9, <2>10, <3>1
      <4> QED
        BY <2>11, <4>1
    <3>2. CASE ~(i <= n)
      <4>1. y[i] = c[1]
        <5>1. i - n = 1
          BY <2>9, <3>2
        <5> QED
          BY <2>10, <3>2, <5>1
      <4> QED
        BY <2>5, <4>1
    <3> QED
      BY <3>1, <3>2
  <2>13. \A i \in 1..Len(y) : Whole(y[i])'
    BY <2>10, <2>12
  <2>14. Logged(y, w, w)'
    BY <1>3, <2>6, <2>13, LoggedNext
  <2> QED
    BY <2>14
<1> QED
  BY <1>4, <1>5

\* A chunk goes through the writer.
LEMMA WriteKeeps ==
  ASSUME PlaceInv, DrainInv, [Next]_vars, text' = text,
         NEW v \in Nat, NEW w \in Nat, NEW u \in Nat, v <= w, w <= u, NEW z, Logged(z, v, w),
         NEW data, Stretch(data, w, u), Write(data)
  PROVE  \E r \in v..u : \E y : Logged(y, r, u)'
<1>1. \A i \in 1..Len(z) : Whole(z[i])'
  BY WholeStays DEF Logged
<1>2. Covers(emitted, z, 0, v) /\ Stretch(buf, v, w) /\ Clean(v, w) /\ z \in Seq(Nat \X Nat)
  BY DEF Logged, Covers
<1>3a. PICK r \in v..u : \E x : Written(z, x, r, u)
  BY <1>2, WriteCovers
<1>3. PICK x : r \in v..u /\ Written(z, x, r, u)
  BY <1>3a
<1>4. ASSUME NEW c, Cut(c) PROVE Whole(c)'
  BY <1>4 DEF Cut, Whole, Clean, NotBreak
<1>5. \A i \in 1..Len(x) : Whole(x[i])'
  BY <1>3, <1>4 DEF Written
<1> DEFINE y == z \o x
           n == Len(z)
           k == Len(x)
           S == Nat \X Nat
<1>6. z \in Seq(S) /\ x \in Seq(S) /\ n \in Nat /\ k \in Nat
  BY <1>2, <1>3 DEF Written
<1> HIDE DEF S
<1>7. /\ Len(y) = Len(z) + Len(x)
      /\ \A i \in 1..(Len(z) + Len(x)) : y[i] = IF i <= Len(z) THEN z[i] ELSE x[i - Len(z)]
  BY <1>6, ConcatProperties
<1> HIDE DEF y
<1>8. Len(y) = n + k /\ \A i \in 1..(n + k) : y[i] = IF i <= n THEN z[i] ELSE x[i - n]
  BY <1>7
<1>9. (\A i \in 1..n : Whole(z[i])') /\ (\A i \in 1..k : Whole(x[i])')
  BY <1>1, <1>5
<1> HIDE DEF n, k
<1>10. ASSUME NEW i \in 1..(n + k) PROVE Whole(y[i])'
  <2>1. CASE i <= n
    <3>1. i \in 1..n /\ y[i] = z[i]
      BY <1>6, <1>8, <2>1
    <3> QED
      BY <1>9, <3>1
  <2>2. CASE ~(i <= n)
    <3>1. i - n \in 1..k /\ y[i] = x[i - n]
      BY <1>6, <1>8, <2>2
    <3> QED
      BY <1>9, <3>1
  <2> QED
    BY <2>1, <2>2
<1>11. \A i \in 1..Len(y) : Whole(y[i])'
  BY <1>8, <1>10
<1>12. r \in Nat /\ Covers(emitted', y, 0, r)
  BY <1>3 DEF y, Written
<1>13. Logged(y, r, u)'
  <2>1. Stretch(buf', r, u) /\ Clean(r, u)
    BY <1>3 DEF Written
  <2> QED
    BY <1>11, <1>12, <2>1, LoggedNext
<1> QED
  BY <1>13

\* The bounds of a state in order.
Placed(v, w, y, m) ==
  /\ v \in Nat /\ w \in Nat /\ y \in Nat /\ m \in Nat
  /\ v <= w /\ w <= y /\ y <= m /\ m <= read
  /\ \E z : Logged(z, v, w)
  /\ Sent(w, y) /\ Stretch(chunk, y, m)
  /\ m = read \/ (mode = "stream" /\ pump = "gone")

LEMMA OrderPlaced == OrderInv <=> \E v, w, y, m : Placed(v, w, y, m)
  BY DEF OrderInv, Placed

\* What is read next follows what was read before.
LEMMA ReadInOrder ==
  ASSUME OrderInv, PlaceInv, DrainInv, [Next]_vars, ReadChunk
  PROVE  OrderInv'
<1>1. PICK v, w, y, m : Placed(v, w, y, m)
  BY OrderPlaced
<1>2. PICK z : Logged(z, v, w)
  BY <1>1 DEF Placed
<1>3. PICK n \in 1..Least(ChunkSize, written - read) : read' = read + n /\ chunk' = From(read, n)
  BY DEF ReadChunk
<1>4. n \in Nat /\ read \in Nat /\ read' \in Nat /\ read <= read'
  BY <1>3, PumpAssumption DEF Least, DrainInv
<1>5. y = m /\ m = read
  <2>1. chunk = <<>> /\ pump = "read"
    BY DEF ReadChunk, PlaceInv
  <2> QED
    BY <1>1, <2>1, StretchIs DEF Placed
<1>6. Stretch(chunk', y, read')
  <2>1. (read + 1)..(read + n) \subseteq Nat
    BY <1>4
  <2>2. /\ From(read, n) \in Seq(Nat) /\ Len(From(read, n)) = n
        /\ \A k \in 1..n : From(read, n)[k] = read + k
    BY <1>4, <2>1, FromSeq
  <2>3. chunk' \in Seq(Nat) /\ Len(chunk') = n /\ \A k \in 1..n : chunk'[k] = read + k
    BY <1>3, <2>2
  <2>4. n = read' - read
    BY <1>3, <1>4
  <2> QED
    BY <1>5, <2>3, <2>4 DEF Stretch
<1>7. UNCHANGED <<text, lineVars, sink_chunk, queue>>
  BY DEF ReadChunk
<1>8. Logged(z, v, w)'
  BY <1>1, <1>2, <1>7, LoggedStays DEF Placed
<1>9. Sent(w, y)'
  BY <1>1, <1>7 DEF Placed, Sent
<1>10. v \in Nat /\ w \in Nat /\ y \in Nat /\ v <= w /\ w <= y /\ y <= read'
  BY <1>1, <1>4, <1>5 DEF Placed
<1> QED
  BY <1>4, <1>6, <1>8, <1>9, <1>10, OrderNext

\* An inline write takes the whole chunk.
LEMMA WriteInOrder ==
  ASSUME OrderInv, PlaceInv, DrainInv, [Next]_vars, WriteChunk
  PROVE  OrderInv'
<1>1. PICK v, w, y, m : Placed(v, w, y, m)
  BY OrderPlaced
<1>2. PICK z : Logged(z, v, w)
  BY <1>1 DEF Placed
<1>3. /\ v \in Nat /\ w \in Nat /\ y \in Nat /\ m \in Nat
      /\ v <= w /\ w <= y /\ y <= m /\ m <= read
      /\ Sent(w, y) /\ Stretch(chunk, y, m)
  BY <1>1 DEF Placed
<1>4. /\ mode = "store" /\ sink_chunk = <<>> /\ queue = <<>> /\ pump = "write"
  BY DEF WriteChunk, PlaceInv
<1>5. w = y /\ m = read
  BY <1>1, <1>3, <1>4, SentNone DEF Placed
<1>6. Write(chunk) /\ chunk' = <<>> /\ UNCHANGED <<text, mode, read, sink_chunk, queue>>
  BY DEF WriteChunk
<1>7a. PICK r \in v..m : \E x : Logged(x, r, m)'
  BY <1>2, <1>3, <1>5, <1>6, WriteKeeps
<1>7. PICK x : r \in v..m /\ Logged(x, r, m)'
  BY <1>7a
<1>8. Sent(m, m)'
  <2>1. Stretch(sink_chunk', m, m) /\ Chained(queue', m, m) /\ m \in m..m
    BY <1>3, <1>4, <1>6, StretchNone, ChainedNone
  <2> QED
    BY <1>3, <2>1, SentNext
<1>9. Stretch(chunk', m, m) /\ r \in Nat /\ r <= m /\ m <= m /\ m <= read' /\ m = read'
  BY <1>3, <1>5, <1>6, <1>7, StretchNone
<1> QED
  BY <1>3, <1>7, <1>8, <1>9, OrderNext

\* The chunk moves from the hand to the end of the channel.
LEMMA SendInOrder ==
  ASSUME OrderInv, PlaceInv, DrainInv, [Next]_vars, SendChunk
  PROVE  OrderInv'
<1>1. PICK v, w, y, m : Placed(v, w, y, m)
  BY OrderPlaced
<1>2. PICK z : Logged(z, v, w)
  BY <1>1 DEF Placed
<1>3. /\ v \in Nat /\ w \in Nat /\ y \in Nat /\ m \in Nat
      /\ v <= w /\ w <= y /\ y <= m /\ m <= read
      /\ Sent(w, y) /\ Stretch(chunk, y, m)
  BY <1>1 DEF Placed
<1>4. m = read
  BY <1>1 DEF Placed, SendChunk
<1>5. queue' = Append(queue, chunk) /\ chunk' = <<>> /\ UNCHANGED <<text, lineVars, read, sink_chunk>>
  BY DEF SendChunk
<1>6. PICK x \in w..y : Stretch(sink_chunk, w, x) /\ Chained(queue, x, y)
  BY <1>3 DEF Sent
<1>7. x \in Nat /\ x \in w..m
  BY <1>3, <1>6
<1>8. Chained(queue', x, m)
  BY <1>3, <1>5, <1>6, <1>7, ChainedAppend
<1>9. Sent(w, m)'
  BY <1>3, <1>5, <1>6, <1>7, <1>8, SentNext
<1>10. Logged(z, v, w)'
  BY <1>2, <1>3, <1>5, LoggedStays
<1>11. Stretch(chunk', m, m) /\ m = read' /\ m <= read' /\ m <= m /\ w <= m
  BY <1>3, <1>4, <1>5, StretchNone
<1> QED
  BY <1>3, <1>9, <1>10, <1>11, OrderNext

\* A store at its end flushes when it has nothing in hand.
LEMMA StopInOrder ==
  ASSUME OrderInv, PlaceInv, DrainInv, [Next]_vars, StopReading
  PROVE  OrderInv'
<1>1. CASE mode = "stream"
  <2>1. UNCHANGED <<mode, text, read, chunk, lineVars, queue, sink_chunk>> /\ pump # "gone"
    BY <1>1 DEF StopReading
  <2> QED
    BY <2>1, OrderStays
<1>2. CASE mode = "store"
  <2>1. PICK v, w, y, m : Placed(v, w, y, m)
    BY OrderPlaced
  <2>2. PICK z : Logged(z, v, w)
    BY <2>1 DEF Placed
  <2>3. /\ v \in Nat /\ w \in Nat /\ y \in Nat /\ m \in Nat
        /\ v <= w /\ w <= y /\ y <= m /\ m <= read
        /\ Sent(w, y) /\ Stretch(chunk, y, m)
    BY <2>1 DEF Placed
  <2>4. sink_chunk = <<>> /\ queue = <<>> /\ chunk = <<>>
    BY <1>2 DEF StopReading, PlaceInv
  <2>5. w = y /\ y = m /\ m = read
    BY <1>2, <2>1, <2>3, <2>4, SentNone, StretchIs DEF Placed
  <2>6. Flush /\ pump' = "done" /\ UNCHANGED <<text, read, chunk, sink_chunk, queue>>
    BY <1>2 DEF StopReading
  <2>7. PICK x : Logged(x, w, w)'
    BY <2>2, <2>3, <2>5, <2>6, FlushKeeps
  <2>8. Sent(w, w)'
    <3>1. Stretch(sink_chunk', w, w) /\ Chained(queue', w, w) /\ w \in w..w
      BY <2>3, <2>4, <2>6, StretchNone, ChainedNone
    <3> QED
      BY <2>3, <3>1, SentNext
  <2>9. Stretch(chunk', w, w) /\ w <= w /\ w <= read' /\ w = read'
    BY <2>3, <2>5, <2>6
  <2> QED
    BY <2>3, <2>7, <2>8, <2>9, OrderNext
<1> QED
  BY <1>1, <1>2 DEF PlaceInv

\* A pump that is dropped takes only the chunk in its hand.
LEMMA DropInOrder ==
  ASSUME OrderInv, PlaceInv, DrainInv, [Next]_vars,
         UNCHANGED <<mode, text, read, lineVars, queue, sink_chunk>>,
         pump \in {"read", "send", "await"}, pump' = "gone", chunk' = <<>>
  PROVE  OrderInv'
<1>1. PICK v, w, y, m : Placed(v, w, y, m)
  BY OrderPlaced
<1>2. PICK z : Logged(z, v, w)
  BY <1>1 DEF Placed
<1>3. /\ v \in Nat /\ w \in Nat /\ y \in Nat /\ m \in Nat
      /\ v <= w /\ w <= y /\ y <= m /\ m <= read
      /\ Sent(w, y) /\ Stretch(chunk, y, m)
  BY <1>1 DEF Placed
<1>4. read \in Nat /\ y <= read
  BY <1>3 DEF DrainInv
<1>5. y = read \/ mode = "stream"
  <2>1. CASE mode = "store"
    <3>1. chunk = <<>>
      BY <2>1 DEF PlaceInv
    <3> QED
      BY <1>1, <1>3, <2>1, <3>1, StretchIs DEF Placed
  <2> QED
    BY <2>1 DEF PlaceInv
<1>6. Logged(z, v, w)'
  BY <1>2, <1>3, LoggedStays
<1>7. Sent(w, y)'
  BY <1>3 DEF Sent
<1>8. Stretch(chunk', y, y)
  BY <1>3, StretchNone
<1>9. y <= y /\ y <= read' /\ (y = read' \/ (mode' = "stream" /\ pump' = "gone"))
  BY <1>3, <1>4, <1>5
<1> QED
  BY <1>3, <1>6, <1>7, <1>8, <1>9, OrderNext

\* The sink takes the oldest chunk, writes it whole, and flushes when no more can come.
LEMMA SinkInOrder ==
  ASSUME OrderInv, PlaceInv, DrainInv, [Next]_vars, SinkStep
  PROVE  OrderInv'
<1>1. PICK v, w, y, m : Placed(v, w, y, m)
  BY OrderPlaced
<1>2. PICK z : Logged(z, v, w)
  BY <1>1 DEF Placed
<1>3. /\ v \in Nat /\ w \in Nat /\ y \in Nat /\ m \in Nat
      /\ v <= w /\ w <= y /\ y <= m /\ m <= read
      /\ Sent(w, y) /\ Stretch(chunk, y, m)
      /\ m = read \/ (mode = "stream" /\ pump = "gone")
  BY <1>1 DEF Placed
<1>4. PICK x \in w..y : Stretch(sink_chunk, w, x) /\ Chained(queue, x, y)
  BY <1>3 DEF Sent
<1>5. x \in Nat /\ w <= x /\ x <= y
  BY <1>3, <1>4
<1>6. UNCHANGED <<text, mode, read, chunk, pump>>
  BY DEF SinkStep, SinkReceives, SinkWrites, SinkCloses
<1>7. Stretch(chunk', y, m) /\ m <= read' /\ (m = read' \/ (mode' = "stream" /\ pump' = "gone"))
  BY <1>3, <1>6
<1>8. CASE SinkReceives
  <2>1. /\ queue # <<>> /\ sink_chunk' = Head(queue) /\ queue' = Tail(queue)
        /\ sink_chunk = <<>> /\ UNCHANGED lineVars
    BY <1>8 DEF SinkReceives, PlaceInv
  <2>2. x = w
    BY <1>3, <1>4, <1>5, <2>1, StretchIs
  <2>3. PICK n \in Nat : w <= n /\ n <= y /\ Stretch(Head(queue), w, n) /\ Chained(Tail(queue), n, y)
    BY <1>3, <1>4, <2>1, <2>2, ChainedTail
  <2>4. n \in w..y /\ Stretch(sink_chunk', w, n) /\ Chained(queue', n, y)
    BY <1>3, <2>1, <2>3
  <2>5. Sent(w, y)'
    BY <1>3, <2>4, SentNext
  <2>6. Logged(z, v, w)'
    BY <1>2, <1>3, <1>6, <2>1, LoggedStays
  <2> QED
    BY <1>3, <1>7, <2>5, <2>6, OrderNext
<1>9. CASE SinkWrites
  <2>1. Write(sink_chunk) /\ sink_chunk' = <<>> /\ queue' = queue
    BY <1>9 DEF SinkWrites
  <2>2a. PICK r \in v..x : \E c : Logged(c, r, x)'
    BY <1>2, <1>3, <1>4, <1>5, <1>6, <2>1, WriteKeeps
  <2>2. PICK c : r \in v..x /\ Logged(c, r, x)'
    BY <2>2a
  <2>3. r \in Nat /\ r <= x
    BY <1>3, <1>5, <2>2
  <2>4. Sent(x, y)'
    <3>1. x \in x..y /\ Stretch(sink_chunk', x, x) /\ Chained(queue', x, y)
      BY <1>3, <1>4, <1>5, <2>1, StretchNone
    <3> QED
      BY <1>3, <1>5, <3>1, SentNext
  <2> QED
    BY <1>3, <1>5, <1>7, <2>2, <2>3, <2>4, OrderNext
<1>10. CASE SinkCloses
  <2>1. /\ Flush /\ sink' = "done" /\ queue = <<>> /\ pump \in {"await", "done", "gone"}
        /\ sink_chunk = <<>> /\ chunk = <<>> /\ UNCHANGED <<queue, sink_chunk, drain>>
    BY <1>10 DEF SinkCloses, PlaceInv
  <2>2. w = y /\ y = m
    BY <1>3, <2>1, SentNone, StretchIs
  <2>3. drain' \in {"flush", "done"} \/ (w = read' /\ (pump' = "done" \/ sink' = "done"))
    BY <1>3, <1>6, <2>1, <2>2 DEF PlaceInv
  <2>4. PICK c : Logged(c, w, w)'
    BY <1>2, <1>3, <1>6, <2>1, <2>3, FlushKeeps
  <2>5. Sent(w, y)'
    <3>1. w \in w..y /\ Stretch(sink_chunk', w, w) /\ Chained(queue', w, y)
      BY <1>3, <2>1, <2>2, StretchNone, ChainedNone
    <3> QED
      BY <1>3, <3>1, SentNext
  <2> QED
    BY <1>3, <1>7, <2>2, <2>4, <2>5, OrderNext
<1> QED
  BY <1>8, <1>9, <1>10 DEF SinkStep

\* An abandoned store flushes its partial line.
LEMMA FlushInOrder ==
  ASSUME OrderInv, PlaceInv, DrainInv, [Next]_vars, FlushAbandoned
  PROVE  OrderInv'
<1>1. UNCHANGED <<mode, text, read, chunk, pump, queue, sink_chunk>> /\ drain' = "done"
  BY DEF FlushAbandoned
<1>2. CASE mode = "stream"
  <2>1. UNCHANGED lineVars
    BY <1>2 DEF FlushAbandoned
  <2> QED
    BY <1>1, <2>1, OrderStays
<1>3. CASE mode = "store"
  <2>1. PICK v, w, y, m : Placed(v, w, y, m)
    BY OrderPlaced
  <2>2. PICK z : Logged(z, v, w)
    BY <2>1 DEF Placed
  <2>3. /\ v \in Nat /\ w \in Nat /\ y \in Nat /\ m \in Nat
        /\ v <= w /\ w <= y /\ y <= m /\ m <= read
        /\ Sent(w, y) /\ Stretch(chunk, y, m)
        /\ m = read \/ (mode = "stream" /\ pump = "gone")
    BY <2>1 DEF Placed
  <2>4. Flush
    BY <1>3 DEF FlushAbandoned
  <2>5. PICK c : Logged(c, w, w)'
    BY <1>1, <2>2, <2>3, <2>4, FlushKeeps
  <2>6. Sent(w, y)'
    BY <1>1, <2>3 DEF Sent
  <2>7. w <= w /\ m <= read' /\ Stretch(chunk', y, m)
        /\ (m = read' \/ (mode' = "stream" /\ pump' = "gone"))
    BY <1>1, <2>3
  <2> QED
    BY <2>3, <2>5, <2>6, <2>7, OrderNext
<1> QED
  BY <1>2, <1>3 DEF PlaceInv

LEMMA OrderStep == OrderInv /\ PlaceInv /\ DrainInv /\ [Next]_vars => OrderInv'
<1> SUFFICES ASSUME OrderInv, PlaceInv, DrainInv, [Next]_vars PROVE OrderInv'
  OBVIOUS
<1>1. CASE ReadChunk \/ WriteChunk \/ SendChunk \/ StopReading
  BY <1>1, ReadInOrder, WriteInOrder, SendInOrder, StopInOrder
<1>2. CASE SinkStep
  BY <1>2, SinkInOrder
<1>3. CASE FlushAbandoned
  BY <1>3, FlushInOrder
<1>4. CASE DropPump
  <2>1. /\ UNCHANGED <<mode, text, read, lineVars, queue, sink_chunk>>
        /\ pump \in {"read", "send", "await"} /\ pump' = "gone" /\ chunk' = <<>>
    BY <1>4 DEF DropPump, Abandoned
  <2> QED
    BY <2>1, DropInOrder
<1>5. CASE AbortPump
  <2>1. UNCHANGED <<mode, text, read, lineVars, queue, sink_chunk>>
    BY <1>5 DEF AbortPump
  <2>2. CASE Parked
    <3>1. pump \in {"read", "send", "await"} /\ pump' = "gone" /\ chunk' = <<>>
      BY <1>5, <2>2 DEF AbortPump, Parked
    <3> QED
      BY <2>1, <3>1, DropInOrder
  <2>3. CASE ~Parked
    <3>1. UNCHANGED <<pump, chunk>>
      BY <1>5, <2>3 DEF AbortPump
    <3> QED
      BY <2>1, <3>1, OrderStays
  <2> QED
    BY <2>2, <2>3
<1>6. CASE \/ CommandStep \/ JoinSink \/ OpenWindow \/ PumpJoined \/ WindowElapses \/ Tick
           \/ Drained \/ UNCHANGED vars
  <2>1. UNCHANGED <<mode, text, read, chunk, lineVars, queue, sink_chunk>>
        /\ (pump = "gone" => pump' = "gone")
    BY <1>6 DEF CommandStep, WriteOutput, CommandExits, GrandchildCloses, JoinSink, OpenWindow,
       PumpJoined, WindowElapses, Tick, Drained, vars
  <2> QED
    BY <2>1, OrderStays
<1> QED
  BY <1>1, <1>2, <1>3, <1>4, <1>5, <1>6 DEF Next, PumpStep, EndOfOutput, ReadFails, DrainStep

LEMMA OrderAlways == Spec => [](OrderInv /\ PlaceInv /\ DrainInv)
  BY OrderInit, OrderStep, PlaceInit, PlaceStep, DrainInit, DrainInvStep, PTL DEF Spec

-----------------------------------------------------------------------------
(* Nothing is lost, and lines are whole.                                   *)

\* The bytes of a stretch.
LEMMA StretchRange ==
  ASSUME NEW lo \in Nat, NEW hi \in Nat, lo <= hi, NEW s, Stretch(s, lo, hi)
  PROVE  Range(s) = (lo + 1)..hi
<1>1. s \in Seq(Nat) /\ Len(s) = hi - lo /\ \A k \in 1..Len(s) : s[k] = lo + k
  BY DEF Stretch
<1>2. Range(s) = {s[k] : k \in 1..Len(s)}
  BY <1>1, LenProperties DEF Range
<1>3. \A p \in (lo + 1)..hi : p - lo \in 1..(hi - lo) /\ lo + (p - lo) = p
  OBVIOUS
<1>4. \A p : p \in Range(s) <=> \E k \in 1..(hi - lo) : p = lo + k
  BY <1>1, <1>2
<1>5. \A p : p \in Range(s) <=> p \in (lo + 1)..hi
  BY <1>3, <1>4
<1> QED
  BY <1>5

\* Covered lines are what OutputKept asks of them.
LEMMA CoversSpans ==
  ASSUME NEW m \in Nat, NEW ls, NEW z, Covers(ls, z, 0, m)
  PROVE  Spans(ls, m)
<1> DEFINE n == Len(ls)
<1>1. /\ ls \in Seq(Seq(Nat)) /\ z \in Seq(Nat \X Nat) /\ Len(z) = n /\ n \in Nat
      /\ \A i \in 1..n : Stretch(ls[i], z[i][1], z[i][2])
                         /\ 0 <= z[i][1] /\ z[i][1] <= z[i][2] /\ z[i][2] <= m
      /\ \A i, j \in 1..n : i < j => z[i][2] <= z[j][1]
      /\ \A p \in (0 + 1)..m : NotBreak(p) => \E i \in 1..n : z[i][1] < p /\ p <= z[i][2]
  BY LenProperties DEF Covers
<1>2. \A i \in 1..n : z[i][1] \in Nat /\ z[i][2] \in Nat
  <2>1. \A i \in 1..Len(z) : z[i] \in Nat \X Nat
    BY <1>1, ElementOfSeq
  <2> QED
    BY <1>1, <2>1
<1> HIDE DEF n
<1>3. \A i \in 1..n : Range(ls[i]) = (z[i][1] + 1)..z[i][2]
  BY <1>1, <1>2, StretchRange
<1>4. ASSUME NEW i \in 1..n, NEW k \in 1..Len(ls[i])
      PROVE  ls[i][k] \in 1..m /\ (k > 1 => ls[i][k] = ls[i][k - 1] + 1)
  <2> DEFINE s == ls[i]
             lo == z[i][1]
             hi == z[i][2]
  <2>1. /\ Len(s) = hi - lo /\ \A j \in 1..Len(s) : s[j] = lo + j
        /\ lo \in Nat /\ hi \in Nat /\ hi <= m
    BY <1>1, <1>2 DEF Stretch
  <2> HIDE DEF s, lo, hi
  <2>2. k \in 1..Len(s)
    BY DEF s
  <2>3. s[k] = lo + k /\ s[k] \in 1..m
    BY <2>1, <2>2
  <2>4. ASSUME k > 1 PROVE s[k] = s[k - 1] + 1
    <3>1. k - 1 \in 1..Len(s)
      BY <2>1, <2>2, <2>4
    <3>2. s[k - 1] = lo + (k - 1)
      BY <2>1, <3>1
    <3> QED
      BY <2>1, <2>2, <2>3, <3>2
  <2> QED
    BY <2>3, <2>4 DEF s
<1>5. ASSUME NEW i \in 1..n, NEW j \in 1..n, i < j, NEW p \in Range(ls[i]), NEW q \in Range(ls[j])
      PROVE  p < q
  <2>1. p \in (z[i][1] + 1)..z[i][2] /\ q \in (z[j][1] + 1)..z[j][2] /\ z[i][2] <= z[j][1]
    BY <1>1, <1>3, <1>5
  <2> QED
    BY <1>2, <2>1
<1>6. ASSUME NEW p \in 1..m, NotBreak(p) PROVE \E i \in 1..n : p \in Range(ls[i])
  <2>1. p \in (0 + 1)..m
    OBVIOUS
  <2>2. PICK i \in 1..n : z[i][1] < p /\ p <= z[i][2]
    BY <1>1, <1>6, <2>1
  <2>3. p \in (z[i][1] + 1)..z[i][2]
    BY <1>2, <2>2
  <2> QED
    BY <1>3, <2>3
<1>7. n = Len(ls)
  BY DEF n
<1> QED
  BY <1>4, <1>5, <1>6, <1>7 DEF Spans

\* The parts, put together, cover what has been read.
LEMMA PlacedCovers ==
  ASSUME NEW v, NEW w, NEW y, NEW m, Placed(v, w, y, m)
  PROVE  \E z : Covers(Parts, z, 0, m)
<1>1. /\ v \in Nat /\ w \in Nat /\ y \in Nat /\ m \in Nat
      /\ v <= w /\ w <= y /\ y <= m
      /\ Sent(w, y) /\ Stretch(chunk, y, m)
  BY DEF Placed
<1>2. PICK z : Covers(emitted, z, 0, v) /\ Stretch(buf, v, w)
  BY DEF Placed, Logged
<1>3. PICK x \in w..y : Stretch(sink_chunk, w, x) /\ Chained(queue, x, y)
  BY <1>1 DEF Sent
<1>4. x \in Nat /\ w <= x /\ x <= y /\ 0 <= v /\ 0 <= w /\ 0 <= x /\ 0 <= y
  BY <1>1, <1>3
<1>5. PICK c : Covers(queue, c, x, y)
  BY <1>1, <1>3, <1>4, ChainedCovers
<1> DEFINE A == emitted \o <<buf>>
           B == A \o <<sink_chunk>>
           C == B \o queue
           D == C \o <<chunk>>
<1>6. \E a : Covers(A, a, 0, w)
  <2>1. Covers(<<buf>>, << <<v, w>> >>, v, w)
    BY <1>1, <1>2, CoversOne
  <2> QED
    BY <1>1, <1>2, <1>4, <2>1, CoversConcat
<1> HIDE DEF A
<1>7. \E a : Covers(B, a, 0, x)
  <2>1. Covers(<<sink_chunk>>, << <<w, x>> >>, w, x)
    BY <1>1, <1>3, <1>4, CoversOne
  <2> QED
    BY <1>1, <1>4, <1>6, <2>1, CoversConcat
<1> HIDE DEF B
<1>8. \E a : Covers(C, a, 0, y)
  BY <1>1, <1>4, <1>5, <1>7, CoversConcat
<1> HIDE DEF C
<1>9. \E a : Covers(D, a, 0, m)
  <2>1. Covers(<<chunk>>, << <<y, m>> >>, y, m)
    BY <1>1, CoversOne
  <2> QED
    BY <1>1, <1>4, <1>8, <2>1, CoversConcat
<1>10. Parts = D
  <2>1. emitted \in Seq(Seq(Nat)) /\ buf \in Seq(Nat)
    BY <1>2 DEF Covers, Stretch
  <2>2. Append(emitted, buf) = emitted \o <<buf>>
    BY <2>1, AppendIsConcat
  <2> QED
    BY <2>2 DEF Parts, A, B, C
<1> QED
  BY <1>9, <1>10

LEMMA OrderKeeps == OrderInv => NothingLost
<1> SUFFICES ASSUME OrderInv PROVE NothingLost
  OBVIOUS
<1>1. PICK v, w, y, m : Placed(v, w, y, m)
  BY OrderPlaced
<1>2. m \in Nat /\ m <= read /\ (m = read \/ (mode = "stream" /\ pump = "gone"))
  BY <1>1 DEF Placed
<1>3. Spans(Parts, m)
  BY <1>1, <1>2, PlacedCovers, CoversSpans
<1> QED
  BY <1>2, <1>3 DEF NothingLost

\* The lines logged and the partial line are single lines, and end where lines do.
LEMMA OrderLines == OrderInv => LinesWhole
<1> SUFFICES ASSUME OrderInv PROVE LinesWhole
  OBVIOUS
<1>1. PICK v, w, y, m : Placed(v, w, y, m)
  BY OrderPlaced
<1>2. PICK z : Logged(z, v, w)
  BY <1>1 DEF Placed
<1>3. v \in Nat /\ w \in Nat /\ v <= w
  BY <1>1 DEF Placed
<1>4. Covers(emitted, z, 0, v) /\ Stretch(buf, v, w) /\ Clean(v, w)
  BY <1>2 DEF Logged
<1> DEFINE n == Len(emitted)
<1>5. /\ emitted \in Seq(Seq(Nat)) /\ z \in Seq(Nat \X Nat) /\ Len(z) = n /\ n \in Nat
      /\ \A i \in 1..n : Stretch(emitted[i], z[i][1], z[i][2]) /\ z[i][1] <= z[i][2]
      /\ \A i \in 1..n : Whole(z[i])
  BY <1>2, <1>4, LenProperties DEF Logged, Covers
<1>6. \A i \in 1..n : z[i][1] \in Nat /\ z[i][2] \in Nat
  <2>1. \A i \in 1..Len(z) : z[i] \in Nat \X Nat
    BY <1>5, ElementOfSeq
  <2> QED
    BY <1>5, <2>1
<1>7. /\ Range(emitted) = {emitted[i] : i \in 1..n}
      /\ Range(Append(emitted, buf)) = Range(emitted) \cup {buf}
  <2>1. buf \in Seq(Nat)
    BY <1>4 DEF Stretch
  <2>2. /\ Len(Append(emitted, buf)) = n + 1 /\ Append(emitted, buf) \in Seq(Seq(Nat))
        /\ \A i \in 1..n : Append(emitted, buf)[i] = emitted[i]
        /\ Append(emitted, buf)[n + 1] = buf
    BY <1>5, <2>1, AppendProperties
  <2> DEFINE t == Append(emitted, buf)
  <2> HIDE DEF n, t
  <2>3. Range(emitted) = {emitted[i] : i \in 1..n}
    BY <1>5, LenProperties DEF Range, n
  <2>4. DOMAIN t = 1..(n + 1)
    BY <2>2, LenProperties DEF n, t
  <2>5. \A i \in 1..(n + 1) : i \in 1..n \/ i = n + 1
    BY <1>5
  <2>6. (\A i \in 1..n : t[i] = emitted[i] /\ i \in 1..(n + 1)) /\ t[n + 1] = buf /\ n + 1 \in 1..(n + 1)
    BY <1>5, <2>2 DEF t
  <2>7. \A l : l \in Range(t) <=> l \in Range(emitted) \/ l = buf
    BY <2>3, <2>4, <2>5, <2>6 DEF Range
  <2> QED
    BY <2>3, <2>7 DEF n, t
<1> HIDE DEF n
<1>8. ASSUME NEW l \in Range(Append(emitted, buf)), NEW p \in Range(l) PROVE NotBreak(p)
  <2>1. CASE l = buf
    <3>1. p \in (v + 1)..w
      BY <1>3, <1>4, <1>8, <2>1, StretchRange
    <3> QED
      BY <1>4, <3>1 DEF Clean
  <2>2. CASE l \in Range(emitted)
    <3>1. PICK i \in 1..n : l = emitted[i]
      BY <1>7, <2>2
    <3>2. p \in (z[i][1] + 1)..z[i][2]
      BY <1>5, <1>6, <1>8, <3>1, StretchRange
    <3>3. Clean(z[i][1], z[i][2])
      BY <1>5 DEF Whole
    <3> QED
      BY <3>2, <3>3 DEF Clean
  <2> QED
    BY <1>7, <1>8, <2>1, <2>2
<1>9. ASSUME drain \notin {"flush", "done"}, NEW l \in Range(emitted) \ {<<>>}
      PROVE  Last(l) = read \/ ~NotBreak(Last(l) + 1) \/ Len(l) > MaxLine
  <2>1. PICK i \in 1..n : l = emitted[i]
    BY <1>7, <1>9
  <2> DEFINE lo == z[i][1]
             hi == z[i][2]
  <2>2. lo \in Nat /\ hi \in Nat /\ Stretch(l, lo, hi) /\ Whole(z[i])
    BY <1>5, <1>6, <2>1
  <2>3. hi = read \/ ~NotBreak(hi + 1) \/ hi - lo > MaxLine
    BY <1>9, <2>2 DEF Whole
  <2> HIDE DEF lo, hi
  <2>4. l \in Seq(Nat) /\ Len(l) = hi - lo /\ Len(l) \in Nat \ {0} /\ \A k \in 1..Len(l) : l[k] = lo + k
    BY <1>9, <2>2, EmptySeq, LenProperties DEF Stretch
  <2>5. Last(l) = hi
    <3> DEFINE k == Len(l)
    <3> HIDE DEF k
    <3>1. k \in 1..k /\ lo + k = hi /\ l[k] = lo + k
      BY <2>2, <2>4 DEF k
    <3>2. Last(l) = l[k]
      BY DEF Last, k
    <3> QED
      BY <3>1, <3>2
  <2> QED
    BY <2>3, <2>4, <2>5
<1> QED
  BY <1>8, <1>9 DEF LinesWhole

\* What the command prints reaches the log whole, once and line by line, through either
\* mode of the pump and however the reads cut it.
THEOREM OutputNotLost == Spec => []OutputKept
  BY OrderAlways, OrderKeeps, OrderLines, PTL DEF OutputKept

-----------------------------------------------------------------------------
(* Type correctness.                                                       *)

SizeInv ==
  /\ text \in Texts /\ read \in 0..written /\ written \in 0..Len(text)
  /\ holders \subseteq {"command", "grandchild"}
  /\ Len(queue) <= QueueDepth

LEMMA SizeInit == Init => SizeInv
<1> SUFFICES ASSUME Init PROVE SizeInv
  OBVIOUS
<1>1. Len(text) \in Nat
  BY PumpAssumption, LenProperties DEF Init
<1> QED
  BY <1>1, PumpAssumption, EmptySeq DEF Init, SizeInv

LEMMA QueueType == OrderInv => queue \in Seq(Seq(Nat))
<1> SUFFICES ASSUME OrderInv PROVE queue \in Seq(Seq(Nat))
  OBVIOUS
<1>1. PICK w, y, x : Chained(queue, x, y)
  BY DEF OrderInv, Sent
<1> QED
  BY <1>1, ChainedOrder

LEMMA SizeStep == SizeInv /\ OrderInv /\ [Next]_vars => SizeInv'
<1> SUFFICES ASSUME SizeInv, OrderInv, [Next]_vars PROVE SizeInv'
  OBVIOUS
<1>1. queue \in Seq(Seq(Nat)) /\ Len(queue) \in Nat
  BY QueueType, LenProperties
<1>2. Len(text) \in Nat
  BY PumpAssumption, LenProperties DEF SizeInv
<1>3. CASE ReadChunk
  <2>1. PICK n \in 1..Least(ChunkSize, written - read) : read' = read + n
    BY <1>3 DEF ReadChunk
  <2>2. read' \in 0..written
    BY <1>2, <2>1, PumpAssumption DEF Least, SizeInv
  <2> QED
    BY <1>3, <2>2 DEF ReadChunk, SizeInv
<1>4. CASE WriteOutput
  BY <1>2, <1>4 DEF WriteOutput, SizeInv
<1>5. CASE SendChunk
  <2> DEFINE n == Len(queue)
             k == Len(queue')
  <2>1. chunk \in Seq(Nat)
    BY DEF OrderInv, Stretch
  <2>2. n < QueueDepth /\ UNCHANGED <<text, read, written, holders>>
    BY <1>5 DEF SendChunk
  <2>3. k = n + 1
    BY <1>1, <1>5, <2>1, AppendProperties DEF SendChunk
  <2> HIDE DEF n, k
  <2>4. k <= QueueDepth
    BY <1>1, <2>2, <2>3, PumpAssumption DEF n
  <2> QED
    BY <2>2, <2>4 DEF k, SizeInv
<1>6. CASE SinkReceives
  <2>1. queue # <<>> /\ queue' = Tail(queue) /\ UNCHANGED <<text, read, written, holders>>
    BY <1>6 DEF SinkReceives
  <2>2. Len(queue') = Len(queue) - 1
    BY <1>1, <2>1, HeadTailProperties
  <2> DEFINE n == Len(queue)
  <2> HIDE DEF n
  <2>3. n - 1 <= QueueDepth
    BY <1>1, PumpAssumption DEF n, SizeInv
  <2> QED
    BY <2>1, <2>2, <2>3 DEF n, SizeInv
<1>7. CASE CommandExits \/ GrandchildCloses
  BY <1>7 DEF CommandExits, GrandchildCloses, SizeInv
<1>8. CASE ~(ReadChunk \/ WriteOutput \/ SendChunk \/ SinkReceives \/ CommandExits \/ GrandchildCloses)
  <2>1. UNCHANGED <<text, read, written, holders, queue>>
    BY <1>8 DEF Next, CommandStep, PumpStep, SinkStep, DrainStep, WriteChunk, EndOfOutput, ReadFails,
       StopReading, JoinSink, DropPump, SinkWrites, SinkCloses, OpenWindow, PumpJoined,
       WindowElapses, AbortPump, FlushAbandoned, Tick, Drained, vars
  <2> QED
    BY <2>1 DEF SizeInv
<1> QED
  BY <1>3, <1>4, <1>5, <1>6, <1>7, <1>8

\* The bytes of a stretch are bytes of the output.
LEMMA StretchType ==
  ASSUME NEW lo \in Nat, NEW hi \in Nat, NEW n \in Nat, hi <= n, NEW s, Stretch(s, lo, hi)
  PROVE  s \in Seq(1..n)
<1>1. s \in Seq(Nat) /\ Len(s) = hi - lo /\ \A k \in 1..Len(s) : s[k] = lo + k
  BY DEF Stretch
<1> DEFINE k == Len(s)
<1>2. s \in [1..k -> Nat] /\ k \in Nat
  BY <1>1, LenProperties
<1> HIDE DEF k
<1>3. \A i \in 1..k : s[i] \in 1..n
  BY <1>1, <1>2 DEF k
<1>4. s \in [1..k -> 1..n]
  BY <1>2, <1>3
<1> QED
  BY <1>2, <1>4

LEMMA CoversType ==
  ASSUME NEW lo \in Nat, NEW hi \in Nat, NEW n \in Nat, hi <= n, NEW ls, NEW z, Covers(ls, z, lo, hi)
  PROVE  ls \in Seq(Seq(1..n))
<1> DEFINE k == Len(ls)
<1>1. ls \in [1..k -> Seq(Nat)] /\ k \in Nat
  BY LenProperties DEF Covers
<1>2. /\ z \in Seq(Nat \X Nat) /\ Len(z) = k
      /\ \A i \in 1..k : Stretch(ls[i], z[i][1], z[i][2]) /\ z[i][2] <= hi
  BY DEF Covers
<1>3. \A i \in 1..k : z[i][1] \in Nat /\ z[i][2] \in Nat
  <2>1. \A i \in 1..Len(z) : z[i] \in Nat \X Nat
    BY <1>2, ElementOfSeq
  <2> QED
    BY <1>2, <2>1
<1> HIDE DEF k
<1>4. ASSUME NEW i \in 1..k PROVE ls[i] \in Seq(1..n)
  <2>1. z[i][1] \in Nat /\ z[i][2] \in Nat /\ z[i][2] <= n /\ Stretch(ls[i], z[i][1], z[i][2])
    BY <1>2, <1>3
  <2> QED
    BY <2>1, StretchType
<1>5. ls \in [1..k -> Seq(1..n)]
  BY <1>1, <1>4
<1> QED
  BY <1>1, <1>5

LEMMA Typed == SizeInv /\ OrderInv /\ PlaceInv /\ DrainInv /\ ScanInv => TypeOK
<1> SUFFICES ASSUME SizeInv, OrderInv, PlaceInv, DrainInv, ScanInv PROVE TypeOK
  OBVIOUS
<1> DEFINE n == Len(text)
<1>1. n \in Nat /\ read \in Nat /\ read <= n
  BY PumpAssumption, LenProperties DEF SizeInv
<1> HIDE DEF n
<1>2. PICK v, w, y, m : Placed(v, w, y, m)
  BY OrderPlaced
<1>3. /\ v \in Nat /\ w \in Nat /\ y \in Nat /\ m \in Nat
      /\ v <= n /\ w <= n /\ y <= n /\ m <= n /\ w <= y
      /\ Sent(w, y) /\ Stretch(chunk, y, m)
  BY <1>1, <1>2 DEF Placed
<1>4. PICK z : Covers(emitted, z, 0, v) /\ Stretch(buf, v, w)
  BY <1>2 DEF Placed, Logged
<1>5. PICK x \in w..y : Stretch(sink_chunk, w, x) /\ Chained(queue, x, y)
  BY <1>3 DEF Sent
<1>6. x \in Nat /\ x <= n
  BY <1>1, <1>3, <1>5
<1>7. PICK c : Covers(queue, c, x, y)
  BY <1>3, <1>5, <1>6, ChainedCovers
<1>8. chunk \in Seq(1..n) /\ sink_chunk \in Seq(1..n) /\ buf \in Seq(1..n)
  BY <1>1, <1>3, <1>4, <1>5, <1>6, StretchType
<1>9. emitted \in Seq(Seq(1..n)) /\ queue \in Seq(Seq(1..n))
  BY <1>1, <1>3, <1>4, <1>6, <1>7, CoversType
<1>10. carry \in Seq(1..n)
  <2>1. Seen(read).shown \in Seq(1..read)
    BY <1>1, SeenType DEF Scanned
  <2>2. Seq(1..read) \subseteq Seq(1..n)
    <3>1. 1..read \subseteq 1..n
      BY <1>1
    <3> QED
      BY <3>1, SeqMonotonic
  <2>3. carry = <<>> \/ carry = Carried(Seen(read).shown)
    BY DEF ScanInv
  <2> QED
    BY <2>1, <2>2, <2>3, CarriedType, EmptySeq
<1>11. {chunk, sink_chunk, carry, buf} \subseteq Seq(Position) /\ emitted \in Seq(Seq(Position))
       /\ queue \in Seq(Seq(Position))
  BY <1>8, <1>9, <1>10 DEF Position, n
<1>12. last_read \in 0..now
  BY DEF DrainInv
<1> QED
  BY <1>11, <1>12 DEF TypeOK, SizeInv, PlaceInv, DrainInv, ScanInv

\* Every variable keeps its type: a byte that any part holds is one of the output's, and
\* the channel keeps its depth.
THEOREM TypeCorrect == Spec => []TypeOK
<1>1. Spec => []SizeInv
  BY OrderAlways, SizeInit, SizeStep, PTL DEF Spec
<1>2. Spec => []ScanInv
  BY ScanInit, ScanStep, PTL DEF Spec
<1> QED
  BY <1>1, <1>2, OrderAlways, Typed, PTL
=============================================================================
