-------------------------------- MODULE Pump --------------------------------
(***************************************************************************)
(* The output of one launched command on its way to the log: the pump that *)
(* reads the pipe and scans it for the readiness needle, the blocking sink *)
(* of stream mode, the writer that cuts lines, and the drain that decides  *)
(* when a pump whose pipe stays open is given up.                          *)
(*                                                                         *)
(* What the command's process group will write is text; a byte is its      *)
(* position in text, so that emitted lines show which bytes they carry.    *)
(* Prefixes, colours, the log file and upper case are left out; an escape  *)
(* sequence is an "esc" and the byte after it. Time counts from the exit   *)
(* of the command.                                                         *)
(***************************************************************************)
EXTENDS Integers, SequencesExt

CONSTANTS
  Texts,           \* bound: what the group may write
  Needle,          \* the output a readiness watch looks for
  ChunkSize,       \* bytes one read may return
  QueueDepth,      \* PUMP_QUEUE_DEPTH
  MaxLine,         \* MAX_LINE_BUFFER
  Grace, DrainMax  \* OUTPUT_DRAIN_GRACE, OUTPUT_DRAIN_MAX

ASSUME PumpAssumption ==
  /\ Texts \subseteq Seq({"a", "b", "nl", "esc"}) /\ Needle \in Seq({"a", "b"}) \ {<<>>}
  /\ ChunkSize \in Nat \ {0} /\ QueueDepth \in Nat \ {0} /\ MaxLine \in Nat
  /\ Grace \in Nat \ {0} /\ DrainMax \in Nat

VARIABLES
  mode,                       \* "store" or "stream": Output
  text, written, holders,     \* the pipe: bytes written to it, and who holds it open
  pump, read, chunk,          \* the pump: where, bytes read, the chunk in hand
  in_escape, carry, matched,  \* OutputScanner
  buf, emitted,               \* TaggedWriter: the partial line, the lines emitted
  queue, sink, sink_chunk,    \* stream mode: the channel and the blocking task
  drain, now, wake, before,   \* drain_output: where, the clock, its timeout, its last count
  last_read                   \* when the pump last read (observed, not in the code)

pipeVars  == <<mode, text, written, holders>>
scanVars  == <<in_escape, carry, matched>>
lineVars  == <<buf, emitted>>
sinkVars  == <<queue, sink, sink_chunk>>
drainVars == <<drain, now, wake, before>>
pumpVars  == <<pump, read, chunk, last_read, scanVars>>
vars == <<pipeVars, pumpVars, lineVars, sinkVars, drainVars>>

-----------------------------------------------------------------------------
(* Helpers.                                                                *)

Least(x, y) == IF x < y THEN x ELSE y
Greater(x, y) == IF x > y THEN x ELSE y
Bytes(s) == [k \in 1..Len(s) |-> text[s[k]]]
NotBreak(p) == text[p] # "nl"
From(i, n) == [k \in 1..n |-> i + k]

\* StripBytes over a chunk, which may begin inside an escape sequence: what it lets
\* through, and whether it is left inside one.
StripByte(state, p) ==
  [inside |-> ~state.inside /\ text[p] = "esc",
   shown  |-> IF state.inside \/ text[p] = "esc" THEN state.shown ELSE Append(state.shown, p)]
Strip(s, open) ==
  LET after[k \in 0..Len(s)] ==
        IF k = 0 THEN [inside |-> open, shown |-> <<>>] ELSE StripByte(after[k - 1], s[k])
  IN  after[Len(s)]

Occurs(needle, s) ==
  \E i \in 0..(Len(s) - Len(needle)) : SubSeq(Bytes(s), i + 1, i + Len(needle)) = needle

\* split: the lines of s, each up to its newline.
CutByte(state, p) ==
  IF NotBreak(p) THEN [state EXCEPT !.rest = Append(@, p)]
                 ELSE [lines |-> Append(state.lines, state.rest), rest |-> <<>>]
Lines(s) ==
  LET cut[k \in 0..Len(s)] ==
        IF k = 0 THEN [lines |-> <<>>, rest |-> <<>>] ELSE CutByte(cut[k - 1], s[k])
  IN  cut[Len(s)].lines

\* Lines leave at the last newline of the new data; what is held past the limit leaves too.
Write_FirstNewline(data) ==
  LET all == buf \o data
      ends == {Len(buf) + k : k \in {i \in 1..Len(data) : ~NotBreak(data[i])}}
      last == IF ends = {} THEN 0 ELSE CHOOSE e \in ends : \A d \in ends : e <= d
      rest == SubSeq(all, last + 1, Len(all))
      long == Len(rest) > MaxLine
  IN  /\ emitted' = emitted \o Lines(SubSeq(all, 1, last)) \o IF long THEN <<rest>> ELSE <<>>
      /\ buf' = IF long THEN <<>> ELSE rest

Write(data) ==
  LET all == buf \o data
      ends == {Len(buf) + k : k \in {i \in 1..Len(data) : ~NotBreak(data[i])}}
      last == CHOOSE e \in ends \cup {0} : \A d \in ends : d <= e
      rest == SubSeq(all, last + 1, Len(all))
      long == Len(rest) > MaxLine
  IN  /\ emitted' = emitted \o Lines(SubSeq(all, 1, last)) \o IF long THEN <<rest>> ELSE <<>>
      /\ buf' = IF long THEN <<>> ELSE rest

Flush ==
  /\ emitted' = IF buf = <<>> THEN emitted ELSE Append(emitted, buf)
  /\ buf' = <<>>

Init ==
  /\ mode \in {"store", "stream"} /\ text \in Texts /\ written = 0
  /\ holders \in {{"command"}, {"command", "grandchild"}}
  /\ pump = "read" /\ read = 0 /\ chunk = <<>>
  /\ in_escape = FALSE /\ carry = <<>> /\ matched = FALSE
  /\ buf = <<>> /\ emitted = <<>>
  /\ queue = <<>> /\ sink_chunk = <<>>
  /\ sink = IF mode = "stream" THEN "recv" ELSE "none"
  /\ drain = "off" /\ now = 0 /\ wake = 0 /\ before = 0 /\ last_read = 0

-----------------------------------------------------------------------------
(* The command, and a grandchild that may outlive it with the pipe open.   *)

WriteOutput ==
  /\ holders # {} /\ written < Len(text)
  /\ written' = written + 1
  /\ UNCHANGED <<mode, text, holders, pumpVars, lineVars, sinkVars, drainVars>>

\* The leader is reaped; drain_output begins.
CommandExits ==
  /\ "command" \in holders
  /\ holders' = holders \ {"command"}
  /\ drain' = "window"
  /\ UNCHANGED <<mode, text, written, pumpVars, lineVars, sinkVars, now, wake, before>>

GrandchildCloses ==
  /\ "grandchild" \in holders
  /\ holders' = holders \ {"grandchild"}
  /\ UNCHANGED <<mode, text, written, pumpVars, lineVars, sinkVars, drainVars>>

-----------------------------------------------------------------------------
(* The pump.                                                               *)

\* OutputScanner::feed: the carry holds what may begin a needle.
Feed_ShortCarry(data) ==
  LET new == Strip(data, in_escape)
      hay == carry \o new.shown
      keep == Least(Len(hay), Len(Needle) - 2)
  IN  IF matched THEN UNCHANGED scanVars
      ELSE /\ in_escape' = new.inside
           /\ matched' = Occurs(Needle, hay)
           /\ carry' = IF matched' THEN <<>> ELSE SubSeq(hay, Len(hay) - keep + 1, Len(hay))

Feed(data) ==
  LET new == Strip(data, in_escape)
      hay == carry \o new.shown
      keep == Least(Len(hay), Len(Needle) - 1)
  IN  IF matched THEN UNCHANGED scanVars
      ELSE /\ in_escape' = new.inside
           /\ matched' = Occurs(Needle, hay)
           /\ carry' = IF matched' THEN <<>> ELSE SubSeq(hay, Len(hay) - keep + 1, Len(hay))

ReadChunk ==
  /\ pump = "read" /\ read < written
  /\ \E n \in 1..Least(ChunkSize, written - read) :
       /\ read' = read + n
       /\ chunk' = From(read, n)
       /\ Feed(From(read, n))
  /\ last_read' = now
  /\ pump' = IF mode = "store" THEN "write" ELSE "send"
  /\ UNCHANGED <<pipeVars, lineVars, sinkVars, drainVars>>

\* Store mode writes inline, with no await in between.
WriteChunk ==
  /\ pump = "write"
  /\ Write(chunk)
  /\ chunk' = <<>> /\ pump' = "read"
  /\ UNCHANGED <<pipeVars, read, last_read, scanVars, sinkVars, drainVars>>

SendChunk_Unbounded ==
  /\ pump = "send"
  /\ queue' = Append(queue, chunk)
  /\ chunk' = <<>> /\ pump' = "read"
  /\ UNCHANGED <<pipeVars, read, last_read, scanVars, lineVars, sink, sink_chunk, drainVars>>

\* Stream mode waits for room in the channel.
SendChunk ==
  /\ pump = "send" /\ Len(queue) < QueueDepth
  /\ queue' = Append(queue, chunk)
  /\ chunk' = <<>> /\ pump' = "read"
  /\ UNCHANGED <<pipeVars, read, last_read, scanVars, lineVars, sink, sink_chunk, drainVars>>

StopReading ==
  /\ pump = "read"
  /\ IF mode = "store" THEN pump' = "done" /\ Flush ELSE pump' = "await" /\ UNCHANGED lineVars
  /\ UNCHANGED <<pipeVars, read, chunk, last_read, scanVars, sinkVars, drainVars>>

EndOfOutput == read = written /\ holders = {} /\ StopReading

\* A read error ends the pump as the end of the file does.
ReadFails == StopReading

JoinSink ==
  /\ pump = "await" /\ sink = "done"
  /\ pump' = "done"
  /\ UNCHANGED <<pipeVars, read, chunk, last_read, scanVars, lineVars, sinkVars, drainVars>>

Abandoned == drain \in {"flush", "done"} /\ pump \in {"read", "send", "await"}

\* An abort takes effect where the pump awaits; the chunk it holds is lost.
DropPump ==
  /\ Abandoned
  /\ pump' = "gone" /\ chunk' = <<>>
  /\ UNCHANGED <<pipeVars, read, last_read, scanVars, lineVars, sinkVars, drainVars>>

-----------------------------------------------------------------------------
(* The blocking sink of stream mode: a write lasts as long as its consumer *)
(* makes it. The channel closes with the pump's end of it.                 *)

SinkReceives ==
  /\ sink = "recv" /\ queue # <<>>
  /\ sink_chunk' = Head(queue) /\ queue' = Tail(queue)
  /\ sink' = "write"
  /\ UNCHANGED <<pipeVars, pumpVars, lineVars, drainVars>>

SinkWrites ==
  /\ sink = "write"
  /\ Write(sink_chunk)
  /\ sink_chunk' = <<>> /\ sink' = "recv"
  /\ UNCHANGED <<pipeVars, pumpVars, queue, drainVars>>

SinkCloses ==
  /\ sink = "recv" /\ queue = <<>> /\ pump \in {"await", "done", "gone"}
  /\ Flush
  /\ sink' = "done"
  /\ UNCHANGED <<pipeVars, pumpVars, queue, sink_chunk, drainVars>>

-----------------------------------------------------------------------------
(* drain_output, and the clock it watches.                                 *)

OpenWindow_NoCap ==
  /\ drain = "window"
  /\ before' = read
  /\ wake' = now + Grace
  /\ drain' = "wait"
  /\ UNCHANGED <<pipeVars, pumpVars, lineVars, sinkVars, now>>

OpenWindow ==
  /\ drain = "window"
  /\ before' = read
  /\ wake' = now + Least(Grace, Greater(DrainMax - now, 0))
  /\ drain' = "wait"
  /\ UNCHANGED <<pipeVars, pumpVars, lineVars, sinkVars, now>>

\* timeout(step, out_task): the pump's end is seen first.
PumpJoined ==
  /\ drain = "wait" /\ pump = "done"
  /\ drain' = "done"
  /\ UNCHANGED <<pipeVars, pumpVars, lineVars, sinkVars, now, wake, before>>

WindowElapses_Once ==
  /\ drain = "wait" /\ pump # "done" /\ now = wake
  /\ drain' = "abort"
  /\ UNCHANGED <<pipeVars, pumpVars, lineVars, sinkVars, now, wake, before>>

WindowElapses ==
  /\ drain = "wait" /\ pump # "done" /\ now = wake
  /\ drain' = IF read # before /\ now < DrainMax THEN "window" ELSE "abort"
  /\ UNCHANGED <<pipeVars, pumpVars, lineVars, sinkVars, now, wake, before>>

\* Where a pump waits for its pipe, the channel or the sink: an abort ends it at once.
Parked ==
  \/ pump = "read" /\ read = written /\ holders # {}
  \/ pump = "send" /\ Len(queue) = QueueDepth
  \/ pump = "await" /\ sink # "done"

AbortPump ==
  /\ drain = "abort"
  /\ drain' = "flush"
  /\ IF Parked THEN pump' = "gone" /\ chunk' = <<>> ELSE UNCHANGED <<pump, chunk>>
  /\ UNCHANGED <<pipeVars, read, last_read, scanVars, lineVars, sinkVars, now, wake, before>>

FlushAbandoned_Skipped ==
  /\ drain = "flush"
  /\ UNCHANGED lineVars
  /\ drain' = "done"
  /\ UNCHANGED <<pipeVars, pumpVars, sinkVars, now, wake, before>>

FlushAbandoned ==
  /\ drain = "flush"
  /\ IF mode = "store" THEN Flush ELSE UNCHANGED lineVars
  /\ drain' = "done"
  /\ UNCHANGED <<pipeVars, pumpVars, sinkVars, now, wake, before>>

\* An inline write takes no time: it touches memory only.
Tick ==
  /\ drain = "wait" /\ now < wake /\ pump # "write"
  /\ now' = now + 1
  /\ UNCHANGED <<pipeVars, pumpVars, lineVars, sinkVars, drain, wake, before>>

-----------------------------------------------------------------------------
CommandStep == WriteOutput \/ CommandExits \/ GrandchildCloses
PumpStep == ReadChunk \/ WriteChunk \/ SendChunk \/ EndOfOutput \/ JoinSink \/ DropPump
SinkStep == SinkReceives \/ SinkWrites \/ SinkCloses
DrainStep == OpenWindow \/ PumpJoined \/ WindowElapses \/ AbortPump \/ FlushAbandoned

\* A drained command with nothing left to log.
Drained ==
  /\ drain = "done" /\ pump \in {"done", "gone"} /\ sink \in {"none", "done"}
  /\ UNCHANGED vars

Next == CommandStep \/ ReadFails \/ PumpStep \/ SinkStep \/ DrainStep \/ Tick \/ Drained

Spec == Init /\ [][Next]_vars

-----------------------------------------------------------------------------
(* Properties.                                                             *)

Position == 1..Len(text)

TypeOK ==
  /\ mode \in {"store", "stream"} /\ text \in Texts
  /\ read \in 0..written /\ written \in 0..Len(text)
  /\ holders \subseteq {"command", "grandchild"}
  /\ pump \in {"read", "write", "send", "await", "done", "gone"}
  /\ sink \in {"none", "recv", "write", "done"}
  /\ drain \in {"off", "window", "wait", "abort", "flush", "done"}
  /\ in_escape \in BOOLEAN /\ matched \in BOOLEAN
  /\ now \in Nat /\ wake \in Nat /\ before \in Nat /\ last_read \in 0..now
  /\ {chunk, sink_chunk, carry, buf} \subseteq Seq(Position)
  /\ emitted \in Seq(Seq(Position)) /\ queue \in Seq(Seq(Position)) /\ Len(queue) <= QueueDepth

\* The bytes read, where they are: logged, held as a partial line, with the sink, in the
\* channel or in hand.
Parts == Append(emitted, buf) \o <<sink_chunk>> \o queue \o <<chunk>>

\* Every part is a stretch of the output, one after the other up to byte m, and nothing
\* but a newline lies between them.
Spans(parts, m) ==
  /\ \A i \in 1..Len(parts) : \A k \in 1..Len(parts[i]) :
       parts[i][k] \in 1..m /\ (k > 1 => parts[i][k] = parts[i][k - 1] + 1)
  /\ \A i, j \in 1..Len(parts) : i < j => \A p \in Range(parts[i]), q \in Range(parts[j]) : p < q
  /\ \A p \in 1..m : NotBreak(p) => \E i \in 1..Len(parts) : p \in Range(parts[i])

\* Every byte read is in one place, in order. Only an abandoned stream pump loses what
\* it had in hand.
NothingLost ==
  IF mode = "stream" /\ pump = "gone" THEN \E m \in 0..read : Spans(Parts, m)
                                      ELSE Spans(Parts, read)

\* A line in the log is one line of the output: none is joined with the next, and none
\* is cut short but past the limit, at the end, or in a pump given up.
LinesWhole ==
  /\ \A l \in Range(Append(emitted, buf)) : \A p \in Range(l) : NotBreak(p)
  /\ drain \in {"flush", "done"} \/
       \A l \in Range(emitted) \ {<<>>} :
         Last(l) = read \/ ~NotBreak(Last(l) + 1) \/ Len(l) > MaxLine

\* What the command prints reaches the log whole, once and line by line, through either
\* mode of the pump and however the reads cut it.
OutputKept == NothingLost /\ LinesWhole

\* The watch trips if and only if the needle has been printed, however reads and
\* escape sequences cut it.
NeedleExact == matched <=> Occurs(Needle, Strip(From(0, read), FALSE).shown)

\* Nothing stays behind as a partial line: not in a pump that came to its end, not in a
\* stream whose sink did, and in a store given up only what was read in that very moment.
TailFlushed ==
  buf # <<>> =>
    /\ pump # "done" /\ sink # "done"
    /\ mode = "store" /\ drain = "done" /\ pump = "gone" => last_read = now

\* The exit waits for output no longer than the cap, and no longer than two graces once
\* the pipe has gone silent.
DrainBounded == drain # "off" => now <= DrainMax /\ now <= last_read + 2 * Grace

\* Before the cap a pump is given up only after a whole grace without a read.
DrainPatient ==
  [][drain' = "abort" /\ drain # "abort" => now >= DrainMax \/ now >= last_read + Grace]_vars
=============================================================================
