------------------------------- MODULE LogView -------------------------------
(***************************************************************************)
(* The log viewer of proccie: the capped stores that output pumps and      *)
(* notes push lines into, the one Notify permit that wakes the UI, and the *)
(* event loop that clamps, marks seen, compares the render fingerprint and *)
(* repaints. Writers run on other threads than the loop.                   *)
(*                                                                         *)
(* A line is its seq and takes one row; wrapping, styling, the search      *)
(* filter and resizes are left out. The loop reads all atomic totals of a  *)
(* phase in one step: they only grow, so a later comparison that finds     *)
(* them equal cannot tell when each was read.                              *)
(***************************************************************************)
EXTENDS Integers, SequencesExt

CONSTANTS
  Services,   \* the sequence of the services, in tab order
  System, All,
  Writer,     \* threads that push: output pumps, notes, the system logger
  StoreOf,    \* writer -> the store it pushes into
  Loads,      \* bound: what the writers may have to do: the lines each pushes, and the
              \* statuses it writes to its store's service, in order
  MaxLines,   \* MAX_LINES
  Height,     \* rows of the viewport
  MaxKeys     \* bound: keys pressed

Service == {Services[i] : i \in 1..Len(Services)}
Store == Service \cup {System}
Stores == Append(Services, System)   \* all_stores, in render order
ServiceStatus == {"Waiting", "Running", "Completed", "Failed", "Stopped"}

ASSUME ViewAssumption ==
  /\ Services \in Seq(Service)
  /\ \A i, j \in 1..Len(Services) : Services[i] = Services[j] => i = j
  /\ System \notin Service /\ All \notin Store
  /\ StoreOf \in [Writer -> Store]
  /\ \A load \in Loads :
       /\ load.left \in [Writer -> Nat] /\ load.due \in [Writer -> Seq(ServiceStatus)]
       /\ \A w \in Writer : load.due[w] # <<>> => StoreOf[w] \in Service
  /\ MaxLines \in Nat \ {0} /\ Height \in Nat \ {0} /\ MaxKeys \in Nat

VARIABLES
  clock, total, lines,      \* LogStore: the shared clock, lines counted and buffered
  permit,                   \* the redraw Notify
  status, queued,           \* service -> its status cell; services to be launched again
  pc, stamp, left, due,     \* writers: where, the seq taken, lines and statuses to come
  tabs, scroll, active, seen, \* App
  ui, coalescing,           \* event_loop: where, whether a coalesce window is open
  last_drawn,               \* the fingerprint of the last frame, also while it is drawn
  todo, pooled, frame,      \* the frame: stores left to read, seqs pooled, what it holds;
                            \* the terminal shows it when the loop waits
  keys

storeVars  == <<clock, total, lines>>
statusVars == <<status, queued>>
writerVars == <<pc, stamp, left, due>>
appVars    == <<tabs, scroll, active, seen>>
frameVars  == <<todo, pooled, frame>>
vars == <<storeVars, permit, statusVars, writerVars, appVars, ui, coalescing, frameVars, last_drawn, keys>>

-----------------------------------------------------------------------------
(* Helpers.                                                                *)

LastOf(n, s) == SubSeq(s, IF Len(s) > n THEN Len(s) - n + 1 ELSE 1, Len(s))
FirstOf(n, s) == SubSeq(s, 1, IF Len(s) > n THEN n ELSE Len(s))
Least(x, y) == IF x < y THEN x ELSE y
Elements(s) == {s[i] : i \in 1..Len(s)}

\* The members of a set in order: each has as many below it as come before it.
Below(S, n) == Cardinality({m \in S : m < n})
Sorted(S) == [i \in 1..Cardinality(S) |-> CHOOSE n \in S : Below(S, n) = i - 1]

ActiveTab == tabs[active]
Offset == scroll[active]
Depth == Offset + Height

\* usize::MAX, "as far up as the content allows": never less than what is buffered.
ScrollToTop == MaxLines * Len(Stores)

HasUnread(s) == total[s] > (IF s \in DOMAIN seen THEN seen[s] ELSE 0)
SumOf(f) ==
  LET sum[i \in 0..Len(Stores)] == IF i = 0 THEN 0 ELSE sum[i - 1] + f[Stores[i]]
  IN sum[Len(Stores)]

\* What a repaint of the active tab depends on; the search and the footer aside.
Fingerprint ==
  [active |-> active, offset |-> Offset, tabs |-> Len(tabs),
   bar |-> [s \in Service |-> <<status[s], HasUnread(s)>>],
   lines |-> IF ActiveTab = All THEN SumOf(total) ELSE total[ActiveTab]]

ContentLen ==
  IF ActiveTab = All THEN SumOf([s \in Store |-> Len(lines[s])]) ELSE Len(lines[ActiveTab])

\* The rows on screen of a tab's newest lines: Height of them, Offset from the end.
Window(ls) == FirstOf(Height, LastOf(Depth, ls))

-----------------------------------------------------------------------------
Init ==
  /\ clock = 0 /\ total = [s \in Store |-> 0] /\ lines = [s \in Store |-> <<>>]
  /\ permit = FALSE
  /\ status = [s \in Service |-> "Waiting"] /\ queued = {}
  /\ pc = [w \in Writer |-> "idle"] /\ stamp = [w \in Writer |-> 0]
  /\ \E load \in Loads : left = load.left /\ due = load.due
  /\ tabs = <<All>> \o Services /\ scroll = [i \in 1..(Len(Services) + 1) |-> 0]
  /\ active = 1 /\ seen = [s \in Service |-> 0]
  /\ ui = "clamp" /\ coalescing = FALSE
  /\ last_drawn = <<>>
  /\ todo = <<>> /\ pooled = {} /\ frame = [bar |-> <<>>, lines |-> <<>>]
  /\ keys = 0

-----------------------------------------------------------------------------
(* LogStore::push, and a status change that wakes the UI.                  *)

writerFrame == <<appVars, ui, coalescing, frameVars, last_drawn, keys>>

\* The seq comes from the clock all stores share, before any lock.
TakeSeq(w) ==
  /\ pc[w] = "idle" /\ left[w] > 0
  /\ clock' = clock + 1
  /\ stamp' = [stamp EXCEPT ![w] = clock]
  /\ left' = [left EXCEPT ![w] = @ - 1]
  /\ pc' = [pc EXCEPT ![w] = "count"]
  /\ UNCHANGED <<writerFrame, total, lines, permit, statusVars, due>>

CountLine(w) ==
  /\ pc[w] = "count"
  /\ total' = [total EXCEPT ![StoreOf[w]] = @ + 1]
  /\ pc' = [pc EXCEPT ![w] = "append"]
  /\ UNCHANGED <<writerFrame, clock, lines, permit, statusVars, stamp, left, due>>

\* Append under the store's lock, evicting the oldest line past the cap.
AppendLine(w) ==
  /\ pc[w] = "append"
  /\ lines' = [lines EXCEPT ![StoreOf[w]] = LastOf(MaxLines, Append(@, stamp[w]))]
  /\ stamp' = [stamp EXCEPT ![w] = 0]
  /\ pc' = [pc EXCEPT ![w] = "notify"]
  /\ UNCHANGED <<writerFrame, clock, total, permit, statusVars, left, due>>

\* notify_waiters keeps no permit for a loop that is not waiting.
NotifyRedraw_Waiters(w) ==
  /\ pc[w] = "notify"
  /\ permit' = (permit \/ (ui = "wait" /\ ~coalescing))
  /\ pc' = [pc EXCEPT ![w] = "idle"]
  /\ UNCHANGED <<writerFrame, storeVars, statusVars, stamp, left, due>>

\* notify_one: the permit stays for a loop that is busy or in a coalesce window.
NotifyRedraw(w) ==
  /\ pc[w] = "notify"
  /\ permit' = TRUE
  /\ pc' = [pc EXCEPT ![w] = "idle"]
  /\ UNCHANGED <<writerFrame, storeVars, statusVars, stamp, left, due>>

IsActive(st) == st \in {"Waiting", "Running"}

\* set_status, by a launch or by the claim of a queued restart, which re-arms the service:
\* the cell, whatever it held, then wake().
SetStatus(w) ==
  /\ pc[w] = "idle" /\ due[w] # <<>> /\ IsActive(Head(due[w]))
  /\ IF Head(due[w]) = "Waiting"
     THEN StoreOf[w] \in queued /\ queued' = queued \ {StoreOf[w]}
     ELSE UNCHANGED queued
  /\ status' = [status EXCEPT ![StoreOf[w]] = Head(due[w])]
  /\ due' = [due EXCEPT ![w] = Tail(@)]
  /\ pc' = [pc EXCEPT ![w] = "notify"]
  /\ UNCHANGED <<writerFrame, storeVars, permit, stamp, left>>

\* finish_if_active: a terminal status that comes second is dropped, without a wake().
FinishIfActive(w) ==
  /\ pc[w] = "idle" /\ due[w] # <<>> /\ ~IsActive(Head(due[w]))
  /\ IF IsActive(status[StoreOf[w]])
     THEN /\ status' = [status EXCEPT ![StoreOf[w]] = Head(due[w])]
          /\ pc' = [pc EXCEPT ![w] = "notify"]
     ELSE UNCHANGED <<status, pc>>
  /\ due' = [due EXCEPT ![w] = Tail(@)]
  /\ UNCHANGED <<writerFrame, storeVars, permit, queued, stamp, left>>

WriterStep(w) ==
  \/ TakeSeq(w) \/ CountLine(w) \/ AppendLine(w) \/ NotifyRedraw(w)
  \/ SetStatus(w) \/ FinishIfActive(w)

-----------------------------------------------------------------------------
(* event_loop: one round from the loop's head to its select!.              *)

uiFrame == <<storeVars, statusVars, writerVars, keys>>

\* clamp_scroll: a cheap exit when the offset cannot overshoot.
ClampScroll ==
  /\ ui = "clamp"
  /\ scroll' = [scroll EXCEPT ![active] =
                  IF @ = 0 \/ @ + Height <= ContentLen THEN @
                  ELSE Least(@, IF ContentLen > Height THEN ContentLen - Height ELSE 0)]
  /\ ui' = "seen"
  /\ UNCHANGED <<uiFrame, permit, tabs, active, seen, coalescing, frameVars, last_drawn>>

\* All counts every open service as seen; a service's own tab only at its tail.
MarkSeen ==
  /\ ui = "seen"
  /\ seen' = [s \in DOMAIN seen |->
                IF ActiveTab = All \/ (ActiveTab = s /\ Offset = 0) THEN total[s] ELSE seen[s]]
  /\ ui' = "print"
  /\ UNCHANGED <<uiFrame, permit, tabs, scroll, active, coalescing, frameVars, last_drawn>>

Repaints_Blind(fp) ==
  \/ last_drawn = <<>>
  \/ \E k \in {"active", "offset", "tabs", "lines"} : last_drawn[k] # fp[k]
Repaints(fp) == last_drawn # fp

\* Skip the repaint when the fingerprint is the one drawn last.
CheckFingerprint ==
  /\ ui = "print"
  /\ IF Repaints(Fingerprint)
     THEN ui' = "bar" /\ last_drawn' = Fingerprint
     ELSE ui' = "wait" /\ UNCHANGED last_drawn
  /\ UNCHANGED <<uiFrame, permit, appVars, coalescing, frameVars>>

\* tabs::render: the status and the unread mark of every open tab.
RenderTabs ==
  /\ ui = "bar"
  /\ frame' = [bar |-> [s \in DOMAIN seen |-> <<status[s], HasUnread(s)>>], lines |-> <<>>]
  /\ IF ActiveTab = All
     THEN /\ ui' = "seqs" /\ todo' = Stores
     ELSE /\ ui' = "tail" /\ todo' = <<ActiveTab>>
  /\ UNCHANGED <<uiFrame, permit, appVars, coalescing, pooled, last_drawn>>

\* merge_tail, first pass: the seqs of the last Depth lines, store by store.
TailSeqs ==
  /\ ui = "seqs"
  /\ pooled' = pooled \cup Elements(LastOf(Depth, lines[Head(todo)]))
  /\ IF Len(todo) = 1 THEN ui' = "tail" /\ todo' = Stores
                      ELSE todo' = Tail(todo) /\ UNCHANGED ui
  /\ UNCHANGED <<uiFrame, permit, appVars, coalescing, frame, last_drawn>>

Cutoff_OffByOne ==
  IF Cardinality(pooled) > Depth
  THEN Sorted(pooled)[Least(Cardinality(pooled) - Depth + 2, Cardinality(pooled))] ELSE 0

\* The Depth largest of the pooled seqs start here; 0 when there are no more.
Cutoff == IF Cardinality(pooled) > Depth
          THEN Sorted(pooled)[Cardinality(pooled) - Depth + 1] ELSE 0

\* Second pass: the lines from the cutoff on, sorted by seq. A service's tab takes
\* its store's tail as it is buffered.
TailLines ==
  /\ ui = "tail"
  /\ LET tail == LastOf(Depth, lines[Head(todo)])
     IN frame' = [frame EXCEPT !.lines =
                    IF ActiveTab = All THEN Sorted(Elements(@) \cup {n \in Elements(tail) : n >= Cutoff})
                    ELSE tail]
  /\ todo' = Tail(todo)
  /\ ui' = IF Len(todo) = 1 THEN "show" ELSE ui
  /\ UNCHANGED <<uiFrame, permit, appVars, coalescing, pooled, last_drawn>>

Draw ==
  /\ ui = "show"
  /\ frame' = [frame EXCEPT !.lines = Window(@)]
  /\ pooled' = {}
  /\ ui' = "wait"
  /\ UNCHANGED <<uiFrame, permit, appVars, coalescing, todo, last_drawn>>

\* The first ping of a burst repaints and opens a coalesce window; the next ones
\* wait as the permit until it closes.
Notified ==
  /\ ui = "wait" /\ permit /\ ~coalescing
  /\ permit' = FALSE /\ coalescing' = TRUE
  /\ ui' = "clamp"
  /\ UNCHANGED <<uiFrame, appVars, frameVars, last_drawn>>

CoalesceElapsed ==
  /\ ui = "wait" /\ coalescing
  /\ coalescing' = FALSE
  /\ ui' = "clamp"
  /\ UNCHANGED <<uiFrame, permit, appVars, frameVars, last_drawn>>

LoopStep ==
  \/ ClampScroll \/ MarkSeen \/ CheckFingerprint \/ RenderTabs
  \/ TailSeqs \/ TailLines
  \/ Draw \/ Notified \/ CoalesceElapsed

-----------------------------------------------------------------------------
(* handle_key: each key is handled in the select!, then the loop goes round. *)

Key ==
  /\ ui = "wait" /\ keys < MaxKeys
  /\ keys' = keys + 1 /\ ui' = "clamp"
  /\ UNCHANGED <<storeVars, writerVars, coalescing, frameVars, last_drawn>>

SwitchTab ==
  /\ Key /\ UNCHANGED <<permit, statusVars>>
  /\ active' \in {(active % Len(tabs)) + 1, ((active + Len(tabs) - 2) % Len(tabs)) + 1}
  /\ UNCHANGED <<tabs, scroll, seen>>

\* Up and Down, PageUp and PageDown, Home and End, on the active tab.
ScrollTab ==
  /\ Key /\ UNCHANGED <<permit, statusVars>>
  /\ \E n \in {1, Height} :
       scroll' \in {[scroll EXCEPT ![active] = @ + n],
                    [scroll EXCEPT ![active] = IF @ > n THEN @ - n ELSE 0],
                    [scroll EXCEPT ![active] = ScrollToTop],
                    [scroll EXCEPT ![active] = 0]}
  /\ UNCHANGED <<tabs, active, seen>>

CloseActive_SeenKept ==
  /\ Key /\ UNCHANGED <<permit, statusVars>>
  /\ ActiveTab # All /\ status[ActiveTab] = "Completed"
  /\ tabs' = RemoveAt(tabs, active)
  /\ scroll' = RemoveAt(scroll, active)
  /\ active' = Least(active, Len(tabs) - 1)
  /\ UNCHANGED seen

CloseActive_ScrollKept ==
  /\ Key /\ UNCHANGED <<permit, statusVars>>
  /\ ActiveTab # All /\ status[ActiveTab] = "Completed"
  /\ tabs' = RemoveAt(tabs, active)
  /\ scroll' = FirstOf(Len(scroll) - 1, scroll)
  /\ seen' = [s \in DOMAIN seen \ {ActiveTab} |-> seen[s]]
  /\ active' = Least(active, Len(tabs) - 1)

\* c closes the tab of a completed service; the next one slides into its slot.
CloseActive ==
  /\ Key /\ UNCHANGED <<permit, statusVars>>
  /\ ActiveTab # All /\ status[ActiveTab] = "Completed"
  /\ tabs' = RemoveAt(tabs, active)
  /\ scroll' = RemoveAt(scroll, active)
  /\ seen' = [s \in DOMAIN seen \ {ActiveTab} |-> seen[s]]
  /\ active' = Least(active, Len(tabs) - 1)

\* r: restart_service stops what still runs and queues the launch. The lines of its notes
\* are a writer's; the dependents it takes along are left out.
RestartActive ==
  /\ Key
  /\ ActiveTab # All
  /\ queued' = queued \cup {ActiveTab}
  /\ IF IsActive(status[ActiveTab])
     THEN status' = [status EXCEPT ![ActiveTab] = "Stopped"] /\ permit' = TRUE
     ELSE UNCHANGED <<status, permit>>
  /\ UNCHANGED appVars

\* The user may look on for ever.
Rest == ui = "wait" /\ UNCHANGED vars

Next ==
  \/ \E w \in Writer : WriterStep(w)
  \/ LoopStep
  \/ SwitchTab \/ ScrollTab \/ CloseActive \/ RestartActive
  \/ Rest

Spec == Init /\ [][Next]_vars

-----------------------------------------------------------------------------
(* Properties.                                                             *)

\* Every variable holds a value of its kind; tabs, scroll positions and seen counts
\* stay parallel whatever tabs are closed, All first and never closed.
TypeOK ==
  /\ clock \in Nat /\ total \in [Store -> Nat]
  /\ \A s \in Store : lines[s] \in Seq(Nat) /\ Len(lines[s]) <= MaxLines
  /\ permit \in BOOLEAN /\ coalescing \in BOOLEAN
  /\ status \in [Service -> ServiceStatus] /\ queued \subseteq Service
  /\ pc \in [Writer -> {"idle", "count", "append", "notify"}]
  /\ Len(scroll) = Len(tabs) /\ active \in 1..Len(tabs)
  /\ tabs[1] = All /\ DOMAIN seen = Elements(tabs) \ {All}
  /\ ui \in {"clamp", "seen", "print", "bar", "seqs", "tail", "show", "wait"}

\* No writer is in the middle of a push, and nothing will wake the loop but a key.
Quiet == ui = "wait" /\ ~permit /\ ~coalescing /\ \A w \in Writer : pc[w] = "idle"

\* No wake-up is lost: once the writers pause and the loop sleeps, what it has drawn
\* last has the fingerprint of the present, however pushes, the coalesce window and
\* keys interleaved with the frames.
RedrawNotLost == Quiet => last_drawn = Fingerprint

\* ... and the unread mark of every open tab is the one on screen: though the bar is read
\* after the fingerprint, while lines come in, none stays raised or missing.
UnreadCurrent == Quiet => \A s \in DOMAIN seen : frame.bar[s][2] = HasUnread(s)

\* The All view has no hole: when no two writers share a store, so that each is buffered
\* in seq order, a line that the first pass has counted and that is still buffered is
\* missing only if the frame is full of newer ones, however pushes and evictions fall
\* between the two passes.
OneWriterEach == \A v, w \in Writer : StoreOf[v] = StoreOf[w] => v = w
WindowHasNoHole ==
  OneWriterEach /\ ui = "show" /\ ActiveTab = All =>
    LET kept == Elements(LastOf(Depth, frame.lines)) IN
    \A n \in pooled \ kept :
      (\E s \in Store : n \in Elements(lines[s])) =>
        Cardinality(kept) >= Depth /\ \A k \in kept : n < k

\* A scroll position belongs to its tab: scrolling, closing or clamping one tab moves
\* no other.
OffsetOf(t) == scroll[CHOOSE i \in 1..Len(tabs) : tabs[i] = t]
ScrollStaysWithTab ==
  [][\A t \in DOMAIN seen \cap DOMAIN seen' : t # ActiveTab => OffsetOf(t)' = OffsetOf(t)]_vars

\* The tab bar at rest shows the status of every open service. This fails of a silent job
\* that completes between fingerprint and bar and is run again (Loads <- RunTwice).
BarCurrent == Quiet => \A s \in DOMAIN seen : frame.bar[s][1] = status[s]

\* What the terminal shows at rest is the newest lines of the active tab.
ScreenCurrent ==
  Quiet =>
    frame.lines = Window(IF ActiveTab = All
                          THEN Sorted(UNION {Elements(lines[s]) : s \in Store})
                          ELSE lines[ActiveTab])
=============================================================================
