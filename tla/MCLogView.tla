------------------------------ MODULE MCLogView ------------------------------
(* Two services; the first's pump and the system's logger, or the pump and a note *)
(* of the first service, which push into one store.                              *)
EXTENDS LogView

CONSTANTS a, b, pump, other

TwoServices == <<a, b>>
OwnStores == (pump :> a) @@ (other :> System)
SameStore == (pump :> a) @@ (other :> a)

Lines(m, n) == (pump :> m) @@ (other :> n)
StatusesOf(s) == (pump :> s) @@ (other :> <<>>)

\* Lines of two stores with evictions from the first, or a service that runs and completes,
\* with lines to scroll, and is launched again if it is restarted.
Evicting  == [left |-> Lines(3, 1), due |-> StatusesOf(<<>>)]
Rearming  == [left |-> Lines(2, 0), due |-> StatusesOf(<<"Running", "Completed", "Waiting">>)]
EvictOrRearm == {Evicting, Rearming}
OnlyEvicting == {Evicting}

\* A silent job that is run again.
RunTwice ==
  {[left |-> Lines(0, 0),
    due |-> StatusesOf(<<"Running", "Completed", "Waiting", "Running", "Completed">>)]}
=============================================================================
