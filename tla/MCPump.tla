------------------------------- MODULE MCPump -------------------------------
(* What the process group writes in the instance of Pump that TLC checks. *)
EXTENDS Pump

Shared == <<"a", "a", "b">>

\* The needle whole, after a false start, across an escape sequence and across one
\* that hides a byte of it; lines that are empty or share a chunk; one too long.
Samples ==
  {<<"a", "a", "a", "b", "nl">>, <<"a", "esc", "b", "a", "b">>, <<"a", "a", "esc", "b", "b">>,
   <<"nl", "a", "nl", "nl", "b">>, <<"b", "b", "b", "b", "b">>, <<"esc", "esc", "a", "a", "b">>}
=============================================================================
