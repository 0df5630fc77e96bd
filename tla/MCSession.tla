------------------------------ MODULE MCSession ------------------------------
(* The instance of Session that TLC checks: no service needs another. *)
EXTENDS Session

CONSTANTS a

NoNeeds == [s \in Service |-> {}]
=============================================================================
