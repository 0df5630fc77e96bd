------------------------------ MODULE MCRunner ------------------------------
(* The instances of Runner that TLC checks: topologies and behaviours of    *)
(* the services, which the .cfg files put together.                        *)
EXTENDS RunnerProps, TLC

CONSTANTS a, b, c

\* b depends on a.
PairDeps == (a :> <<>>) @@ (b :> <<a>>)
\* c depends on both the others.
FanInDeps == (a :> <<>>) @@ (b :> <<>>) @@ (c :> <<b, a>>)

Zero == [s \in Service |-> 0]
OneRetry == [s \in Service |-> IF s = b THEN 1 ELSE 0]
OnlyZero == [s \in Service |-> {0}]

AllLaunched == [s \in Service |-> "Launched"]
FirstCompletes == [s \in Service |-> IF s = a THEN "ExpectedExit" ELSE "Launched"]
MiddleCompletes == [s \in Service |-> IF s = b THEN "ExpectedExit" ELSE "Launched"]
FirstProbed == [s \in Service |-> IF s = a THEN "Probe" ELSE "Launched"]
ProbedDelayed == [s \in Service |-> IF s = a THEN "Probe" ELSE "Delay"]

Code(n) == [kind |-> "code", n |-> n]
Signal(n) == [kind |-> "signal", n |-> n]
Lost == [kind |-> "lost", n |-> 1]

SecondFails == [s \in Service |-> IF s = b THEN {Code(3)} ELSE {}]
RunsForever == [s \in Service |-> {}]
FirstFails == [s \in Service |-> IF s = a THEN {Code(3)} ELSE {}]
EndsSomehow == [s \in Service |-> {Code(0), Code(3), Signal(11)}]
EndsBriefly == [s \in Service |-> IF s = a THEN {Code(0), Lost} ELSE {Code(3)}]
EachItsWay == [s \in Service |-> {Code(IF s = a THEN 0 ELSE 3)}]
DiesOfTerm == [s \in Service |-> {Signal(15)}]
FirstStubborn == [s \in Service |-> IF s = a THEN {} ELSE {Signal(15)}]
=============================================================================
