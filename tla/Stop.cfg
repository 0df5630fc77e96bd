\* Stops, quits and a panic race launches, registrations and exits that leave group members.
SPECIFICATION Spec

CONSTANTS
  a = a
  b = b
  c = c
  Service = {a, b}
  DependsOn <- PairDeps
  ReadyWhen <- FirstCompletes
  MaxRetries <- Zero
  Allowed <- OnlyZero
  SelfExits <- EachItsWay
  TermExits <- DiesOfTerm
  SpawnFails = {b}
  ClientFails = {}
  Leftovers = {a}
  Panics = {a}
  Pollers = {}
  Ops = {"stop", "global"}
  MaxOps = 2
  MaxSignals = 0
  Ui = Ui
  Sig = Sig
  Loop = Loop
  NoOne = NoOne

INVARIANTS
  StopMissesNobody
  EscalationPending
  KillsDoNotTaint
  ReadyMeansCompleted
  FinishedMeansResolved
  StopSeen
  SweepMissesNobody
  FailureReported
PROPERTIES
  LeftoversTracked
