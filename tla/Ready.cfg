\* A probe that may never pass and a delay behind it, against a stop or a quit, and exits.
SPECIFICATION FairSpec

CONSTANTS
  a = a
  b = b
  c = c
  p1 = p1
  p2 = p2
  Service = {a, b}
  DependsOn <- PairDeps
  ReadyWhen <- ProbedDelayed
  MaxRetries <- Zero
  Allowed <- OnlyZero
  SelfExits <- FirstFails
  TermExits <- DiesOfTerm
  SpawnFails = {}
  ClientFails = {a}
  Leftovers = {}
  Panics = {}
  Pollers = {p1}
  Ops = {"stop", "global"}
  MaxOps = 1
  MaxSignals = 0
  Ui = Ui
  Sig = Sig
  Loop = Loop
  NoOne = NoOne

INVARIANTS
  TimeoutHasCulprit
  QuitStopsAll

PROPERTIES
  ReadinessResolves
