\* A restart of a service with a probe.
SPECIFICATION Spec

CONSTANTS
  a = a
  b = b
  c = c
  p1 = p1
  p2 = p2
  Service = {a, b}
  DependsOn <- PairDeps
  ReadyWhen <- FirstProbed
  MaxRetries <- Zero
  Allowed <- OnlyZero
  SelfExits <- EndsSomehow
  TermExits <- DiesOfTerm
  SpawnFails = {}
  ClientFails = {}
  Leftovers = {}
  Panics = {}
  Pollers = {p1, p2}
  Ops = {"restart"}
  MaxOps = 1
  MaxSignals = 0
  Ui = Ui
  Sig = Sig
  Loop = Loop
  NoOne = NoOne

PROPERTIES
  NoStaleReadiness
