\* Two restarts, the second while the first relaunches.
SPECIFICATION Spec

CONSTANTS
  a = a
  b = b
  c = c
  Service = {a, b}
  DependsOn <- PairDeps
  ReadyWhen <- AllLaunched
  MaxRetries <- Zero
  Allowed <- OnlyZero
  SelfExits <- RunsForever
  TermExits <- DiesOfTerm
  SpawnFails = {}
  ClientFails = {}
  Leftovers = {}
  Panics = {}
  Pollers = {}
  Ops = {"restart"}
  MaxOps = 2
  MaxSignals = 0
  Ui = Ui
  Sig = Sig
  Loop = Loop
  NoOne = NoOne

INVARIANTS
  QueuedMeansStopping
