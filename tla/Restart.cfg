\* Restarts and stops of both services, exits at any moment.
SPECIFICATION Spec

CONSTANTS
  a = a
  b = b
  c = c
  Service = {a, b}
  DependsOn <- PairDeps
  ReadyWhen <- FirstCompletes
  MaxRetries <- Zero
  Allowed <- OnlyZero
  SelfExits <- EndsBriefly
  TermExits <- DiesOfTerm
  SpawnFails = {}
  ClientFails = {}
  Leftovers = {}
  Panics = {}
  Pollers = {}
  Ops = {"restart", "stop"}
  MaxOps = 2
  MaxSignals = 0
  Ui = Ui
  Sig = Sig
  Loop = Loop
  NoOne = NoOne

INVARIANTS
  TypeOK
  LaunchedAfterDeps
  BatchesSound
  NoRestartDropped
  NoLostWakeup

PROPERTIES
  KeepsPromise
