\* A stop repeated on a root whose dependent was restarted.
SPECIFICATION Spec

CONSTANTS
  a = a
  b = b
  c = c
  Service = {a, b, c}
  DependsOn <- FanInDeps
  ReadyWhen <- MiddleCompletes
  MaxRetries <- Zero
  Allowed <- OnlyZero
  SelfExits <- RunsForever
  TermExits <- DiesOfTerm
  SpawnFails = {}
  ClientFails = {}
  Leftovers = {}
  Panics = {}
  Pollers = {}
  Ops = {"restart", "stop"}
  MaxOps = 3
  MaxSignals = 0
  Ui = Ui
  Sig = Sig
  Loop = Loop
  NoOne = NoOne

INVARIANTS
  ParkedSeesStop
