\* A restart and two signals; one service ignores SIGTERM, the other retries a failure.
SPECIFICATION FairSpec

CONSTANTS
  a = a
  b = b
  c = c
  Service = {a, b}
  DependsOn <- PairDeps
  ReadyWhen <- FirstCompletes
  MaxRetries <- OneRetry
  Allowed <- OnlyZero
  SelfExits <- SecondFails
  TermExits <- FirstStubborn
  SpawnFails = {}
  ClientFails = {}
  Leftovers = {}
  Panics = {}
  Pollers = {}
  Ops = {"restart"}
  MaxOps = 1
  MaxSignals = 2
  Ui = Ui
  Sig = Sig
  Loop = Loop
  NoOne = NoOne

PROPERTIES
  RestartRelaunches
  StoppedProcessEnds
  ShutdownCompletes
