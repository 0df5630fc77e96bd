\* Any four keys, up to two signals, and a supervisor that may fail or be lost.
SPECIFICATION FairSpec

CONSTANTS
  a = a
  Service = {a}
  Needs <- NoNeeds
  MayPanic = {a}
  All = All
  MaxKeys = 4
  MaxQuery = 1

INVARIANTS
  TypeOK
  LeavesInOrder

PROPERTIES
  SessionEnds
