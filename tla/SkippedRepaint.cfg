\* A pump or a note is paused between counting a line and buffering it.
SPECIFICATION Spec

CONSTANTS
  a = a
  b = b
  pump = pump
  other = other
  System = System
  All = All
  Services <- TwoServices
  Writer = {pump, other}
  StoreOf <- SameStore
  Loads <- OnlyEvicting
  MaxLines = 2
  Height = 1
  MaxKeys = 0

INVARIANTS
  ScreenCurrent
