\* Evictions in one of two stores, or a service run, completed and re-armed, against any three keys.
SPECIFICATION Spec

CONSTANTS
  a = a
  b = b
  pump = pump
  other = other
  System = System
  All = All
  Services <- TwoServices
  Writer = {pump, other}
  StoreOf <- OwnStores
  Loads <- EvictOrRearm
  MaxLines = 2
  Height = 1
  MaxKeys = 3

INVARIANTS
  TypeOK
  RedrawNotLost
  UnreadCurrent
  WindowHasNoHole

PROPERTIES
  ScrollStaysWithTab
