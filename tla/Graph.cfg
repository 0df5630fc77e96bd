\* Every relation of up to three dependencies on four names; one or two names to filter by.
SPECIFICATION Spec

CONSTANTS
  N = 4
  MaxDeps = 3
  MaxNamed = 2

INVARIANTS
  TypeOK
  CycleReported
  DepsKept
  StartOrder

PROPERTIES
  FilterDropsNoMore
