\* Six outputs, a grandchild that may keep the pipe, a stream whose consumer may stall.
SPECIFICATION Spec

CONSTANTS
  Texts <- Samples
  Needle <- Shared
  ChunkSize = 3
  QueueDepth = 1
  MaxLine = 3
  Grace = 2
  DrainMax = 5

INVARIANTS
  TypeOK
  OutputKept
  NeedleExact
  TailFlushed
  DrainBounded

PROPERTIES
  DrainPatient
