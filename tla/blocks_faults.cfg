SPECIFICATION Spec

CONSTANTS
  NBlocks = 7
  FactoryBad <- BadBlock
  ChunksPerBlock = 4
  NReserved = 2
  SummaryChunks = 2
  CheckptRequired = FALSE
  CheckptBlocks = 0
  MaxCopies = 1
  MaxStrikes = 0
  ClientOps <- CutsAndErrors
  CheckptChunks = 0
  MaxHeld = 2
  MaxSeq <- Four
  MaxFaults = 2

INVARIANTS
  LiveChunksKept
  FreeChunksExact
  LogInOrder
  ShrinkHeaderOutlives
  OldestDirtyTracked
PROPERTIES
  RetiringNotReused
