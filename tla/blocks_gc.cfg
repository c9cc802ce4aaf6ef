SPECIFICATION Spec

CONSTANTS
  NBlocks = 7
  FactoryBad <- NoBadBlock
  ChunksPerBlock = 2
  NReserved = 2
  SummaryChunks = 0
  CheckptRequired = TRUE
  CheckptBlocks = 3
  MaxCopies = 1
  MaxStrikes = 0
  ClientOps <- FilesGcAndSave
  CheckptChunks = 12
  MaxHeld = 3
  MaxSeq <- Five
  MaxFaults = 0

INVARIANTS
  TypeOK
  PageCountsExact
  LiveChunksKept
  CollectionLeavesNothing
  ErasedBlocksExact
  PagesWrittenOnce

PROPERTIES
  CheckptDescribesFlash
