SPECIFICATION FairSpec

CONSTANTS
  NBlocks = 6
  FactoryBad <- BadBlock
  ChunksPerBlock = 2
  NReserved = 2
  SummaryChunks = 0
  CheckptRequired = FALSE
  CheckptBlocks = 0
  MaxCopies = 1
  MaxStrikes = 0
  ClientOps <- FillUp
  CheckptChunks = 0
  MaxHeld = 9
  MaxSeq <- SevenLessFaults
  MaxFaults = 2

INVARIANTS
  ReserveSuffices
  ReserveKept

PROPERTIES
  CallsReturn
