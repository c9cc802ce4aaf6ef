SPECIFICATION Spec

CONSTANTS
  NBlocks = 4
  ChunksPerBlock = 2
  NReserved = 2
  MaxReadBlocks = 2
  Parts <- Sound

INVARIANTS
  IntactRestored
