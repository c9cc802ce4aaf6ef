SPECIFICATION Spec
CONSTANTS
  Vals = {x, y}
  Zero = Zero
  ChunkBytes = 2
  SmallHole = 1
  Params <- PortAndCached
  Exposed = {}
  MaxSize = 4
  Writes <- SomeWrites
  Sizes = {0, 1, 3}
  MaxLog = 4
SYMMETRY Alike
INVARIANTS
  TypeOK
  ReadsBack
  Synced
