SPECIFICATION Spec
CONSTANTS
  Vals = {x}
  Zero = Zero
  ChunkBytes = 2
  SmallHole = 1
  Params <- Bypassing
  Exposed = {}
  MaxSize = 4
  Writes <- PastTheCache
  Sizes = {0}
  MaxLog = 5
INVARIANTS
  ResizeRemembered
