SPECIFICATION Spec
CONSTANTS
  Tasks = {t1, t2}
  Paths = {p, q}
  Files = {f, g}
  Dirs = {d}
  maxFiles = 2
  Flags <- SomeFlags
  None = None
  Exposed = {}
INVARIANTS
  CoreExclusive
