SPECIFICATION Spec
CONSTANTS
  Tasks = {t1}
  Objs = {a, b}
  Names = {m, n}
  Dscs = {d1}
  NHandles = 2
  Modes <- SomeModes
  MaxSize = 2
  Sizes = {1}
  Root = Root
  None = None
  Exposed = {}
SYMMETRY Alike
INVARIANTS
  TypeOK
  TablesAgree
  OpenKept
  SharingKept
  NoHangingPtr
  ScanComplete
  KeepsItsFile
