SPECIFICATION Spec
CONSTANTS
  Ids = {o1, o2}
  Names = {a, b}
  Vals = {x, y}
  Nobody = Nobody
  Empty = Empty
  Idle = Idle
  Ops = {"create", "link", "unlink", "rename", "write", "truncate", "open", "close", "flush"}
  MaxLog = 4
  Exposed = {}
SYMMETRY Alike
INVARIANTS
  TypeOK
  MountAgrees
  NamesUnique
  LinksResolve
PROPERTIES
  StoreSpec
