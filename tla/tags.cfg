SPECIFICATION Spec
CONSTANTS
  Tags <- SomeTags
  Datas <- SomeDatas
  NBlocks = 2
  DataBytes = {0, 128, 255}
  Weak <- SomeWeak
  MaxFlips = 2
  Nothing = Nothing
INVARIANTS
  TagsTrusted
  DataTrusted
