SPECIFICATION Spec
CONSTANTS
  SysThreads = {t1, t2, t3}
  ClntThreads = {k1}
  ClntKinds <- OnlyLog
  MsgColors <- Colors
SYMMETRY Symmetry
INVARIANTS
  ColorRestored
  LinesInOwnColor
