SPECIFICATION Spec
CONSTANTS
  Blocks = {b1, b2, b3, b4, b5}
  Ops = {p, q}
  MAXOPBLOCKS = 3
  LOGSIZE = 6
  LogBlocks = 6
  OpBlocks = 2
  MaxWrites = 6
  MaxCrashes = 0
SYMMETRY LogSymmetry
INVARIANTS
  NoLogPanic
