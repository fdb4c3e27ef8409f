SPECIFICATION FairSpec
CONSTANTS
  Blocks = {b1, b2}
  Ops = {p, q, r}
  MAXOPBLOCKS = 2
  LOGSIZE = 4
  LogBlocks = 4
  OpBlocks = 2
  MaxWrites = 3
  MaxCrashes = 2
PROPERTIES
  AtomicUpdates
  SleepersWake
CHECK_DEADLOCK FALSE
