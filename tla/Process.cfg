SPECIFICATION FairSpec
CONSTANTS
  NPROC = 3
  NCPU = 2
  MaxPid = 4
  KillPids = {2, 3}
  None = None
INVARIANTS
  OneStack
  NoMissedExit
  NoOrphan
PROPERTIES
  ZombiesCollected
  KilledExits
CHECK_DEADLOCK FALSE
