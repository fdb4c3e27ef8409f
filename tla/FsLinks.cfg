SPECIFICATION FsSpec
CONSTANTS
  FsProcs = {1, 2}
  NINODE = 5
  MaxCallsFs = 3
  Inside = {}
  FsCalls <- MCCalls
INVARIANTS
  LinksExact
CHECK_DEADLOCK FALSE
