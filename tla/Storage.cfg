SPECIFICATION SysSpec
CONSTANTS
  FsProcs = {1, 2}
  NINODE = 5
  MaxCallsFs = 3
  Inside = {1}
  FsCalls <- MCCalls
  DataProcs = {1, 2}
  Opens = {1, 2, 3}
  Inodes = {1, 2}
  InodeOf <- MCInodeOf
  Appender = 1
  BSIZE = 2
  NDIRECT = 1
  MAXOPBLOCKS = 6
  BPB = 16
  NumData = 8
  UINT = 16
  Sizes = {4, 15}
  MaxSize = 6
  MaxOps = 3
  NMETA = 2
  FileSizes = {0, 1, 3, 4, 5, 6}
  MaxFiles = 3
  Slots = {1, 2}
  PageCounts = {13, 17, 19}
  PGSIZE = 2
  SegSizes = {2, 3}
  Grows = {2, 3}
  Shrinks = {1, 7}
  UINT32 = 32
  MaxMemCalls = 3
  DiskProcs = {1, 2}
  NBUF = 2
  NumBlocks = 3
  MaxReads = 4
  MaxPins = 1
  Requesters = {1, 2, 3}
  NUM = 7
  IDX = 7
  MaxRequests = 3
INVARIANTS
  TreeSound
  ContentRight
  LogFits
  ImageSound
  PagesExact
  ImageRight
  NoVmPanic
  HolderSeesLatest
PROPERTIES
  FsCallsEnd
  DriverIsDisk
  VirtioServes
CHECK_DEADLOCK FALSE
