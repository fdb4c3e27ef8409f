SPECIFICATION FairSpec
CONSTANTS
  NodeNum = 3
  BufSize = 3
  MaxChunk = 2
  Procs = {w}
  StreamLen = 14
  MaxOut = 20
  Controls = {0}
  SMP = FALSE
  None = None
INVARIANTS
  QueueLinked
  NoPanic
  InOrder
PROPERTIES
  AllPlayed
CHECK_DEADLOCK FALSE
