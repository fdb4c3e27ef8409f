SPECIFICATION Spec
CONSTANTS
  NodeNum = 3
  BufSize = 2
  MaxChunk = 1
  Procs = {w}
  StreamLen = 7
  MaxOut = 8
  Controls = {}
  SMP = TRUE
  None = None
INVARIANTS
  QueueLinked
CHECK_DEADLOCK FALSE
