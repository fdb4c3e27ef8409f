SPECIFICATION PlayerSpec
CONSTANTS
  NodeNum = 2
  BufSize = 2
  MaxChunk = 1
  Procs = {r1, r2}
  StreamLen = 2
  MaxOut = 2
  Controls = {}
  SMP = FALSE
  None = None
  Commands = {"open", "stop"}
  MaxCommands = 2
INVARIANTS
  StaleBounded
CHECK_DEADLOCK FALSE
