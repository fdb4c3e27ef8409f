SPECIFICATION PlayerSpec
CONSTANTS
  NodeNum = 2
  BufSize = 2
  MaxChunk = 1
  Procs = {r1}
  StreamLen = 3
  MaxOut = 6
  Controls = {}
  SMP = FALSE
  None = None
  Commands = {"open", "speed"}
  MaxCommands = 2
INVARIANTS
  NoPanic
CHECK_DEADLOCK FALSE
