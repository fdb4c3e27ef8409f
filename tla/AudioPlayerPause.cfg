SPECIFICATION PlayerSpec
CONSTANTS
  NodeNum = 2
  BufSize = 2
  MaxChunk = 1
  Procs = {r1}
  StreamLen = 3
  MaxOut = 4
  Controls = {}
  SMP = FALSE
  None = None
  Commands = {"open", "pause"}
  MaxCommands = 2
PROPERTIES
  PauseHolds
CHECK_DEADLOCK FALSE
