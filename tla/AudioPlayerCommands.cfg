SPECIFICATION FairPlayerSpec
CONSTANTS
  NodeNum = 2
  BufSize = 2
  MaxChunk = 1
  Procs = {r1}
  StreamLen = 4
  MaxOut = 3
  Controls = {}
  SMP = FALSE
  None = None
  Commands = {"open", "pause", "resume", "speed", "stop", "quit", "eof"}
  MaxCommands = 3
INVARIANTS
  RunsWhenPlaying
PROPERTIES
  KilledEnds
CHECK_DEADLOCK FALSE
