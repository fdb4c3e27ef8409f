SPECIFICATION SysSpec
CONSTANTS
  NumProcs = 5
  NOFILE = 4
  NFILE = 5
  NumPipes = 1
  PIPESIZE = 2
  WORD = 4
  MaxKills = 1
  MaxLen = 3
  MAXARGS = 3
  Chunk = 3
  EchoBytes = 5
  Tokens = {"cat", "|", "<", ">", "&", ";", "(", ")"}
  Lines <- MCLines
  Users = {"p", "q"}
  Victims = {"p"}
  INPUT_BUF = 2
  UART_TX_BUF_SIZE = 1
  UINT = 4
  Typed = 3
  MaxEvents = 4
  MaxCalls = 1
  IoSize = 2
  Sleepers = {1, 2}
  TickUint = 8
  Naps = {0, 1, 3, 7}
  FirstTick = 6
  MaxNow = 4
  HEADER = 2
  MinUnits = 4
  Requests = {1, 3, 8}
  MaxBrk = 18
  MaxHeapCalls = 6
  PAGE = 2
  MAXVA = 6
  UINT64 = 10
  Lengths = {0, 1, 3, 5}
  Starts = {0, 1, 3, 4, 5, 9}
  Nuls <- MCNuls
  BUFSIZE = 4
  NL = "n"
  SP = "b"
  Patterns <- MCPatterns
  Inputs <- MCInputs
  MemSize = 4
  Letters = {1, 2}
  INTBITS = 5
  Base = 3
  Offsets = {0, 8, 12, 36}
  Rates = {3, 5}
  Speeds = {0, 1, 5}
  MaxRate = 7
  MaxVolume = 100
  Volumes = {0, 1, 4, 99, 101}
  MaxCommands = 3
INVARIANTS
  RefsExact
  ParserRight
  OutputRight
  SleepExact
  HeapSound
  CopiesRight
  FiltersRight
  LibraryRight
  HeaderRight
  SettingsKept
PROPERTIES
  PipeIsFifo
  CommandsEnd
  InputIsEdited
  ConsoleServes
CHECK_DEADLOCK FALSE
