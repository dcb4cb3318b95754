SPECIFICATION ProgramsSpec
CONSTANTS
  Task = {main, init, a, b, c}
  MainTask = main
  FirstInit = init
  Quantum = 2
  TickMod = 4
  MaxSleep = 1
  NULL = NULL
  AnyPid = AnyPid
  RingSize = 4
  Prompt <- MCPrompt
  Letter <- MCLetter
  LineMax = 3
  HistorySize = 2
  DrawnMax = 20
  CsiBuffer = 2
  Rows = 2
  Cols = 4
  TabStop = 4
  AnsiBuffer = 3
  Scancode <- MCScancode
  CommandOutput <- MCCommandOutput
  ProgramOutput <- MCProgramOutput
  MaxKeys = 8
  MaxWrites = 4
  HeapBase = 1
  HeapLimit = 13
  Header = 1
  Align = 2
  MaxRequest = 3
  Datum = {0, 7, 8}
  BufferSize = 2
  Octet = {0, 1}
  MaxLength = 4
  MaxItems = 3
  SeeksAhead = {}
  Bits = 5
  NumberText <- MCText
  Width = {0, 4}
  Precision <- MCPrecision
  MaxElements = 4
  LsName = {1, 2}
SYMMETRY ForkedTasks
INVARIANTS
  TypeOK QueueIsSound MemoryFollowsLife NoDanglingTask
  EditorIsConsistent ScreenShowsLine AllIsVisible
  BlocksKeepData PositionsAgree NumbersReadBack OtherFormatsAreC99 SortIsOrdered
PROPERTIES Lifecycle UnreadBytesSurvive StreamIsFile
