SPECIFICATION LiveSpec
CONSTANTS
  Task = {main, init, a, b}
  MainTask = main
  FirstInit = init
  Quantum = 2
  TickMod = 4
  MaxSleep = 3
  NULL = NULL
  AnyPid = AnyPid
  Users = 3
  ArmQuantum = 3
  ArmMaxSleep = 2
CHECK_DEADLOCK FALSE
INVARIANT ContextsAreKept
PROPERTIES ReadyTaskRuns WaitReturns SleepEnds EveryoneRuns
