SPECIFICATION Spec
CONSTANTS
  Task = {main, init, a}
  MainTask = main
  FirstInit = init
  Quantum = 2
  TickMod = 4
  MaxSleep = 1
  NULL = NULL
  AnyPid = AnyPid
INVARIANT KernelSurvivesInit
