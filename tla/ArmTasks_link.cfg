SPECIFICATION ArmSpec
CONSTANTS
  Users = 2
  ArmQuantum = 3
  ArmMaxSleep = 2
CHECK_DEADLOCK FALSE
PROPERTY LinkIsKept
