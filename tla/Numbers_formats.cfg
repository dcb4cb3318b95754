SPECIFICATION NumbersSpec
CONSTANTS
  Bits = 5
  NumberText = {}
  Width = {0, 4}
  Precision <- MCPrecision
CHECK_DEADLOCK FALSE
INVARIANT FormatsAreC99
