SPECIFICATION Spec
CONSTANTS
  Base = 2
  End = 10
  StackLo = 10
  CodeHi = 11
  ScreenLo = 11
  MemEnd = 11
  Sizes = {2, 4, 8}
  MaxModules = 1
  MaxBlocks = 2
INVARIANTS NodesHoldHeaders
CHECK_DEADLOCK FALSE
