SPECIFICATION Spec
CONSTANTS
  Base = 2
  End = 4
  StackLo = 5
  CodeHi = 6
  ScreenLo = 8
  MemEnd = 10
  Sizes = {2, 3}
  MaxModules = 1
  MaxBlocks = 2
PROPERTIES ReserveIsClosed
CHECK_DEADLOCK FALSE
