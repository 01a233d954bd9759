SPECIFICATION Spec
CONSTANTS
  Base = 2
  End = 8
  StackLo = 8
  CodeHi = 9
  ScreenLo = 9
  MemEnd = 9
  Sizes = {2, 3, 6}
  MaxModules = 2
  MaxBlocks = 2
PROPERTIES MallocSparesCode
CHECK_DEADLOCK FALSE
