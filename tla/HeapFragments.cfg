SPECIFICATION Spec
CONSTANTS
  Base = 2
  End = 10
  StackLo = 10
  CodeHi = 11
  ScreenLo = 12
  MemEnd = 13
  Sizes = {2, 6}
  MaxModules = 1
  MaxBlocks = 2
PROPERTIES FreesOnlyItsOwn
CHECK_DEADLOCK FALSE
