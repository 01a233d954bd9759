SPECIFICATION Spec
CONSTANTS
  Base = 2
  End = 8
  StackLo = 8
  CodeHi = 9
  ScreenLo = 9
  MemEnd = 9
  Sizes = {2, 3}
  MaxModules = 1
  MaxBlocks = 2
INVARIANTS ListIsWellFormed PoolIsAccountedFor
PROPERTIES FreeSparesCode
CHECK_DEADLOCK FALSE
