SPECIFICATION Spec
CONSTANTS
  Base = 2
  End = 6
  StackLo = 6
  CodeHi = 7
  ScreenLo = 9
  MemEnd = 11
  Sizes = {2, 3}
  MaxModules = 1
  MaxBlocks = 2
INVARIANTS ListIsWellFormed PoolIsAccountedFor NothingOwnedIsFree
PROPERTIES ImplementsHeap FreeSparesCode
CHECK_DEADLOCK FALSE
