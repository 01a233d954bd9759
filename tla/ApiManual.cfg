CONSTANTS
  QueueCap = 1
  HostOps <- ManualOps
  GuestOps <- TimerGuest
  Speeds = {1}
  MaxDelay = 1
  MaxRuns = 1
  MaxCmds = 0
  MaxEdits = 0
SPECIFICATION Spec
PROPERTIES TimerStepIsTick
CHECK_DEADLOCK FALSE
