CONSTANTS
  QueueCap = 1
  HostOps <- TimerOps
  GuestOps <- TimerGuest
  Speeds = {0, 2, 3}
  MaxDelay = 4
  MaxRuns = 2
  MaxCmds = 1
  MaxEdits = 0
SPECIFICATION Spec
INVARIANTS PauseKeepsTimer
PROPERTIES HostKeepsTimer
CHECK_DEADLOCK FALSE
