CONSTANTS
  QueueCap = 1
  HostOps <- PauseOps
  GuestOps <- TimerGuest
  Speeds = {2}
  MaxDelay = 2
  MaxRuns = 1
  MaxCmds = 0
  MaxEdits = 0
SPECIFICATION Spec
INVARIANTS SpeedShortensTimer
CHECK_DEADLOCK FALSE
