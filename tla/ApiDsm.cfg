CONSTANTS
  QueueCap = 2
  HostOps <- DsmOps
  GuestOps <- ExitGuest
  Speeds = {1}
  MaxDelay = 0
  MaxRuns = 1
  MaxCmds = 2
  MaxEdits = 0
SPECIFICATION Spec
INVARIANTS OneThreadInEngine
CHECK_DEADLOCK FALSE
