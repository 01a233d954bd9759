CONSTANTS
  QueueCap = 2
  HostOps <- SafeOps
  GuestOps <- TimerGuest
  Speeds = {2}
  MaxDelay = 2
  MaxRuns = 2
  MaxCmds = 3
  MaxEdits = 0
SPECIFICATION Spec
INVARIANTS RunningRunIsServed RunIsolation PauseKeepsTimer
PROPERTIES DispatchInOrder RunEndsForAReason KeepsSession HostKeepsTimer
CHECK_DEADLOCK FALSE
