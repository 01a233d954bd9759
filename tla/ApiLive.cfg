CONSTANTS
  QueueCap = 2
  HostOps <- LiveOps
  GuestOps <- LiveGuest
  Speeds = {1}
  MaxDelay = 1
  MaxRuns = 1
  MaxCmds = 2
  MaxEdits = 1
SPECIFICATION FairSpec
INVARIANTS EditAnsweredOnce
PROPERTIES AcceptedIsServed TimerFires StopReturns ExitWindsDown EditGetsAnswer
CHECK_DEADLOCK FALSE
