CONSTANTS
  QueueCap = 1
  HostOps <- SensorOps
  GuestOps <- ExitGuest
  Speeds = {1}
  MaxDelay = 0
  MaxRuns = 2
  MaxCmds = 1
  MaxEdits = 0
SPECIFICATION Spec
PROPERTIES StraySampleIsDropped
CHECK_DEADLOCK FALSE
