SPECIFICATION Spec
CONSTANTS
  MaxRuns = 2
  MaxEdits = 0
  QueueCap = 1
INVARIANTS BackgroundIsSilent
CHECK_DEADLOCK FALSE
