SPECIFICATION Spec
CONSTANTS
  MaxRuns = 2
  MaxEdits = 0
  QueueCap = 1
INVARIANTS ForegroundHears
CHECK_DEADLOCK FALSE
