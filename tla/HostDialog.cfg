SPECIFICATION Spec
CONSTANTS
  MaxRuns = 2
  MaxEdits = 1
  QueueCap = 1
PROPERTIES NoDialogForAnswered
CHECK_DEADLOCK FALSE
