SPECIFICATION Spec
CONSTANTS
  MaxApps = 3
  MaxRuns = 1
  EndsInBoot = FALSE
PROPERTIES StateIsTakenOver
CHECK_DEADLOCK FALSE
