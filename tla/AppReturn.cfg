SPECIFICATION Spec
CONSTANTS
  MaxApps = 3
  MaxRuns = 1
  EndsInBoot = FALSE
INVARIANTS ExitReturns
CHECK_DEADLOCK FALSE
