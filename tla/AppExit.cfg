SPECIFICATION Spec
CONSTANTS
  MaxApps = 3
  MaxRuns = 2
  EndsInBoot = TRUE
INVARIANTS VmIsOpen
CHECK_DEADLOCK FALSE
