SPECIFICATION FairSpec
CONSTANTS
  MaxApps = 3
  MaxRuns = 2
  EndsInBoot = FALSE
INVARIANTS VmIsOpen RestartForgetsNatives TickIsArmed EndIsTold RestartIsArmed
PROPERTIES RestartHappens
CHECK_DEADLOCK FALSE
