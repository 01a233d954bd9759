CONSTANTS
  QueueCap = 3
  none = none
  unused = unused
  t1 = t1
  t2 = t2
  NoText = none
  Unused = unused
  Commands <- SmallCommands
SPECIFICATION Spec
INVARIANTS TextsOwnedOnce
PROPERTIES ImplementsFifo
