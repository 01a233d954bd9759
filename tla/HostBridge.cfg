SPECIFICATION FairSpec
CONSTANTS
  MaxRuns = 2
  MaxEdits = 2
  QueueCap = 1
INVARIANTS RunningGuestIsPolled SubscriptionIsKnown
PROPERTIES ExitIsTold EditIsAnswered SensorFollowsGuest
CHECK_DEADLOCK FALSE
