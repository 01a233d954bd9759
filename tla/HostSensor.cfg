SPECIFICATION FairSpec
CONSTANTS
  MaxRuns = 2
  MaxEdits = 0
  QueueCap = 1
PROPERTIES SensorFollowsGuest
CHECK_DEADLOCK FALSE
