CONSTANTS
  Requests = {a, b}
  MaxPrimitives = 1
  MayDie = TRUE
  Workers = 3
  None = None
SPECIFICATION FairSpec
PROPERTY
  DeadTrackerEndsGoals
CHECK_DEADLOCK FALSE
