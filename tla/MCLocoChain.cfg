SPECIFICATION ChainSpec
CONSTANTS
  StateTimeout = 0
  SafetyTimeout = 1
  ModeTimeout = 0
  ResponseTimeout = 1
  UnhealthyCount = 1
  MaxQueued = 1
  MaxDuration = 2
  Queries = {"get_fsm_mode"}
  Payloads = {"data", "notInteger", "malformed"}
  Ids <- MCIds
  None = None
  MaxWire = 2
CHECK_DEADLOCK FALSE
INVARIANTS MovesOnlySupervised MotionIsLastCommand MotionSupervised HealthyMeansAllowed
PROPERTY DeadInterfaceStops
