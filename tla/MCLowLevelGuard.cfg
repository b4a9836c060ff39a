CONSTANTS
  LeaseIds = {l1, l2}
  RequestIds = {r1, r2}
  MaxLease = 2
  MaxValid = 2
  LowstateTimeout = 1
  MaxError = 0
  Positions <- MovingJoint
  MaxTime = 4
  MaxSequence = 2
  MaxGrants = 2
  None = None
SPECIFICATION Spec
INVARIANT
  PublishedNearJoint
PROPERTIES
  ImplementsAuthority
  SequenceGrowsInSession
SYMMETRY Ids
CHECK_DEADLOCK FALSE
