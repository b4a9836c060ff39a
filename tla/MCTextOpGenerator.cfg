CONSTANTS
  Requests = {a, b, c}
  MaxPrimitives = 2
  MayDie = FALSE
  Workers = 3
  None = None
SPECIFICATION Spec
INVARIANTS
  LeaseNeedsCommand
  WorkIsOwned
  WokenWhenDecided
PROPERTIES
  ReferencesInOrder
  ReleasedWhenIdle
  OutcomeIsFinal
SYMMETRY Ids
VIEW Live
CHECK_DEADLOCK FALSE
