SPECIFICATION Spec
CONSTANTS
  Requests = {a, b}
  MaxSegments = 3
  SegmentFrames = 2
  Depth = 2
  MaxRestarts = 1
  None = None
INVARIANTS
  ContentInOrder
  ExecutedTruthful
  PreviousActionIsLast
  EndedStaysEnded
SYMMETRY Ids
