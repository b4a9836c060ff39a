SPECIFICATION FairSpec
CONSTANTS
    Answers <- MCAnswers
    MaxHeard = 4
    None = None
CHECK_DEADLOCK FALSE
INVARIANTS NoMotionAfterStop PendingHasARequest
PROPERTY StopIsPublished
