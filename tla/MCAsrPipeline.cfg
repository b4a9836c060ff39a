SPECIFICATION FairSpec
CONSTANTS
    MaxChunks = 7
    MinSpeech = 2
    MaxSilence = 2
    MaxSpeech = 3
    Padding = 1
    PcmSize = 2
    SegmentSize = 1
    Stop = Stop
    None = None
CHECK_DEADLOCK FALSE
INVARIANTS UsedOnceInOrder DroppedIsShort OneUtterancePerText WorkerEndsLast CleanStop
PROPERTY StopReturns
