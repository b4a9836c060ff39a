SPECIFICATION PiSpec
CONSTANTS
    MaxTurns = 2
    MaxTransports = 1
    MaxAborts = 1
    MaxEvents = 3
    None = None
CHECK_DEADLOCK FALSE
INVARIANT AnswersItsOwnTurn
