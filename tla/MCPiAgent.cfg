SPECIFICATION PiFairSpec
CONSTANTS
    MaxTurns = 2
    MaxTransports = 2
    MaxAborts = 1
    MaxEvents = 3
    None = None
CHECK_DEADLOCK FALSE
INVARIANTS OwnTurnUntilLeft NoCallTwice FailedIsReplaced
PROPERTY DecideReturns
