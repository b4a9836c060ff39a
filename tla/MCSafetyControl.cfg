SPECIFICATION Spec
CONSTANTS
    Axes = {vx}
    Speeds <- MCSpeeds
    SpeedLimit = 1
    StepLimit = 1
    Durations = {3}
    MaxDuration = 3
    Modes = {"sport", "user"}
    LocoModes = {"sport"}
    Conditions <- MCSport
    MaxLowstateAge = 1
    CommandTimeout = 1
    FutureSlack = 0
    Burst = 1
    TokenTicks = 2
    ClockSteps = 1
    MaxTime = 3
    MaxLag = 0
    MaxInFlight = 1
    None = None
CHECK_DEADLOCK FALSE
INVARIANT RateBounded
PROPERTIES LocoOnFreshState StepsFromLastCommand
