SPECIFICATION Spec
CONSTANTS
    Speeds <- MCSpeeds
    Durations <- MCDurations
    MaxLag = 2
    MaxSetBack = 2
    Values = {v0, v1}
    Apps = {a, b}
    Streams = {s, t}
    None = None
SYMMETRY Symmetry
CHECK_DEADLOCK FALSE
INVARIANTS MovesOnlyInItsTime PlayingIsTrue
