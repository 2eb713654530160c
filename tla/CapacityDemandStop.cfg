SPECIFICATION Spec
CONSTANTS
    MaxTime = 7
    MaxEpoch = 2
    MaxBegun = 2
INVARIANTS
    StopReleases
CHECK_DEADLOCK FALSE
