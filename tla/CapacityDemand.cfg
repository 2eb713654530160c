SPECIFICATION Spec
CONSTANTS
    MaxTime = 10
    MaxEpoch = 2
    MaxBegun = 2
INVARIANTS
    TypeOK
    NoSilentRestart
    RetryReleases
CHECK_DEADLOCK FALSE
