SPECIFICATION Spec
CONSTANTS
    u1 = u1
    u2 = u2
    c1 = c1
    h1 = h1
    Users <- OneUser
    Crons <- OneCron
    Hosts <- OneHost
    MaxEpoch = 2
    MaxJob = 2
    BootJobs = 2
    MaxFaults = 1
    Born = {"NONE", "RUNNING"}
    WakeModes = {TRUE, FALSE}
    Crashes = TRUE
    FlakyRefusal = FALSE
INVARIANTS
    TypeOK
    NothingRunsAtRest
    RunningIsReachable
    OneInstanceRuns
    NoTunnelAtRest
    RunningOwnsVolume
CHECK_DEADLOCK FALSE
PROPERTIES
    EdgesAreLegal
