SPECIFICATION Spec
CONSTANTS
    u1 = u1
    u2 = u2
    c1 = c1
    h1 = h1
    Users <- OneUser
    Crons <- OneCron
    Hosts <- OneHost
    MaxEpoch = 2
    MaxJob = 2
    BootJobs = 2
    MaxFaults = 1
    Born = {"STOPPED"}
    WakeModes = {FALSE}
    Crashes = FALSE
    FlakyRefusal = TRUE
INVARIANTS
    NothingRunsAtRest
CHECK_DEADLOCK FALSE
