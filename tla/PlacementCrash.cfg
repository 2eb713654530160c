SPECIFICATION FairSpec
CONSTANTS
    u1 = u1
    u2 = u2
    c1 = c1
    h1 = h1
    Users <- OneUser
    Crons <- OneCron
    Hosts <- OneHost
    MaxEpoch = 1
    MaxJob = 2
    BootJobs = 2
    MaxFaults = 1
    Born = {"RUNNING"}
    WakeModes = {TRUE}
    Crashes = TRUE
    FlakyRefusal = FALSE
PROPERTIES
    DeletedIsRetired
CHECK_DEADLOCK FALSE
