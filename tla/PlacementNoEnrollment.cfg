SPECIFICATION FairSpec
CONSTANTS
    u1 = u1
    u2 = u2
    c1 = c1
    h1 = h1
    Users <- OneUser
    Crons <- OneCron
    Hosts = {}
    MaxEpoch = 2
    MaxJob = 4
    BootJobs = 4
    MaxFaults = 1
    Born = {"STOPPED"}
    WakeModes = {TRUE}
    Crashes = FALSE
    FlakyRefusal = FALSE
PROPERTIES
    WakeSettles
    FailedHostEnds
CHECK_DEADLOCK FALSE
