SPECIFICATION Spec
CONSTANTS
    u1 = u1
    u2 = u2
    c1 = c1
    h1 = h1
    Users <- TwoUsers
    Crons = {}
    Hosts = {}
    MaxEpoch = 3
    MaxJob = 3
    BootJobs = 3
    MaxFaults = 1
    Born = {"STOPPED", "RUNNING"}
    WakeModes = {TRUE, FALSE}
    Crashes = TRUE
    FlakyRefusal = FALSE
INVARIANTS
    NothingRunsAtRest
    ReceiptFits
CHECK_DEADLOCK FALSE
PROPERTIES
    LeaseIsExclusive
SYMMETRY UserSymmetry
