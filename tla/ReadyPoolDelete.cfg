SPECIFICATION FairSpec
CONSTANTS
    c1 = c1
    c2 = c2
    N = 1
    Computers <- OneComputer
    Cap = 1
    Deletable <- OneComputer
    ColdOpens <- OneComputer
    MaxEpoch = 1
    MaxFaults = 0
PROPERTIES
    DeletedPlacementRetires
CHECK_DEADLOCK FALSE
