SPECIFICATION Spec
CONSTANTS
    c1 = c1
    c2 = c2
    N = 2
    Computers <- TwoComputers
    Cap = 2
    Deletable <- OneComputer
    ColdOpens <- OneComputer
    MaxEpoch = 1
    MaxFaults = 1
INVARIANTS
    TypeOK
    NoLeakedMachine
    AttachedHostIsBound
    ClaimIsCurrent
    EarmarkedNotAdopted
    WithinCap
PROPERTIES
    SingleUse
CHECK_DEADLOCK FALSE
