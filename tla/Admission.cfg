SPECIFICATION Spec
CONSTANTS
    c1 = c1
    c2 = c2
    c3 = c3
    u1 = u1
    u2 = u2
    Computers = {c1, c2, c3}
    Owner <- MCOwner
    Types <- TwoSizes
    Offered <- MCOffered
    Vcpu <- MCVcpu
    RegionList <- TwoRegions
    RegionCap <- MCRegionCap
    Cap = 2
    Deletable <- MCDeletable
    MaxEpoch <- OneWake
    MaxWaiting = 1
INVARIANTS
    TypeOK
    WithinCaps
    OnePerOwner
CHECK_DEADLOCK FALSE
