SPECIFICATION FairDesktopSpec
CONSTANTS
    MaxEpoch = 2
    Epochs <- MCEpochs
    a1 = a1
    a2 = a2
    Asks <- MCAsks
    AskTime = 0
    ClaimTime = 1
    ApplyTime = 2
    MaxFaults = 1
INVARIANTS
    TypeOK
    NoOrphan
    OneEpochExists
    NoDanglingName
    RemovalIsFinal
    OnePush
PROPERTIES
    KeepsPromise
    NoRepush
    UnappliedIsEarned
    NeverEndlessStarting
