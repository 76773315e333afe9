SPECIFICATION FairSpec
CONSTANTS
    dm = dm
    s1 = s1
    s2 = s2
    None = None
    Keys <- MCKeys
    KeyOf <- MCKeyOf
    Slots <- OneSlot
    MaxRow = 3
    MaxIters = 2
    Allow <- Ordinary
    MaxCrashes = 2
    MaxFails = 2
INVARIANTS
    TypeOK
    Durable
    Remembered
    ActiveIsTheTurn
PROPERTY
    EveryRowDone
CHECK_DEADLOCK FALSE
