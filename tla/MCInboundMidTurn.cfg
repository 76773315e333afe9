SPECIFICATION Spec
CONSTANTS
    dm = dm
    s1 = s1
    s2 = s2
    None = None
    Keys <- MCKeys
    KeyOf <- MCKeyOf
    Slots <- OneSlot
    MaxRow = 4
    MaxIters = 3
    Allow <- NoExpiry
    MaxCrashes = 0
    MaxFails = 1
INVARIANT
    NoSecondAnswer
CHECK_DEADLOCK FALSE
