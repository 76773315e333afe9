SPECIFICATION Spec
CONSTANTS
    dm = dm
    s1 = s1
    s2 = s2
    None = None
    Keys <- MCKeys
    KeyOf <- MCKeyOf
    Slots <- TwoSlots
    MaxRow = 2
    MaxIters = 2
    Allow <- Anything
    MaxCrashes = 1
    MaxFails = 2
INVARIANT
    LockFollowsTurn
CHECK_DEADLOCK FALSE
