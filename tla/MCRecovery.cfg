SPECIFICATION FairSpec
CONSTANTS
    p1 = p1
    p2 = p2
    d1 = d1
    d2 = d2
    None = None
    Passes <- MCPasses
    Drains <- MCDrains
    MaxRow = 2
    MaxFaults = 2
    MaxFires = 1
INVARIANT
    RecoveredOnce
PROPERTY
    NeverSilent
CHECK_DEADLOCK FALSE
