SPECIFICATION FairQueueSpec
CONSTANTS
    c1 = c1
    c2 = c2
    c3 = c3
    c4 = c4
    s1 = s1
    s2 = s2
    Keys <- MCKeys
    Calls <- MCCalls
    KeyOf <- MCKeyOf
    None = None
    Lease = 1
INVARIANTS
    TypeOK
    LeaseExclusion
    RegistryTracksHold
    NoTailLeak
PROPERTIES
    FifoGrant
    NoWedge
CHECK_DEADLOCK FALSE
