SPECIFICATION FairSpec
CONSTANTS
    m1 = m1
    m2 = m2
    m3 = m3
    f1 = f1
    f2 = f2
    f3 = f3
    c1 = c1
    c2 = c2
    o1 = o1
    None = None
    Msgs <- MCMsgs
    WindowOf <- MCWindowOf
    MaxMs = 3
    Flushes <- MCFlushes
    Compacts <- MCCompacts
    Others <- MCOthers
INVARIANTS
    BurstIsBounded
    CompactYields
PROPERTY
    EveryMessageHandled
CHECK_DEADLOCK FALSE
