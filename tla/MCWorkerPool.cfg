SPECIFICATION FairSpec
CONSTANTS
    dm = dm
    group = group
    plain = plain
    browser = browser
    t1 = t1
    t2 = t2
    t3 = t3
    k = k
    None = None
    Session <- MCSession
    Calls <- MCCalls
    SessionOf <- MCSessionOf
    BindOf <- MCBindOf
    CompactCalls <- MCCompacts
    Slots <- MCSlots
    MaxWorkers = 1
    MaxExtras = 1
INVARIANTS
    OpenEntries
    RightWorker
    NoStray
PROPERTIES
    BusyIsKept
    EveryCallReturns
CHECK_DEADLOCK FALSE
