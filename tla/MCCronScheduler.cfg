SPECIFICATION FairSpec
CONSTANTS
    a = a
    b = b
    brief = brief
    daily = daily
    retry = retry
    result = result
    None = None
    Jobs = {brief, result, retry, daily}
    Sessions = {a, b}
    Chats = {a}
    SessionOf <- MCSessionOf
    KindOf <- MCKindOf
    Period = 1
    MaxTime = 1
    MaxEdits = 1
    MaxCrashes = 1
INVARIANT
    DueOrder
PROPERTIES
    AtMostOnce
    CanceledIsFinal
    NoneOverdue
CHECK_DEADLOCK FALSE
