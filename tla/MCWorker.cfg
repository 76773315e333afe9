SPECIFICATION FairWorkerSpec
CONSTANTS
    n1 = n1
    n2 = n2
    Nothing = Nothing
    MaxTurns = 3
    Compacts <- SecondIsCompact
    Notes <- TwoNotes
    MaxFaults = 1
INVARIANTS
    OwnResult
    SeenIsAnswered
    ToldTheTruth
PROPERTY
    EverythingEnds
CHECK_DEADLOCK FALSE
