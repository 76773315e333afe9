SPECIFICATION FairSpec
CONSTANTS
    image = image
    page = page
    Job = {image, page}
    MaxFaults = 1
INVARIANTS
    StampMeansTold
    ToldOnce
    ToldTheTruth
PROPERTY
    EveryJobTold
CHECK_DEADLOCK FALSE
