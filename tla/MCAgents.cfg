SPECIFICATION FairSpec
CONSTANTS
    alone = alone
    research = research
    scout = scout
    reader = reader
    synth = synth
    None = None
    Solo = {alone}
    Teams = {research}
    Members <- MCMembers
    FollowOn <- MCFollowOn
    NoModel = {alone}
    MaxWork = 1
    MaxCancels = 1
    MaxFaults = 1
INVARIANTS
    OneWakeUp
    TeamReportIsFinal
    NoOrphan
    ResultFits
PROPERTY
    EveryoneReported
CHECK_DEADLOCK FALSE
