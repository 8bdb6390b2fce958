SPECIFICATION FairSpec
CONSTANTS
    Sources <- ShortSources
    Limits = {0, 1, 2}
    MaxCrashes = 2
INVARIANTS
    IInv
    OneGenuineVerdict
    SerialStopsAtFailure
PROPERTIES
    StageEnds
CHECK_DEADLOCK FALSE
