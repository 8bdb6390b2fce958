SPECIFICATION FairSpec
CONSTANTS
    Programs <- Loops
    MaxCrashes = 0
    MaxForks = 0
    Env = {}
PROPERTIES
    FailFast
CHECK_DEADLOCK FALSE
