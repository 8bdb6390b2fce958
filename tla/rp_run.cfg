SPECIFICATION FairSpec
CONSTANTS
    Programs <- Sample
    MaxCrashes = 2
    MaxForks = 1
    Env = {"stop", "cancel", "deploy"}
INVARIANTS
    TypeOK
    NoMisread
    OneOutcome
    GenuineCauses
    NoStepOutlives
PROPERTIES
    FailFastButLoops
    RunEnds
CHECK_DEADLOCK FALSE
