SPECIFICATION FairSpec
CONSTANTS
    c1 = c1
    c2 = c2
    Children = {c1, c2}
    Batches <- SmallBatches
    MaxCrashes = 1
    Env = {"outside", "read_fails", "cancel_fails", "enqueue_fails", "cancel_parent", "retention"}
INVARIANTS
    IInv
    OneGenuineVerdict
PROPERTIES
    BackstopCancels
    StageEnds
CHECK_DEADLOCK FALSE
