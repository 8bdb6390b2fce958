SPECIFICATION FairSpec
CONSTANTS
    r1 = r1
    r2 = r2
    Runs = {r1}
    MaxTokens = 4
INVARIANTS
    IInv
    BodyHasOpenRow
    InterruptsOnlyCancelled
    OnlyReplacedClosesAreLost
PROPERTIES
    EndedRowCloses
    CancelReachesBody
