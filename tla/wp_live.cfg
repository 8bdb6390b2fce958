SPECIFICATION FairSpec
CONSTANTS
    p1 = p1
    p2 = p2
    p3 = p3
    a = a
    b = b
    r1 = r1
    r2 = r2
    q1 = q1
    internal = internal
    NoQueue = NoQueue
    NoId = NoId
    NoProc = NoProc
    Procs = {p1, p2}
    Ids = {a, b}
    ExecutorID <- PairIDs
    Runs = {r1}
    Queues = {q1, internal}
    Internal = internal
    HomeQueue <- OneDirect
    QueueLimit <- Limits
    MaxAttempts = 1
    Survivors = {p2}
    Env = {"crash", "close", "cancel", "resume", "window"}
PROPERTIES
    RunsFinish
    TerminalSettles
CHECK_DEADLOCK FALSE
