SPECIFICATION Spec
CONSTANTS
    p1 = p1
    p2 = p2
    p3 = p3
    a = a
    b = b
    r1 = r1
    r2 = r2
    q1 = q1
    internal = internal
    NoQueue = NoQueue
    NoId = NoId
    NoProc = NoProc
    Procs = {p1, p2}
    Ids = {a, b}
    ExecutorID <- PairIDs
    Runs = {r1, r2}
    Queues = {q1, internal}
    Internal = internal
    HomeQueue <- TwoQueued
    QueueLimit <- Limits
    MaxAttempts = 1
    Survivors = {}
    Env = {"crash", "close"}
INVARIANTS
    QueueLimitHolds
CHECK_DEADLOCK FALSE
