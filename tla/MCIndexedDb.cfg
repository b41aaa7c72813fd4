SPECIFICATION FairSpec
CONSTANTS
    d1 = d1
    d2 = d2
    p1 = p1
    p2 = p2
    w1 = w1
    k1 = k1
    Docs = {d1}
    Clients = {p1, w1}
    DocOf <- PageAndWorker
    Workers = {w1}
    Deleters = {w1}
    Readers = {p1}
    Keys = {k1}
    MaxVersion = 2
    QueueCapacity = 1
    SessionCapacity = 2
    MaxReplies = 1
    MaxTx = 1
    MaxSteps <- PageTwoSteps
    MaxOpens = 1
    Expiry = TRUE
    DiskFaults = {"io", "crash"}
    Leaves = {}
INVARIANTS
    SessionInvariant
    NoLostUpdate
    CommitIsWhole
    Recoverable
PROPERTY EveryRequestAnswered
CHECK_DEADLOCK FALSE
