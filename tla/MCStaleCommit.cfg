SPECIFICATION Spec
CONSTANTS
    d1 = d1
    d2 = d2
    p1 = p1
    p2 = p2
    w1 = w1
    k1 = k1
    Docs = {d1, d2}
    Clients = {p1, p2}
    DocOf <- TwoPages
    Workers = {}
    Deleters = {p2}
    Readers = {}
    Keys = {k1}
    MaxVersion = 1
    QueueCapacity = 2
    SessionCapacity = 2
    MaxReplies = 1
    MaxTx = 1
    MaxSteps <- OneStep
    MaxOpens = 2
    Expiry = FALSE
    DiskFaults = {}
    Leaves = {}
INVARIANT StaleNeverCommits
CHECK_DEADLOCK FALSE
