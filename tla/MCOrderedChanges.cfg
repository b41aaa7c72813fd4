SPECIFICATION Spec
CONSTANTS
    t1 = t1
    t2 = t2
    k1 = k1
    k2 = k2
    Tabs <- MCTabs
    Keys <- MCKeys
    Values <- MCValues
    None = None
    KeyBytes = 1
    MaxEntries = 1
    MaxBytes = 2
    MaxPending = 2
    MaxQueue = 2
    MaxBatch = 2
    MaxWrites <- MCWrites
    MaxLoads = 2
INVARIANT OrderedChangesReceived
CHECK_DEADLOCK FALSE
