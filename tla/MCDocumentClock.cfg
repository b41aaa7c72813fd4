SPECIFICATION FairSpec
CONSTANTS
    t1 = t1
    t2 = t2
    Tabs <- MCTabs
    None = None
    Delays <- MCDelays
    Clamp = 1
    MaxTime = 2
    MaxDocuments = 2
    MaxTimers = 2
    MaxSwitches = 1
    MaxEvents = 1
INVARIANTS ClockInvariant WakeCoversNextCallback
PROPERTY CallbacksRun
CHECK_DEADLOCK FALSE
