SPECIFICATION FairSpec
CONSTANTS
    d1 = d1
    d2 = d2
    n1 = n1
    n2 = n2
    None = None
    Inputs <- MCInputs
    Cancellable = {d1}
    MaxEvents = 2
    MaxFetches = 1
    MaxStorage = 1
    MaxResources = 2
    PerTurn = 1
    StorageItems = 2
    MaxProduced = 3
INVARIANTS
    QueueInvariant
    WakeIsOwed
    EveryEventAccounted
PROPERTIES OutputBeforeExit EveryEventHandled
CHECK_DEADLOCK FALSE
