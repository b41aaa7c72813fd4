SPECIFICATION FairSpec
CONSTANTS
    t1 = t1
    t2 = t2
    o1 = o1
    n1 = n1
    Tabs = {t1, t2}
    Talkers = {t1}
    Closers = {t2}
    Origins = {o1}
    Names = {n1}
    Sizes = {1}
    MaxChannels = 2
    MaxPending = 2
    MaxRecipients = 3
    MaxBytes = 2
    MaxCommands = 1
    MaxMessages = 1
    MaxEvents = 1
    MaxTurn = 1
    MaxIds <- MCIds
    MaxPosts = 2
    MaxDocs <- MCDocs
    Faults <- MCFaults
INVARIANTS
    RegistryInvariant
    ExactAccounting
    ReceivesInOrder
PROPERTY TrafficDrains
CHECK_DEADLOCK FALSE
