SPECIFICATION FairSpec
CONSTANTS
    t1 = t1
    t2 = t2
    o1 = o1
    n1 = n1
    Tabs = {t1}
    Talkers = {t1}
    Closers = {}
    Origins = {o1}
    Names = {n1}
    Sizes = {1}
    MaxChannels = 3
    MaxPending = 2
    MaxRecipients = 9
    MaxBytes = 9
    MaxCommands = 1
    MaxMessages = 1
    MaxEvents = 1
    MaxTurn = 1
    MaxIds <- Three
    MaxPosts = 5
    MaxDocs <- OneDoc
    Faults <- NoFaults
PROPERTY SenderIsNotStuck
CHECK_DEADLOCK FALSE
