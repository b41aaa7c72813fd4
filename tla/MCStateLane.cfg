SPECIFICATION FairSpec
CONSTANTS
    None = None
    MaxDocs = 2
    MaxSyncs = 2
    MaxCookies = 2
    MaxUpdates = 2
    MaxWriter = 2
    MaxPipe = 1
INVARIANTS
    LaneInvariant
    ReceiptsAreSolicited
    DeltasInOrder
    CookiesConverge
PROPERTY SlotIsFreed
CHECK_DEADLOCK FALSE
