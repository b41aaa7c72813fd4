SPECIFICATION FairSpec
CONSTANTS
    MaxLoads = 2
    MaxOutput = 1
    MaxMail = 1
    TurnEvents = 2
INVARIANTS
    NavigationInvariant
    PageIsCurrent
PROPERTIES
    PaintCountsBeforeExit
    OldExitIsIgnored
    LoadingEnds
CHECK_DEADLOCK FALSE
