SPECIFICATION Spec
CONSTANTS
    Batches <- MCBatches
    MaxRequests = 2
    MaxDocs = 1
    MaxInterruptions = 1
    MaxBody = 2
    MaxChunk = 1
    Window = 1
    MaxInFlight = 1
    LaneBudget = 1
    Overhead = 0
    PriorityCapacity = 1
    Workers = 1
    MaxPipe = 1
    Exits = TRUE
INVARIANT EventsStayInOrder
CHECK_DEADLOCK FALSE
