CONSTANTS
    QueueSize = 2
    RETRY_CONNECT = 1
    Budgeted = TRUE
    Cancellable = TRUE
    TornChunks = {}
SPECIFICATION FairSpec
INVARIANTS TypeOK FinishedReleasesAll TruncationIsAttributable ErrorFramesMatchCounters
PROPERTIES ViewSpec HandlerReturns DisconnectReleasesSlot
CHECK_DEADLOCK FALSE
