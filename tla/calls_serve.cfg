SPECIFICATION FairSpec
CONSTANTS
    Clients <- Threads
    Operations <- EveryOperation
    MaxCalls = 2
    MaxQueueDepth = 2
    CompactAfter = 3
    WriteFaults = TRUE
    ServeOrder = TRUE
INVARIANTS AcceptedIsDurableAfterClose ReportsAreHonest RefusedLeavesNoTrace
PROPERTIES EveryCallReturns
CHECK_DEADLOCK FALSE
