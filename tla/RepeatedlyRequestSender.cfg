\* start() and request_stop() in the thread of the event loop or in others.
CONSTANTS
    Loop = loop
    StartThreads = {loop, starter}
    StopThreads = {loop, stopper}
    AllocationMayThrow = {FALSE, TRUE}
    Contexts = {c1, c2, c3}
    None = none
SPECIFICATION FairSpec
INVARIANTS
    TypeOK
    NoUseAfterCompletion
    ContextOwnership
    WorkAccounting
PROPERTIES
    CancelledInLoopThreadCompletes
    ServerShutdownCompletes
CHECK_DEADLOCK FALSE
