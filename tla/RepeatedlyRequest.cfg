\* Both variants, three kinds of executors of the completion handler.
CONSTANTS
    Contexts = {r1, r2, r3}
    MaxHandlers = 2
    None = none
SPECIFICATION Spec
INVARIANTS
    TypeOK
    WorkAccounting
    OneContinuation
    MemoryOwned
    HandlerContextHasWork
PROPERTY Completes
CHECK_DEADLOCK FALSE
