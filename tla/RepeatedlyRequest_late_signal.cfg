\* A signal after the completion handler has been handed to another context.
CONSTANTS
    Contexts = {r1}
    MaxHandlers = 1
    None = none
SPECIFICATION Spec
INVARIANT StopFunctionFindsOperation
CHECK_DEADLOCK FALSE
