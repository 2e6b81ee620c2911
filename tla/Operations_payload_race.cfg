\* A thread other than the event loop's starts the request.
CONSTANTS
    Contexts = {c1}
    Home = c1
    Executors = {e1}
    MaxPosted = 1
    RequestThreads = {"other"}
    None = none
SPECIFICATION Spec
INVARIANT PayloadDelivered
CHECK_DEADLOCK FALSE
