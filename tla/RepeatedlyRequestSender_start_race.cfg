\* A stop requested by the event loop while another thread is in start().
CONSTANTS
    Loop = loop
    StartThreads = {starter}
    StopThreads = {loop}
    AllocationMayThrow = {FALSE}
    Contexts = {c1, c2}
    None = none
SPECIFICATION FairSpec
PROPERTY CancelledCompletes
CHECK_DEADLOCK FALSE
