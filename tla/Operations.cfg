\* Two contexts, three executor objects; two waits on one alarm.
CONSTANTS
    Contexts = {c1, c2}
    Home = c1
    Executors = {e1, e2, e3}
    MaxPosted = 1
    RequestThreads = {"loop"}
    None = none
SPECIFICATION Spec
INVARIANTS
    TypeOK
    WorkAccounting
    NoStaleCancel
PROPERTY StopEndsWait
CHECK_DEADLOCK FALSE
