\* Two remote threads and the event loop's thread; everything may happen.
CONSTANTS
    Main = main
    Threads = {main, t1, t2}
    Ops = {o1, o2}
    Tags = {g1}
    MaxGuards = 1
    HAS_REMOTE_WORK_TAG = alarm_tag
    None = none
    UserCalls = {"post", "initiate", "stop", "reset", "guard", "release", "run",
                 "poll", "destroy", "throwing_allocator", "throwing_handler"}
SYMMETRY Symmetry
SPECIFICATION Spec
INVARIANTS
    TypeOK
    WakeupToken
    WorkAccounting
    OwnedOnce
    NoAlarmAfterShutdown
    DrainedAtDestruction
PROPERTY OrderPreserved
\* A destroyed context takes no more steps.
CHECK_DEADLOCK FALSE
