\* A remote thread releases the last work while run() begins.
CONSTANTS
    Main = main
    Threads = {main, t1}
    Ops = {o1}
    Tags = {g1}
    MaxGuards = 1
    HAS_REMOTE_WORK_TAG = alarm_tag
    None = none
    UserCalls = {"guard", "release", "run"}
SPECIFICATION FairSpec
PROPERTY RunReturnsWithoutWork
CHECK_DEADLOCK FALSE
