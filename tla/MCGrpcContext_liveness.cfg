\* One remote thread and the event loop's thread; posting, stopping, throwing
\* and destroying race, and work counted by hand is released by the event
\* loop's thread.
CONSTANTS
    Main = main
    Threads = {main, t1}
    Ops = {o1, o2}
    Tags = {g1}
    MaxGuards = 1
    HAS_REMOTE_WORK_TAG = alarm_tag
    None = none
    UserCalls = {"post", "initiate", "stop", "guard", "main_release", "run",
                 "destroy", "throwing_handler"}
SPECIFICATION FairSpec
PROPERTIES
    PostedIsCompleted
    TagIsDelivered
    StopReturns
    DestructorReturns
    RunReturnsWhenAllIsDone
CHECK_DEADLOCK FALSE
