\* Posts, guards and stops race with the polling thread.
CONSTANTS
    Main = main
    Threads = {main, t1}
    Ops = {o1, o2}
    Tags = {g1}
    MaxGuards = 1
    HAS_REMOTE_WORK_TAG = alarm_tag
    None = none
    UserCalls = {"post", "initiate", "guard", "release", "stop", "poll"}
SPECIFICATION PollSpec
PROPERTIES
    PollingEndsWithoutWork
    PostedIsPolled
CHECK_DEADLOCK FALSE
