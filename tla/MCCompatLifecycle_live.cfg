CONSTANTS
    p1 = p1
    p2 = p2
    t1 = t1
    t2 = t2
    cleanup = cleanup
    Procs = {p1}
    Tasks = {t1}
    Cleanup = cleanup
    MaxIncs = 1
    MaxStamp = 4
    MaxRetries = 1
    Worlds <- AllGaps
    Watchers = {"off", "on", "deaf"}
SPECIFICATION Spec
PROPERTY LogoutIsCleaned
PROPERTY ShutdownReturns
CHECK_DEADLOCK FALSE
