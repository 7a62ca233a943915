CONSTANTS
    p1 = p1
    p2 = p2
    t1 = t1
    t2 = t2
    cleanup = cleanup
    Procs = {p1, p2}
    Tasks = {t1, t2}
    Cleanup = cleanup
    MaxIncs = 2
    MaxStamp = 1
    MaxRetries = 0
    Worlds <- Quiet
    Watchers = {"off"}
SPECIFICATION Spec
PROPERTY OneLoginWins
SYMMETRY Symmetric
CHECK_DEADLOCK FALSE
