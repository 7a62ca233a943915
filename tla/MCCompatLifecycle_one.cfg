CONSTANTS
    p1 = p1
    p2 = p2
    t1 = t1
    t2 = t2
    cleanup = cleanup
    Procs = {p1}
    Tasks = {t1, t2}
    Cleanup = cleanup
    MaxIncs = 2
    MaxStamp = 3
    MaxRetries = 1
    Worlds <- EachAlone
    Watchers = {"off", "on", "deaf"}
SPECIFICATION Spec
INVARIANTS TypeOK GoneStaysGone PlacesAgree
PROPERTY CleanupOnlyAfterLogout
SYMMETRY Symmetric
CHECK_DEADLOCK FALSE
