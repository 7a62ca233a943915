SPECIFICATION SceneSpec
CONSTANTS
    p1 = p1
    c1 = c1
    c2 = c2
    none = none
    model1 = model1
    model2 = model2
    Procs = {p1}
    Calls = {c1, c2}
    ProcOf <- OneProcess
    Nobody = none
    MaxTries = 1
    MaxEntries = 2
    Owner <- MCOwner
    RecoveryPerTick = 1
    SeenCapacity = 2
    Orphans = 1
    QueueLimit = 1
    MaxEvents = 2
    Gateways = {1, 2}
    Published <- MCPublished
    Commands = {1}
    MaxUpsets = 1
    Urls <- MCUrls
    BaseUrl <- MCBase
    BlockPrivate = TRUE
    MaxHops = 1
    MaxBytes = 1
PROPERTIES EveryCallReturns RecoveryEnds GuardIsFreed ProbeReturns
CHECK_DEADLOCK FALSE
