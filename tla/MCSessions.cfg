SPECIFICATION SceneSpec
CONSTANTS
    model1 = model1
    model2 = model2
    Calls = {1, 2, 3}
    Overlap = TRUE
    MaxTurns = 1
    Files <- MCFiles
    MaxTime = 3
    ReadsPerScan = 1
    QueueLimit = 1
    MaxEvents = 3
    MaxReloads = 1
    Insts = {1, 2, 3}
    Mains = {1, 3}
    Tuis = {1}
    Subagents = {3}
    Roots = {1, 2}
    Reqs = {1, 2}
    MaxRecords = 1
    MaxRoots = 1
    MaxTurnsPerRoot = 1
    MaxAuditStarts = 2
    MaxSeq = 1
    MaxAuditFaults = 1
    Requests <- MCRequests
    MaxEventChars = 3
    MaxText = 6
    MaxChunk = 2
    Urls <- MCUrls
    BaseUrl <- MCBase
    BlockPrivate = TRUE
    MaxHops = 3
    MaxBytes = 2
    Gateways = {1, 2}
    Published <- MCPublished
    Commands = {1, 2}
    MaxUpsets = 1
INVARIANTS SessionsTypesOK SessionsEndClean CountedByOneWay ObservedAsDeclared
PROPERTIES FinalOrRevoked AuditIsSound RequestIsSound CommandsAreExact
CHECK_DEADLOCK FALSE
