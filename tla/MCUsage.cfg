SPECIFICATION SceneSpec
CONSTANTS
    e1 = e1
    e2 = e2
    progress = progress
    call = call
    none = none
    modelA = modelA
    modelB = modelB
    p1 = p1
    p2 = p2
    response = response
    group = group
    Executions <- MCExecutions
    Calls = {call}
    NoCall = none
    Partitions = {modelA, modelB}
    Observations <- MCObservations
    Batches <- MCBatches
    Progress = {progress}
    Capacity = 4
    PerTick = 2
    Elsewhere = 1
    Collectors = {p1, p2}
    Nobody = none
    Responses = {response}
    Groups = {group}
    Parts = {modelA, modelB}
    Breakdowns = {{modelA, modelB}}
    MaxRevision = 2
    JournalRows = 2
    CheckpointRows = 2
    MaxStarts = 2
    MaxAccepts = 3
    MaxFaults = 1
    MaxEntries = 4
    Owner <- MCOwner
    RecoveryPerTick = 2
    SeenCapacity = 3
    Orphans = 1
    QueueLimit = 1
    MaxEvents = 1
SYMMETRY MCSymmetry
INVARIANTS UsageTypesOK LedgerIsConsistent
PROPERTIES ImplementsTotals StorageIsSound RecoveryIsSound
CHECK_DEADLOCK FALSE
