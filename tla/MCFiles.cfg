SPECIFICATION SceneSpec
CONSTANTS
    proc1 = proc1
    proc2 = proc2
    call1 = call1
    call2 = call2
    call3 = call3
    nobody = nobody
    window1 = window1
    window2 = window2
    text1 = text1
    text2 = text2
    text3 = text3
    session1 = session1
    session2 = session2
    priced = priced
    Procs = {proc1, proc2}
    Calls = {call1, call2, call3}
    ProcOf <- TwoProcesses
    Nobody = nobody
    MaxTries = 1
    Windows = {window1, window2}
    LastModels = {1, 2}
    Ceiling <- MCCeiling
    Levels = {1, 2}
    MaxSelections = 2
    MaxSessions = 2
    Terminals = {1, 2}
    CwdOf <- MCCwd
    EnvScope <- MCEnv
    Texts = {text1, text2, text3}
    MaxHistory = 2
    MaxSubmits = 3
    MaxCommands = 2
    MaxHistoryFaults = 1
    Sessions = {session1, session2}
    Models = {priced}
    Catalogs <- MCCatalogs
    Ttl = 3
    Retry = 1
    MaxTime = 4
    MaxChanges = 1
    MaxFaults = 1
SYMMETRY MCSymmetry
INVARIANTS FilesTypesOK CallsInTurn NoLostUpdate CompromiseIsQuiet
PROPERTIES LastModelIsTrue  PricesAdvance
CHECK_DEADLOCK FALSE
