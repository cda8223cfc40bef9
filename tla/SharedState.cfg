CONSTANTS
    tok1 = tok1
    tok2 = tok2
    c1 = c1
    c2 = c2
    c3 = c3
    t1 = t1
    t2 = t2
    s1 = s1
    s2 = s2
    Turn = {t1, t2}
    Stop = {s1, s2}
    ProcessOf <- TwoProcesses
    MaxTurnFaults = 1
    Token = {tok1, tok2}
    Click = {c1, c2, c3}
    Matching = {c1, c2}
    MaxFaults = 2
    NoOne = NoOne
    NoToken = NoToken
    StateKey = {1, 2}
    LockWorker = {1, 2}
    StateTtl = {0, 1, 2}
    Retention = 2
    EntryTtl = 2
    MinQueueTtl = 1
    StateMaxLength = 2
    StateMaxQueueSize = 2
    PurgeInterval = 2
    StateMaxTime = 4
    MaxWrites = 4
    StoreClient = {1, 2}
    RowTtl = 1
    StoreMaxLength = 2
    StoreMaxQueueSize = 1
    StoreMaxTime = 2
    MaxStoreCalls = 3
    MaxStoreFaults = 1
SPECIFICATION SharedStateSpec
INVARIANTS ClicksCountOnce MarkersAreMeant BackendsKeepFaith StoredIsAccountedFor
PROPERTIES UsersAreHeard
CHECK_DEADLOCK FALSE
