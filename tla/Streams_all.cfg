CONSTANTS
    c1 = c1
    c2 = c2
    c3 = c3
    t1 = t1
    t2 = t2
    m1 = m1
    m2 = m2
    NoCall = NoCall
    Nobody = Nobody
    Call = {c1, c2, c3}
    Cancelled = {c3}
    MaxFailures = 1
    MaxPieces = 3
    MaxRotations = 2
    MaxTeamsChunks = 2
    Task = {t1, t2}
    Message = {m1, m2}
    MaxChunks = 3
    MaxFaults = 2
    Interval = 1
    Cap = 2
    MaxLimits = 2
    MaxTime = 5
SPECIFICATION StreamsSpec
INVARIANTS ReaderSeesTheText ReplyReadsAsOne RepliesArriveOnce EveryLineIsSent
PROPERTIES StreamsEnd PlansSettle PrefixesStand RepliesMindTheLimit
CHECK_DEADLOCK FALSE
