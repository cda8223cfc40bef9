CONSTANTS
    m1 = m1
    m2 = m2
    Message = {m1, m2}
    Nobody = Nobody
    MaxChunks = 1
    MaxFaults = 0
SPECIFICATION Spec
INVARIANTS StreamersAreNotShared
CHECK_DEADLOCK FALSE
