CONSTANTS
    c1 = c1
    c2 = c2
    c3 = c3
    NoCall = NoCall
    Call = {c1, c2, c3}
    Cancelled = {c3}
    MaxFailures = 0
SPECIFICATION Spec
INVARIANTS OthersEditsRun
CHECK_DEADLOCK FALSE
