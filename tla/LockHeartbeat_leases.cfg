CONSTANTS
    Worker = {w1, w2}
    NoWorker = NoWorker
    TTL = 9
    MaxLifetime = 7
    MaxDelay = 1
    MaxLag = 0
    MaxClock = 11
    Faults = {"error", "force", "crash", "cancel"}
SPECIFICATION Spec
INVARIANTS HeartbeatIsSafe
PROPERTIES LeasesEndForGood ImplementsLease
