CONSTANTS
    d1 = d1
    d2 = d2
    d3 = d3
    d4 = d4
    Delivery = {d1, d2, d3, d4}
    MessageOf <- AllDiffer
    ThreadOf <- OneThread
    Configs <- Queueing
    MaxQueueSize = 1
    MaxFaults <- QueueFault
    NoOne = NoOne
    Event = {1, 2, 3}
    Message = {1, 2}
    Mentioned = {2}
    Handlers = 2
    MaxConcurrent = 1
    MaxRouteFaults = 1
SPECIFICATION ChatFairSpec
INVARIANTS EventsReachTheirHandlers HostsMayTrustIt
PROPERTIES QueuedInTimeIsDrained LockComesFree PlacesAreShared
CHECK_DEADLOCK FALSE
