CONSTANTS
    Backend = {"memory", "redis", "postgres"}
    Adapter = {1, 2}
    Caller = {1, 2}
    MaxAttempts = 3
    MaxShutdowns = 1
    MaxFaults = 2
    SocketCaller = {1, 2}
    MaxCalls = 3
    MaxClients = 6
    SocketFaults = 2
    MaxRetries = 3
    SlackFaults = 2
    SpaceCaller = {1, 2}
    MaxSubscriptions = 4
    SpaceFaults = 1
    Key = {1, 2}
    TokenCaller = {1, 2, 3}
    MaxTokens = 3
    TokenFaults = 1
SPECIFICATION ConnectionsSpec
INVARIANTS AttemptsDoNotCross OneConnection MarkersTell
PROPERTIES SpaceStaysSubscribed TokensAreShared NobodyWaitsForEver
CHECK_DEADLOCK FALSE
