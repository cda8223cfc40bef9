CONSTANTS
    Backend = {"memory", "redis", "postgres"}
    Adapter = {1, 2}
    Caller = {1, 2}
    MaxAttempts = 3
    MaxShutdowns = 1
    MaxFaults = 0
SPECIFICATION Spec

PROPERTIES ShutdownClearsFailures
CHECK_DEADLOCK FALSE
