CONSTANTS
    Deliveries = {d1}
    NWorkers = 1
    MaxFaults = 0
    Retries = 1
    RetryAfters = {0}
    BaseBackoff = 1
    Keys = {}
    Host <- OneHost
    KeysOf <- OneKey
SPECIFICATION FairSpec
PROPERTY QueuedTaken
CHECK_DEADLOCK FALSE
