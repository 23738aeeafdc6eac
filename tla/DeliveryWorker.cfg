CONSTANTS
    Deliveries = {d1, d2}
    NWorkers = 2
    MaxFaults = 1
    Retries = 2
    RetryAfters = {0, 1}
    BaseBackoff = 1
    Keys = {k}
    Host <- OneHost
    KeysOf <- OneKey
SPECIFICATION FairSpec
INVARIANTS OnePlace BoundedTries NeverEarly
PROPERTY RetriesEnd
CHECK_DEADLOCK FALSE
