CONSTANTS
    Requests = {r1, r2, r3}
    FastFail = {r3}
    RequestHost <- SharedHost
    Retries = 2
    BaseBackoff = 1
    RetryAfters = {0, 1, 9}
    MaxExpires = 1
SPECIFICATION DoFairSpec
INVARIANT BadHostStopsOthers
PROPERTY DoReturns
CHECK_DEADLOCK FALSE
