CONSTANTS
    N = 4
    BoostOf <- Boosts
    AccountOf <- Author
    Accounts = {"a", "b"}
    Fit = {1, 2, 3, 4}
    Muted = {4}
    Readers = {r1}
    Amount = 2
    Attempts = 5
    Depth = 50
    PreparedLen = 1
    IndexedLen = 2
    MaxPosts = 1
    MaxGets = 1
    MaxChanges = 2
    MaxFaults = 1
SPECIFICATION Spec
INVARIANTS NewestFirst  
CHECK_DEADLOCK FALSE
