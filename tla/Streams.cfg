CONSTANTS
    StreamIds = {s1}
    Accounts = {a1}
    AccountOf <- Owner
    Types <- Home
    AllStatusTimelines = {"user", "list", "public", "public:local", "direct"}
    Posters = {p1, p2}
    MaxPosts = 2
    MaxPings = 1
    Cap = 2
SPECIFICATION FairSpec
 
PROPERTIES  ClientGoneCleanedUp
CHECK_DEADLOCK FALSE
