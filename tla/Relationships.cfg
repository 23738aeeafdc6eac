CONSTANTS
    MaxFollows = 2
    MaxIds = 4
    MaxTroubles = 1
SPECIFICATION FairSpec
INVARIANTS TypeOK   
PROPERTY FollowAnswered
CHECK_DEADLOCK FALSE
