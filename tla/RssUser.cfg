CONSTANTS
    LongPath = 4
    OwnHost = "own"
    Requests = {r1, r2, r3}
    Site <- SitePlain
    Resources <- ResourcesPlain
    MaxUserFaults = 1
SPECIFICATION UserSpec
INVARIANTS OneAccountPerName RowsMatch AnswersFeed
