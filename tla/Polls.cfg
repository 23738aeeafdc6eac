CONSTANTS
    Requests = {"here", "there", "again"}
    VoterOf <- Sender
    Remote = {"there", "again"}
    MaxTroubles = 1
SPECIFICATION FairSpec
INVARIANTS VotesCounted NoVotesLeft AnnouncedOnce
PROPERTIES PollCloses EndAnnounced
CHECK_DEADLOCK FALSE
