CONSTANTS
    Tasks = {t1, t2, t3}
    NWorkers = 3
    MaxStops = 2
SPECIFICATION FairSpec
INVARIANTS NoSleepOverWork StopQuiesces
PROPERTIES ImplementsFifoWork StopEnds TasksTaken
CHECK_DEADLOCK FALSE
