SPECIFICATION FairSpec
CONSTANTS
    Ids = {1, 2}
    Clients = {c1}
    LookBack = 2
    MaxAge = 3
    HasSums = TRUE
    HasCache = TRUE
    Longest = 2
    MaxTime = 5
    MaxLost = 1
INVARIANTS CheckpointIsAPromise
PROPERTIES ClientCatchesUp
CHECK_DEADLOCK FALSE
