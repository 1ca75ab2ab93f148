SPECIFICATION Spec
CONSTANTS
    Ids = {1}
    Clients = {c1}
    LookBack = 0
    MaxAge = 9
    HasSums = FALSE
    HasCache = FALSE
    Longest = 3
    MaxTime = 7
    MaxLost = 0
INVARIANTS NextSyncIncludesIt
CHECK_DEADLOCK FALSE
