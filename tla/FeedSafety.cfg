SPECIFICATION FeedFairSpec
CONSTANTS
    Threads = {t1, t2}
    Readers = {c1}
    MaxWrites = 3
    MaxFaults = 1
INVARIANTS EveryCommitIsAnnounced FreshBehindToken
PROPERTY EveryClientCatchesUp
