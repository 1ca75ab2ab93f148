SPECIFICATION Spec
CONSTANTS
    Tasks = {t1, t2}
    Ways = {"autocommit", "calendar", "draft", "other"}
    MaxDepth = 2
    MaxSaves = 3
CHECK_DEADLOCK FALSE
INVARIANTS OneEventPerChange OnlyCommittedStates PlainChangeIsAnnounced
