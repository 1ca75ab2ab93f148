SPECIFICATION Spec
CONSTANTS
    Tasks = {t1}
    Ways = {"autocommit"}
    MaxDepth = 1
    MaxSaves = 3
CHECK_DEADLOCK FALSE
INVARIANT EveryChangeIsAnnounced
