SPECIFICATION Spec
CONSTANTS
    Tasks = {a, b, c}
    Requests = {r1, r2}
    Kinds = {"drop"}
    MaxRequests = 2
INVARIANTS LastBlockerUnblocks
CHECK_DEADLOCK FALSE
