SPECIFICATION Spec
CONSTANTS
    a = a
    b = b
    c = c
    r1 = r1
    r2 = r2
    Tasks = {a, b, c}
    Requests = {r1, r2}
    Kinds = {"put", "add", "drop", "delete"}
    MaxRequests = 3
SYMMETRY Symmetry
INVARIANTS StatusAgrees
PROPERTIES AutomationRespectsMembers EachCascadeTakesAClose
CHECK_DEADLOCK FALSE
