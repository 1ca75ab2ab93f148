SPECIFICATION Spec
CONSTANTS
    free = free
    pro = pro
    Plans = {free, pro}
    Entitlement <- PlanCredits
    Readers = {}
    Requests = {q1, q2}
    Costs = {1, 4}
    Packs = {s1, s2}
    PackSize = 2
    Buyers = {b1}
    Operators = {}
    Gift = 1
    NoRef = NoRef
    LastMonth = 2
CHECK_DEADLOCK FALSE
PROPERTY PackArrivesWhole
