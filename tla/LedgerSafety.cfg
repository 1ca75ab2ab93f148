SPECIFICATION Spec
CONSTANTS
    free = free
    pro = pro
    Plans = {free, pro}
    Entitlement <- PlanCredits
    Readers = {r1, r2}
    Requests = {q1}
    Costs = {4}
    Packs = {s1, s2}
    PackSize = 2
    Buyers = {b1}
    Operators = {o1}
    Gift = 1
    NoRef = NoRef
    LastMonth = 2
SYMMETRY Interchangeable
CHECK_DEADLOCK FALSE
INVARIANTS TypeOK MonthlyGrantFitsPlan
PROPERTIES MonthlyFirst PackIsWorthItsSize
