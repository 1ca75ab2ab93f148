SPECIFICATION Spec
CONSTANTS
    Ticks = {p1}
    Plans <- MCPlans
    Zones <- MCZones
    DayLength = 3
    LateGrace = 1
    MaxFailures = 2
    MaxTime = 6
    MaxEvents = 1
INVARIANT NullMeansPausedOrRun
CHECK_DEADLOCK FALSE
