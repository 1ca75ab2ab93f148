SPECIFICATION FairSpec
CONSTANTS
    Ticks = {p1, p2}
    Plans <- MCPlans
    Zones <- MCZones
    DayLength = 3
    LateGrace = 2
    MaxFailures = 2
    MaxTime = 5
    MaxEvents = 3
INVARIANTS OneReportPerRun
PROPERTIES RunsOnce RunsWhenDue NoMomentIsDropped MemberHasTheLastWord DueRunIsHandled
CHECK_DEADLOCK FALSE
