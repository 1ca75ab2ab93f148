SPECIFICATION Spec
CONSTANTS
    LastLeg = 3
    MaxSpend = 3
    Cap = 2
    MaxLost = 1
    MaxRebuilds = 2
CHECK_DEADLOCK FALSE
INVARIANTS OneChargePerAsk FailedWorkIsFree OrderlyAskIsCharged
PROPERTY RebuildChangesNothing
