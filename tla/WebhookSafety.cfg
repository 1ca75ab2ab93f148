SPECIFICATION FairSpec
CONSTANTS
    e1 = e1
    e2 = e2
    Endpoints = {e1, e2}
    EndpointOf <- ThreeEvents
    Passes = {p1}
    Limit = 2
    MaxAttempts = 2
    MaxConsecutiveFailures = 2
    MaxFaults = 1
INVARIANTS NothingIsStranded PostsAreCounted CounterIsStreak
PROPERTIES ImplementsOutbox EventIsSettled
