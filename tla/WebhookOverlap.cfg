SPECIFICATION Spec
CONSTANTS
    e1 = e1
    e2 = e2
    Endpoints = {e1, e2}
    EndpointOf <- MixedEvents
    Passes = {p1, p2}
    Limit = 2
    MaxAttempts = 2
    MaxConsecutiveFailures = 2
    MaxFaults = 0
INVARIANT NoDoubleSend
CONSTRAINT NoStaleClaim
