SPECIFICATION Spec
CONSTANTS
    Ask = ask
    Decides = {d1, d2}
    MaxProposals = 2
    MaxTurns = 2
    MaxFaults = 2
INVARIANT ActsOnAnsweredStep
