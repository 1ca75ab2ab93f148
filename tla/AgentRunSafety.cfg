SPECIFICATION FairSpec
CONSTANTS
    Ask = ask
    Decides = {d1, d2}
    MaxProposals = 2
    MaxTurns = 2
    MaxFaults = 1
INVARIANTS TokenIffAwaiting ParkedRunHasNoWorker OneOpenLeg ActsOnAnsweredStep
    ServedRunIsCharged
PROPERTIES TerminalIsFinal ImplementsGate RunningEnds AnswerSettles
