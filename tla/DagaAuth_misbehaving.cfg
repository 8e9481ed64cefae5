SPECIFICATION Spec
CONSTANTS
    N = 3
    ServerIndex <- SameIndices
    Leaders = {1}
    FaultScenarios <- MisbehavingClient
INVARIANT MisbehavingAnswered
CHECK_DEADLOCK FALSE
