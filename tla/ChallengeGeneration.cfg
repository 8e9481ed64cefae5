SPECIFICATION FairSpec
CONSTANTS
    N = 4
    Leader = 3
    ServerIndex <- SwappedIndices
    FaultScenarios <- Scenarios
INVARIANT TypeOK
INVARIANT CommitBeforeReveal
INVARIANT ResultGenuine
INVARIANT OnlyLeaderFinalizes
INVARIANT NoPanic
PROPERTY RingCompletes
PROPERTY ImplementsCommonChallenge
CHECK_DEADLOCK FALSE
