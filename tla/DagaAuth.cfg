SPECIFICATION FairSpec
CONSTANTS
    N = 3
    ServerIndex <- SwappedIndices
    Leaders <- AllNodes
    FaultScenarios <- MCFaultScenarios
INVARIANT TypeOK
INVARIANT ResultIsLinkageTag
INVARIANT HonestMessagesAccepted
INVARIANT LeaderNotReentered
PROPERTY ImplementsTagAgreement
PROPERTY InstancesEnd
CHECK_DEADLOCK FALSE
