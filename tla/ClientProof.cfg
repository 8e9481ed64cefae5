SPECIFICATION FairSpec
CONSTANTS
    Sizes <- MCSizes
    Challenges = {1, 2}
INVARIANT TypeOK
INVARIANT NoGoroutineLeft
INVARIANT AcceptsReturnedProofs
PROPERTY ClientReturns
PROPERTY ServerReturns
CHECK_DEADLOCK FALSE
