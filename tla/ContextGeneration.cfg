SPECIFICATION FairSpec
CONSTANTS
    N = 3
    x = x
    y = y
    z = z
    Clients <- MCClients
    Subscribers <- TwoSubscribers
    OtherGroups <- MCOtherGroups
    MayRefuse = {1}
    MayCrash = {0, 2}
    DeviationSets = {{"X", "Y", "R", "H", "shortH"}, {"X", "Done"}}
INVARIANT TypeOK
INVARIANT ServedIsApproved
INVARIANT ServedHasConsent
INVARIANT ServedMembersSubscribed
INVARIANT FailedMeansUnserved
PROPERTY ImplementsAgreement
PROPERTY AllServe
PROPERTY CreateReturns
CHECK_DEADLOCK FALSE
