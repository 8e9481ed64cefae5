SPECIFICATION Spec
CONSTANTS
    N = 3
    x = x
    y = y
    z = z
    Clients <- MCClients
    Subscribers <- TwoSubscribers
    OtherGroups <- MCOtherGroups
    MayRefuse = {}
    MayCrash = {}
    DeviationSets = {{}}
INVARIANT ReplyMeansServed
CHECK_DEADLOCK FALSE
