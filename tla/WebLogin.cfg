SPECIFICATION FairSpec
CONSTANTS
    c1 = c1
    k1 = k1
    k2 = k2
    t1 = t1
    t2 = t2
    Contexts = {c1}
    Clients = {k1, k2}
    Tags <- AllTags
    Nobody = Nobody
    Pages = {1, 2}
    Members <- AllMembers
    Tabs = {t1, t2}
    MaxSelections = 3
    MaxAttempts = 2
    MaxLogins = 2
    MaxSessions = 2
    MaxEnds = 1
INVARIANT TypeOK
INVARIANT PostedAsChosen
INVARIANT RightFilesAreRead
INVARIANT UserComesFromItsLogin
INVARIANT SoleLoginAccepted
INVARIANT UserIsOwnTag
PROPERTY AttemptsEnd
CHECK_DEADLOCK FALSE
