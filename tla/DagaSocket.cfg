SPECIFICATION FairSpec
CONSTANTS
    localhost = localhost
    Conodes <- TwoConodes
    MaxRequests = 3
INVARIANT TypeOK
INVARIANT AloneGetsOwnReply
INVARIANT NoLaterReply
PROPERTY Settles
CHECK_DEADLOCK FALSE
