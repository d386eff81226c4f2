SPECIFICATION ChainSpec
CONSTANTS
    Orig = Orig
    Garbage = Garbage
    SockCap = 2
    UserPort = {0, 6001, 6002, 6003}
    MaxUp = 0
    MaxDown = 1
    MaxCtl = 0
    MaxBearer = 6
    MaxFailed = 1
    MaxOther = 1
INVARIANTS
    MappedUnlessLost
    TypeOK
    RewriteUsesFullSet
    TeidsInOrder
CHECK_DEADLOCK FALSE
