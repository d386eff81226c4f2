SPECIFICATION ChainSpec
CONSTANTS
    Orig = Orig
    Garbage = Garbage
    SockCap = 1
    UserPort = {0, 6001, 6002, 6003}
    MaxUp = 0
    MaxDown = 1
    MaxCtl = 0
    MaxBearer = 4
    MaxFailed = 0
    MaxOther = 1
INVARIANT
    PortGetsItsBearer
CHECK_DEADLOCK FALSE
