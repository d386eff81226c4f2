SPECIFICATION FairSpec
CONSTANTS
    Orig = Orig
    Garbage = Garbage
    SockCap = 1
    UserPort = {6001}
    MaxUp = 2
    MaxDown = 1
    MaxCtl = 1
INVARIANT
    AtMostOneLate
PROPERTIES
    LogIsFifo
    WorkIsFinished
    LogDrains
