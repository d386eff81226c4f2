SPECIFICATION Spec
CONSTANTS
    Imsi = {i1, i2}
    None = None
    Caps = {1, 2}
    MaxConn = 2
INVARIANTS
    TypeOK
    TimerHasItsAttach
    FourRetransmissions
PROPERTY
    TimerEnds
CHECK_DEADLOCK FALSE
