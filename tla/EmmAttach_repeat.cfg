SPECIFICATION Spec
CONSTANTS
    Imsi = {i1, i2}
    None = None
    Caps = {1, 2}
    MaxConn = 2
INVARIANT
    RepeatedRequestResendsAccept
CHECK_DEADLOCK FALSE
