SPECIFICATION FairSpec
CONSTANTS
    GTPV1U = GTPV1U
    other = other
    Client = {GTPV1U, other}
    Port = {2151, 2153}
    SPGW = SPGW
    PT = PT
    None = None
    MaxSend = 3
    MaxDatagram = 2
INVARIANTS
    TypeOK
    BuffersFreedOnce
    UplinkToTerminal
    OpenedIsServed
    IndicatedInOrder
PROPERTIES
    DatagramsRead
    MessagesServed
CHECK_DEADLOCK FALSE
