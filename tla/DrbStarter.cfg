SPECIFICATION FairSpec
CONSTANTS
    UE = {u1, u2}
    u1 = u1
    u2 = u2
    NoUE = NoUE
    MaxInitial = 2
    MaxAttach = 2
    MaxSuccess = 1
    WAIT = 2
    NUM_PACKETS = 1
INVARIANTS
    TypeOK
    ServerHasThePorts
PROPERTY
    SomeThreadServes
CHECK_DEADLOCK FALSE
