SPECIFICATION Spec
CONSTANTS
    UE = {u1, u2}
    u1 = u1
    u2 = u2
    NoUE = NoUE
    MaxInitial = 2
    MaxAttach = 2
    MaxSuccess = 1
    WAIT = 1
    NUM_PACKETS = 1
INVARIANT
    RequestsNameTheUe
CHECK_DEADLOCK FALSE
