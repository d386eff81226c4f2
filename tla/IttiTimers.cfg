SPECIFICATION FairSpec
CONSTANTS
    TimerId = {1, 2}
    Duration = {1, 2}
    UINT64_MAX = 99
    NoTimer = NoTimer
    MaxTimer = 2
    MaxMsg = 1
    MaxTime = 3
INVARIANTS
    TypeOK
    NoOversleep
    NotEarly
    OneShot
PROPERTY
    TimerFires
