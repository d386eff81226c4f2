SPECIFICATION FairSpec
CONSTANTS
    TASK_ICM = TASK_ICM
    UDP = UDP
    Task = {TASK_ICM, UDP}
    FdTask = {UDP}
    s1 = s1
    s2 = s2
    Sender = {s1, s2}
    Free = Free
    MaxSend = 2
INVARIANTS
    TypeOK
    NoLostWakeup
    SenderOrder
    CopiedToIcm
PROPERTY
    Delivered
CHECK_DEADLOCK FALSE
