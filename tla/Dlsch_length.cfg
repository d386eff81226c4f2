SPECIFICATION Spec
CONSTANTS
    get_TBS_DL <- MCTbs
    Mcs1 = 4
    MinRbUnit = 1
    Grants <- MCDataGrants
    Sizes <- MCSizes
    dl_pow_off = 1
    NHarq = 8
    tdd_sfa = NoTdd
    NoTdd = NoTdd
    Before = {0}
    Backlog <- MCNone
    MaxPackets = 2
    MaxLoss = 0
INVARIANT
    UeFindsTheLength
