SPECIFICATION Spec
CONSTANTS
    get_TBS_DL <- MCTbs
    Mcs1 = 4
    MinRbUnit = 1
    Grants <- MCGrants
    Sizes <- MCSizes
    dl_pow_off = 1
    NHarq = 1
    tdd_sfa = NoTdd
    NoTdd = NoTdd
    Before = {0, 1021}
    Backlog <- MCBacklog
    MaxPackets = 2
    MaxLoss = 1
INVARIANTS
    TypeOK
    CutIsRemembered
    GateKept
    PacketsIntact
    BlockHolds
    HeaderReads
