SPECIFICATION PoolSpec
CONSTANTS
    u1 = u1
    u2 = u2
    m1 = m1
    m2 = m2
    p1 = p1
    p2 = p2
    NoRow = NoRow
    Users = {u1, u2}
    Miners = {m1, m2}
    Owners = {u1, u2, "ecologyfound"}
    ProfitSpaces = {100}
    Pools = {p1, p2}
    PoolFee = 100000
    Amounts = {}
    Fines = {290000}
    Spaces = {100, 200}
    RealSpaces = {}
    Levels = {}
    DefaultLevel = 100
    Rules <- NoRules
    Rates = {2900}
    Truncated <- Rate29
    MinMinerSpace = 100
    MaxMinerSpace = 200
    MaxPoolSpace = 200
    MaxProfitSpace = 300
    StoreFee = 1
    SplitRates = {20}
    MaxTime = 0
    InitSupply = 970000
    MaxSupply = 970000
    MaxLock = 0
    InitBalance <- Balances
    InitDeposit <- Deposits
    Deadlines = {}
    MapBalance = 0
    OldMiner = m1
    OldUser = u1
    OldDeposit = 290000
    OldPool = p1
    OldSpace = 100
    OldUsed = 100
INVARIANTS
    SpaceAccounted
    IdsPartition
    SpaceCovered
CHECK_DEADLOCK FALSE
