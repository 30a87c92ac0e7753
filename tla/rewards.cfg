SPECIFICATION FairRewardSpec
CONSTANTS
    u1 = u1
    m1 = m1
    m2 = m2
    m3 = m3
    p1 = p1
    NoRow = NoRow
    Users = {u1}
    Owners = {u1}
    Miners = {m1, m2, m3}
    Pools = {p1}
    PoolFee = 1
    Amounts = {1}
    Fines = {}
    Spaces = {1}
    ProfitSpaces = {}
    RealSpaces = {1}
    Levels = {50, 100}
    DefaultLevel = 100
    Rules <- NoRules
    Rates = {1}
    Truncated = {}
    MinMinerSpace = 1
    MaxMinerSpace = 2
    MaxPoolSpace = 4
    MaxProfitSpace = 4
    StoreFee = 9
    SplitRates = {20}
    MaxTime = 0
    InitSupply = 3
    MaxSupply = 4
    MaxLock = 0
    InitBalance <- Balances
    InitDeposit <- Deposits
    Deadlines = {}
    MapBalance = 1
    OldMiner = m1
    OldUser = u1
    OldDeposit = 1
    OldPool = p1
    OldSpace = 2
    OldUsed = 0
    BuildBatch = 1
    MaxProbes = 20
    Reward = 1
    Gas = 1
    MaxPending = 1
    MaxChanges = 3
    Reregister = FALSE
INVARIANTS
    ChancesAreWeights
PROPERTIES
    CurrentStable
    EligibleEntersTable
CHECK_DEADLOCK FALSE
