SPECIFICATION DepositSpec
CONSTANTS
    u1 = u1
    u2 = u2
    m1 = m1
    Users = {u1, u2}
    Miners = {m1}
    Amounts = {1, 2}
    Fines = {1, 2}
    Rules <- LockAll
    Rates = {1, 2}
    Truncated = {}
    MinMinerSpace = 1
    StoreFee = 1
    SplitRates = {50}
    MaxTime = 1
    InitSupply = 6
    MaxSupply = 7
    MaxLock = 1
    InitBalance <- Balances
    InitDeposit <- NoDeposits
    Deadlines = {1}
    MapBalance = 2
    OldMiner = m1
    OldUser = u1
    OldDeposit = 1
INVARIANTS
    DepositTypeOK
    DepositBacked
    DepositsAccounted
    ChannelBacked
PROPERTY
    FrozenStays
CHECK_DEADLOCK FALSE
