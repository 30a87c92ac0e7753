SPECIFICATION FairSpec
CONSTANTS
    producer_repetitions = 1
    uint16_values = 65536
    maximum_tracked_dpos_confirmations = 1024
    Elected <- ElectedABC
    Plan <- ForkPlan
    Label <- PlanLabel
    Block <- PlanBlock
    Root <- PlanRoot
    irb <- PlanIrb
    Valid <- ForkValid
    Own <- ForkOwn
    MaxRestarts = 1
    MaxKills = 2
    LeastLog = 2
INVARIANTS
    NoBrokenAssertion
    CopiesAgree
    ForkDatabaseConsistent
PROPERTIES
    ImplementsLedger
    Converges
