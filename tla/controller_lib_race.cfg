SPECIFICATION Spec
CONSTANTS
    producer_repetitions = 1
    uint16_values = 65536
    maximum_tracked_dpos_confirmations = 1024
    Elected <- ElectedABCD
    Plan <- RacePlan
    Label <- PlanLabel
    Block <- PlanBlock
    Root <- PlanRoot
    irb <- PlanIrb
    Valid <- PlanBlock
    Own = {}
    MaxRestarts = 0
    MaxKills = 0
    LeastLog = 2
INVARIANTS
    NoBrokenAssertion
