SPECIFICATION Spec
CONSTANTS
    producer_repetitions = 1
    uint16_values = 65536
    maximum_tracked_dpos_confirmations = 6
    Producer = {"eosio", "a", "b", "c", "d", "e"}
    Genesis = "eosio"
    Schedules <- MCShrinkingSchedules
    Unreliable = {"d"}
    MayRestart = {}
    MaxBlock = 20
    MaxProposal = 10
    MaxSkip = 1
PROPERTIES
    CommittedBlockBecomesHead
