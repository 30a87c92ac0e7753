SPECIFICATION FairSpec
CONSTANTS
    producer_repetitions = 1
    uint16_values = 65536
    maximum_tracked_dpos_confirmations = 6
    Producer = {"eosio", "a", "b", "c", "d", "e"}
    Genesis = "eosio"
    Schedules <- MCEqualSchedules
    Unreliable = {"d"}
    MayRestart = {}
    MaxBlock = 20
    MaxProposal = 5
    MaxSkip = 1
PROPERTIES
    LibAdvances
    ProposedBecomesActive
