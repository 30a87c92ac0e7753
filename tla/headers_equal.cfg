SPECIFICATION Spec
CONSTANTS
    producer_repetitions = 1
    uint16_values = 4
    maximum_tracked_dpos_confirmations = 4
    Producer = {"eosio", "a", "b", "c", "d", "e"}
    Genesis = "eosio"
    Schedules <- MCEqualSchedules
    Unreliable = {"a", "d", "e"}
    MayRestart = {"b"}
    MaxBlock = 15
    MaxProposal = 7
    MaxSkip = 1
INVARIANTS
    TypeOK
    LibBelowHead
    QuorumBehind
    ProducedBlockAccepted
    ProposedScheduleInstallable
    ActiveScheduleIrreversible
PROPERTIES
    CommittedBlockBecomesHead
