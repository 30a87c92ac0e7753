SPECIFICATION Spec
CONSTANTS
    producer_repetitions = 2
    maximum_tracked_dpos_confirmations = 1024
    Active <- MCActive
    Mine = {"a"}
    Keys = {"a"}
    block_interval = 3
    least_sleep = 2
    produce_time_offset = 0
    last_block_time_offset <- MCLastOffset
    head_too_old = 6
    future_limit = 7
    uint16_values = 2
    stale_production = FALSE
    Ages <- MCAges
    MayFail = {FALSE, TRUE}
    MayRestart = FALSE
    Punctual = FALSE
    MaxSpent = 1
    MaxTime = 18
    MaxPeerSlot = 5
    MaxEvents = 3
    MaxEventTime = 15
INVARIANTS
    TypeOK
    ConfirmsOnce
    NeverAsleep
    NoTurnSleptThrough
    NotTooEarly
