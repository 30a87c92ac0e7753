SPECIFICATION FairSpec
CONSTANTS
    producer_repetitions = 2
    maximum_tracked_dpos_confirmations = 1024
    Active <- MCActive
    Mine = {"a"}
    Keys = {"a"}
    block_interval = 3
    least_sleep = 2
    produce_time_offset = 0
    last_block_time_offset <- MCLastOffset
    head_too_old = 6
    future_limit = 7
    uint16_values = 65536
    stale_production = TRUE
    Ages <- MCAges
    MayFail = {FALSE}
    MayRestart = TRUE
    Punctual = TRUE
    MaxSpent = 1
    MaxTime = 40
    MaxPeerSlot = 5
    MaxEvents = 3
    MaxEventTime = 14
PROPERTY Produces
