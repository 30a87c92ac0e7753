SPECIFICATION FairSpec
CONSTANTS
    Trx = {1, 2, 3, 4}
    Expiration <- Expirations
    Delay <- Delays
    Window = 1
    Conflicts <- Exclusive
    Submission = {"x", "y", "z", "u", "v", "w"}
    TrxOf <- Submitted
    Persist = {"x"}
    ScheduledBudget = 2
    Genesis = 1
    OnlyOwnPopped = TRUE
    Settings <- Nodes
INVARIANTS
    ExecutedOnce
    OneAnswer
    NothingLost
    PersistedKept
PROPERTIES
    AllAnswered
CHECK_DEADLOCK FALSE
