SPECIFICATION FairSpec
CONSTANTS
    Node = {"a", "b", "c"}
    Peers <- StarPeers
    Dials <- StarDials
    Null = Null
    Gone = Gone
    Settings <- Networks
    Lag = 2
    Span = 2
    MaxHead = 6
INVARIANTS
    CatchupSound
    NobodyForgotten
    SettledNodesAgree
PROPERTIES
    CatchesUp
CHECK_DEADLOCK FALSE
