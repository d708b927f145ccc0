SPECIFICATION Spec
CONSTANTS
    w1 = w1
    w2 = w2
    a1 = a1
    a2 = a2
    NoThread = NoThread
    Workers <- TwoWorkers
    Apps <- TwoApps
    Senders <- Nobody
    Closers <- OneApp
    Blocking <- Nobody
    Releasers <- TwoApps
    DisconnectCalls <- AllCalls
    PeerBreaks = TRUE
    MaxQueue = 1
    MaxMessages = 3
SYMMETRY
    Symmetry
INVARIANTS
    InOrder
    ClosedIsReported
CHECK_DEADLOCK FALSE
