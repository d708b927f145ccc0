SPECIFICATION Spec
CONSTANTS
    w1 = w1
    w2 = w2
    a1 = a1
    a2 = a2
    NoThread = NoThread
    Workers <- OneWorker
    Apps <- TwoApps
    Senders <- Nobody
    Closers <- TwoApps
    Blocking <- Nobody
    Releasers <- Nobody
    DisconnectCalls <- Nobody
    PeerBreaks = FALSE
    MaxQueue = 1
    MaxMessages = 1
INVARIANTS
    DisconnectAtMostOnce
CHECK_DEADLOCK FALSE
