SPECIFICATION Spec
CONSTANTS
    w1 = w1
    w2 = w2
    a1 = a1
    a2 = a2
    NoThread = NoThread
    Workers <- OneWorker
    Apps <- OneApp
    Senders <- WorkerAndApp
    Closers <- OneApp
    Blocking <- OneApp
    Releasers <- WorkerAndApp
    DisconnectCalls <- AllCalls
    PeerBreaks = TRUE
    MaxQueue = 1
    MaxMessages = 1
INVARIANTS
    UnsentIsWatched
    StaysMonitored
PROPERTIES
    LocksReleased
    BlockedSendEnds
CHECK_DEADLOCK FALSE
