SPECIFICATION Spec
CONSTANTS
    s1 = s1
    w1 = w1
    r1 = r1
    g1 = g1
    NoThread = NoThread
    NoMessage = NoMessage
    Senders <- OneSender
    Workers <- OneWorker
    FastClosers <- Reader
    GentleClosers <- Gentle
    Lengths <- ShortMessages
    MaxMessages = 2
    m_max_send_queue_size = 2
INVARIANTS
    TypeOK
    NothingLost
    FatalNeedsShutdown
PROPERTIES
    StreamSpec
    WaitersWake
CHECK_DEADLOCK FALSE
