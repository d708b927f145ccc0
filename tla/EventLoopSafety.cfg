SPECIFICATION Spec
CONSTANTS
    w1 = w1
    w2 = w2
    c1 = c1
    c2 = c2
    l1 = l1
    l2 = l2
    f1 = f1
    f2 = f2
    NoListener = NoListener
    NoFd = NoFd
    Workers <- TwoWorkers
    Callers <- OneCaller
    Listeners <- TwoListeners
    Fds <- TwoFds
    Graceful <- OneListener
    FdReuse = TRUE
    AppCalls <- AllCalls
SYMMETRY
    Symmetry
INVARIANTS
    TypeOK
    NoFatal
    WakeupPending
    NoOrphanEntry
    NoUnmonitoredListener
PROPERTIES
    OpenLostToRepeatOnly
CHECK_DEADLOCK FALSE
