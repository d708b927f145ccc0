SPECIFICATION Spec
CONSTANTS
    Acceptor = Acceptor
    c1 = c1
    Numbers <- FourNumbers
    Taken <- StandardInput
    Clients <- OneClient
    MaxConnections = 2
    NoThread = NoThread
INVARIANTS
    DescriptorsOwned
    NoFatal
PROPERTIES
    ConnectionsServed
CHECK_DEADLOCK FALSE
