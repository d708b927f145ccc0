SPECIFICATION Spec
CONSTANTS
    Capacity = 1
    HEADER_SIZE = 1
    Payloads <- EmptyOrNot
    Senders <- TwoAndOne
    Waiters <- Server
    Closers <- Client
    MaxMessages <- Messages
    NoThread = NoThread
PROPERTIES
    TlsService
    WaitsEnd
    CloseEnds
    SendEnds
CHECK_DEADLOCK FALSE
