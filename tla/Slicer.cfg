SPECIFICATION Spec
CONSTANTS
    Modes <- BothModes
    HEADER_SIZE = 2
    MAX_SIZE = 3
    Payloads <- ShortPayloads
    MaxFrames <- Frames
    MaxForeign = 2
    Endings <- AnyEnding
    SenderCloses <- StreamOnly
INVARIANTS
    TypeOK
    DisconnectAfterLastMessage
    StreamIntact
PROPERTIES
    ServiceSpec
    MessagesArrive
CHECK_DEADLOCK FALSE
