SPECIFICATION Spec
CONSTANTS
    c1 = c1
    s1 = s1
    s2 = s2
    Handler = Handler
    NoEvent = NoEvent
    NoThread = NoThread
    Callers <- OneCaller
    Closers <- OneAndHandler
    Slots <- TwoSlots
    Delays <- ZeroOneTwo
    MaxStall = 1
    MaxLate = 2
    ClockSteps <- NoSteps
    MaxSteps = 0
    MaxMessages = 2
INVARIANTS
    EventPerMessage
PROPERTIES
    DelayLineSpec
    MessagesLeave
    MutexReleased
CHECK_DEADLOCK FALSE
