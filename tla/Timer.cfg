SPECIFICATION Spec
CONSTANTS
    c1 = c1
    s1 = s1
    s2 = s2
    s3 = s3
    Handler = Handler
    NoEvent = NoEvent
    NoThread = NoThread
    Callers <- OneCaller
    Closers <- Anyone
    Slots <- ThreeSlots
    Delays <- ShortDelays
    MaxStall = 1
    MaxLate = 5
    ClockSteps <- BackAndForth
    MaxSteps = 2
INVARIANTS
    TypeOK
    NoLostTimer
    TimerCoversFront
    NextNotInPast
PROPERTIES
    EventsFire
CHECK_DEADLOCK FALSE
