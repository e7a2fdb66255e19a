CONSTANTS
    Threads = {t1, t2, t3}
    Receivers = {t1, t2}
    NoThread = NoThread
    MaxSends = 2
    MaxInterrupts = 2
SPECIFICATION FairSpec
INVARIANTS
    ExactlyOnceInOrder
    WaitersExact
    NoStrandedValue
PROPERTIES
    TimedReceiveReturns
    InterruptWakes
    NoValueLeftBehind
