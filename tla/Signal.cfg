\* Signals to the main thread and to another one.
CONSTANTS
    Main = Main
    Others = {u1}
    NoThread = NoThread
    MaxSignals = 3
    MaxDepth = 2
SPECIFICATION FairSpec
INVARIANTS
    FlagCoversPending
    HandledOnce
PROPERTIES
    PendingDrains
CHECK_DEADLOCK FALSE
