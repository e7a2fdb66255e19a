\* The compiler thread with forks, collections, shutdown and a failed exec.
CONSTANTS
    RubyThreads = {r1, r2}
    NoThread = NoThread
    Compiler = Compiler
    MaxRequests = 2
    MaxForks = 2
    MaxCollections = 1
    MaxFailedExecs = 1
SPECIFICATION FairSpec
INVARIANTS
    RequestsKept
    CollectorAlone
PROPERTIES
    HandshakeHolds
    PauseReturns
    StopReturns
    RequestsCompiled
CHECK_DEADLOCK FALSE
