CONSTANTS
    RubyThreads = {r1, r2}
    NoThread = NoThread
    Compiler = Compiler
    MaxRequests = 0
    MaxForks = 1
    MaxCollections = 0
    MaxFailedExecs = 0
SPECIFICATION Spec
INVARIANT ChildCanLock
CHECK_DEADLOCK FALSE
