\* The stop-the-world rendezvous.  No symmetry: liveness is checked.
CONSTANTS
    RubyThreads = {r1, r2}
    Helpers = {h1, h2, h3}
    NoThread = NoThread
SPECIFICATION FairSpec
INVARIANTS
    TypeOK
    CollectorAlone
    PendingIsExact
    NoLostStopSignal
PROPERTIES
    ImplementsStopTheWorld
    CollectorGetsAlone
    ParkedHelperResumes
