SPECIFICATION FairSpec
CONSTANTS
    Threads = {t1, t2, t3}
    NoThread = NoThread
    MaxDepth = 2
    Calls = 2
INVARIANTS
    TypeOK
    SectionExact
    NoStrandedSleeper
PROPERTIES
    ImplementsLock
    EveryEnterReturns
