SPECIFICATION FairSpec
CONSTANTS
    t1 = t1
    t2 = t2
    Threads = {t1, t2}
    Spawned = {t2}
    Nobody = Nobody
    AutoEvents <- MCAuto
    ManualEvents <- MCManual
    Semaphores <- MCSem
    Mutants <- MCMutant
    Requests <- MCRequests
    Calls = 2
    MaxCount = 2
INVARIANTS
    TypeOK
    SignalsConserved
    ResultTellsWhatWasTaken
    MutantExact
    NoStrandedWaiter
PROPERTIES
    MutantsAreLocks
    NobodyIgnoresSignal
\* A guest that waits for a signal nobody gives waits for ever.
CHECK_DEADLOCK FALSE
