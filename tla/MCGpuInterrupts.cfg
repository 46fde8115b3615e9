SPECIFICATION FairSpec
CONSTANTS
    Cpus <- MCCpus
    Masks <- MCMasks
    Packets = 3
INVARIANTS
    TypeOK
    InterruptsInOrder
    NoSleepOnPending
PROPERTY WaitRegMemEnds
\* With the title's packets executed, everything comes to rest.
CHECK_DEADLOCK FALSE
