SPECIFICATION FairSpec
CONSTANTS
    Workers = {w1, w2}
    Nobody = Nobody
    Jobs = 4
    Capacity = 1
INVARIANTS
    TypeOK
    EachJobOnce
    ReturnMeansDone
PROPERTY EndsUnlessCallerCancels
\* A call ends; and a caller that cancels may wait for ever (see the other run).
CHECK_DEADLOCK FALSE
