SPECIFICATION Spec
CONSTANTS
    Workers = {w1, w2}
    Nobody = Nobody
    Jobs = 4
    Capacity = 1
INVARIANT NeitherSideWaitsOnTheOther
CHECK_DEADLOCK FALSE
