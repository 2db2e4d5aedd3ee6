SPECIFICATION Spec
CONSTANTS
    w1 = w1
    w2 = w2
    k1 = k1
    k2 = k2
    None = None
    Workers <- MCWorkers
    Keys <- MCKeys
    Jobs <- MCJobs
    AttemptLimits = {1, 2}
    LeaseTerm = 1
    RetryDelay = 1
    MaxTime = 4
    Timely = TRUE
SYMMETRY Symmetric
CHECK_DEADLOCK FALSE
INVARIANTS IInv TriesEndAtLimit
PROPERTIES KeepsJobTable CompletedIsFinal LiveLeaseEndsByHolder
