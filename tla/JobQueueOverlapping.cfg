SPECIFICATION Spec
CONSTANTS
    w1 = w1
    w2 = w2
    k1 = k1
    k2 = k2
    None = None
    Workers <- MCWorkers
    Keys = {k1}
    Jobs = {1}
    AttemptLimits = {2}
    LeaseTerm = 1
    RetryDelay = 1
    MaxTime = 3
    Timely = FALSE
CHECK_DEADLOCK FALSE
PROPERTY CompletedIsFinal
