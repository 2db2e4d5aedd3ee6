SPECIFICATION Spec
CONSTANTS
    Requests <- MCRequests
    Batches <- MCBatches
    Sessions <- MCSessions
    Changes <- MCChanges
    Diffs = {"d1", "d2"}
    NoDiff = "none"
    DayLength = 1
    MaxTime = 2
    MaxIntents = 2
CHECK_DEADLOCK FALSE
INVARIANT DecisionTypesAreSeparate
