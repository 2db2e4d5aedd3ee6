SPECIFICATION SpecDesk
CONSTANTS
    Requests <- MCRequests
    Batches <- MCBatches
    Sessions <- MCSessions
    Changes <- MCChanges
    Diffs = {"d1", "d2"}
    NoDiff = "none"
    DayLength = 1
    MaxTime = 2
    MaxIntents = 2
    Questions <- MCQuestions
    NoDefault = "none"
    PRIORITY_TTL <- MCPriorityTTL
    Resolutions = {"accept"}
    MaxHours = 2
    MaxArrivals = 3
    Cards <- MCCards
    CAPS <- MCCaps
    Items = {"i1", "i2"}
    Salts = {1, 2}
    LinkLives = {1, 2}
    MaxDays = 3
    MaxLinks = 3
    Rubric <- MCRubric
    Kind <- MCKind
    Missing = Missing
CHECK_DEADLOCK FALSE
INVARIANTS NoSilentOverwrite NonceUsedOnce CoolingPeriodKept
INVARIANTS EveryArrivalIsAccounted UnansweredIsRestrictive PackIsFair LinkOpensOnce
PROPERTY LossNeverLoosens
