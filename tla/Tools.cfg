SPECIFICATION SpecTools
CONSTANTS
    Leads = {"u/1", "u/1?x", "nokey"}
    Candidate <- MCCandidate
    Unresolvable = {"nokey"}
    MaxListed = 4
    MAX_DOCS_PER_SOURCE = 3
    ListingAttempts = 3
    CL_429_ATTEMPTS = 4
    CL_MAX_BACKOFF_S = 30
    CL_ACQUIRE_DELAY_S = 2
    RetryAfters = {0, 3, 60, NoHeader}
    NoHeader = NoHeader
    Tasks = {"t1", "t2", "t3"}
    Unknown = {"x"}
    GatedTasks = {"BOOT-010", "KER-001", "KER-002"}
    Gate <- MCGate
    Gates = {"G0", "G1"}
    Decisions = {"G0-Q1"}
    GATE_OPERATOR_DECISIONS <- MCDecisions
    SelfAssertedOk = {"G0"}
    CriteriaSets <- MCCriteria
    MaxCommits = 2
    MaxReceipts = 3
    Runs = {"run1", "run2", "run3"}
    MaxCost = 3
    SessionCeilings = {4, Unset}
    Unset = Unset
    OneProcess = TRUE
CHECK_DEADLOCK FALSE
INVARIANTS RunBalances KahnIsSound GatePassIsEarned SpendWithinCeiling
PROPERTIES RequestsAreSpaced ProbeEnds
