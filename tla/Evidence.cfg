SPECIFICATION SpecEvidence
CONSTANTS
    Sources <- MCSources
    Drafts <- MCDrafts
    MaxMade <- MCMaxMade
    Faulty = TRUE
CHECK_DEADLOCK FALSE
CONSTANTS
    Writers = {w1, w2}
    Digests = {d1, d2}
    Size = 2
    Files = {f1, f2, f3}
    NoFile = NoFile
    OneWriter = TRUE
    Records = {"r1", "r2"}
    Contents = {"a", "b", "x"}
    Private = {"x"}
    Builds <- MCBuilds
    Readers = {p1}
    NoContent = "none"
    Torn = "torn"
INVARIANTS OneAssertionPerProposal AcceptedKeepsVerifying AcceptanceIsAudited
INVARIANT ServedIsReleased
PROPERTY KeepsWriteOnce
