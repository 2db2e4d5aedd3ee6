SPECIFICATION SpecRecords
CONSTANTS
    Spellings <- MCSpellings
    KeyOf <- MCKeyOf
    Keys <- MCKeys
    Rank <- MCRank
    NoRecord = "none"
    Documents = {"exhibit"}
    LegacyIds = {"l1", "l2"}
    Slugs <- MCSlugs
    Payloads = {"p1", "p2"}
    Versions = {"v1"}
    None = "none"
    Monitored <- MCTargets
    Interval = 1
    Grace = 1
    FailureLimit = 2
    MaxTicks = 3
    MaxChecks = 3
    Revision = {"r1", "r2"}
    Releases = {"rel"}
    NoRelease = "none"
    MaxEvents = 6
CHECK_DEADLOCK FALSE
INVARIANTS IdentityIsSound RedirectsEndAtPayload FreshnessIsEarned PublicationWasApproved
PROPERTIES IdentityIsStable RerunIsIdle
