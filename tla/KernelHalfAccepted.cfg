SPECIFICATION Spec
CONSTANTS
    Sources <- MCSources
    Drafts <- MCDrafts
    MaxMade <- MCMaxMade
    Faulty = TRUE
CHECK_DEADLOCK FALSE
INVARIANT AcceptedInTables
