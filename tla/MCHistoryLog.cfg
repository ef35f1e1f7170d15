SPECIFICATION Spec
CONSTANTS
    NumPages = 3
    PageRecords = 2
    MaxSessions = 3
    MaxSequence = 2
    MaxFailures = 2
    MaxResets = 1
    EraseKeepsMarker = TRUE
INVARIANTS
    QueriesAreDurable
    NothingIsProgrammedTwice
    PagingLosesNothing
PROPERTIES
    ImplementsArchive
    OperationsEnd
CHECK_DEADLOCK FALSE
