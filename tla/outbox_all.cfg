SPECIFICATION MCSpec
CONSTANTS
    Messages = {m1, m2}
    InTransaction = {m1}
    Processors = {p1, p2}
    BatchSize = 2
    MaxRetries = 2
    NoCopy = NoCopy
    MaxFaults = 1
CHECK_DEADLOCK FALSE
INVARIANTS
    NothingLost
    GivenUpAfterRetries
    CalmPublishedOnce
PROPERTIES
    SavedIsSettled
