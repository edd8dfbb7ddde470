SPECIFICATION Spec
CONSTANTS
    Orders = {o1}
    Procs = {p1, p2}
    Goroutines = {g1, g2, g3}
    EventIds = {e1}
    Generated = Generated
    MaxLog = 10
    MaxStale = 1
    Statuses = {"placed", "cancelled"}
    MaxEvents = 4
    MaxVersions = 3
    Keys = {k1}
    NoKey = NoKey
    MaxAttempts = 3
    MaxRetries = 2
    UpdateInserts = FALSE
    MaxRetried = 1
    MaxFaults = 1
CHECK_DEADLOCK FALSE
INVARIANT
    KeyIsChargedOnce
