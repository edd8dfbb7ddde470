SPECIFICATION MCFairSpec
CONSTANTS
    Orders = {o1}
    Riders = {r1, r2}
    NoRider = NoRider
    EventIds <- UpdateEvents
    Updates <- AllUpdates
    Procs = {p1}
    Timers = {t1}
    MaxItems = 2
    MaxFaults = 1
    MaxTicks = 1
INVARIANTS
    PublishedIsRecorded
    CreationLoggedWhole
PROPERTIES
    FaultlessWrittenOnce
    KeptAssignmentResolves
