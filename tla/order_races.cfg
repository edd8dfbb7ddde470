SPECIFICATION MCSpec
CONSTANTS
    Orders = {o1}
    Riders = {r1}
    NoRider = NoRider
    EventIds <- UpdateEvents
    Updates <- AllUpdates
    Procs = {p1, p2}
    Timers = {t1}
    MaxItems = 2
    MaxFaults = 0
    MaxTicks = 1
SYMMETRY Symmetry
INVARIANTS
    CustodyChain
    PlacedHasNoRider
PROPERTIES
    ImplementsLifecycle
