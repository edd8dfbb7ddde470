SPECIFICATION MCSpec
CONSTANTS
    Orders = {o1}
    Riders = {r1}
    NoRider = NoRider
    EventIds <- UpdateEvents
    Updates <- DeliveryUpdates
    Procs = {p1}
    Timers = {t1}
    MaxItems = 2
    MaxFaults = 0
    MaxTicks = 0
PROPERTIES
    CascadeSparesAccepted
