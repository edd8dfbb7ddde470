SPECIFICATION LibrariesSpec
CONSTANTS
    Procs = {p1, p2}
    MaxRequests = 2
    CaptchaThreshold = 2
    AuthIds = {1, 2, 3}
    Devices = {"", "phone"}
    RateLimit = 2
    SlidingWindow = 3
    SlidingMaxTime = 7
    Capacity = 2
    RefillRate = 1
    BucketMaxTime = 3
    Type = "marketing"
    NotificationLimit = 2
    Reviewers = {"u1"}
    PerUser = 2
    DailyReviews = 1
    ReviewBurst = 1
    MaxCount = 3
    Cooldowns <- CooldownOf
    Hour = 4
    TrackerMaxTime = 12
    RowMaxTime = 1
    Statuses = {"READY"}
    RiderIds = {"r1"}
    Places = {"here", "there"}
    Versions = {1, 2, 3}
    NoDown = {2}
    Stops = {1, 2, 3}
    Detour <- AscendingDetour
    BuiltLength <- AscendingLength
    Population = 2
    Generations = 2
    Elitism = 1
    Riders = {1, 2}
    Hexes = {1, 2}
    RiderScore <- ScoreById
    Window = 3
    Rules = {1, 2}
    Zones = {"z1", "z2"}
    TargetCount <- TwoTargets
    ZoneIDs <- FirstZoneOrAll
    Monitored = {"c1", "c2"}
    ChannelSize = 2
    Prices = {9933, 12345}
    Quantities = {1, 3}
    Rates = {2, 3, 7}
    AddOns = {10, 20}
    Variants = {5}
    MinSelect = 0
    MaxSelect = 1
    MinQuantity = 1
    MaxQuantity = 2
    MaxIDs = 2
    Managers = {"m1", "m2"}
    Values = {1, 2, 3}
    NoValue = 0
    Coordinates <- SmallGrid
    Threshold = 1
    Scores = {1, 2, 3}
    MaxRiders = 4
    Averages = {12, 30}
    Queues = {0, 1, 20}
    Complexities = {1, 2}
    Travels = {9, 10}
SYMMETRY Symmetry
CHECK_DEADLOCK FALSE
INVARIANTS
    LibrariesTypeOK
    LimitsHold
    DoneOnce
    JudgedRightly
    ShownIsSo
PROPERTIES
    BestIsChosen
