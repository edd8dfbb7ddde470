SPECIFICATION ServicesSpec
CONSTANTS
    Users = {u1}
    NoWallet = NoWallet
    Amounts = {1, 2}
    Procs = {p1, p2}
    MaxFaults = 1
    MaxRequests = 4
    RiderIds = {r1, r2}
    Switches = {"available"}
    MaxEarnings = 2
    Items = {i1}
    Categories = {c1}
    NoCategory = NoCategory
    Restaurants = {s1}
    MaxMade = 3
    Ids = {a1, a2}
    Phones = {f1}
    Passwords = {1, 2}
    Tokens = {t1, t2, t3}
    NoToken = NoToken
    v1 = v1
    v2 = v2
    Channels = {"push"}
    MaxBulk = 2
CHECK_DEADLOCK FALSE
INVARIANT
    MenuFollowsEdits
