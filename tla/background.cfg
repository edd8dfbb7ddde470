SPECIFICATION BackgroundSpec
CONSTANTS
    Clients = {c1, c2}
    NoClient = NoClient
    Senders = {s1, s2}
    Audiences <- UserTypeAll
    Capacity = 2
    MaxSends = 2
    MaxPings = 2
    Orders = {o1}
    Payments = {y1, y2}
    NoOrder = NoOrder
    Amounts = {3}
    RefundAmounts = {1, 3, 4}
    Procs = {p1, p2}
    MaxRequests = 6
    N = 3
    NoSaga = NoSaga
    Workers = {w1, w2}
    MaxFaults = 1
CHECK_DEADLOCK FALSE
INVARIANTS
    HubNeverPanics
    LoopSeesNoDeletion
    RefundIsCovered
    FaultlessAckedIsCompleted
    CompletedWasCarriedOut
    CalmSagaIsClean
PROPERTIES
    RoomyProgress
    PaidStaysPaid
    CalmPaymentsKept
    NothingUndoneUndone
    CalmSagaEnds
