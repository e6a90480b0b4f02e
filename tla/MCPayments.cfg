SPECIFICATION MCSpec
CONSTANTS
    key1 = key1
    d1 = d1
    d2 = d2
    Keys = {key1, k2, k3, k4}
    NoKey = NoKey
    Amounts = {1, 2}
    Caps <- MCCaps
    Lifetimes = {1, 3}
    Patience = 2
    DayLength = 2
    MaxTime = 5
    MaxLog = 4
    MaxSigned = 3
    MaxGen = 2
    Funds = 3
    Devices = {d1, d2}
    Payments <- MCPayments
    Prices = {1, 3}
    Tolerance = 0
    Life = 1
    SessionCap <- MCSessionCap
    Faults = {"throw", "lost", "db", "crash", "expire", "refuse", "price", "revoke", "time"}
    MaxTries = 2
    MaxFaults = 1
INVARIANTS
    SignaturePaysOnce
    DailyCapHolds
    PaidAsConfirmed
PROPERTIES
    EventuallyPaid
CHECK_DEADLOCK FALSE
