SPECIFICATION MCSpec
CONSTANTS
    d1 = d1
    v1 = v1
    Refs = {d1, d2}
    UsdcRefs = {u1}
    Vouchers = {v1}
    Amount <- MCAmount
    FiatSteps = {2, 4}
    UsdSteps = {1, 2}
    FiatPerUsd = 2
    SpreadBps = 0
    MaxConversions = 2
    Held = 2
    Workers = {w1}
    Faults = {}
    MaxFaults = 0
    Charges <- MCCharges
    Settle <- MCSettle
    NoMerchant = "nobody"
    Leg = "SPEND"
    Local = "ZWG"
    Targets = {"phone", "tag", "member", "outsider"}
    Tickets = {"v1", "v2"}
    Codes = {"k1"}
    Slack = 1
    Funds0 <- MCFunds
    FxRates = {2, 3}
    MaxPresses = 2
    MaxAsked = 2
    PageFaults = {"quote", "answer", "refused", "poll", "lost", "mark"}
    MaxPageFaults = 1
INVARIANTS
    UsdBacked
CHECK_DEADLOCK FALSE
