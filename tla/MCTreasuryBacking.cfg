SPECIFICATION MCSpec
CONSTANTS
    d1 = d1
    v1 = v1
    Refs = {d1}
    UsdcRefs = {u1}
    Vouchers = {v1}
    Amount <- MCAmount
    FiatSteps = {2, 4}
    UsdSteps = {1, 2}
    FiatPerUsd = 2
    SpreadBps = 0
    MaxConversions = 2
    Held = 2
    Workers = {w1, w2}
    Faults = {"throw", "lost", "crash", "skip"}
    MaxFaults = 1
    Charges <- MCCharges
    Settle <- MCSettle
    NoMerchant = "nobody"
    Leg = "SPEND"
    Local = "ZWG"
    Targets = {"phone", "tag", "member", "outsider"}
    Tickets = {"v1", "v2"}
    Codes = {"k1"}
    Slack = 1
    Funds0 <- MCFunds
    FxRates = {2, 3}
    MaxPresses = 2
    MaxAsked = 3
    PageFaults = {"quote", "answer", "refused", "poll", "lost", "mark"}
    MaxPageFaults = 2
INVARIANTS
    RefPaidOnce
    FiatBacked
    PaysAsShown
CHECK_DEADLOCK FALSE
