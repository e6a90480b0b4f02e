SPECIFICATION FairSpec
CONSTANTS
    n1 = n1
    Ids = {i1, i2}
    Intents = {n1, n2}
    NoIntent = NoIntent
    Gross <- MCGross
    FeeBps = 2500
    ZarPerUsd = 2
    MaxSingle = 8
    MaxDaily = 14
    MaxMonthly = 20
    SpentBefore = 4
    Workers = {w1, w2}
    Claim0 = 7
    Reserve0 = 6
    Faults = {"throw", "lost", "db", "crash"}
    MaxFaults = 2
INVARIANTS
    NoValueCreated
    PaidPerPrepare
PROPERTIES
    SentIsShown
CHECK_DEADLOCK FALSE
