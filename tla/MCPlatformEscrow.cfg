SPECIFICATION FairSpec
CONSTANTS
    c1 = c1
    c2 = c2
    s1 = s1
    s2 = s2
    Claims = {c1, c2}
    Amount <- MCAmount
    Sales = {s1, s2}
    Price <- MCPrice
    Workloads = {{c1, c2}, {c1, s1}, {s1, s2}}
    Workers = {w1, w2}
    Faults = {"throw", "lost", "crash"}
    MaxFaults = 2
    MaxRetries = 1
INVARIANTS
    EscrowCovers
    PaidOnce
PROPERTIES
    SettledIsFinal
    Settles
CHECK_DEADLOCK FALSE
