SPECIFICATION MCSpec
CONSTANTS
    Txs <- MCTxs
    EmitterOf <- MCEmitterOf
    Core = {"vault", "registry"}
    EnvTokens = {"token"}
    Confirmations = 1
    Chunk = 2
    MaxChunks = 2
    ReorgDepth = 1
    StartBlock <- NoBlock
    MaxHead = 6
    Faults = {"reorg", "query", "tick", "crash", "gas"}
    MaxFaults = 2
    Jobs <- JobNames
    KindOf <- MCKindOf
    Legacy = {"before"}
    Window = 1
    Worth <- MCWorth
    FeeOf <- MCFeeOf
    Opening <- MCOpening
    CurrencyRows <- MCCurrencyRows
    Operators = {o1, o2}
    Proxies = {p1, p2}
    Old = p0
    NoProxy = NoProxy
    Wires = 7
INVARIANTS
    IndexFaithful
    BooksExact
    
    TokenWired
PROPERTIES
    IndexCatchesUp
CHECK_DEADLOCK FALSE
