SPECIFICATION MCSpec
CONSTANTS
    r1 = r1
    r2 = r2
    r3 = r3
    r4 = r4
    Requests = {r1, r2, r3, r4}
    MaxBeside = 1
    Currencies = {"ZAR", "USD"}
    Local = "ZAR"
    Amount <- MCAmount
    CurrencyOf <- MCCurrencyOf
    Members = {ann, bob}
    Admins = {ann}
    Workers = {w1, w2}
    Claim0 <- MCClaim0
    Others <- MCOthers
    Faults = {"throw", "lost", "crash"}
    MaxFaults = 2
    ann = ann
    tab = tab
    tab2 = tab2
    desk = desk
    Pages = {tab, tab2, desk}
    Desk = {desk}
    Patient = {tab}
    Colleagues = {cyd}
    WalletOf <- MCWalletOf
    Spare = {"spare"}
    EmailOf <- MCEmailOf
    Codes = {"HO", "S1"}
    Countries = {"ZA", "ZW"}
    HO = "HO"
    Home = "ZA"
    MaxSeats = 3
    OrgFaults = {"db", "throw", "chain", "answer"}
    Nobody = Nobody
    i1 = i1
    Items = {i1, i2}
    Offers <- MCOffers
    Fixture <- MCFixture
    Syncs = {y1, y2}
    Corridors = {"ZAR", "ZWG"}
    Majors = {1}
    MaxProducts = 3
    MaxPublish = 1
    MaxEdits = 2
    CatFaults = {"fetch", "db", "page"}
    s1 = s1
    Stores = {s1, s2}
    StoreCurrency <- MCStoreCurrency
    SavedStore = s1
    MaxCalls = 2
    MaxQty = 2
    MaxTurns = 2
    MaxVouchers = 2
INVARIANTS
    BackingHolds
    PaidAsPressed
    OrgSound
    CatalogueInSync
    QrFits
PROPERTIES
    OwnerSeated
CHECK_DEADLOCK FALSE
