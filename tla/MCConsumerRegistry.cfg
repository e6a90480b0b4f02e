SPECIFICATION MCSpec
CONSTANTS
  Wallets = {w1, w2, w3}
  Spenders = {w1, w2}
  Names = {n1, n2}
  name = n1
  Countries = {ZA, ZW}
  country = ZA
  RemitAmounts = {1, 2}
  Levels = {0, 1, 3}
  DailyLimit <- Daily
  MonthlyLimit <- Monthly
  MonthDays = 2
  LastDay = 3
  Caps = {1, 2}
  MaxLog = 4
  NoName = NoName
  NoWallet = NoWallet
  Persons = {ann, ben}
  person = ann
  ann = ann
  MaxTries <- MCMaxTries
  TagsOf <- MCTagsOf
  CountryOf <- MCCountryOf
  Tiers <- MCTiers
  Faults = {"duplicate", "throw", "lost", "idos", "ens", "pimlico", "db", "step", "finish", "answer", "crash"}
  MaxFaults = 1
  NoTag = NoTag
INVARIANTS
    AccountsWhole
    RegistryInv
PROPERTIES
    IdentityKept
CHECK_DEADLOCK FALSE
