SPECIFICATION MCSpec
CONSTANTS
  user = u1
  Users = {u1, u2}
  ZAR = ZAR
  USDC_CODE = USDC
  Currencies = {ZAR, USDC}
  zarp = zarp
  zaru = zaru
  usdcToken = usdc
  Tokens = {zarp, zaru, usdc}
  Destinations = {ZW, MZ, BW}
  FirstDestination = ZW
  Amounts = {1, 2}
  Corrections = {1}
  KycLevels = {0, 1}
  FeeBps = {0, 1, 2}
  BPS_DENOMINATOR = 2
  MaxAssets = 3
  MaxShares = 2
  MaxHeld = 2
  NoCurrency = NoCurrency
INVARIANTS
    VaultInv
PROPERTIES
    LedgerRefined
    MovesKeepSurplus
