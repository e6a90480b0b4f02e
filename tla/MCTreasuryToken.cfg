SPECIFICATION TokenSpec
CONSTANTS
  alice = alice
  bob = bob
  shop = shop
  ZA = ZA
  ZW = ZW
  Accounts = {alice, bob, shop}
  TokenAmounts = {1, 2}
  MaxSupply = 2
  CountryOf <- Country
INVARIANTS TokenInv
PROPERTIES StandStill StaysInCountry
