-------------------------------- MODULE Vault --------------------------------
(***************************************************************************)
(* Vault.sol: the contract that keeps every user's balance.  It holds one  *)
(* share ledger per currency (ShareLedger), the list of ERC20 tokens that  *)
(* back each currency, the platform's own reserve, the per-user remittance *)
(* lock and the endpoint gate of transfer().  One action per external      *)
(* function; a transaction is atomic, and a revert is a disabled action.   *)
(* Role checks are left out: every action is taken by a caller that holds  *)
(* the role the function asks for.                                         *)
(***************************************************************************)
EXTENDS ShareMath, SequencesExt

CONSTANTS Users,            \* addresses with a balance
          Currencies,       \* currencyCode values
          Tokens,           \* ERC20 contracts
          Destinations,     \* destination country codes
          USDC_CODE, usdcToken,
          FirstDestination, \* keccak256("ZW"), allowed by initialize
          Amounts,          \* amounts the functions are called with
          Corrections,      \* values given to reconcileTotalAssets
          KycLevels,        \* KYC levels, 0..3 in the code
          FeeBps,           \* platformFeeBps values given to harvest
          BPS_DENOMINATOR,
          MaxAssets,        \* bound on totalAssets and reserves (uint256 in the code)
          MaxShares,        \* bound on totalShares (idem)
          MaxHeld,          \* bound on the vault's balance of one token
          NoCurrency        \* bytes32(0)

ASSUME VaultAssumption ==
    /\ IsFiniteSet(Users)
    /\ USDC_CODE \in Currencies
    /\ usdcToken \in Tokens
    /\ NoCurrency \notin Currencies
    /\ FirstDestination \in Destinations
    /\ Amounts \subseteq Nat
    /\ Corrections \subseteq Nat
    /\ BPS_DENOMINATOR \in Nat \ {0}
    /\ FeeBps \subseteq Nat
    /\ KycLevels \subseteq Nat /\ 0 \in KycLevels
    /\ MaxAssets \in Nat /\ MaxShares \in Nat /\ MaxHeld \in Nat

VARIABLES
    ledger,                 \* currency -> [shares, totalShares, totalAssets]
    platformReserveAssets,  \* currency -> Nat
    tokenCurrency,          \* token -> currency or NoCurrency
    currencyTokenAt,        \* currency -> sequence of tokens
    held,                   \* token -> balanceOf(vault)                (external)
    currencyTreasuryToken,  \* the currencies whose TreasuryToken is set
    ttBalance,              \* currency -> user -> TreasuryToken balance (external)
    remittanceLocked,       \* the locked users
    isAllowedDestination,   \* the allowed destinations, as a set ...
    allowedDestinations,    \* ... and as the array that lists them
    consumerContract,       \* whether the Consumer registry is set
    status,                 \* user -> its state in the registry         (external)
    kycLevel,               \* user -> its level in the registry         (external)
    trustedCounterparty,    \* set of users
    paused

money    == <<ledger, platformReserveAssets, held, ttBalance>>
tokens   == <<tokenCurrency, currencyTokenAt, currencyTreasuryToken>>
corridor == <<isAllowedDestination, allowedDestinations>>
registry == <<status, kycLevel>>
gate     == <<consumerContract, trustedCounterparty, paused>>
vars     == <<money, tokens, corridor, registry, gate, remittanceLocked>>

-----------------------------------------------------------------------------
EmptyLedger == [shares |-> [u \in Users |-> 0], totalShares |-> 0, totalAssets |-> 0]

\* _convertToAssets of the user's shares.
UnifiedBalance(u, c) ==
    AssetsDown(ledger[c].totalShares, ledger[c].totalAssets, ledger[c].shares[u])

\* _creditAssets and _debitAssets, on one currency's ledger.
CreditAssets(L, u, a) ==
    LET minted == SharesDown(L.totalShares, L.totalAssets, a) IN
    [shares      |-> [L.shares EXCEPT ![u] = @ + minted],
     totalShares |-> L.totalShares + minted,
     totalAssets |-> L.totalAssets + a]

\* Mutant: a debit burns the shares rounded down.
DebitAssetsDown(L, u, a) ==
    LET burned == SharesDown(L.totalShares, L.totalAssets, a) IN
    [shares      |-> [L.shares EXCEPT ![u] = @ - burned],
     totalShares |-> L.totalShares - burned,
     totalAssets |-> L.totalAssets - a]

DebitAssets(L, u, a) ==
    LET burned == BurnShares(L.totalShares, L.totalAssets, L.shares[u], a) IN
    [shares      |-> [L.shares EXCEPT ![u] = @ - burned],
     totalShares |-> L.totalShares - burned,
     totalAssets |-> L.totalAssets - a]

\* The bound on the ledger's totals: arithmetic above it reverts.
Fits(L) == L.totalAssets <= MaxAssets /\ L.totalShares <= MaxShares

\* _actualHoldings: the vault's balance over every token listed for c.
ActualHoldings(c) ==
    Total([i \in 1..Len(currencyTokenAt[c]) |-> held[currencyTokenAt[c][i]]])

Liabilities(c) == ledger[c].totalAssets + platformReserveAssets[c]

HarvestableYield(c) ==
    IF ActualHoldings(c) > Liabilities(c) THEN ActualHoldings(c) - Liabilities(c) ELSE 0

\* Consumer.isRegistered: false for a wallet that recoverWallet retired.
IsRegistered(u) == status[u] = "active"

\* The endpoint gate of transfer(), inert until the registry is set.
KnownParty(u) == consumerContract => u \in trustedCounterparty \/ IsRegistered(u)

-----------------------------------------------------------------------------
\* The state initialize() leaves behind.
Init ==
    /\ ledger = [c \in Currencies |-> EmptyLedger]
    /\ platformReserveAssets = [c \in Currencies |-> 0]
    /\ tokenCurrency = [t \in Tokens |-> NoCurrency]
    /\ currencyTokenAt = [c \in Currencies |-> <<>>]
    /\ held = [t \in Tokens |-> 0]
    /\ currencyTreasuryToken = {}
    /\ ttBalance = [c \in Currencies |-> [u \in Users |-> 0]]
    /\ remittanceLocked = {}
    /\ isAllowedDestination = {FirstDestination}
    /\ allowedDestinations = <<FirstDestination>>
    /\ consumerContract = FALSE
    /\ status = [u \in Users |-> "unknown"]
    /\ kycLevel = [u \in Users |-> 0]
    /\ trustedCounterparty = {}
    /\ paused = FALSE

\* adminCredit(), and credit(), which is the same under SETTLEMENT_ROLE.
AdminCredit(u, c, a) ==
    /\ a > 0
    /\ ledger' = [ledger EXCEPT ![c] = CreditAssets(@, u, a)]
    /\ Fits(ledger'[c])
    /\ UNCHANGED <<platformReserveAssets, held, ttBalance, tokens, corridor, registry,
                   gate, remittanceLocked>>

AdminDebit(u, c, a) ==
    /\ a > 0
    /\ UnifiedBalance(u, c) >= a
    /\ ledger' = [ledger EXCEPT ![c] = DebitAssets(@, u, a)]
    /\ UNCHANGED <<platformReserveAssets, held, ttBalance, tokens, corridor, registry,
                   gate, remittanceLocked>>

Transfer(from, to, c, a) ==
    LET L == ledger[c]
        moved == MoveShares(L.totalShares, L.totalAssets, L.shares[from], a)
        after == [[L.shares EXCEPT ![from] = @ - moved] EXCEPT ![to] = @ + moved]
    IN
    /\ ~paused
    /\ a > 0
    /\ UnifiedBalance(from, c) >= a
    /\ KnownParty(from)
    /\ KnownParty(to)
    /\ ledger' = [ledger EXCEPT ![c].shares = after]
    /\ UNCHANGED <<platformReserveAssets, held, ttBalance, tokens, corridor, registry,
                   gate, remittanceLocked>>

\* startRemittance(): the KYC gate reads the level only.
StartRemittance(u) ==
    /\ u \notin remittanceLocked
    /\ consumerContract => kycLevel[u] >= 1
    /\ remittanceLocked' = remittanceLocked \cup {u}
    /\ UNCHANGED <<money, tokens, corridor, registry, gate>>

\* TreasuryToken.burn(u, a), called when the currency's token is set (the token
\* not paused and u not blacklisted: those gates are in TreasuryToken.tla).
CanBurn(u, c, a) == c \in currencyTreasuryToken => ttBalance[c][u] >= a
Burned(u, c, a)  == IF c \in currencyTreasuryToken
                    THEN [ttBalance EXCEPT ![c][u] = @ - a]
                    ELSE ttBalance

PayRemittance(u, c, a, d) ==
    /\ u \in remittanceLocked
    /\ a > 0
    /\ d \in isAllowedDestination
    /\ UnifiedBalance(u, c) >= a
    /\ CanBurn(u, c, a)
    /\ ledger' = [ledger EXCEPT ![c] = DebitAssets(@, u, a)]
    /\ remittanceLocked' = remittanceLocked \ {u}
    /\ ttBalance' = Burned(u, c, a)
    /\ UNCHANGED <<platformReserveAssets, held, tokens, corridor, registry, gate>>

\* Mutant: the amount asked for is credited, not the amount received.
DepositCreditsRequested(u, t, a, received) ==
    LET c == tokenCurrency[t] IN
    /\ ~paused
    /\ a > 0 /\ received <= a
    /\ c # NoCurrency
    /\ held[t] + received <= MaxHeld
    /\ held' = [held EXCEPT ![t] = @ + received]
    /\ ledger' = [ledger EXCEPT ![c] = CreditAssets(@, u, a)]
    /\ Fits(ledger'[c])
    /\ UNCHANGED <<platformReserveAssets, ttBalance, tokens, corridor, registry, gate,
                   remittanceLocked>>

\* depositFromExternal(): what arrives may be less than a (fee on transfer), and
\* what arrives is what is credited.
DepositFromExternal(u, t, a, received) ==
    LET c == tokenCurrency[t] IN
    /\ ~paused
    /\ a > 0 /\ received <= a
    /\ c # NoCurrency
    /\ held[t] + received <= MaxHeld
    /\ held' = [held EXCEPT ![t] = @ + received]
    /\ ledger' = [ledger EXCEPT ![c] = CreditAssets(@, u, received)]
    /\ Fits(ledger'[c])
    /\ UNCHANGED <<platformReserveAssets, ttBalance, tokens, corridor, registry, gate,
                   remittanceLocked>>

WithdrawToExternal(u, t, a) ==
    LET c == tokenCurrency[t] IN
    /\ a > 0
    /\ c # NoCurrency
    /\ UnifiedBalance(u, c) >= a
    /\ held[t] >= a
    /\ ledger' = [ledger EXCEPT ![c] = DebitAssets(@, u, a)]
    /\ held' = [held EXCEPT ![t] = @ - a]
    /\ UNCHANGED <<platformReserveAssets, ttBalance, tokens, corridor, registry, gate,
                   remittanceLocked>>

\* purchaseUsd(): the router takes a of the primary local token and pays `out`
\* USDC into the vault.  Two guards are not lines of the function: c is a local
\* currency, as the doc of the parameter says, and no pool swaps USDC for USDC, where
\* the router reverts.
PurchaseUsd(u, c, a, out) ==
    LET local == currencyTokenAt[c][1] IN
    /\ a > 0
    /\ c # USDC_CODE
    /\ currencyTokenAt[c] # <<>>
    /\ local # usdcToken
    /\ held[local] >= a
    /\ UnifiedBalance(u, c) >= a
    /\ CanBurn(u, c, a)
    /\ held[usdcToken] + out <= MaxHeld
    /\ held' = [held EXCEPT ![local] = @ - a, ![usdcToken] = @ + out]
    /\ ttBalance' = Burned(u, c, a)
    /\ ledger' = [ledger EXCEPT ![c] = DebitAssets(@, u, a),
                                ![USDC_CODE] = CreditAssets(@, u, out)]
    /\ Fits(ledger'[USDC_CODE])
    /\ UNCHANGED <<platformReserveAssets, tokens, corridor, registry, gate, remittanceLocked>>

RecordPlatformReserve(c, a) ==
    /\ a > 0
    /\ platformReserveAssets[c] + a <= MaxAssets
    /\ platformReserveAssets' = [platformReserveAssets EXCEPT ![c] = @ + a]
    /\ UNCHANGED <<ledger, held, ttBalance, tokens, corridor, registry, gate, remittanceLocked>>

\* harvest(): users' part into totalAssets, platform's cut out of the primary token.
Harvest(c, fee) ==
    LET yieldDelta == ActualHoldings(c) - Liabilities(c)
        platformCut == (yieldDelta * fee) \div BPS_DENOMINATOR
        primary == currencyTokenAt[c][1]
    IN
    /\ fee <= BPS_DENOMINATOR
    /\ ActualHoldings(c) > Liabilities(c)
    /\ ledger' = [ledger EXCEPT ![c].totalAssets = @ + (yieldDelta - platformCut)]
    /\ Fits(ledger'[c])
    /\ \/ platformCut = 0 /\ held' = held
       \/ /\ platformCut > 0
          /\ held[primary] >= platformCut
          /\ held' = [held EXCEPT ![primary] = @ - platformCut]
    /\ UNCHANGED <<platformReserveAssets, ttBalance, tokens, corridor, registry, gate,
                   remittanceLocked>>

ReconcileTotalAssets(c, n) ==
    /\ n <= MaxAssets
    /\ ledger' = [ledger EXCEPT ![c].totalAssets = n]
    /\ UNCHANGED <<platformReserveAssets, held, ttBalance, tokens, corridor, registry,
                   gate, remittanceLocked>>

-----------------------------------------------------------------------------
\* Administration.
AddToken(t, c) ==
    /\ tokenCurrency[t] = NoCurrency
    /\ tokenCurrency' = [tokenCurrency EXCEPT ![t] = c]
    /\ currencyTokenAt' = [currencyTokenAt EXCEPT ![c] = Append(@, t)]
    /\ UNCHANGED <<money, currencyTreasuryToken, corridor, registry, gate, remittanceLocked>>

SetCurrencyTreasuryToken(c) ==
    /\ currencyTreasuryToken' = currencyTreasuryToken \cup {c}
    /\ UNCHANGED <<money, tokenCurrency, currencyTokenAt, corridor, registry, gate,
                   remittanceLocked>>

SetConsumerContract ==
    /\ consumerContract' = TRUE
    /\ UNCHANGED <<money, tokens, corridor, registry, trustedCounterparty, paused,
                   remittanceLocked>>

SetTrustedCounterparty(u, trusted) ==
    /\ trustedCounterparty' = IF trusted THEN trustedCounterparty \cup {u}
                              ELSE trustedCounterparty \ {u}
    /\ UNCHANGED <<money, tokens, corridor, registry, consumerContract, paused,
                   remittanceLocked>>

\* A destination that is already there (or already gone) is silently kept so.
AddAllowedDestination(d) ==
    /\ isAllowedDestination' = isAllowedDestination \cup {d}
    /\ allowedDestinations' = IF d \in isAllowedDestination THEN allowedDestinations
                              ELSE Append(allowedDestinations, d)
    /\ UNCHANGED <<money, tokens, registry, gate, remittanceLocked>>

\* Mutant: the last entry is popped without the swap.
RemoveLastDestination(d) ==
    /\ isAllowedDestination' = isAllowedDestination \ {d}
    /\ allowedDestinations' = IF d \in isAllowedDestination THEN Front(allowedDestinations)
                              ELSE allowedDestinations
    /\ UNCHANGED <<money, tokens, registry, gate, remittanceLocked>>

\* Swap the first entry that equals d with the last one, then pop.
RemoveAllowedDestination(d) ==
    LET n == Len(allowedDestinations)
        i == SelectInSeq(allowedDestinations, LAMBDA e : e = d)
        swapped == ReplaceAt(allowedDestinations, i, allowedDestinations[n])
    IN
    /\ isAllowedDestination' = isAllowedDestination \ {d}
    /\ allowedDestinations' =
          IF d \in isAllowedDestination /\ i > 0
          THEN Front(swapped)
          ELSE allowedDestinations
    /\ UNCHANGED <<money, tokens, registry, gate, remittanceLocked>>

SetPaused(flag) ==
    /\ paused = ~flag
    /\ paused' = flag
    /\ UNCHANGED <<money, tokens, corridor, registry, consumerContract, trustedCounterparty,
                   remittanceLocked>>

-----------------------------------------------------------------------------
\* The contracts around the vault.

\* Tokens reach the vault outside its functions: a rebase, a donation, a mint.
TokensArrive(t, a) ==
    /\ held[t] + a <= MaxHeld
    /\ held' = [held EXCEPT ![t] = @ + a]
    /\ UNCHANGED <<ledger, platformReserveAssets, ttBalance, tokens, corridor, registry,
                   gate, remittanceLocked>>

\* TreasuryToken.mint to a user.
TreasuryMint(c, u, a) ==
    /\ ttBalance[c][u] + a <= MaxHeld
    /\ ttBalance' = [ttBalance EXCEPT ![c][u] = @ + a]
    /\ UNCHANGED <<ledger, platformReserveAssets, held, tokens, corridor, registry, gate,
                   remittanceLocked>>

\* The Consumer registry: a wallet is registered (at any level), its level
\* changes, and recoverWallet retires it without touching its level.
RegistryRegisters(u, level) ==
    /\ status[u] = "unknown"
    /\ status' = [status EXCEPT ![u] = "active"]
    /\ kycLevel' = [kycLevel EXCEPT ![u] = level]
    /\ UNCHANGED <<money, tokens, corridor, gate, remittanceLocked>>

RegistryUpdatesKyc(u, level) ==
    /\ IsRegistered(u)
    /\ kycLevel' = [kycLevel EXCEPT ![u] = level]
    /\ UNCHANGED <<money, tokens, corridor, status, gate, remittanceLocked>>

RegistryRetires(u) ==
    /\ IsRegistered(u)
    /\ status' = [status EXCEPT ![u] = "retired"]
    /\ UNCHANGED <<money, tokens, corridor, kycLevel, gate, remittanceLocked>>

-----------------------------------------------------------------------------
Money ==
    \/ \E u \in Users, c \in Currencies, a \in Amounts : AdminCredit(u, c, a)
    \/ \E u \in Users, c \in Currencies, a \in Amounts : AdminDebit(u, c, a)
    \/ \E from, to \in Users, c \in Currencies, a \in Amounts : Transfer(from, to, c, a)
    \/ \E u \in Users, t \in Tokens, a \in Amounts : \E r \in 0..a :
          DepositFromExternal(u, t, a, r)
    \/ \E u \in Users, t \in Tokens, a \in Amounts : WithdrawToExternal(u, t, a)
    \/ \E u \in Users, c \in Currencies, a, out \in Amounts : PurchaseUsd(u, c, a, out)
    \/ \E c \in Currencies, a \in Amounts : RecordPlatformReserve(c, a)
    \/ \E c \in Currencies, fee \in FeeBps : Harvest(c, fee)
    \/ \E c \in Currencies, n \in Corrections : ReconcileTotalAssets(c, n)
    \/ \E t \in Tokens, a \in Amounts : TokensArrive(t, a)

Remittance ==
    \/ \E u \in Users : StartRemittance(u)
    \/ \E u \in Users, c \in Currencies, a \in Amounts, d \in Destinations :
          PayRemittance(u, c, a, d)
    \/ \E c \in Currencies, u \in Users, a \in Amounts : TreasuryMint(c, u, a)

Administration ==
    \/ \E t \in Tokens, c \in Currencies : AddToken(t, c)
    \/ \E c \in Currencies : SetCurrencyTreasuryToken(c)
    \/ SetConsumerContract
    \/ \E u \in Users, b \in BOOLEAN : SetTrustedCounterparty(u, b)
    \/ \E d \in Destinations : AddAllowedDestination(d)
    \/ \E d \in Destinations : RemoveAllowedDestination(d)
    \/ \E b \in BOOLEAN : SetPaused(b)

Registry ==
    \/ \E u \in Users, k \in KycLevels : RegistryRegisters(u, k)
    \/ \E u \in Users, k \in KycLevels : RegistryUpdatesKyc(u, k)
    \/ \E u \in Users : RegistryRetires(u)

Next == Money \/ Remittance \/ Administration \/ Registry

Spec == Init /\ [][Next]_vars

-----------------------------------------------------------------------------
LedgerType == [shares : [Users -> Nat], totalShares : 0..MaxShares, totalAssets : 0..MaxAssets]

TypeOK ==
    /\ ledger \in [Currencies -> LedgerType]
    /\ platformReserveAssets \in [Currencies -> Nat]
    /\ tokenCurrency \in [Tokens -> Currencies \cup {NoCurrency}]
    /\ currencyTokenAt \in [Currencies -> Seq(Tokens)]
    /\ held \in [Tokens -> Nat]
    /\ currencyTreasuryToken \subseteq Currencies
    /\ ttBalance \in [Currencies -> [Users -> Nat]]
    /\ remittanceLocked \subseteq Users
    /\ isAllowedDestination \subseteq Destinations
    /\ allowedDestinations \in Seq(Destinations)
    /\ consumerContract \in BOOLEAN /\ paused \in BOOLEAN
    /\ status \in [Users -> {"unknown", "active", "retired"}]
    /\ kycLevel \in [Users -> KycLevels]
    /\ trustedCounterparty \subseteq Users

\* Each currency's books behave like the share ledger of ShareLedger: whatever
\* the contract does is, for each currency, one ledger operation or none.
L(c) == INSTANCE ShareLedger WITH
            shares <- ledger[c].shares,
            totalShares <- ledger[c].totalShares,
            totalAssets <- ledger[c].totalAssets,
            Amounts <- 0..MaxAssets,
            Corrections <- Corrections

LedgerStep == \A c \in Currencies : L(c)!Next \/ UNCHANGED ledger[c]
LedgerRefined == (\A c \in Currencies : L(c)!Init) /\ [][LedgerStep]_vars

\* Every share of a currency is held by somebody: the total its price is computed
\* from is the sum of the holdings.
SharesIssued == \A c \in Currencies : ledger[c].totalShares = Total(ledger[c].shares)

\* The token lists and tokenCurrency describe the same registration, and no token
\* is counted twice by _actualHoldings.
TokensIndexed ==
    \A c \in Currencies :
       /\ ToSet(currencyTokenAt[c]) = {t \in Tokens : tokenCurrency[t] = c}
       /\ IsInjective(currencyTokenAt[c])

\* The array that lists the destinations is the set that gates remittances.
DestinationsIndexed ==
    /\ ToSet(allowedDestinations) = isAllowedDestination
    /\ IsInjective(allowedDestinations)

\* The contract keeps its redundant storage consistent in every order of calls:
\* amounts never go below zero, the shares add up to their total, and each array
\* lists what its mapping says.
VaultInv == TypeOK /\ SharesIssued /\ TokensIndexed /\ DestinationsIndexed

\* What the vault holds beyond (or, negative, short of) what it owes.
Surplus(c) == ActualHoldings(c) - Liabilities(c)

\* Deposits, withdrawals and USD purchases move tokens and books together: they
\* create no yield for a later harvest and leave no currency worse backed.  A harvest
\* takes exactly the yield: afterwards the currency is backed to the unit, its users'
\* assets and the platform's reserve included.
MovesKeepSurplus ==
    /\ [][(\/ \E u \in Users, t \in Tokens, a \in Amounts : \E r \in 0..a :
                 DepositFromExternal(u, t, a, r)
           \/ \E u \in Users, t \in Tokens, a \in Amounts : WithdrawToExternal(u, t, a)
           \/ /\ tokenCurrency[usdcToken] = USDC_CODE
              /\ \E u \in Users, c \in Currencies, a, out \in Amounts : PurchaseUsd(u, c, a, out))
          => \A c \in Currencies : Surplus(c)' = Surplus(c)]_vars
    /\ [][\A c \in Currencies : (\E fee \in FeeBps : Harvest(c, fee)) => Surplus(c)' = 0]_vars
=============================================================================
