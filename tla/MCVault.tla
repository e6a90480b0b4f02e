------------------------------ MODULE MCVault ------------------------------
(***************************************************************************)
(* Two scenarios, chosen in the initial state.  "deploy" starts from what  *)
(* initialize() leaves and takes every configuration order, the registry   *)
(* around the vault, remittances and the transfers gated by them, for one  *)
(* user and one currency.  "operate" starts from what the deployment       *)
(* script leaves (two backing tokens for ZAR, one for USDC, books empty)   *)
(* and moves money in every way, for two users.                            *)
(***************************************************************************)
EXTENDS Vault

CONSTANTS ZAR, zarp, zaru, user

VARIABLE scenario

\* The deployment script registers the tokens; the rest is as initialize() left it.
Registered ==
    /\ tokenCurrency = [t \in Tokens |-> IF t = usdcToken THEN USDC_CODE ELSE ZAR]
    /\ currencyTokenAt = [c \in Currencies |-> IF c = ZAR THEN <<zarp, zaru>> ELSE <<usdcToken>>]
    /\ ledger = [c \in Currencies |-> EmptyLedger]
    /\ platformReserveAssets = [c \in Currencies |-> 0]
    /\ held = [t \in Tokens |-> 0]
    /\ currencyTreasuryToken = {}
    /\ ttBalance = [c \in Currencies |-> [u \in Users |-> 0]]
    /\ remittanceLocked = {}
    /\ isAllowedDestination = {FirstDestination}
    /\ allowedDestinations = <<FirstDestination>>
    /\ consumerContract = FALSE
    /\ status = [u \in Users |-> "unknown"]
    /\ kycLevel = [u \in Users |-> 0]
    /\ trustedCounterparty = {}
    /\ paused = FALSE

MCInit ==
    \/ scenario = "deploy" /\ Init
    \/ scenario = "operate" /\ Registered

Deploy ==
    \/ \E t \in {usdcToken, zarp} : AddToken(t, USDC_CODE)
    \/ SetCurrencyTreasuryToken(USDC_CODE)
    \/ SetConsumerContract
    \/ \E b \in BOOLEAN : SetTrustedCounterparty(user, b)
    \/ \E d \in Destinations : AddAllowedDestination(d)
    \/ \E d \in Destinations : RemoveAllowedDestination(d)
    \/ \E b \in BOOLEAN : SetPaused(b)
    \/ \E k \in KycLevels : RegistryRegisters(user, k)
    \/ \E k \in KycLevels : RegistryUpdatesKyc(user, k)
    \/ RegistryRetires(user)
    \/ StartRemittance(user)
    \/ \E d \in Destinations : PayRemittance(user, USDC_CODE, 1, d)
    \/ ttBalance[USDC_CODE][user] = 0 /\ TreasuryMint(USDC_CODE, user, 1)
    \/ ledger[USDC_CODE].totalAssets = 0 /\ AdminCredit(user, USDC_CODE, 1)
    \/ Transfer(user, user, USDC_CODE, 1)

MCNext ==
    /\ UNCHANGED scenario
    /\ \/ scenario = "deploy" /\ Deploy
       \/ scenario = "operate" /\ Money

MCSpec == MCInit /\ [][MCNext]_<<vars, scenario>>
=============================================================================
