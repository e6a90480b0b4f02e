------------------------------ MODULE Reports ------------------------------
(***************************************************************************)
(* What the operators' dashboard and reports say, as functions of the      *)
(* tables of Books, the logs the indexer has projected and the Vault's     *)
(* balances: the balance ledger and the treasury report (reports.routes),  *)
(* the claims by segment (platformStats) and revenue against expenses      *)
(* (platformFinancials).  Every page mixes the three sources, which are    *)
(* read at one moment and need not be equally far.  Amounts are in minor   *)
(* units and one unit of gas per transaction; every balance can be read.   *)
(***************************************************************************)
EXTENDS Books, ShareMath

CONSTANTS
    Worth,      \* the amount an operation moves
    FeeOf,      \* the platform's part of it: conversion, settlement and withdrawal fees, yield cut
    Opening,    \* what users, merchants and the escrow account held before, per currency
    CurrencyRows  \* currencies: code -> [type, base]

Positive(n) == IF n > 0 THEN n ELSE 0

-----------------------------------------------------------------------------
(* The chain.                                                              *)

Mined == {t \in sent : at[t] # 0}
AccountOf(t) == IF OfMerchant(t) THEN "merchant" ELSE IF OfPlatform(t) THEN "platform" ELSE "consumer"
CurrencyOf(t) ==
    IF (KindOf[t[1]] = "convert" /\ t[2] = 2) \/ KindOf[t[1]] \in {"harvest", "withdraw"} THEN "USDC" ELSE "ZAR"
\* A withdrawal sends out the net and moves the fee to the platform; a harvest
\* leaves its fee with the platform.
Amount(t) ==
    CASE KindOf[t[1]] = "withdraw" -> IF t[2] = 1 THEN Worth[t[1]] - FeeOf[t[1]] ELSE FeeOf[t[1]]
      [] KindOf[t[1]] = "harvest"  -> Worth[t[1]] - FeeOf[t[1]]
      [] OTHER -> Worth[t[1]]
Volume(T) == Total([t \in T |-> Amount(t)])
Fees(J) == Total([j \in J |-> FeeOf[j]])

\* The account a transaction adds its amount to, and the one it takes it from.
\* Harvest credits nobody: it raises the price of a share, here all of the consumer's.
Receiver(t) ==
    LET log == StepOf(t).log IN
    CASE log = "Credited"       -> AccountOf(t)
      [] log = "Transferred"    -> "escrow"
      [] log = "YieldHarvested" -> "consumer"
      [] OTHER -> "nobody"
Payer(t) ==
    LET log == StepOf(t).log IN
    CASE log \in {"Debited", "Withdrawn"} -> AccountOf(t)
      [] log = "Transferred" -> "consumer"
      [] OTHER -> "nobody"
Into(u, cur) == {t \in Mined : CurrencyOf(t) = cur /\ Receiver(t) = u}
OutOf(u, cur) == {t \in Mined : CurrencyOf(t) = cur /\ Payer(t) = u}

OnChain(u, cur) == Opening[u][cur] + Volume(Into(u, cur)) - Volume(OutOf(u, cur))
Opened(cur) == Opening["consumer"][cur] + Opening["merchant"][cur] + Opening["escrow"][cur]
Supply == Volume({t \in Mined : StepOf(t).log = "Minted"})
Outstanding == Opened("ZAR") + Supply

\* The merchant had what the operations debit, and the seeded currencies are those
\* the pages convert between.
ASSUME ReportsAssumption ==
    /\ IsFiniteSet(Jobs)
    /\ Worth \in [Jobs -> Nat] /\ FeeOf \in [Jobs -> Nat] /\ \A j \in Jobs : FeeOf[j] <= Worth[j]
    /\ Opening \in [{"consumer", "merchant", "escrow"} -> [{"ZAR", "USDC"} -> Nat]]
    /\ Volume({t \in Txs : OfMerchant(t) /\ StepOf(t).log = "Debited"}) <= Opening["merchant"]["ZAR"]
    /\ {"ZAR", "USDC"} \subseteq DOMAIN CurrencyRows
    /\ CurrencyRows["ZAR"].type = "FIAT"
    /\ CurrencyRows["USDC"] = [type |-> "STABLECOIN", base |-> "USD"]
    /\ \E c \in DOMAIN CurrencyRows : CurrencyRows[c] = [type |-> "TREASURY", base |-> "ZAR"]

-----------------------------------------------------------------------------
(* GET /reports/balances.                                                  *)

\* A fiat's token, the treasury token before a stablecoin; a code's fiat and token.
TokensFor(fiat, type) == {c \in DOMAIN CurrencyRows : CurrencyRows[c] = [type |-> type, base |-> fiat]}
TokenFor(fiat) == IF TokensFor(fiat, "TREASURY") # {} THEN TokensFor(fiat, "TREASURY") ELSE TokensFor(fiat, "STABLECOIN")
FiatOf(code) == IF CurrencyRows[code].type = "FIAT" THEN code ELSE CurrencyRows[code].base

Logs(names, cur) == {t \in Indexed : StepOf(t).log \in names /\ CurrencyOf(t) = cur}

\* Mutant: the transfers count as credits.
NetWithTransfers(cur) == Volume(Logs({"Credited", "Transferred"}, cur)) - Volume(Logs({"Debited"}, cur))

LedgerNet(cur) == Volume(Logs({"Credited"}, cur)) - Volume(Logs({"Debited"}, cur))
SumSegment(s, cur) == OnChain(s, cur)
\* The dollar row is replaced by the balances themselves.
Net(cur) == IF FiatOf(cur) = "USD" THEN SumSegment("consumer", cur) + SumSegment("merchant", cur) ELSE LedgerNet(cur)

\* The two legs of the conversions that have a row.
ConvBuyTx == {<<j, 2>> : j \in {i \in rows : KindOf[i] = "convert"}}
ConvSellTx == {<<j, 1>> : j \in {i \in rows : KindOf[i] = "convert"}}
LedgerType(t) ==
    IF t \in ConvBuyTx THEN "Conversion (buy)"
    ELSE IF t \in ConvSellTx THEN "Conversion (sell)"
    ELSE IF StepOf(t).log = "Credited" THEN "Top-up" ELSE "Payment"

-----------------------------------------------------------------------------
(* GET /reports/treasury: mints and burns with the reference behind them.  *)

TreasuryEvents == {t \in Indexed : StepOf(t).log \in {"Minted", "Burned"}}
RefByTx(t) == {j \in rows : t \in Named(j) /\ KindOf[j] = "topup"}
TotalsByToken == Volume({t \in TreasuryEvents : StepOf(t).log = "Minted"})
                    - Volume({t \in TreasuryEvents : StepOf(t).log = "Burned"})

-----------------------------------------------------------------------------
(* platformStats.                                                          *)

\* A balance in a currency that a treasury token stands for is a claim on the
\* platform; any other is held by the user.
IsTvlClaim(code) ==
    \/ CurrencyRows[code].type = "TREASURY"
    \/ CurrencyRows[code].type = "FIAT" /\ TokenFor(code) # {}

SegmentLedger(s, cur) ==
    Volume({t \in Logs({"Credited"}, cur) : AccountOf(t) = s}) - Volume({t \in Logs({"Debited"}, cur) : AccountOf(t) = s})
ConsumerTvl == SumSegment("consumer", "ZAR")

\* The settlement requests that may stand as pending or approved: those without an
\* executed row, whether a member has only asked or the worker is at it; and which do.
OpenRequests == SUBSET {i \in Jobs : KindOf[i] = "settle" /\ i \notin rows}
PendingZar(open) == Total([j \in open |-> Worth[j]])
\* The larger of the balance and of the ledger with the open requests.
MerchantTvl(open) == Max({SumSegment("merchant", "ZAR"), Positive(SegmentLedger("merchant", "ZAR")) + PendingZar(open)})

\* The ledger's dollars give way to the balances only where something is held.
TotalHeld ==
    LET onChainUsdc == SumSegment("consumer", "USDC") + SumSegment("merchant", "USDC") IN
    IF onChainUsdc > 0 THEN onChainUsdc
    ELSE Positive(SegmentLedger("consumer", "USDC")) + Positive(SegmentLedger("merchant", "USDC"))

\* getTreasuryDashboardSummary: what of the supply no user's claim accounts for.
UserClaims == ConsumerTvl + SumSegment("merchant", "ZAR")
PlatformTtza == Positive(Outstanding - UserClaims)

-----------------------------------------------------------------------------
(* platformFinancials.                                                     *)

FeesOf(kind) == Fees({j \in rows : KindOf[j] = kind})
ConversionFees == FeesOf("convert")
SettlementFees == FeesOf("settle")
YieldRevenue == Fees({t[1] : t \in {u \in Indexed : StepOf(u).log = "YieldHarvested"}})
\* getWithdrawalSummary: the fees of the executed withdrawals.
WithdrawalFees == FeesOf("withdraw")
Revenue == ConversionFees + SettlementFees + YieldRevenue + WithdrawalFees

\* getSuccessfulOnboardingGasEth: sign-ups that completed.
Acquisition == Cardinality({t \in Rolled("onboarding") : t[1] \in rows})
Expenses == Cardinality(DOMAIN gas)
ExpenseLine(category) == IF category = "onboarding" THEN Acquisition ELSE Cardinality(Rolled(category))
ExpenseLines == ExpenseLine("transaction") + ExpenseLine("onboarding") + ExpenseLine("operations")
                    + ExpenseLine("deployment")

-----------------------------------------------------------------------------
CaughtUp == \A t \in Mined : StepOf(t).log # "none" => t \in Indexed
Gained(cur) == OnChain("consumer", cur) + OnChain("merchant", cur) + OnChain("escrow", cur) - Opened(cur)
Abandoned == {t \in Rolled("onboarding") : t[1] \notin rows}

Withdrawals == {t \in Mined : StepOf(t).log = "Withdrawn"}

\* Once the index has caught up, the balance report's net of credits and debits is
\* what all accounts gained, transfers and half-finished conversions included, and
\* minted less burned is the token's supply.  The merchants' figure exceeds their
\* balance by no more than the requests that are open.  The dashboard's dollars are
\* the report's wherever something is held, and where nothing is, exceed them by no
\* more than was withdrawn, which the ledger does not see.  No fiat claim is shown as
\* held; and what the dashboard calls the platform's part of the supply covers the
\* escrow account's claim: its floor at zero hides no shortfall (a mint that fell out
\* of the chain before its credit apart).
BalancesReconcile ==
    /\ CaughtUp => /\ LedgerNet("ZAR") = Gained("ZAR") /\ Net("ZAR") = LedgerNet("ZAR")
                   /\ TotalsByToken = Supply
                   /\ \A open \in OpenRequests : MerchantTvl(open) <= OnChain("merchant", "ZAR") + PendingZar(open)
                   /\ TotalHeld <= Positive(Net("USDC") + Volume(Withdrawals))
    /\ Net("USDC") > 0 => TotalHeld = Net("USDC")
    /\ ~IsTvlClaim("USDC") /\ IsTvlClaim("ZAR")
    /\ "reorg" \notin faults => PlatformTtza >= OnChain("escrow", "ZAR")

\* The balances reconcile, and the reports and the consumer's history tell the same
\* story: what one calls a conversion is one in the other, a mint carries the reference
\* of its own deposit and of no other; every fee counted was earned by a transaction
\* that was sent, and the expense lines leave out of the total exactly the sign-ups that
\* did not complete.
ReportsAgree ==
    /\ BalancesReconcile
    /\ \A t \in Indexed : StepOf(t).log \in {"Credited", "Debited"} =>
          /\ (LedgerType(t) = "Conversion (buy)") = (StepOf(t).log = "Credited" /\ Label(t) = "Converted")
          /\ (LedgerType(t) = "Conversion (sell)") = Hidden([tx |-> t])
    /\ \A t \in TreasuryEvents : RefByTx(t) = {t[1]} \cap rows
    /\ Revenue <= Fees({j \in Jobs : <<j, 1>> \in sent})
    /\ Expenses = ExpenseLines + Cardinality(Abandoned)
=============================================================================
