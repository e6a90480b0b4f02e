----------------------------- MODULE ShareLedger -----------------------------
(***************************************************************************)
(* The share ledger the Vault keeps for ONE currency: what the five        *)
(* bookkeeping operations of Vault.sol do to the holders' shares and to    *)
(* the two totals.  Vault.tla composes one ledger per currency, and adds   *)
(* who may call what and what moves beside the ledger.                     *)
(***************************************************************************)
EXTENDS ShareMath

CONSTANTS Users,       \* the addresses that hold balances
          Amounts,     \* the asset amounts the operations are called with
          MaxAssets,   \* bound on totalAssets (the code reverts above 2^256 - 1)
          MaxShares,   \* bound on totalShares (idem)
          Corrections  \* the values reconcileTotalAssets may be given

ASSUME LedgerAssumption ==
    /\ IsFiniteSet(Users)
    /\ Amounts \subseteq Nat
    /\ Corrections \subseteq Nat
    /\ MaxAssets \in Nat
    /\ MaxShares \in Nat

VARIABLES shares,       \* _shares[user]
          totalShares,
          totalAssets

vars == <<shares, totalShares, totalAssets>>

\* unifiedBalance(user): shares times price, rounded down.
Balance(u) == AssetsDown(totalShares, totalAssets, shares[u])

-----------------------------------------------------------------------------
Init ==
    /\ shares = [u \in Users |-> 0]
    /\ totalShares = 0
    /\ totalAssets = 0

\* _creditAssets: mint shares, rounded down, for assets that come in.
Credit(u, a) ==
    LET minted == SharesDown(totalShares, totalAssets, a) IN
    /\ totalAssets + a <= MaxAssets
    /\ totalShares + minted <= MaxShares
    /\ shares' = [shares EXCEPT ![u] = @ + minted]
    /\ totalShares' = totalShares + minted
    /\ totalAssets' = totalAssets + a

\* Mutant: the payer's shares, not their value, are compared with the amount.
DebitChecksShares(u, a) ==
    LET burned == BurnShares(totalShares, totalAssets, shares[u], a) IN
    /\ shares[u] >= a
    /\ shares' = [shares EXCEPT ![u] = @ - burned]
    /\ totalShares' = totalShares - burned
    /\ totalAssets' = totalAssets - a

\* Mutant: the total forgets the dust that a full exit burns.
DebitForgetsDust(u, a) ==
    LET burned == BurnShares(totalShares, totalAssets, shares[u], a) IN
    /\ Balance(u) >= a
    /\ shares' = [shares EXCEPT ![u] = @ - burned]
    /\ totalShares' = totalShares - SharesUp(totalShares, totalAssets, a)
    /\ totalAssets' = totalAssets - a

\* _debitAssets: burn shares, rounded up, for assets that leave.
Debit(u, a) ==
    LET burned == BurnShares(totalShares, totalAssets, shares[u], a) IN
    /\ Balance(u) >= a
    /\ shares' = [shares EXCEPT ![u] = @ - burned]
    /\ totalShares' = totalShares - burned
    /\ totalAssets' = totalAssets - a

\* Mutant: both balances are read before either is written.
MoveStale(from, to, a) ==
    LET moved == MoveShares(totalShares, totalAssets, shares[from], a) IN
    /\ Balance(from) >= a
    /\ shares' = [[shares EXCEPT ![from] = @ - moved] EXCEPT ![to] = shares[to] + moved]
    /\ UNCHANGED <<totalShares, totalAssets>>

\* The share movement of transfer(); a self-transfer reads back its own write.
Move(from, to, a) ==
    LET moved == MoveShares(totalShares, totalAssets, shares[from], a) IN
    /\ Balance(from) >= a
    /\ shares' = [[shares EXCEPT ![from] = @ - moved] EXCEPT ![to] = @ + moved]
    /\ UNCHANGED <<totalShares, totalAssets>>

\* harvest(): the users' part of the yield raises the price of every share.
Accrue(a) ==
    /\ totalAssets + a <= MaxAssets
    /\ totalAssets' = totalAssets + a
    /\ UNCHANGED <<shares, totalShares>>

\* reconcileTotalAssets(): the administrator overwrites the recorded assets.
Reconcile(n) ==
    /\ n <= MaxAssets
    /\ totalAssets' = n
    /\ UNCHANGED <<shares, totalShares>>

Next ==
    \/ \E u \in Users, a \in Amounts : Credit(u, a)
    \/ \E u \in Users, a \in Amounts : Debit(u, a)
    \/ \E from, to \in Users, a \in Amounts : Move(from, to, a)
    \/ \E a \in Amounts : Accrue(a)
    \/ \E n \in Corrections : Reconcile(n)

Spec == Init /\ [][Next]_vars

-----------------------------------------------------------------------------
TypeOK ==
    /\ shares \in [Users -> Nat]
    /\ totalShares \in 0..MaxShares
    /\ totalAssets \in 0..MaxAssets

\* Every share that exists is held by somebody: the running total the price is
\* computed from is the sum of the holdings, through every rounding and cap.
SharesSum == totalShares = Total(shares)

\* The types and the share sum, which the other properties rest on: no debit or
\* transfer takes more shares than its payer holds.
LedgerInv == TypeOK /\ SharesSum

\* The rounded balances shown to the users never add up to more than the
\* recorded assets, so that every user could be debited in full, in any order.
Solvent == Total([u \in Users |-> Balance(u)]) <= totalAssets

\* A credit, a debit or a transfer never lowers the balance of a user who is not
\* its payer: rounding always favours the pool (reconcile alone may rescale).
NoDilutionStep ==
    \A u \in Users :
       \/ Balance(u)' >= Balance(u)
       \/ \E a \in Amounts : Debit(u, a)
       \/ \E to \in Users, a \in Amounts : Move(u, to, a)
       \/ \E n \in Corrections : Reconcile(n)
NoDilution == [][NoDilutionStep]_vars

\* A transfer gives the payee at least the amount and costs the payer at least
\* the amount, whatever the price and whatever they held before.
PaidInFullStep ==
    \A from, to \in Users, a \in Amounts :
       Move(from, to, a) /\ from # to =>
          /\ Balance(to)' >= Balance(to) + a
          /\ Balance(from)' <= Balance(from) - a
PaidInFull == [][PaidInFullStep]_vars

\* What a payer loses to rounding beyond the amount is less than the value of
\* one share plus one unit: a debit or transfer never eats a second share.
LossBounded ==
    [][\A u \in Users, a \in Amounts :
          Debit(u, a) \/ (\E to \in Users \ {u} : Move(u, to, a)) =>
             totalShares * (Balance(u) - a - Balance(u)') < totalAssets + totalShares]_vars

\* Outstanding shares never become worthless (recorded assets 0) through
\* credits, debits, transfers and harvests; only a reconciliation can do that.
\* It matters because credits price shares 1:1 again while totalAssets is 0.
WorthlessStep ==
    (totalAssets = 0 => totalShares = 0)
      => \/ totalAssets' = 0 => totalShares' = 0
         \/ \E n \in Corrections : Reconcile(n)
WorthlessOnlyByReconcile == [][WorthlessStep]_vars
=============================================================================
