--------------------------- MODULE Contracts_proofs ---------------------------
(***************************************************************************)
(* What the contracts promise on their own, and what the platform writes   *)
(* down about them, for every value of the constants.                      *)
(* The share ledger of one currency: the inductive invariant LedgerInv     *)
(* says that the totals are well typed and totalShares is the sum of the   *)
(* holdings; what turns the rounding of one balance into a bound on their  *)
(* sum comes after it.                                                     *)
(* The treasury token: the supply is the sum of the balances, no account   *)
(* is frozen beyond its balance, and a paused or blacklisted balance moves *)
(* only by force.  The consumer registry: indexes, count and accumulators  *)
(* agree with the records and with the log, limits hold, and an identity   *)
(* outlives its wallet.  The deployment of a token: what the platform      *)
(* registers is wired.  The projection of the contracts' logs and the      *)
(* books beside it: BooksInv keeps the cursor, the rows, the gas ledger    *)
(* and the chain in step, and the history and the gas report follow; with  *)
(* ReportInv also the operators' reports, as sums over what was mined.     *)
(***************************************************************************)
EXTENDS ShareLedger, TreasuryToken, ConsumerRegistry, TreasuryDeploy, Reports, ShareMath_proofs

(***************************************************************************)
(*                            The share ledger                             *)
(***************************************************************************)
\* Under the invariant no holder has more shares than exist, and no balance
\* exceeds the recorded assets.
LEMMA HolderBounds ==
    ASSUME LedgerInv, NEW u \in Users
    PROVE  /\ shares[u] \in Nat /\ shares[u] <= totalShares
           /\ Balance(u) \in Nat /\ Balance(u) <= totalAssets
           /\ totalShares \in Nat /\ totalAssets \in Nat
  <1>1. /\ shares \in [Users -> Nat] /\ totalShares \in Nat /\ totalAssets \in Nat
        /\ totalShares = Total(shares)
    BY LedgerAssumption DEF LedgerInv, TypeOK, SharesSum
  <1>2. shares[u] \in Nat /\ shares[u] <= totalShares
    BY <1>1, LedgerAssumption, TotalMember
  <1>3. Balance(u) \in Nat /\ totalShares * Balance(u) <= shares[u] * totalAssets
    BY <1>1, <1>2, AssetsDownBounds DEF Balance
  <1>4. CASE totalShares = 0
    BY <1>1, <1>2, <1>4 DEF Balance, AssetsDown
  <1>5. CASE totalShares > 0
    <2>1. totalAssets * shares[u] <= totalAssets * totalShares
      BY <1>1, <1>2, Multiply
    <2>2. totalShares * Balance(u) <= totalShares * totalAssets
      BY <1>1, <1>2, <1>3, <2>1
    <2>3. Balance(u) <= totalAssets
      BY <1>1, <1>3, <1>5, <2>2, CancelFactor
    <2>4. QED
      BY <1>1, <1>2, <1>3, <2>3
  <1>6. QED
    BY <1>1, <1>4, <1>5

\* _creditAssets keeps the types and the share sum.
LEMMA CreditInv ==
    ASSUME LedgerInv, NEW u \in Users, NEW a \in Amounts, Credit(u, a)
    PROVE  LedgerInv'
  <1> DEFINE minted == SharesDown(totalShares, totalAssets, a)
  <1>1. a \in Nat /\ MaxAssets \in Nat /\ MaxShares \in Nat /\ IsFiniteSet(Users)
    BY LedgerAssumption
  <1>2. /\ shares \in [Users -> Nat] /\ shares[u] \in Nat
        /\ totalShares \in Nat /\ totalAssets \in Nat
    BY <1>1 DEF LedgerInv, TypeOK
  <1>3. minted \in Nat
    BY <1>1, <1>2, SharesDownBounds
  <1>4. /\ shares' = [shares EXCEPT ![u] = shares[u] + minted]
        /\ totalShares' = totalShares + minted /\ totalShares' <= MaxShares
        /\ totalAssets' = totalAssets + a /\ totalAssets' <= MaxAssets
    BY DEF Credit
  <1> HIDE DEF minted
  <1>5. TypeOK'
    BY <1>1, <1>2, <1>3, <1>4 DEF TypeOK
  <1>6. Total(shares') = Total(shares) - shares[u] + (shares[u] + minted)
    <2>1. shares[u] + minted \in Nat
      BY <1>2, <1>3
    <2>2. QED
      BY <1>1, <1>2, <1>4, <2>1, TotalExcept, ZenonT(90)
  <1>7. SharesSum'
    BY <1>1, <1>2, <1>3, <1>4, <1>6 DEF SharesSum, LedgerInv
  <1>8. QED
    BY <1>5, <1>7 DEF LedgerInv

\* _debitAssets keeps the types and the share sum, full exits included.
LEMMA DebitInv ==
    ASSUME LedgerInv, NEW u \in Users, NEW a \in Amounts, Debit(u, a)
    PROVE  LedgerInv'
  <1> DEFINE burned == BurnShares(totalShares, totalAssets, shares[u], a)
  <1>1. a \in Nat /\ MaxAssets \in Nat /\ MaxShares \in Nat /\ IsFiniteSet(Users)
    BY LedgerAssumption
  <1>2. /\ shares \in [Users -> Nat]
        /\ totalShares \in 0..MaxShares /\ totalAssets \in 0..MaxAssets
        /\ shares[u] \in Nat /\ totalShares \in Nat /\ totalAssets \in Nat
        /\ shares[u] <= totalShares /\ a <= totalAssets
    BY <1>1, HolderBounds DEF LedgerInv, TypeOK, Debit
  <1>3. burned \in 0..shares[u]
    BY <1>1, <1>2, BurnBounds
  <1>4. /\ shares' = [shares EXCEPT ![u] = shares[u] - burned]
        /\ totalShares' = totalShares - burned
        /\ totalAssets' = totalAssets - a
    BY DEF Debit
  <1> HIDE DEF burned
  <1>5. TypeOK'
    BY <1>1, <1>2, <1>3, <1>4 DEF TypeOK
  <1>6. Total(shares') = Total(shares) - shares[u] + (shares[u] - burned)
    <2>1. shares[u] - burned \in Nat
      BY <1>2, <1>3
    <2>2. QED
      BY <1>1, <1>2, <1>4, <2>1, TotalExcept, ZenonT(90)
  <1>7. SharesSum'
    BY <1>1, <1>2, <1>3, <1>4, <1>6 DEF SharesSum, LedgerInv
  <1>8. QED
    BY <1>5, <1>7 DEF LedgerInv

\* The share movement of transfer() keeps them, self-transfers included.
LEMMA MoveInv ==
    ASSUME LedgerInv, NEW from \in Users, NEW to \in Users, NEW a \in Amounts,
           Move(from, to, a)
    PROVE  LedgerInv'
  <1> DEFINE moved == MoveShares(totalShares, totalAssets, shares[from], a)
             mid == [shares EXCEPT ![from] = shares[from] - moved]
  <1>1. a \in Nat /\ MaxAssets \in Nat /\ MaxShares \in Nat /\ IsFiniteSet(Users)
    BY LedgerAssumption
  <1>2. /\ shares \in [Users -> Nat]
        /\ totalShares \in 0..MaxShares /\ totalAssets \in 0..MaxAssets
        /\ shares[from] \in Nat /\ totalShares \in Nat /\ totalAssets \in Nat
        /\ totalShares = Total(shares)
    BY <1>1 DEF LedgerInv, TypeOK, SharesSum
  <1>3. moved \in 0..shares[from]
    BY <1>1, <1>2, BurnBounds
  <1>4. /\ shares' = [mid EXCEPT ![to] = mid[to] + moved]
        /\ totalShares' = totalShares /\ totalAssets' = totalAssets
    BY <1>2 DEF Move
  <1> HIDE DEF moved
  <1>5. mid \in [Users -> Nat] /\ Total(mid) = Total(shares) - shares[from] + (shares[from] - moved)
    <2>1. shares[from] - moved \in Nat
      BY <1>2, <1>3
    <2>2. QED
      BY <1>1, <1>2, <2>1, TotalExcept, ZenonT(90)
  <1> HIDE DEF mid
  <1>6. mid[to] \in Nat /\ mid[to] + moved \in Nat /\ shares' \in [Users -> Nat]
    BY <1>2, <1>3, <1>4, <1>5
  <1>7. Total(shares') = Total(mid) - mid[to] + (mid[to] + moved)
    <2> DEFINE v == mid[to] + moved
    <2>1. v \in Nat /\ mid \in [Users -> Nat] /\ shares' = [mid EXCEPT ![to] = v]
      BY <1>4, <1>5, <1>6
    <2> HIDE DEF v
    <2>2. Total([mid EXCEPT ![to] = v]) = Total(mid) - mid[to] + v
      BY <1>1, <2>1, TotalExcept
    <2>3. QED
      BY <2>1, <2>2 DEF v
  <1>8. Total(shares') = Total(shares)
    BY <1>2, <1>3, <1>5, <1>6, <1>7
  <1>9. QED
    BY <1>2, <1>4, <1>6, <1>8 DEF LedgerInv, TypeOK, SharesSum

\* One step of the ledger keeps the invariant.
LEMMA LedgerStep == LedgerInv /\ [Next]_vars => LedgerInv'
  <1> SUFFICES ASSUME LedgerInv, [Next]_vars PROVE LedgerInv'
    OBVIOUS
  <1>1. ASSUME NEW a \in Amounts, Accrue(a) PROVE LedgerInv'
    BY <1>1, LedgerAssumption DEF LedgerInv, TypeOK, SharesSum, Accrue
  <1>2. ASSUME NEW n \in Corrections, Reconcile(n) PROVE LedgerInv'
    BY <1>2, LedgerAssumption DEF LedgerInv, TypeOK, SharesSum, Reconcile
  <1>3. CASE UNCHANGED vars
    BY <1>3 DEF LedgerInv, TypeOK, SharesSum, vars
  <1>4. QED
    BY <1>1, <1>2, <1>3, CreditInv, DebitInv, MoveInv DEF Next

\* The types and the share sum hold in every reachable state.
THEOREM LedgerInvariant == Spec => []LedgerInv
  <1>1. Init => LedgerInv
    BY LedgerAssumption, TotalZero DEF Init, LedgerInv, TypeOK, SharesSum
  <1>2. QED
    BY <1>1, LedgerStep, PTL DEF Spec

\* totalShares is the sum of the holdings after any history of credits, debits,
\* transfers, harvests and reconciliations.
THEOREM SharesSumTheorem == Spec => []SharesSum
  <1>1. LedgerInv => SharesSum
    BY DEF LedgerInv
  <1>2. QED
    BY <1>1, LedgerInvariant, PTL

-----------------------------------------------------------------------------
\* The sum of the rounded balances, from the sum of the shares: holder by holder
\* totalShares * balance <= shares * totalAssets.
LEMMA InvSolvent == LedgerInv => Solvent
  <1> SUFFICES ASSUME LedgerInv PROVE Solvent
    OBVIOUS
  <1> DEFINE b == [u \in Users |-> Balance(u)]
  <1>1. /\ IsFiniteSet(Users) /\ shares \in [Users -> Nat]
        /\ totalShares \in Nat /\ totalAssets \in Nat /\ totalShares = Total(shares)
    BY LedgerAssumption DEF LedgerInv, TypeOK, SharesSum
  <1>2. b \in [Users -> Nat]
    BY HolderBounds
  <1>3. CASE totalShares = 0
    <2>1. b = [u \in Users |-> 0]
      BY <1>3 DEF Balance, AssetsDown
    <2>2. Total(b) = 0
      BY <2>1, TotalZero
    <2>3. QED
      BY <1>1, <2>2 DEF Solvent
  <1>4. CASE totalShares > 0
    <2>1. \A u \in Users : totalShares * b[u] <= totalAssets * shares[u]
      <3>1. TAKE u \in Users
      <3>2. shares[u] \in Nat /\ b[u] = Balance(u)
        BY <1>1
      <3>3. totalShares * Balance(u) <= shares[u] * totalAssets
        BY <1>1, <3>2, AssetsDownBounds DEF Balance
      <3>4. QED
        BY <1>1, <3>2, <3>3
    <2> HIDE DEF b
    <2>2. totalShares * Total(b) <= totalAssets * totalShares
      BY <1>1, <1>2, <2>1, TotalBound
    <2>3. Total(b) \in Nat
      BY <1>1, <1>2, TotalType
    <2>4. totalShares * Total(b) <= totalShares * totalAssets
      BY <1>1, <2>2, <2>3
    <2>5. Total(b) <= totalAssets
      BY <1>1, <1>4, <2>3, <2>4, CancelFactor
    <2>6. QED
      BY <2>5 DEF Solvent, b
  <1>5. QED
    BY <1>1, <1>3, <1>4

\* The balances of all users together never exceed the recorded assets.
THEOREM SolventTheorem == Spec => []Solvent
  BY LedgerInvariant, InvSolvent, PTL

-----------------------------------------------------------------------------
\* More shares are worth no less.
LEMMA MoreShares ==
    ASSUME NEW ts \in Nat, NEW ta \in Nat, NEW s \in Nat, NEW s2 \in Nat, s <= s2
    PROVE  AssetsDown(ts, ta, s) <= AssetsDown(ts, ta, s2)
  <1> DEFINE b == AssetsDown(ts, ta, s)
  <1>1. b \in Nat /\ ts * b <= s * ta
    BY AssetsDownBounds
  <1>2. CASE ts = 0
    BY <1>2 DEF AssetsDown
  <1>3. CASE ts > 0
    <2> HIDE DEF b
    <2>1. ta * s <= ta * s2
      BY Multiply
    <2>2. ts * b <= s2 * ta /\ s2 * ta \in Nat
      BY <1>1, <2>1
    <2>3. b <= (s2 * ta) \div ts
      BY <1>1, <1>3, <2>2, QuotientLargest
    <2>4. QED
      BY <1>3, <2>3 DEF b, AssetsDown
  <1>4. QED
    BY <1>2, <1>3

\* The shares that are burned or moved for an affordable amount cover it.
LEMMA BurnCovers ==
    ASSUME NEW ts \in Nat, NEW ta \in Nat, NEW s \in Nat, NEW a \in Nat,
           ts > 0, ta > 0, a <= AssetsDown(ts, ta, s)
    PROVE  /\ a * ts <= ta * BurnShares(ts, ta, s, a)
           /\ a * ts <= ta * MoveShares(ts, ta, s, a)
  <1> DEFINE n == SharesUp(ts, ta, a)
             b == AssetsDown(ts, ta, s)
  <1>1. n \in Nat /\ a * ts <= ta * n
    BY SharesUpBounds
  <1>2. n <= s
    BY AffordableShares
  <1>3. b \in Nat /\ ts * b <= s * ta
    BY AssetsDownBounds
  <1>4. MoveShares(ts, ta, s, a) = n
    BY <1>1, <1>2 DEF MoveShares
  <1>5. BurnShares(ts, ta, s, a) = IF a = b THEN s ELSE n
    BY <1>1, <1>2 DEF BurnShares
  <1> HIDE DEF n, b
  <1>6. QED
    BY <1>1, <1>3, <1>4, <1>5

\* Without shares or without assets every balance is 0.
LEMMA NoWorth ==
    ASSUME NEW ts \in Nat, NEW ta \in Nat, NEW s \in Nat, ts = 0 \/ ta = 0
    PROVE  AssetsDown(ts, ta, s) = 0
  <1> DEFINE b == AssetsDown(ts, ta, s)
  <1>1. b \in Nat /\ ts * b <= s * ta
    BY AssetsDownBounds
  <1>2. CASE ts = 0
    BY <1>2 DEF AssetsDown
  <1>3. CASE ts > 0
    <2> HIDE DEF b
    <2>1. s * ta = 0
      BY <1>3
    <2>2. ts * b <= ts * 0
      BY <1>1, <2>1
    <2>3. b <= 0
      BY <1>1, <1>3, <2>2, CancelFactor
    <2>4. QED
      BY <1>1, <2>3 DEF b
  <1>4. QED
    BY <1>2, <1>3

\* A credit lowers no balance: minting rounds down.
LEMMA CreditDilutes ==
    ASSUME LedgerInv, NEW w \in Users, NEW a \in Amounts, Credit(w, a), NEW u \in Users
    PROVE  Balance(u)' >= Balance(u)
  <1> DEFINE minted == SharesDown(totalShares, totalAssets, a)
  <1>1. a \in Nat /\ shares \in [Users -> Nat] /\ shares[u] \in Nat
        /\ totalShares \in Nat /\ totalAssets \in Nat
    BY LedgerAssumption DEF LedgerInv, TypeOK
  <1>2. /\ minted \in Nat
        /\ totalShares > 0 /\ totalAssets > 0 => totalAssets * minted <= a * totalShares
    BY <1>1, SharesDownBounds
  <1>3. /\ shares' = [shares EXCEPT ![w] = shares[w] + minted]
        /\ totalShares' = totalShares + minted
        /\ totalAssets' = totalAssets + a
    BY DEF Credit
  <1> HIDE DEF minted
  <1>4. shares'[u] \in Nat /\ shares[u] <= shares'[u]
    BY <1>1, <1>2, <1>3
  <1>5. totalShares' \in Nat /\ totalAssets' \in Nat
    BY <1>1, <1>2, <1>3
  <1>6. Balance(u)' \in Nat
    BY <1>4, <1>5, AssetsDownBounds DEF Balance
  <1>7. CASE totalShares = 0 \/ totalAssets = 0
    <2>1. Balance(u) = 0
      BY <1>1, <1>7, NoWorth DEF Balance
    <2>2. QED
      BY <1>6, <2>1
  <1>8. CASE totalShares > 0 /\ totalAssets > 0
    <2>1. totalAssets * totalShares' <= totalAssets' * totalShares
      BY <1>1, <1>2, <1>3, <1>8
    <2>2. totalShares' > 0
      BY <1>1, <1>2, <1>3, <1>8
    <2>3. AssetsDown(totalShares, totalAssets, shares[u])
            <= AssetsDown(totalShares', totalAssets', shares[u])
      BY <1>1, <1>5, <1>8, <2>1, <2>2, PriceUp
    <2>4. AssetsDown(totalShares', totalAssets', shares[u])
            <= AssetsDown(totalShares', totalAssets', shares'[u])
      BY <1>1, <1>4, <1>5, MoreShares
    <2>5. /\ AssetsDown(totalShares, totalAssets, shares[u]) \in Nat
          /\ AssetsDown(totalShares', totalAssets', shares[u]) \in Nat
      BY <1>1, <1>5, AssetsDownBounds
    <2>6. QED
      BY <1>6, <2>3, <2>4, <2>5 DEF Balance
  <1>9. QED
    BY <1>1, <1>7, <1>8

\* A debit lowers no other balance: burning rounds up.
LEMMA DebitDilutes ==
    ASSUME LedgerInv, NEW w \in Users, NEW a \in Amounts, Debit(w, a),
           NEW u \in Users, u # w
    PROVE  Balance(u)' >= Balance(u)
  <1> DEFINE burned == BurnShares(totalShares, totalAssets, shares[w], a)
  <1>1. /\ a \in Nat /\ shares \in [Users -> Nat] /\ shares[u] \in Nat /\ shares[w] \in Nat
        /\ totalShares \in Nat /\ totalAssets \in Nat
        /\ a <= AssetsDown(totalShares, totalAssets, shares[w])
    BY LedgerAssumption DEF LedgerInv, TypeOK, Debit, Balance
  <1>2. burned \in Nat
    BY <1>1, BurnBounds
  <1>3. /\ shares' = [shares EXCEPT ![w] = shares[w] - burned]
        /\ totalShares' = totalShares - burned
        /\ totalAssets' = totalAssets - a
    BY DEF Debit
  <1>4. LedgerInv'
    BY DebitInv
  <1>5. /\ totalShares' \in Nat /\ totalAssets' \in Nat /\ shares'[u] = shares[u]
        /\ Balance(u)' \in Nat
    <2>1. totalShares' \in Nat /\ totalAssets' \in Nat
      BY <1>4, LedgerAssumption DEF LedgerInv, TypeOK
    <2>2. shares'[u] = shares[u]
      BY <1>1, <1>3
    <2>3. QED
      BY <1>1, <2>1, <2>2, AssetsDownBounds DEF Balance
  <1>6. CASE totalShares = 0 \/ totalAssets = 0
    BY <1>1, <1>5, <1>6, NoWorth DEF Balance
  <1>7. CASE totalShares > 0 /\ totalAssets > 0 /\ totalShares' = 0
    <2>1. shares'[u] = 0
      <3>1. shares' \in [Users -> Nat] /\ Total(shares') = 0 /\ IsFiniteSet(Users)
        BY <1>4, <1>7, LedgerAssumption DEF LedgerInv, TypeOK, SharesSum
      <3>2. shares'[u] <= 0 /\ shares'[u] \in Nat
        BY <3>1, TotalMember
      <3>3. QED
        BY <3>2
    <2>2. totalShares * Balance(u) <= 0 /\ Balance(u) \in Nat
      <3>1. shares[u] = 0 /\ shares[u] * totalAssets = 0
        BY <1>1, <1>5, <2>1
      <3>2. QED
        BY <1>1, <3>1, AssetsDownBounds DEF Balance
    <2>3. Balance(u) <= 0
      <3>1. totalShares * Balance(u) <= totalShares * 0
        BY <1>1, <2>2
      <3>2. QED
        BY <1>1, <1>7, <2>2, <3>1, CancelFactor
    <2>4. QED
      BY <1>5, <2>2, <2>3
  <1>8. CASE totalShares > 0 /\ totalAssets > 0 /\ totalShares' > 0
    <2>1. a * totalShares <= totalAssets * burned
      BY <1>1, <1>8, BurnCovers
    <2> HIDE DEF burned
    <2>2. totalAssets * totalShares' <= totalAssets' * totalShares
      BY <1>1, <1>2, <1>3, <2>1
    <2>3. AssetsDown(totalShares, totalAssets, shares[u])
            <= AssetsDown(totalShares', totalAssets', shares[u])
      BY <1>1, <1>5, <1>8, <2>2, PriceUp
    <2>4. Balance(u) <= Balance(u)' /\ Balance(u) \in Nat
      BY <1>1, <1>5, <2>3, AssetsDownBounds DEF Balance
    <2>5. QED
      BY <1>5, <2>4
  <1>9. QED
    BY <1>1, <1>5, <1>6, <1>7, <1>8

\* A transfer lowers no balance but the payer's.
LEMMA MoveDilutes ==
    ASSUME LedgerInv, NEW from \in Users, NEW to \in Users, NEW a \in Amounts,
           Move(from, to, a), NEW u \in Users, u # from
    PROVE  Balance(u)' >= Balance(u)
  <1> DEFINE moved == MoveShares(totalShares, totalAssets, shares[from], a)
  <1>1. /\ a \in Nat /\ shares \in [Users -> Nat] /\ shares[u] \in Nat
        /\ shares[from] \in Nat /\ totalShares \in Nat /\ totalAssets \in Nat
    BY LedgerAssumption DEF LedgerInv, TypeOK
  <1>2. moved \in 0..shares[from]
    BY <1>1, BurnBounds
  <1>3. /\ shares' = [[shares EXCEPT ![from] = @ - moved] EXCEPT ![to] = @ + moved]
        /\ totalShares' = totalShares /\ totalAssets' = totalAssets
    BY DEF Move
  <1> HIDE DEF moved
  <1>4. shares'[u] \in Nat /\ shares[u] <= shares'[u]
    BY <1>1, <1>2, <1>3
  <1>5. Balance(u) <= Balance(u)'
    BY <1>1, <1>3, <1>4, MoreShares DEF Balance
  <1>6. Balance(u) \in Nat /\ Balance(u)' \in Nat
    BY <1>1, <1>3, <1>4, AssetsDownBounds DEF Balance
  <1>7. QED
    BY <1>5, <1>6

\* A harvest lowers no balance.
LEMMA AccrueDilutes ==
    ASSUME LedgerInv, NEW a \in Amounts, Accrue(a), NEW u \in Users
    PROVE  Balance(u)' >= Balance(u)
  <1>1. /\ a \in Nat /\ shares[u] \in Nat /\ totalShares \in Nat /\ totalAssets \in Nat
        /\ shares'[u] = shares[u] /\ totalShares' = totalShares
        /\ totalAssets' = totalAssets + a /\ totalAssets' \in Nat
    BY LedgerAssumption DEF LedgerInv, TypeOK, Accrue
  <1>2. Balance(u) \in Nat /\ Balance(u)' \in Nat
    BY <1>1, AssetsDownBounds DEF Balance
  <1>3. CASE totalShares = 0
    BY <1>1, <1>2, <1>3, NoWorth DEF Balance
  <1>4. CASE totalShares > 0
    <2>1. totalAssets * totalShares <= totalAssets' * totalShares
      BY <1>1
    <2>2. AssetsDown(totalShares, totalAssets, shares[u])
            <= AssetsDown(totalShares, totalAssets', shares[u])
      BY <1>1, <1>4, <2>1, PriceUp
    <2>3. QED
      BY <1>1, <1>2, <2>2 DEF Balance
  <1>5. QED
    BY <1>1, <1>3, <1>4

\* No credit, debit, transfer or harvest lowers the balance of a user other than
\* the payer, whatever the price, the amounts and the number of holders.
THEOREM NoDilutionTheorem == Spec => NoDilution
  <1>1. LedgerInv /\ [Next]_vars => [NoDilutionStep]_vars
    <2> SUFFICES ASSUME LedgerInv, Next, NEW u \in Users
                 PROVE  \/ Balance(u)' >= Balance(u)
                        \/ \E a \in Amounts : Debit(u, a)
                        \/ \E to \in Users, a \in Amounts : Move(u, to, a)
                        \/ \E n \in Corrections : Reconcile(n)
      BY DEF NoDilutionStep
    <2>1. CASE \E w \in Users, a \in Amounts : Credit(w, a)
      BY <2>1, CreditDilutes
    <2>2. CASE \E w \in Users, a \in Amounts : Debit(w, a)
      BY <2>2, DebitDilutes
    <2>3. CASE \E from, to \in Users, a \in Amounts : Move(from, to, a)
      BY <2>3, MoveDilutes
    <2>4. CASE \E a \in Amounts : Accrue(a)
      BY <2>4, AccrueDilutes
    <2>5. QED
      BY <2>1, <2>2, <2>3, <2>4 DEF Next
  <1>2. QED
    BY <1>1, LedgerInvariant, PTL DEF Spec, NoDilution

-----------------------------------------------------------------------------
\* A payee's balance grows by the amount when the shares it gets cover it.
LEMMA ReceivedWorth ==
    ASSUME NEW ts \in Nat, NEW ta \in Nat, NEW s \in Nat, NEW m \in Nat, NEW a \in Nat,
           ts > 0, a * ts <= ta * m
    PROVE  AssetsDown(ts, ta, s) + a <= AssetsDown(ts, ta, s + m)
  <1> DEFINE b == AssetsDown(ts, ta, s)
  <1>1. b \in Nat /\ ts * b <= s * ta
    BY AssetsDownBounds
  <1>2. AssetsDown(ts, ta, s + m) = ((s + m) * ta) \div ts
    BY DEF AssetsDown
  <1> HIDE DEF b
  <1>3. ts * (b + a) <= (s + m) * ta /\ (s + m) * ta \in Nat
    BY <1>1
  <1>4. b + a <= ((s + m) * ta) \div ts
    BY <1>1, <1>3, QuotientLargest
  <1>5. QED
    BY <1>2, <1>4 DEF b

\* Every transfer pays in full: the payee gains and the payer gives up at least
\* the amount that was sent.
THEOREM PaidInFullTheorem == Spec => PaidInFull
  <1>1. LedgerInv => PaidInFullStep
    <2> SUFFICES ASSUME LedgerInv, NEW from \in Users, NEW to \in Users,
                        NEW a \in Amounts, Move(from, to, a), from # to
                 PROVE  /\ Balance(to)' >= Balance(to) + a
                        /\ Balance(from)' <= Balance(from) - a
      BY DEF PaidInFullStep
    <2> DEFINE moved == MoveShares(totalShares, totalAssets, shares[from], a)
               sf == shares[from]
               st == shares[to]
    <2>1. /\ a \in Nat /\ shares \in [Users -> Nat] /\ sf \in Nat /\ st \in Nat
          /\ totalShares \in Nat /\ totalAssets \in Nat
          /\ a <= AssetsDown(totalShares, totalAssets, sf)
      BY LedgerAssumption DEF LedgerInv, TypeOK, Move, Balance
    <2>2. moved \in 0..sf
      BY <2>1, BurnBounds
    <2>3. /\ shares' = [[shares EXCEPT ![from] = @ - moved] EXCEPT ![to] = @ + moved]
          /\ totalShares' = totalShares /\ totalAssets' = totalAssets
      BY DEF Move
    <2>4. totalShares > 0 => a * totalShares <= totalAssets * moved
      <3>1. CASE totalShares = 0
        BY <3>1
      <3>2. CASE totalShares > 0 /\ totalAssets = 0
        <4>1. a = 0
          BY <2>1, <3>2, NoWorth
        <4>2. QED
          BY <2>1, <2>2, <3>2, <4>1
      <3>3. CASE totalShares > 0 /\ totalAssets > 0
        BY <2>1, <3>3, BurnCovers
      <3>4. QED
        BY <2>1, <3>1, <3>2, <3>3
    <2> HIDE DEF moved
    <2>5. shares'[to] = st + moved /\ shares'[from] = sf - moved
      BY <2>1, <2>2, <2>3
    <2>6. /\ Balance(to)' = AssetsDown(totalShares, totalAssets, st + moved)
          /\ Balance(from)' = AssetsDown(totalShares, totalAssets, sf - moved)
          /\ Balance(to) = AssetsDown(totalShares, totalAssets, st)
          /\ Balance(from) = AssetsDown(totalShares, totalAssets, sf)
      BY <2>3, <2>5 DEF Balance
    <2> DEFINE bt == Balance(to)
               bf == Balance(from)
               bt2 == Balance(to)'
               bf2 == Balance(from)'
    <2>7. bt \in Nat /\ bf \in Nat /\ bt2 \in Nat /\ bf2 \in Nat
      BY <2>1, <2>2, <2>6, AssetsDownBounds, SMTT(60)
    <2>8. CASE totalShares = 0
      <3>1. bt = 0 /\ bf = 0 /\ bt2 = 0 /\ bf2 = 0 /\ a = 0
        BY <2>1, <2>2, <2>6, <2>8, NoWorth
      <3>2. QED
        BY <3>1
    <2>9. CASE totalShares > 0
      <3>1. bt + a <= bt2
        BY <2>1, <2>2, <2>4, <2>6, <2>9, ReceivedWorth
      <3>2. bf2 + a <= bf
        <4>1. sf - moved \in Nat /\ (sf - moved) + moved = sf
          BY <2>1, <2>2
        <4>2. AssetsDown(totalShares, totalAssets, sf - moved) + a
                <= AssetsDown(totalShares, totalAssets, (sf - moved) + moved)
          BY <2>1, <2>2, <2>4, <2>9, <4>1, ReceivedWorth
        <4>3. QED
          BY <2>6, <4>1, <4>2
      <3> HIDE DEF bt, bf, bt2, bf2
      <3>3. bt2 >= bt + a /\ bf2 <= bf - a
        BY <2>1, <2>7, <3>1, <3>2
      <3>4. QED
        BY <3>3 DEF bt, bf, bt2, bf2
    <2>10. QED
      BY <2>1, <2>8, <2>9
  <1>2. QED
    BY <1>1, LedgerInvariant, PTL DEF Spec, PaidInFull

-----------------------------------------------------------------------------
\* A debit that takes the last recorded asset burns the last share.
LEMMA LastAssetLastShare ==
    ASSUME LedgerInv, NEW u \in Users, NEW a \in Amounts, Debit(u, a),
           totalAssets = 0 => totalShares = 0, totalAssets' = 0
    PROVE  totalShares' = 0
  <1> DEFINE s == shares[u]
  <1>1. /\ a \in Nat /\ s \in Nat /\ totalShares \in Nat /\ totalAssets \in Nat
        /\ s <= totalShares /\ Balance(u) \in Nat /\ Balance(u) <= totalAssets
        /\ Balance(u) >= a /\ totalAssets' = totalAssets - a
        /\ totalShares' = totalShares - BurnShares(totalShares, totalAssets, s, a)
    BY LedgerAssumption, HolderBounds DEF Debit
  <1>2. a = totalAssets /\ Balance(u) = a
    BY <1>1
  <1>3. BurnShares(totalShares, totalAssets, s, a) = s
    BY <1>1, <1>2 DEF BurnShares, Balance
  <1>4. CASE totalShares = 0
    BY <1>1, <1>3, <1>4
  <1>5. CASE totalShares > 0
    <2>1. totalAssets > 0
      BY <1>1, <1>5
    <2>2. totalShares * totalAssets <= s * totalAssets
      BY <1>1, <1>2, AssetsDownBounds DEF Balance
    <2> HIDE DEF s
    <2>3. totalAssets * totalShares <= totalAssets * s
      BY <1>1, <2>2
    <2>4. totalShares <= s
      BY <1>1, <2>1, <2>3, CancelFactor
    <2>5. QED
      BY <1>1, <1>3, <2>4
  <1>6. QED
    BY <1>1, <1>4, <1>5

\* Credits, debits, transfers and harvests never leave shares without assets.
THEOREM WorthlessTheorem == Spec => WorthlessOnlyByReconcile
  <1>1. LedgerInv /\ [Next]_vars => [WorthlessStep]_vars
    <2> SUFFICES ASSUME LedgerInv, Next, totalAssets = 0 => totalShares = 0,
                        ~ \E n \in Corrections : Reconcile(n), totalAssets' = 0
                 PROVE  totalShares' = 0
      BY DEF WorthlessStep
    <2>1. totalShares \in Nat /\ totalAssets \in Nat
      BY LedgerAssumption DEF LedgerInv, TypeOK
    <2>2. ASSUME NEW u \in Users, NEW a \in Amounts, Credit(u, a) PROVE totalShares' = 0
      <3>1. a \in Nat /\ totalAssets' = totalAssets + a
        BY <2>2, LedgerAssumption DEF Credit
      <3>2. a = 0 /\ totalShares = 0
        BY <2>1, <3>1
      <3>3. QED
        BY <2>2, <3>2 DEF Credit, SharesDown
    <2>3. ASSUME NEW u \in Users, NEW a \in Amounts, Debit(u, a) PROVE totalShares' = 0
      BY <2>3, LastAssetLastShare
    <2>4. ASSUME NEW from \in Users, NEW to \in Users, NEW a \in Amounts, Move(from, to, a)
          PROVE  totalShares' = 0
      BY <2>4 DEF Move
    <2>5. ASSUME NEW a \in Amounts, Accrue(a) PROVE totalShares' = 0
      BY <2>1, <2>5, LedgerAssumption DEF Accrue
    <2>6. QED
      BY <2>2, <2>3, <2>4, <2>5 DEF Next
  <1>2. QED
    BY <1>1, LedgerInvariant, PTL DEF Spec, WorthlessOnlyByReconcile
-----------------------------------------------------------------------------
\* A holding is worth at least its value at the old price, rounded down once, when the
\* price has not fallen.
LEMMA WorthAfter ==
    ASSUME NEW ts \in Nat, NEW ta \in Nat, ts > 0, NEW ts2 \in Nat, NEW ta2 \in Nat,
           NEW s2 \in Nat, s2 <= ts2, ta * ts2 <= ta2 * ts
    PROVE  s2 * ta < ts * (AssetsDown(ts2, ta2, s2) + 1)
  <1> DEFINE b2 == AssetsDown(ts2, ta2, s2)
  <1>1. b2 \in Nat /\ (ts2 > 0 => s2 * ta2 < ts2 * b2 + ts2)
    BY AssetsDownBounds
  <1> HIDE DEF b2
  <1>2. CASE ts2 = 0
    <2>1. s2 = 0
      BY <1>2
    <2>2. s2 * ta = 0
      BY <2>1
    <2>3. ts * (b2 + 1) > 0
      <3>1. PICK k \in Nat : k = b2 + 1
        BY <1>1
      <3>2. ts * k > 0
        BY <1>1, <3>1
      <3>3. QED
        BY <3>1, <3>2
    <2>4. QED
      BY <2>2, <2>3 DEF b2
  <1>3. CASE ts2 > 0
    <2>1. s2 * ta2 < ts2 * (b2 + 1)
      BY <1>1, <1>3
    <2>2. s2 * (ta * ts2) <= s2 * (ta2 * ts)
      BY Multiply
    <2>3. ts * (s2 * ta2) < ts * (ts2 * (b2 + 1))
      BY <1>1, <2>1
    <2>4. ts2 * (s2 * ta) < ts2 * (ts * (b2 + 1))
      BY <1>1, <2>2, <2>3
    <2>5. QED
      BY <1>1, <2>4, CancelStrict DEF b2
  <1>4. QED
    BY <1>2, <1>3

\* Taking n shares for an amount that is worth almost n shares costs almost one more.
LEMMA LossOf ==
    ASSUME NEW ts \in Nat, NEW ta \in Nat, NEW s \in Nat, NEW a \in Nat, NEW n \in 0..s,
           NEW b \in Nat, NEW b2 \in Nat, ts * b <= s * ta,
           (s - n) * ta < ts * (b2 + 1), ta * n < a * ts + ta
    PROVE  ts * (b - a - b2) < ta + ts
  <1>1. (s - n) * ta = s * ta - ta * n
    OBVIOUS
  <1>2. ts * (b2 + 1) = ts * b2 + ts
    OBVIOUS
  <1>3. ts * (b - a - b2) = ts * b - a * ts - ts * b2
    OBVIOUS
  <1>4. ts * b \in Nat /\ s * ta \in Nat /\ a * ts \in Nat /\ ta * n \in Nat /\ ts * b2 \in Nat
    OBVIOUS
  <1>5. QED
    BY <1>1, <1>2, <1>3, <1>4

\* No shares are worth nothing.
LEMMA NoShares ==
    ASSUME NEW ts \in Nat, NEW ta \in Nat, NEW s \in Nat, s = 0
    PROVE  AssetsDown(ts, ta, s) = 0
  <1> DEFINE b == AssetsDown(ts, ta, s)
  <1>1. b \in Nat /\ ts * b <= s * ta
    BY AssetsDownBounds
  <1> HIDE DEF b
  <1>2. CASE ts = 0
    BY <1>2 DEF AssetsDown, b
  <1>3. CASE ts > 0
    <2>1. s * ta = 0
      OBVIOUS
    <2>2. ts * b <= 0
      BY <1>1, <2>1
    <2>3. b <= 0
      BY <1>1, <1>3, <2>2
    <2>4. QED
      BY <1>1, <2>3 DEF b
  <1>4. QED
    BY <1>2, <1>3

\* A debit costs its payer less than one share and one unit beyond the amount.
LEMMA DebitLoss ==
    ASSUME LedgerInv, NEW u \in Users, NEW a \in Amounts, Debit(u, a), totalShares > 0
    PROVE  totalShares * (Balance(u) - a - Balance(u)') < totalAssets + totalShares
  <1> DEFINE ts == totalShares
             ta == totalAssets
             s == shares[u]
             b == Balance(u)
             n == BurnShares(ts, ta, s, a)
             b2 == AssetsDown(ts - n, ta - a, s - n)
  <1>1. /\ a \in Nat /\ s \in Nat /\ ts \in Nat /\ ta \in Nat /\ s <= ts
        /\ b \in Nat /\ b <= ta /\ b >= a /\ b = AssetsDown(ts, ta, s)
    BY LedgerAssumption, HolderBounds DEF Debit, Balance
  <1>2. n \in 0..s
    BY <1>1, BurnBounds
  <1>3. Balance(u)' = b2
    <2>1. shares \in [Users -> Nat]
      BY DEF LedgerInv, TypeOK
    <2>2. shares'[u] = s - n /\ totalShares' = ts - n /\ totalAssets' = ta - a
      BY <2>1 DEF Debit
    <2>3. QED
      BY <2>2 DEF Balance
  <1>4. ts - n \in Nat /\ ta - a \in Nat /\ s - n \in Nat /\ s - n <= ts - n
    BY <1>1, <1>2
  <1>5. b2 \in Nat
    BY <1>4, AssetsDownBounds
  <1>6. CASE a = b
    <2>1. n = s
      BY <1>1, <1>6, BurnBounds DEF BurnShares
    <2> HIDE DEF n
    <2>2. b2 = 0
      <3>0. s - n = 0
        BY <1>1, <2>1
      <3>1. PICK z \in Nat : z = s - n /\ z = 0
        BY <3>0
      <3>2. AssetsDown(ts - n, ta - a, z) = 0
        BY <1>4, <3>1, NoShares
      <3>3. QED
        BY <3>1, <3>2
    <2> HIDE DEF ts, ta, b, b2
    <2>3. b - a - b2 = 0 /\ ts * 0 = 0
      BY <1>1, <1>6, <2>2
    <2>4. ts * (b - a - b2) < ta + ts
      BY <1>1, <2>3 DEF ts
    <2>5. QED
      BY <1>3, <2>4 DEF ts, ta, b
  <1>7. CASE a # b
    <2>1. ta > 0
      BY <1>1, <1>7
    <2>2. SharesUp(ts, ta, a) \in Nat /\ SharesUp(ts, ta, a) <= s
      BY <1>1, <2>1, SharesUpBounds, AffordableShares
    <2>3. n = SharesUp(ts, ta, a)
      BY <1>1, <1>7, <2>2 DEF BurnShares
    <2>4. a * ts <= ta * n /\ ta * n < a * ts + ta
      BY <1>1, <2>1, <2>3, SharesUpBounds
    <2>5. ts * b <= s * ta
      BY <1>1, AssetsDownBounds
    <2> HIDE DEF n, b
    <2>6. ta * (ts - n) <= (ta - a) * ts
      <3>1. ta * (ts - n) = ta * ts - ta * n /\ (ta - a) * ts = ta * ts - a * ts
        BY <1>1, <1>2
      <3>2. ta * ts \in Nat /\ ta * n \in Nat /\ a * ts \in Nat
        BY <1>1, <1>2
      <3>3. QED
        BY <2>4, <3>1, <3>2
    <2>7. (s - n) * ta < ts * (b2 + 1)
      BY <1>1, <1>4, <2>6, WorthAfter
    <2> HIDE DEF b2
    <2>8. ts * (b - a - b2) < ta + ts
      BY <1>1, <1>2, <1>5, <2>4, <2>5, <2>7, LossOf
    <2>9. QED
      BY <1>3, <2>8 DEF b
  <1>8. QED
    BY <1>6, <1>7

\* So does a transfer.
LEMMA MoveLoss ==
    ASSUME LedgerInv, NEW u \in Users, NEW to \in Users \ {u}, NEW a \in Amounts, Move(u, to, a),
           totalShares > 0
    PROVE  totalShares * (Balance(u) - a - Balance(u)') < totalAssets + totalShares
  <1> DEFINE ts == totalShares
             ta == totalAssets
             s == shares[u]
             b == Balance(u)
             n == MoveShares(ts, ta, s, a)
             b2 == AssetsDown(ts, ta, s - n)
  <1>1. /\ a \in Nat /\ s \in Nat /\ ts \in Nat /\ ta \in Nat /\ s <= ts
        /\ b \in Nat /\ b <= ta /\ b >= a /\ b = AssetsDown(ts, ta, s)
    BY LedgerAssumption, HolderBounds DEF Move, Balance
  <1>2. n \in 0..s
    BY <1>1, BurnBounds
  <1>3. Balance(u)' = b2
    <2>1. shares \in [Users -> Nat]
      BY DEF LedgerInv, TypeOK
    <2>2. shares'[u] = s - n /\ totalShares' = ts /\ totalAssets' = ta
      BY <2>1 DEF Move
    <2>3. QED
      BY <2>2 DEF Balance
  <1>4. s - n \in Nat /\ s - n <= ts /\ b2 \in Nat
    <2>1. s - n \in Nat /\ s - n <= ts
      BY <1>1, <1>2
    <2>2. QED
      BY <1>1, <2>1, AssetsDownBounds
  <1>5. CASE ta = 0
    <2>1. b = 0 /\ a = 0
      BY <1>1, <1>5
    <2>2. b2 = 0
      BY <1>1, <1>4, <1>5, BalanceBound
    <2> HIDE DEF ts, ta, b, b2
    <2>3. b - a - b2 = 0 /\ ts * 0 = 0
      BY <1>1, <2>1, <2>2
    <2>4. ts * (b - a - b2) < ta + ts
      BY <1>1, <2>3 DEF ts
    <2>5. QED
      BY <1>3, <2>4 DEF ts, ta, b
  <1>6. CASE ta > 0
    <2>1. SharesUp(ts, ta, a) \in Nat /\ ta * SharesUp(ts, ta, a) < a * ts + ta
      BY <1>1, <1>6, SharesUpBounds
    <2>2. SharesUp(ts, ta, a) <= s
      BY <1>1, <1>6, AffordableShares
    <2>3. n = SharesUp(ts, ta, a)
      BY <1>1, <2>1, <2>2 DEF MoveShares
    <2>4. ts * b <= s * ta
      BY <1>1, AssetsDownBounds
    <2> HIDE DEF n, b
    <2>5. (s - n) * ta < ts * (b2 + 1)
      <3>1. ta * ts <= ta * ts
        BY <1>1
      <3>2. QED
        BY <1>1, <1>4, <3>1, WorthAfter
    <2> HIDE DEF b2
    <2>6. ts * (b - a - b2) < ta + ts
      BY <1>1, <1>2, <1>4, <2>1, <2>3, <2>4, <2>5, LossOf
    <2>7. QED
      BY <1>3, <2>6 DEF b
  <1>7. QED
    BY <1>1, <1>5, <1>6

\* A debit or a transfer never costs its payer a second share to rounding, at any price.
THEOREM LossTheorem == Spec => LossBounded
  <1> DEFINE Loss == \A u \in Users, a \in Amounts :
                        Debit(u, a) \/ (\E to \in Users \ {u} : Move(u, to, a)) =>
                           totalShares * (Balance(u) - a - Balance(u)') < totalAssets + totalShares
  <1>1. LedgerInv /\ [Next]_vars => [Loss]_vars
    <2> SUFFICES ASSUME LedgerInv, ~ UNCHANGED vars, NEW u \in Users, NEW a \in Amounts,
                        Debit(u, a) \/ (\E to \in Users \ {u} : Move(u, to, a))
                 PROVE  totalShares * (Balance(u) - a - Balance(u)') < totalAssets + totalShares
      OBVIOUS
    <2>1. /\ a \in Nat /\ shares \in [Users -> Nat] /\ totalShares \in Nat /\ totalAssets \in Nat
          /\ \A v \in Users : shares[v] <= totalShares
      BY LedgerAssumption, HolderBounds DEF LedgerInv, TypeOK
    <2>2. CASE totalShares > 0
      BY <2>2, DebitLoss, MoveLoss
    <2>3. CASE totalShares = 0
      <3>1. \A v \in Users : shares[v] = 0
        BY <2>1, <2>3
      <3>2. Balance(u) = 0 /\ a = 0
        BY <2>1, <2>3 DEF Balance, AssetsDown, Debit, Move
      <3>3. BurnShares(totalShares, totalAssets, 0, a) = 0 /\ MoveShares(totalShares, totalAssets, 0, a) = 0
        <4>1. PICK z \in Nat : z = 0
          OBVIOUS
        <4>2. BurnShares(totalShares, totalAssets, z, a) \in 0..z /\ MoveShares(totalShares, totalAssets, z, a) \in 0..z
          BY <2>1, BurnBounds
        <4>3. QED
          BY <4>1, <4>2
      <3>4. UNCHANGED vars
        <4>1. CASE Debit(u, a)
          BY <2>1, <3>1, <3>2, <3>3, <4>1 DEF Debit, vars
        <4>2. CASE \E to \in Users \ {u} : Move(u, to, a)
          BY <2>1, <3>1, <3>2, <3>3, <4>2 DEF Move, vars
        <4>3. QED
          BY <4>1, <4>2
      <3>5. QED
        BY <3>4
    <2>4. QED
      BY <2>1, <2>2, <2>3
  <1>2. QED
    BY <1>1, LedgerInvariant, PTL DEF Spec, LossBounded

(***************************************************************************)
(*                           The treasury token                            *)
(***************************************************************************)
\* A mint adds to one balance and to the supply.
LEMMA MintInv ==
    ASSUME TokenInv, NEW to \in Accounts, NEW a \in TokenAmounts, Mint(to, a)
    PROVE  TokenInv'
  <1> DEFINE v == balanceOf[to] + a
  <1>1. a \in Nat /\ MaxSupply \in Nat /\ IsFiniteSet(Accounts)
    BY TokenAssumption
  <1>2. /\ balanceOf \in [Accounts -> Nat] /\ frozenTokens \in [Accounts -> Nat]
        /\ totalSupply \in Nat /\ totalSupply = Total(balanceOf)
    BY <1>1 DEF TokenInv, TokenTypeOK, SupplySum
  <1>3. v \in Nat
    BY <1>1, <1>2
  <1>4. /\ balanceOf' = [balanceOf EXCEPT ![to] = v] /\ frozenTokens' = frozenTokens
        /\ totalSupply' = totalSupply + a /\ totalSupply' <= MaxSupply
    BY <1>2 DEF Mint
  <1>5. TokenTypeOK' /\ FrozenCovered'
    BY <1>1, <1>2, <1>3, <1>4 DEF TokenInv, TokenTypeOK, FrozenCovered
  <1>6. Total(balanceOf') = totalSupply - balanceOf[to] + v
    <2> HIDE DEF v
    <2> QED BY <1>1, <1>2, <1>3, <1>4, TotalExcept
  <1>7. QED
    BY <1>1, <1>2, <1>4, <1>5, <1>6 DEF TokenInv, SupplySum

\* Auto-unfreezing never raises a frozen amount, and covers the payer's.
LEMMA OutflowCovered ==
    ASSUME TokenInv, NEW from \in Accounts, NEW a \in Nat, balanceOf[from] >= a
    PROVE  LET f == FrozenAfterOutflow(from, a) IN
           /\ f \in [Accounts -> Nat]
           /\ f[from] <= balanceOf[from] - a
           /\ \A x \in Accounts : f[x] <= frozenTokens[x]
  BY DEF TokenInv, TokenTypeOK, FrozenCovered, FrozenAfterOutflow

\* A burn, privileged or not, takes from one balance and from the supply.
LEMMA BurnInv ==
    ASSUME TokenInv, NEW from \in Accounts, NEW a \in TokenAmounts, BurnFrom(from, a)
    PROVE  TokenInv'
  <1> DEFINE v == balanceOf[from] - a
  <1>1. a \in Nat /\ MaxSupply \in Nat /\ IsFiniteSet(Accounts)
    BY TokenAssumption
  <1>2. /\ balanceOf \in [Accounts -> Nat] /\ frozenTokens \in [Accounts -> Nat]
        /\ totalSupply \in 0..MaxSupply /\ totalSupply = Total(balanceOf)
        /\ balanceOf[from] >= a
    BY <1>1 DEF TokenInv, TokenTypeOK, SupplySum, BurnFrom
  <1>3. v \in Nat
    BY <1>1, <1>2
  <1>4. /\ balanceOf' = [balanceOf EXCEPT ![from] = v]
        /\ frozenTokens' = FrozenAfterOutflow(from, a)
        /\ totalSupply' = totalSupply - a
    BY <1>2 DEF BurnFrom
  <1>5. /\ frozenTokens' \in [Accounts -> Nat] /\ frozenTokens'[from] <= v
        /\ \A x \in Accounts : frozenTokens'[x] <= frozenTokens[x]
    BY <1>1, <1>2, <1>4, OutflowCovered
  <1>6. FrozenCovered'
    <2> SUFFICES ASSUME NEW x \in Accounts PROVE frozenTokens'[x] <= balanceOf'[x]
      BY DEF FrozenCovered
    <2>1. CASE x = from
      BY <1>2, <1>4, <1>5, <2>1
    <2>2. CASE x # from
      <3>1. balanceOf'[x] = balanceOf[x] /\ frozenTokens[x] <= balanceOf[x]
        BY <1>2, <1>4, <2>2 DEF TokenInv, FrozenCovered
      <3>2. frozenTokens'[x] \in Nat /\ frozenTokens[x] \in Nat /\ balanceOf[x] \in Nat
        BY <1>2, <1>5
      <3>3. QED
        BY <1>5, <3>1, <3>2
    <2>3. QED
      BY <2>1, <2>2
  <1>7. balanceOf[from] <= totalSupply
    BY <1>1, <1>2, TotalMember
  <1>8. TokenTypeOK'
    <2>1. balanceOf[from] \in Nat /\ totalSupply' \in 0..MaxSupply
      BY <1>1, <1>2, <1>4, <1>7
    <2>2. balanceOf' \in [Accounts -> Nat]
      BY <1>2, <1>3, <1>4
    <2>3. QED
      BY <1>5, <2>1, <2>2 DEF TokenTypeOK
  <1>9. Total(balanceOf') = totalSupply - balanceOf[from] + v
    <2> HIDE DEF v
    <2> QED BY <1>1, <1>2, <1>3, <1>4, TotalExcept
  <1>10. QED
    BY <1>1, <1>2, <1>4, <1>6, <1>8, <1>9 DEF TokenInv, SupplySum

\* Moving an affordable amount keeps the sum, from = to included.
LEMMA MovedTotal ==
    ASSUME TokenInv, NEW from \in Accounts, NEW to \in Accounts, NEW a \in Nat,
           balanceOf[from] >= a
    PROVE  LET m == Moved(from, to, a) IN
           /\ m \in [Accounts -> Nat]
           /\ Total(m) = Total(balanceOf)
           /\ m[from] >= balanceOf[from] - a
           /\ \A x \in Accounts : x # from => m[x] >= balanceOf[x]
  <1> DEFINE mid == [balanceOf EXCEPT ![from] = balanceOf[from] - a]
             m == [mid EXCEPT ![to] = mid[to] + a]
  <1>1. IsFiniteSet(Accounts) /\ balanceOf \in [Accounts -> Nat] /\ balanceOf[from] - a \in Nat
    BY TokenAssumption DEF TokenInv, TokenTypeOK
  <1>2. Moved(from, to, a) = m
    BY <1>1 DEF Moved
  <1>3. mid \in [Accounts -> Nat] /\ Total(mid) = Total(balanceOf) - a
    <2> DEFINE v == balanceOf[from] - a
    <2>1. v \in Nat /\ Total(balanceOf) \in Nat
      BY <1>1, TotalType
    <2>2. Total([balanceOf EXCEPT ![from] = v]) = Total(balanceOf) - balanceOf[from] + v
      <3> HIDE DEF v
      <3> QED BY <1>1, <2>1, TotalExcept
    <2>3. QED
      BY <1>1, <2>1, <2>2
  <1>4. /\ mid[from] = balanceOf[from] - a
        /\ \A x \in Accounts : x # from => mid[x] = balanceOf[x]
    BY <1>1
  <1>5. mid[to] + a \in Nat /\ mid[to] \in Nat
    BY <1>3
  <1> HIDE DEF mid
  <1>6. Total(m) = Total(mid) + a
    <2> DEFINE v == mid[to] + a
    <2>0. IsFiniteSet(Accounts) /\ mid \in [Accounts -> Nat]
      BY <1>1, <1>3
    <2>1. v \in Nat /\ Total(mid) \in Nat
      BY <2>0, <1>5, TotalType
    <2>2. Total([mid EXCEPT ![to] = v]) = Total(mid) - mid[to] + v
      <3> HIDE DEF v
      <3>1. v \in Nat
        BY <2>1
      <3> QED BY <2>0, <3>1, TotalExcept
    <2>3. QED
      BY <1>5, <2>1, <2>2
  <1>7. /\ m \in [Accounts -> Nat]
        /\ \A x \in Accounts : m[x] >= mid[x]
    BY <1>3, <1>5
  <1> HIDE DEF m
  <1>8. Total(m) = Total(balanceOf)
    <2>1. Total(balanceOf) \in Nat
      BY <1>1, TotalType
    <2>2. QED
      BY <1>3, <1>6, <2>1
  <1>9. m[from] >= balanceOf[from] - a /\ \A x \in Accounts : x # from => m[x] >= balanceOf[x]
    BY <1>4, <1>7
  <1>10. QED
    BY <1>2, <1>7, <1>8, <1>9

\* A peer transfer moves only what is not frozen.
LEMMA TransferInv ==
    ASSUME TokenInv, NEW from \in Accounts, NEW to \in Accounts, NEW a \in TokenAmounts,
           Transfer(from, to, a)
    PROVE  TokenInv'
  <1>1. a \in Nat
    BY TokenAssumption
  <1>2. /\ balanceOf[from] - frozenTokens[from] >= a /\ balanceOf[from] >= a
        /\ balanceOf[from] \in Nat /\ frozenTokens[from] \in Nat
        /\ totalSupply' = totalSupply /\ frozenTokens' = frozenTokens
        /\ balanceOf' = Moved(from, to, a)
    BY <1>1 DEF Transfer, TokenInv, TokenTypeOK
  <1>3. /\ balanceOf' \in [Accounts -> Nat] /\ Total(balanceOf') = Total(balanceOf)
        /\ balanceOf'[from] >= balanceOf[from] - a
        /\ \A x \in Accounts : x # from => balanceOf'[x] >= balanceOf[x]
    BY <1>1, <1>2, MovedTotal
  <1>4. FrozenCovered'
    BY <1>1, <1>2, <1>3 DEF TokenInv, TokenTypeOK, FrozenCovered
  <1>5. QED
    BY <1>2, <1>3, <1>4 DEF TokenInv, TokenTypeOK, SupplySum

\* A forced transfer unfreezes what it has to and keeps the sum.
LEMMA ForcedInv ==
    ASSUME TokenInv, NEW from \in Accounts, NEW to \in Accounts, NEW a \in TokenAmounts,
           ForcedTransfer(from, to, a)
    PROVE  TokenInv'
  <1>1. a \in Nat
    BY TokenAssumption
  <1>2. /\ balanceOf[from] >= a
        /\ totalSupply' = totalSupply /\ frozenTokens' = FrozenAfterOutflow(from, a)
        /\ balanceOf' = Moved(from, to, a)
    BY DEF ForcedTransfer
  <1>3. /\ balanceOf' \in [Accounts -> Nat] /\ Total(balanceOf') = Total(balanceOf)
        /\ balanceOf'[from] >= balanceOf[from] - a
        /\ \A x \in Accounts : x # from => balanceOf'[x] >= balanceOf[x]
    BY <1>1, <1>2, MovedTotal
  <1>4. /\ frozenTokens' \in [Accounts -> Nat] /\ frozenTokens'[from] <= balanceOf[from] - a
        /\ \A x \in Accounts : frozenTokens'[x] <= frozenTokens[x]
    BY <1>1, <1>2, OutflowCovered
  <1>5. FrozenCovered'
    BY <1>1, <1>3, <1>4 DEF TokenInv, TokenTypeOK, FrozenCovered
  <1>6. QED
    BY <1>2, <1>3, <1>4, <1>5 DEF TokenInv, TokenTypeOK, SupplySum

\* Freezing stays within the balance; unfreezing stays above 0.
LEMMA FreezeInv ==
    ASSUME TokenInv, NEW x \in Accounts, NEW a \in TokenAmounts,
           FreezePartialTokens(x, a) \/ UnfreezePartialTokens(x, a)
    PROVE  TokenInv'
  <1>1. a \in Nat
    BY TokenAssumption
  <1>2. balanceOf' = balanceOf /\ totalSupply' = totalSupply
    BY DEF FreezePartialTokens, UnfreezePartialTokens
  <1>3. frozenTokens' \in [Accounts -> Nat] /\ FrozenCovered'
    BY <1>1, <1>2 DEF TokenInv, TokenTypeOK, FrozenCovered, FreezePartialTokens, UnfreezePartialTokens
  <1>4. QED
    BY <1>2, <1>3 DEF TokenInv, TokenTypeOK, SupplySum

\* The gates' administration leaves the books alone.
LEMMA GatesKeepBooks ==
    ASSUME Gates
    PROVE  UNCHANGED <<balanceOf, totalSupply, frozenTokens>>
  BY DEF Gates, SetBlacklist, SetWhitelist, SetWhitelistEnabled, SetConsumerContract,
         SetComplianceEnabled, SetPaused, RegistryChanges

\* One step of the token keeps the books in order.
LEMMA TokenStep == TokenInv /\ [TokenNext]_tokenVars => TokenInv'
  <1> SUFFICES ASSUME TokenInv, [TokenNext]_tokenVars PROVE TokenInv'
    OBVIOUS
  <1>1. CASE Movements
    BY <1>1, MintInv, BurnInv, TransferInv, ForcedInv, FreezeInv DEF Movements, OrdinaryMoves, Burn, BurnOwn
  <1>2. CASE UNCHANGED <<balanceOf, totalSupply, frozenTokens>>
    BY <1>2 DEF TokenInv, TokenTypeOK, SupplySum, FrozenCovered
  <1>3. QED
    BY <1>1, <1>2, GatesKeepBooks DEF TokenNext, tokenVars

\* The books' invariant holds in every reachable state of the token.
THEOREM TokenInvariant == TokenSpec => []TokenInv
  <1>1. TokenInit => TokenInv
    BY TokenAssumption, TotalZero DEF TokenInit, TokenInv, TokenTypeOK, SupplySum, FrozenCovered
  <1>2. QED
    BY <1>1, TokenStep, PTL DEF TokenSpec

\* Every unit of the supply is in somebody's balance.
THEOREM SupplySumTheorem == TokenSpec => []SupplySum
  <1>1. TokenInv => SupplySum
    BY DEF TokenInv
  <1>2. QED
    BY <1>1, TokenInvariant, PTL

\* No account is ever frozen beyond its balance: the subtraction in _update and
\* the one in the forced path never underflow.
THEOREM FrozenCoveredTheorem == TokenSpec => []FrozenCovered
  <1>1. TokenInv => FrozenCovered
    BY DEF TokenInv
  <1>2. QED
    BY <1>1, TokenInvariant, PTL

\* A paused token and a blacklisted account stand still: no mint, burn or transfer
\* changes such a balance, whatever the other gates say.
THEOREM StandStillTheorem == TokenSpec => StandStill
  <1> DEFINE Still == \A x \in Accounts :
                         paused \/ x \in blacklisted => balanceOf'[x] = balanceOf[x]
  <1>1. TokenInv /\ [TokenNext]_tokenVars => [OrdinaryMoves => Still]_tokenVars
    <2> SUFFICES ASSUME TokenInv, OrdinaryMoves, NEW x \in Accounts, paused \/ x \in blacklisted
                 PROVE  balanceOf'[x] = balanceOf[x]
      OBVIOUS
    <2>0. balanceOf \in [Accounts -> Nat]
      BY DEF TokenInv, TokenTypeOK
    <2>1. ASSUME NEW y \in Accounts, NEW a \in TokenAmounts, Mint(y, a)
          PROVE balanceOf'[x] = balanceOf[x]
      BY <2>0, <2>1 DEF Mint, Open
    <2>2. ASSUME NEW y \in Accounts, NEW a \in TokenAmounts, BurnFrom(y, a)
          PROVE balanceOf'[x] = balanceOf[x]
      BY <2>0, <2>2 DEF BurnFrom, Open
    <2>3. ASSUME NEW y \in Accounts, NEW z \in Accounts, NEW a \in TokenAmounts, Transfer(y, z, a)
          PROVE balanceOf'[x] = balanceOf[x]
      BY <2>0, <2>3 DEF Transfer, Open, Moved
    <2>4. QED
      BY <2>1, <2>2, <2>3 DEF OrdinaryMoves, Burn, BurnOwn
  <1>2. QED
    BY <1>1, TokenInvariant, PTL DEF TokenSpec, StandStill

-----------------------------------------------------------------------------
\* A transfer between two compatriots leaves what every country holds as it was.
LEMMA TransferStays ==
    ASSUME TokenInv, NEW from \in Accounts, NEW to \in Accounts, NEW a \in TokenAmounts,
           Transfer(from, to, a), CountryOf[from] = CountryOf[to], NEW country
    PROVE  HeldIn(country)' = HeldIn(country)
  <1>1. PICK S \in SUBSET Accounts : S = {y \in Accounts : CountryOf[y] = country}
    OBVIOUS
  <1>2. /\ IsFiniteSet(S) /\ a \in Nat
        /\ balanceOf \in [Accounts -> Nat] /\ frozenTokens \in [Accounts -> Nat]
    BY TokenAssumption, FS_Subset DEF TokenInv, TokenTypeOK
  <1>3. a <= balanceOf[from]
    BY <1>2 DEF Transfer
  <1>4. PICK f \in [S -> Nat] : f = [x \in S |-> balanceOf[x]]
    BY <1>2
  <1>5. PICK g : g = [x \in S |-> balanceOf'[x]]
    OBVIOUS
  <1>6. \A x \in Accounts : balanceOf'[x] = Moved(from, to, a)[x]
    BY DEF Transfer
  <1>7. CASE from \in S
    <2>1. to \in S
      BY <1>1, <1>7
    <2>2. PICK h : h = AfterMove(f, from, to, a)
      OBVIOUS
    <2>3. \A x \in S : g[x] = h[x]
      <3>1. PICK m : m = [balanceOf EXCEPT ![from] = @ - a]
        OBVIOUS
      <3>2. PICK k : k = [f EXCEPT ![from] = @ - a]
        OBVIOUS
      <3>3. /\ m \in [Accounts -> Int] /\ k \in [S -> Int] /\ \A x \in S : m[x] = k[x]
            /\ to \in Accounts /\ from \in Accounts
        BY <1>2, <1>4, <1>7, <3>1, <3>2
      <3>4. /\ Moved(from, to, a) = [m EXCEPT ![to] = @ + a]
            /\ h = [k EXCEPT ![to] = @ + a]
        BY <2>2, <3>1, <3>2 DEF Moved, AfterMove
      <3>5. \A x \in S : Moved(from, to, a)[x] = h[x]
        BY <2>1, <3>3, <3>4
      <3>6. \A x \in S : x \in Accounts /\ g[x] = balanceOf'[x]
        BY <1>5
      <3>7. \A x \in S : g[x] = Moved(from, to, a)[x]
        BY <1>6, <3>6
      <3>8. QED
        BY <3>5, <3>7
    <2>4. h \in [S -> Nat] /\ Total(h) = Total(f)
      <3>1. f[from] = balanceOf[from]
        BY <1>4, <1>7
      <3>2. a <= f[from] /\ a \in Nat /\ IsFiniteSet(S)
        BY <1>2, <1>3, <3>1
      <3>3. /\ AfterMove(f, from, to, a) \in [S -> Nat]
            /\ Total(AfterMove(f, from, to, a)) = Total(f)
        BY <1>7, <2>1, <3>2, MoveSum
      <3>4. QED
        BY <2>2, <3>3
    <2>5. g = h
      BY <1>5, <2>3, <2>4
    <2>6. QED
      BY <1>1, <1>4, <1>5, <2>4, <2>5 DEF HeldIn
  <1>8. CASE from \notin S
    <2>1. to \notin S
      BY <1>1, <1>8
    <2>2. \A x \in S : balanceOf'[x] = balanceOf[x]
      BY <1>2, <1>6, <1>8, <2>1 DEF Moved
    <2>3. g = f
      BY <1>4, <1>5, <2>2
    <2>4. QED
      BY <1>1, <1>4, <1>5, <2>3 DEF HeldIn
  <1>9. QED
    BY <1>7, <1>8

\* While the jurisdiction gate is on and nobody is trusted, no transfer takes the token
\* out of its country: only mints and burns change what a country's accounts hold.
THEOREM StaysTheorem == TokenSpec => StaysInCountry
  <1> DEFINE Stays == \A x \in Accounts : HeldIn(CountryOf[x])' = HeldIn(CountryOf[x])
             Closed == complianceEnabled /\ consumerContract /\ whitelisted = {}
  <1>1. TokenInv /\ [TokenNext]_tokenVars => [Closed /\ OrdinaryMoves /\ totalSupply' = totalSupply => Stays]_tokenVars
    <2> SUFFICES ASSUME TokenInv, Closed, OrdinaryMoves, totalSupply' = totalSupply PROVE Stays
      OBVIOUS
    <2>1. totalSupply \in Nat /\ TokenAmounts \subseteq Nat
      BY TokenAssumption DEF TokenInv, TokenTypeOK
    <2>2. PICK from \in Accounts, to \in Accounts, a \in TokenAmounts : Transfer(from, to, a)
      <3>1. ASSUME NEW x \in Accounts, NEW a \in TokenAmounts, Mint(x, a) PROVE FALSE
        BY <2>1, <3>1 DEF Mint
      <3>2. ASSUME NEW x \in Accounts, NEW a \in TokenAmounts, BurnFrom(x, a) PROVE FALSE
        BY <2>1, <3>2 DEF BurnFrom
      <3>3. QED
        BY <3>1, <3>2 DEF OrdinaryMoves, Burn, BurnOwn
    <2>3. CountryOf[from] = CountryOf[to]
      BY <2>2 DEF Transfer, PeersAllowed, Compliant
    <2>4. ASSUME NEW x \in Accounts PROVE HeldIn(CountryOf[x])' = HeldIn(CountryOf[x])
      <3>1. PICK country : country = CountryOf[x]
        OBVIOUS
      <3>2. HeldIn(country)' = HeldIn(country)
        BY <2>2, <2>3, TransferStays
      <3>3. QED
        BY <3>1, <3>2
    <2>5. QED
      BY <2>4
  <1>2. QED
    BY <1>1, TokenInvariant, PTL DEF TokenSpec, StaysInCountry

(***************************************************************************)
(*                          The consumer registry                          *)
(***************************************************************************)

Remittance == [sender : Wallets, amountSent : RemitAmounts, day : Days]

\* Ids are given out in order and the log is well typed.
IdsInOrder ==
    /\ nextGlobalId = consumerCount
    /\ \A w \in DOMAIN consumers : consumers[w].globalConsumerId < nextGlobalId

RegistryOk == RegistryInv /\ IdsInOrder /\ remittanceLog \in Seq(Remittance)

ActiveWallets == {w \in DOMAIN consumers : Active(w)}

\* The indexes, member by member.
Leads ==
    /\ \A i \in Ids : \A w \in Wallets :
          Active(w) /\ consumers[w].globalConsumerId = i <=> consumerById[i] = w
    /\ \A n \in Names : \A w \in Wallets :
          Active(w) /\ consumers[w].ens = n <=> ensByHash[n] = w

LEMMA IndexesLead ==
    ASSUME RegistryTypeOK
    PROVE  IndexesAgree <=> Leads
  <1>1. /\ DOMAIN consumers \subseteq Wallets /\ NoWallet \notin Wallets
        /\ \A i \in Ids : consumerById[i] \in Wallets \cup {NoWallet}
        /\ \A n \in Names : ensByHash[n] \in Wallets \cup {NoWallet}
    BY RegistryAssumption DEF RegistryTypeOK
  <1>2. ASSUME NEW i \in Ids
        PROVE  {w \in DOMAIN consumers : Active(w) /\ consumers[w].globalConsumerId = i}
                  = {consumerById[i]} \ {NoWallet}
               <=> \A w \in Wallets :
                      Active(w) /\ consumers[w].globalConsumerId = i <=> consumerById[i] = w
    BY <1>1 DEF Active
  <1>3. ASSUME NEW n \in Names
        PROVE  {w \in DOMAIN consumers : Active(w) /\ consumers[w].ens = n}
                  = {ensByHash[n]} \ {NoWallet}
               <=> \A w \in Wallets : Active(w) /\ consumers[w].ens = n <=> ensByHash[n] = w
    BY <1>1 DEF Active
  <1>4. QED
    BY <1>2, <1>3 DEF IndexesAgree, Leads

LEMMA IndexedNow == RegistryTypeOK => (IndexesAgree <=> Leads)
  BY IndexesLead

\* There are no more consumers than wallets.
LEMMA CountBounded ==
    ASSUME RegistryTypeOK, CountIsActive
    PROVE  /\ IsFiniteSet(ActiveWallets) /\ Cardinality(ActiveWallets) = consumerCount
           /\ consumerCount \in Ids
  <1>1. IsFiniteSet(Wallets) /\ Cardinality(Wallets) \in Nat
    BY RegistryAssumption, FS_CardinalityType
  <1>2. ActiveWallets \in SUBSET Wallets
    BY DEF RegistryTypeOK, ActiveWallets
  <1>3. IsFiniteSet(ActiveWallets) /\ Cardinality(ActiveWallets) <= Cardinality(Wallets)
    BY <1>1, <1>2, FS_Subset
  <1>4. Cardinality(ActiveWallets) = consumerCount /\ consumerCount \in Nat
    BY DEF CountIsActive, ActiveWallets, RegistryTypeOK
  <1>5. QED
    BY <1>1, <1>3, <1>4 DEF Ids

\* What is sent is untouched, so its sums and limits are.
LEMMA SpendStill ==
    ASSUME RegistryOk, UNCHANGED spend
    PROVE  /\ AccumulatorsMatchLog' /\ WalletWithinLimits' /\ remittanceLog' \in Seq(Remittance)
  <1>1. dailySent' = dailySent /\ monthlySent' = monthlySent /\ remittanceLog' = remittanceLog
    BY DEF spend
  <1>2. AccumulatorsMatchLog' <=> AccumulatorsMatchLog
    BY <1>1 DEF AccumulatorsMatchLog, SentOn
  <1>3. WalletWithinLimits' <=> WalletWithinLimits
    BY <1>1 DEF WalletWithinLimits
  <1>4. QED
    BY <1>1, <1>2, <1>3 DEF RegistryOk, RegistryInv

LEMMA RegisterOk ==
    ASSUME RegistryOk, NEW w \in Wallets, NEW n \in Names \cup {NoName}, NEW c \in Countries,
           NEW k \in Levels, RegisterConsumer(w, n, c, k)
    PROVE  RegistryOk'
  <1>1. RegistryTypeOK /\ IndexesAgree /\ CountIsActive /\ IdsInOrder
    BY DEF RegistryOk, RegistryInv
  <1>2. PICK g \in Ids : g = nextGlobalId /\ g = consumerCount /\ g \in Nat
    BY <1>1, CountBounded DEF IdsInOrder, RegistryTypeOK
  <1>3. PICK r : r = [saveWallet |-> NoWallet, usdWallet |-> NoWallet, ens |-> n, countryCode |-> c,
                      kycLevel |-> k, isActive |-> TRUE, globalConsumerId |-> g]
    OBVIOUS
  <1>4. /\ r \in ConsumerData /\ r.ens = n /\ r.isActive = TRUE /\ r.globalConsumerId = g
    BY <1>2, <1>3, RegistryAssumption DEF ConsumerData
  <1>5. /\ w \notin DOMAIN consumers
        /\ consumers' = [x \in DOMAIN consumers \cup {w} |-> IF x = w THEN r ELSE consumers[x]]
        /\ consumerById' = [consumerById EXCEPT ![g] = w]
        /\ ensByHash' = IF n = NoName THEN ensByHash ELSE [ensByHash EXCEPT ![n] = w]
        /\ n # NoName => ensByHash[n] = NoWallet
        /\ nextGlobalId' = g + 1 /\ consumerCount' = g + 1
        /\ UNCHANGED <<maxConsumers, spend, today>>
    BY <1>2, <1>3 DEF RegisterConsumer, Recorded
  <1>6. /\ DOMAIN consumers' = DOMAIN consumers \cup {w} /\ consumers'[w] = r
        /\ \A x \in DOMAIN consumers : consumers'[x] = consumers[x]
    BY <1>5
  <1>7. NoWallet \notin Wallets /\ NoName \notin Names
    BY RegistryAssumption
  <1>8. RegistryTypeOK'
    BY <1>1, <1>2, <1>4, <1>5, <1>6 DEF RegistryTypeOK, spend
  <1>9. \A x \in Wallets : Active(x)' <=> Active(x) \/ x = w
    BY <1>4, <1>5, <1>6 DEF Active
  <1>10. IndexesAgree'
    <2>1. /\ \A i \in Ids : \A x \in Wallets :
                Active(x) /\ consumers[x].globalConsumerId = i <=> consumerById[i] = x
          /\ \A m \in Names : \A x \in Wallets :
                Active(x) /\ consumers[x].ens = m <=> ensByHash[m] = x
      BY <1>1, IndexesLead DEF Leads
    <2>2. ASSUME NEW i \in Ids, NEW x \in Wallets
          PROVE  Active(x)' /\ consumers'[x].globalConsumerId = i <=> consumerById'[i] = x
      <3>1. consumerById'[i] = IF i = g THEN w ELSE consumerById[i]
        BY <1>1, <1>5 DEF RegistryTypeOK
      <3>2. CASE x = w
        BY <1>4, <1>5, <1>6, <1>9, <2>1, <3>1, <3>2 DEF Active
      <3>3. CASE x # w
        <4>1. Active(x) => x \in DOMAIN consumers /\ consumers[x].globalConsumerId # g
          BY <1>1, <1>2 DEF Active, IdsInOrder, RegistryTypeOK, ConsumerData
        <4>2. QED
          BY <1>6, <1>9, <2>1, <3>1, <3>3, <4>1
      <3>4. QED
        BY <3>2, <3>3
    <2>3. ASSUME NEW m \in Names, NEW x \in Wallets
          PROVE  Active(x)' /\ consumers'[x].ens = m <=> ensByHash'[m] = x
      <3>1. ensByHash'[m] = IF m = n THEN w ELSE ensByHash[m]
        BY <1>1, <1>5, <1>7 DEF RegistryTypeOK
      <3>2. m = n => ensByHash[m] = NoWallet
        BY <1>5, <1>7
      <3>3. CASE x = w
        BY <1>4, <1>5, <1>6, <1>9, <2>1, <3>1, <3>3 DEF Active
      <3>4. CASE x # w
        <4>1. Active(x) => x \in DOMAIN consumers
          BY DEF Active
        <4>2. QED
          BY <1>6, <1>7, <1>9, <2>1, <3>1, <3>2, <3>4, <4>1
      <3>5. QED
        BY <3>3, <3>4
    <2>4. (RegistryTypeOK => (IndexesAgree <=> Leads))'
      BY IndexedNow, PTL
    <2>5. QED
      BY <1>8, <2>2, <2>3, <2>4 DEF Leads
  <1>11. CountIsActive'
    <2>1. ActiveWallets' = ActiveWallets \cup {w} /\ w \notin ActiveWallets
      BY <1>1, <1>5, <1>6, <1>8, <1>9 DEF ActiveWallets, RegistryTypeOK
    <2>2. Cardinality(ActiveWallets') = g + 1
      BY <1>1, <1>2, <2>1, CountBounded, FS_AddElement
    <2>3. QED
      BY <1>5, <2>2 DEF CountIsActive, ActiveWallets
  <1>12. IdsInOrder'
    <2>1. \A x \in DOMAIN consumers' : consumers'[x].globalConsumerId < g + 1
      BY <1>1, <1>2, <1>4, <1>6 DEF IdsInOrder, RegistryTypeOK, ConsumerData
    <2>2. QED
      BY <1>5, <2>1 DEF IdsInOrder
  <1>13. QED
    BY <1>5, <1>8, <1>10, <1>11, <1>12, SpendStill DEF RegistryOk, RegistryInv

\* A recovery replaces one active wallet with another.
LEMMA RecoverOk ==
    ASSUME RegistryOk, NEW old \in Wallets, NEW w \in Wallets, NEW n \in Names, RecoverWallet(old, n, w)
    PROVE  RegistryOk'
  <1>1. RegistryTypeOK /\ IndexesAgree /\ CountIsActive /\ IdsInOrder
    BY DEF RegistryOk, RegistryInv
  <1>2. PICK r : r = consumers[old]
    OBVIOUS
  <1>3. /\ old \in DOMAIN consumers /\ w \notin DOMAIN consumers /\ r.isActive /\ r.ens = n
        /\ r \in ConsumerData
    BY <1>1, <1>2 DEF RecoverWallet, Active, RegistryTypeOK
  <1>4. PICK q : q = [r EXCEPT !.isActive = FALSE]
    OBVIOUS
  <1>5. /\ q \in ConsumerData /\ ~q.isActive /\ q.globalConsumerId = r.globalConsumerId
    BY <1>3, <1>4 DEF ConsumerData
  <1>6. PICK g \in Nat : g = r.globalConsumerId /\ g < nextGlobalId /\ nextGlobalId \in Nat
    BY <1>1, <1>2, <1>3 DEF IdsInOrder, ConsumerData, RegistryTypeOK
  <1>7. g \in Ids
    <2>1. Cardinality(Wallets) \in Nat
      BY RegistryAssumption, FS_CardinalityType
    <2>2. nextGlobalId \in Ids
      BY <1>1, CountBounded DEF IdsInOrder
    <2>3. QED
      BY <1>6, <2>1, <2>2 DEF Ids
  <1>8. /\ consumers' = [x \in DOMAIN consumers \cup {w} |->
                           IF x = w THEN r ELSE IF x = old THEN q ELSE consumers[x]]
        /\ ensByHash' = [ensByHash EXCEPT ![n] = w]
        /\ consumerById' = [consumerById EXCEPT ![g] = w]
        /\ UNCHANGED <<consumerCount, nextGlobalId, maxConsumers, spend, today>>
    BY <1>2, <1>4, <1>6 DEF RecoverWallet
  <1>9. /\ DOMAIN consumers' = DOMAIN consumers \cup {w} /\ consumers'[w] = r /\ consumers'[old] = q
        /\ \A x \in DOMAIN consumers : x # old => consumers'[x] = consumers[x]
    BY <1>3, <1>8
  <1>10. RegistryTypeOK'
    BY <1>1, <1>3, <1>5, <1>8, <1>9 DEF RegistryTypeOK, spend
  <1>11. \A x \in Wallets : Active(x)' <=> (Active(x) /\ x # old) \/ x = w
    BY <1>3, <1>5, <1>9 DEF Active
  <1>12. IndexesAgree'
    <2>1. /\ \A i \in Ids : \A x \in Wallets :
                Active(x) /\ consumers[x].globalConsumerId = i <=> consumerById[i] = x
          /\ \A m \in Names : \A x \in Wallets :
                Active(x) /\ consumers[x].ens = m <=> ensByHash[m] = x
      BY <1>1, IndexesLead DEF Leads
    <2>2. Active(old) /\ consumerById[g] = old /\ ensByHash[n] = old
      BY <1>2, <1>3, <1>6, <1>7, <2>1 DEF Active
    <2>3. ASSUME NEW i \in Ids, NEW x \in Wallets
          PROVE  Active(x)' /\ consumers'[x].globalConsumerId = i <=> consumerById'[i] = x
      <3>1. consumerById'[i] = IF i = g THEN w ELSE consumerById[i]
        BY <1>1, <1>8 DEF RegistryTypeOK
      <3>2. CASE x = w
        BY <1>3, <1>6, <1>9, <1>11, <2>1, <3>1, <3>2 DEF Active
      <3>3. CASE x # w
        <4>1. Active(x) => x \in DOMAIN consumers
          BY DEF Active
        <4>2. QED
          BY <1>2, <1>6, <1>9, <1>11, <2>1, <2>2, <3>1, <3>3, <4>1
      <3>4. QED
        BY <3>2, <3>3
    <2>4. ASSUME NEW m \in Names, NEW x \in Wallets
          PROVE  Active(x)' /\ consumers'[x].ens = m <=> ensByHash'[m] = x
      <3>1. ensByHash'[m] = IF m = n THEN w ELSE ensByHash[m]
        BY <1>1, <1>8 DEF RegistryTypeOK
      <3>2. CASE x = w
        BY <1>3, <1>9, <1>11, <2>1, <3>1, <3>2 DEF Active
      <3>3. CASE x # w
        <4>1. Active(x) => x \in DOMAIN consumers
          BY DEF Active
        <4>2. QED
          BY <1>2, <1>3, <1>9, <1>11, <2>1, <2>2, <3>1, <3>3, <4>1
      <3>4. QED
        BY <3>2, <3>3
    <2>5. (RegistryTypeOK => (IndexesAgree <=> Leads))'
      BY IndexedNow, PTL
    <2>6. QED
      BY <1>10, <2>3, <2>4, <2>5 DEF Leads
  <1>13. CountIsActive'
    <2>1. ActiveWallets' = (ActiveWallets \ {old}) \cup {w} /\ w \notin ActiveWallets
          /\ old \in ActiveWallets
      BY <1>1, <1>2, <1>3, <1>9, <1>10, <1>11 DEF ActiveWallets, RegistryTypeOK, Active
    <2>2. IsFiniteSet(ActiveWallets) /\ Cardinality(ActiveWallets) = consumerCount /\ consumerCount \in Nat
      BY <1>1, CountBounded DEF RegistryTypeOK
    <2>3. PICK S : S = ActiveWallets \ {old}
      OBVIOUS
    <2>4. IsFiniteSet(S) /\ Cardinality(S) = consumerCount - 1 /\ w \notin S
      BY <2>1, <2>2, <2>3, FS_RemoveElement
    <2>5. Cardinality(S \cup {w}) = consumerCount
      <3>1. PICK k \in Nat : k = consumerCount
        BY <2>2
      <3>2. Cardinality(S \cup {w}) = k - 1 + 1
        BY <2>4, <3>1, FS_AddElement
      <3>3. QED
        BY <3>1, <3>2
    <2>6. QED
      BY <1>8, <2>1, <2>3, <2>5 DEF CountIsActive, ActiveWallets
  <1>14. IdsInOrder'
    BY <1>1, <1>5, <1>6, <1>8, <1>9 DEF IdsInOrder
  <1>15. QED
    BY <1>8, <1>10, <1>12, <1>13, <1>14, SpendStill DEF RegistryOk, RegistryInv

\* A change of one active record that keeps its id, its name and its activity.
LEMMA EditOk ==
    ASSUME RegistryOk, NEW w \in Wallets, Active(w), NEW r \in ConsumerData,
           r.ens = consumers[w].ens, r.globalConsumerId = consumers[w].globalConsumerId, r.isActive,
           consumers' = [consumers EXCEPT ![w] = r],
           UNCHANGED <<ensByHash, consumerById, consumerCount, nextGlobalId, maxConsumers, spend, today>>
    PROVE  RegistryOk'
  <1>1. RegistryTypeOK /\ IndexesAgree /\ CountIsActive /\ IdsInOrder
    BY DEF RegistryOk, RegistryInv
  <1>2. /\ DOMAIN consumers' = DOMAIN consumers /\ w \in DOMAIN consumers /\ consumers'[w] = r
        /\ \A x \in DOMAIN consumers : x # w => consumers'[x] = consumers[x]
    BY DEF Active
  <1>3. RegistryTypeOK'
    BY <1>1, <1>2 DEF RegistryTypeOK, spend
  <1>4. \A x \in DOMAIN consumers : /\ Active(x)' <=> Active(x)
                                    /\ consumers'[x].ens = consumers[x].ens
                                    /\ consumers'[x].globalConsumerId = consumers[x].globalConsumerId
    BY <1>2 DEF Active
  <1>5. IndexesAgree' <=> IndexesAgree
    <2>1. \A i : {x \in DOMAIN consumers' : Active(x)' /\ consumers'[x].globalConsumerId = i}
                 = {x \in DOMAIN consumers : Active(x) /\ consumers[x].globalConsumerId = i}
      BY <1>2, <1>4
    <2>2. \A n : {x \in DOMAIN consumers' : Active(x)' /\ consumers'[x].ens = n}
                 = {x \in DOMAIN consumers : Active(x) /\ consumers[x].ens = n}
      BY <1>2, <1>4
    <2>3. QED
      BY <2>1, <2>2 DEF IndexesAgree
  <1>6. CountIsActive'
    <2>1. ActiveWallets' = ActiveWallets
      BY <1>2, <1>4 DEF ActiveWallets
    <2>2. QED
      BY <1>1, <2>1 DEF CountIsActive, ActiveWallets
  <1>7. IdsInOrder'
    BY <1>1, <1>2, <1>4 DEF IdsInOrder
  <1>8. QED
    BY <1>1, <1>3, <1>5, <1>6, <1>7, SpendStill DEF RegistryOk, RegistryInv

\* The record each such call writes.
LEMMA EditRecords ==
    ASSUME RegistryOk, NEW w \in Wallets, NEW v \in Wallets, NEW k \in Levels,
           SetSaveWallet(w, v) \/ SetUsdWallet(w, v) \/ UpdateKycLevel(w, k)
    PROVE  /\ Active(w) /\ consumers[w] \in ConsumerData
           /\ \E r \in ConsumerData :
                 /\ r.ens = consumers[w].ens /\ r.globalConsumerId = consumers[w].globalConsumerId
                 /\ r.isActive /\ r.countryCode = consumers[w].countryCode
                 /\ consumers[w].saveWallet # NoWallet => r.saveWallet = consumers[w].saveWallet
                 /\ consumers[w].usdWallet # NoWallet => r.usdWallet = consumers[w].usdWallet
                 /\ consumers' = [consumers EXCEPT ![w] = r]
           /\ UNCHANGED <<ensByHash, consumerById, consumerCount, nextGlobalId, maxConsumers, spend, today>>
  <1>1. Active(w)
    BY DEF SetSaveWallet, SetUsdWallet, UpdateKycLevel
  <1>2. PICK b \in ConsumerData : b = consumers[w] /\ b.isActive
    BY <1>1 DEF RegistryOk, RegistryInv, RegistryTypeOK, Active
  <1>3. UNCHANGED <<ensByHash, consumerById, consumerCount, nextGlobalId, maxConsumers, spend, today>>
    BY DEF SetSaveWallet, SetUsdWallet, UpdateKycLevel
  <1>4. CASE SetSaveWallet(w, v)
    <2>1. PICK r : r = [b EXCEPT !.saveWallet = v]
      OBVIOUS
    <2>2. /\ r \in ConsumerData /\ r.ens = b.ens /\ r.globalConsumerId = b.globalConsumerId
          /\ r.isActive /\ r.countryCode = b.countryCode /\ r.usdWallet = b.usdWallet
      BY <1>2, <2>1 DEF ConsumerData
    <2>3. b.saveWallet = NoWallet /\ consumers' = [consumers EXCEPT ![w] = r]
      BY <1>2, <1>4, <2>1 DEF SetSaveWallet
    <2>4. QED
      BY <1>1, <1>2, <1>3, <2>2, <2>3
  <1>5. CASE SetUsdWallet(w, v)
    <2>1. PICK r : r = [b EXCEPT !.usdWallet = v]
      OBVIOUS
    <2>2. /\ r \in ConsumerData /\ r.ens = b.ens /\ r.globalConsumerId = b.globalConsumerId
          /\ r.isActive /\ r.countryCode = b.countryCode /\ r.saveWallet = b.saveWallet
      BY <1>2, <2>1 DEF ConsumerData
    <2>3. b.usdWallet = NoWallet /\ consumers' = [consumers EXCEPT ![w] = r]
      BY <1>2, <1>5, <2>1 DEF SetUsdWallet
    <2>4. QED
      BY <1>1, <1>2, <1>3, <2>2, <2>3
  <1>6. CASE UpdateKycLevel(w, k)
    <2>1. PICK r : r = [b EXCEPT !.kycLevel = k]
      OBVIOUS
    <2>2. /\ r \in ConsumerData /\ r.ens = b.ens /\ r.globalConsumerId = b.globalConsumerId
          /\ r.isActive /\ r.countryCode = b.countryCode /\ r.saveWallet = b.saveWallet
          /\ r.usdWallet = b.usdWallet
      BY <1>2, <2>1, RegistryAssumption DEF ConsumerData
    <2>3. consumers' = [consumers EXCEPT ![w] = r]
      BY <1>2, <1>6, <2>1 DEF UpdateKycLevel
    <2>4. QED
      BY <1>1, <1>2, <1>3, <2>2, <2>3
  <1>7. QED
    BY <1>4, <1>5, <1>6

\* Who sends is an active consumer, but whom it sent for and when is in the log only.
LEMMA LogTypes ==
    ASSUME RegistryOk
    PROVE  /\ remittanceLog \in Seq(Remittance) /\ Len(remittanceLog) \in Nat
           /\ \A j \in 1..Len(remittanceLog) :
                 /\ remittanceLog[j].sender \in Wallets /\ remittanceLog[j].day \in Days
                 /\ remittanceLog[j].amountSent \in Nat
  <1>1. remittanceLog \in Seq(Remittance)
    BY DEF RegistryOk
  <1>2. \A j \in 1..Len(remittanceLog) : remittanceLog[j] \in Remittance
    BY <1>1
  <1>3. \A e \in Remittance : e.sender \in Wallets /\ e.day \in Days /\ e.amountSent \in Nat
    BY RegistryAssumption DEF Remittance
  <1>4. Len(remittanceLog) \in Nat
    BY <1>1
  <1>5. QED
    BY <1>1, <1>2, <1>3, <1>4

\* A sum with one more term.
LEMMA TotalPlus ==
    ASSUME NEW S, IsFiniteSet(S), NEW k, k \notin S, NEW T, T = S \cup {k},
           NEW g \in [S -> Nat], NEW h \in [T -> Nat], \A x \in S : h[x] = g[x]
    PROVE  Total(h) = Total(g) + h[k]
  <1>1. PICK n \in Nat : n = h[k]
    OBVIOUS
  <1>2. PICK mine : mine = {k} \X (1..n)
    OBVIOUS
  <1>3. IsFiniteSet(mine) /\ Cardinality(mine) = n
    BY <1>2, UnitsOfOne
  <1>4. IsFiniteSet(Units(g))
    BY UnitsFinite
  <1>5. Units(h) = Units(g) \cup mine /\ Units(g) \cap mine = {}
    <2>1. /\ Units(g) = {p \in S \X Nat : 1 <= p[2] /\ p[2] <= g[p[1]]}
          /\ Units(h) = {p \in T \X Nat : 1 <= p[2] /\ p[2] <= h[p[1]]}
      BY UnitsMember
    <2>2. QED
      BY <1>1, <1>2, <2>1
  <1>6. QED
    BY <1>1, <1>3, <1>4, <1>5, DisjointUnion DEF Total

\* An entry counts for its sender and its day and for nothing else.
LEMMA SentAppended ==
    ASSUME RegistryOk, NEW w \in Wallets, NEW a \in RemitAmounts, RecordRemittance(w, a),
           NEW v \in Wallets, NEW d \in Days
    PROVE  /\ SentOn(v, d) \in Nat
           /\ SentOn(v, d)' = SentOn(v, d) + (IF v = w /\ d = today THEN a ELSE 0)
  <1>1. PICK e : e = [sender |-> w, amountSent |-> a, day |-> today] /\ today \in Days
    BY DEF RegistryOk, RegistryInv, RegistryTypeOK
  <1>2. /\ a \in Nat /\ e.sender = w /\ e.amountSent = a /\ e.day = today
        /\ remittanceLog \in Seq(Remittance) /\ e \in Remittance
    BY <1>1, RegistryAssumption, LogTypes DEF Remittance
  <1>3. PICK n \in Nat : n = Len(remittanceLog)
    BY LogTypes
  <1>4. PICK k \in Nat : k = n + 1
    BY <1>3
  <1>5. /\ Len(remittanceLog') = k /\ remittanceLog'[k] = e
        /\ \A j \in 1..n : remittanceLog'[j] = remittanceLog[j]
    <2>1. remittanceLog' = Append(remittanceLog, e)
      BY <1>1 DEF RecordRemittance
    <2>2. QED
      BY <1>2, <1>3, <1>4, <2>1
  <1>6. 1..k = (1..n) \cup {k} /\ k \notin 1..n
    BY <1>4
  <1> DEFINE f == [j \in 1..k |-> remittanceLog'[j].amountSent]
             A == {j \in 1..n : remittanceLog[j].sender = v /\ remittanceLog[j].day = d}
             B == {j \in 1..k : remittanceLog'[j].sender = v /\ remittanceLog'[j].day = d}
  <1>7. f \in [1..k -> Nat] /\ f[k] = a /\ \A j \in 1..n : f[j] = remittanceLog[j].amountSent
    <2>1. \A j \in 1..n : remittanceLog[j].amountSent \in Nat
      BY <1>3, LogTypes
    <2>2. QED
      BY <1>2, <1>5, <1>6, <2>1
  <1>8. B = A \cup (IF v = w /\ d = today THEN {k} ELSE {})
    BY <1>2, <1>5, <1>6
  <1>9. /\ SentOn(v, d)' = Total([j \in B |-> remittanceLog'[j].amountSent])
        /\ SentOn(v, d) = Total([j \in A |-> remittanceLog[j].amountSent])
    BY <1>3, <1>5 DEF SentOn
  <1>10. A \subseteq 1..n /\ A \in SUBSET (1..k) /\ B \in SUBSET (1..k) /\ IsFiniteSet(1..k)
    BY <1>6, FS_Interval
  <1>11. [j \in B |-> remittanceLog'[j].amountSent] = [j \in B |-> f[j]]
    BY <1>10
  <1>12. [j \in A |-> remittanceLog[j].amountSent] = [j \in A |-> f[j]]
    BY <1>7, <1>10
  <1>13. PICK S : S = 1..k
    OBVIOUS
  <1>14. /\ f \in [S -> Nat] /\ A \in SUBSET S /\ B \in SUBSET S /\ IsFiniteSet(S) /\ k \in S
         /\ k \notin A
    BY <1>4, <1>6, <1>7, <1>10, <1>13
  <1> HIDE DEF f, A, B
  <1>15. PICK tA : tA = [j \in A |-> f[j]]
    OBVIOUS
  <1>16. PICK tB : tB = [j \in B |-> f[j]]
    OBVIOUS
  <1>17. SentOn(v, d)' = Total(tB) /\ SentOn(v, d) = Total(tA)
    BY <1>9, <1>11, <1>12, <1>15, <1>16
  <1>18. Total(tA) \in Nat
    <2>1. tA \in [A -> Nat] /\ IsFiniteSet(A)
      BY <1>14, <1>15, FS_Subset
    <2>2. QED
      BY <2>1, TotalType
  <1>19. CASE v = w /\ d = today
    <2>1. B = A \cup {k}
      BY <1>8, <1>19
    <2>2. PICK P, y : P = A /\ y = k
      OBVIOUS
    <2>3. P \in SUBSET S /\ y \notin P /\ B = P \cup {y}
      BY <1>14, <2>1, <2>2
    <2>4. IsFiniteSet(P)
      BY <1>14, <2>3, FS_Subset
    <2>5. PICK Q : Q = P \cup {y}
      OBVIOUS
    <2>6. tA \in [P -> Nat] /\ tB \in [Q -> Nat] /\ (\A x \in P : tB[x] = tA[x]) /\ tB[y] = a
      BY <1>2, <1>7, <1>14, <1>15, <1>16, <2>2, <2>3, <2>5
    <2>7. Total(tB) = Total(tA) + tB[y]
      BY <2>3, <2>4, <2>5, <2>6, TotalPlus
    <2>8. Total(tB) = Total(tA) + a
      BY <2>6, <2>7
    <2>9. QED
      BY <1>17, <1>18, <1>19, <2>8
  <1>20. CASE ~(v = w /\ d = today)
    <2>1. B = A
      BY <1>8, <1>20
    <2>2. tB = tA
      BY <1>15, <1>16, <2>1
    <2>3. QED
      BY <1>17, <1>18, <1>20, <2>2
  <1>21. QED
    BY <1>19, <1>20

\* Every day is in a month bucket.
MonthOf(d) == d \div MonthDays
LEMMA MonthOfDay ==
    ASSUME NEW d \in Days
    PROVE  MonthOf(d) \in Months
  <1>1. d \in Nat /\ d <= LastDay /\ LastDay \in Nat /\ MonthDays \in Nat /\ MonthDays > 0
    BY RegistryAssumption DEF Days
  <1>2. PICK q \in Nat : q = d \div MonthDays /\ MonthDays * q <= d
    BY <1>1, Quotient
  <1>3. MonthDays * q \in Nat /\ MonthDays * q <= LastDay
    BY <1>1, <1>2
  <1>4. q <= LastDay \div MonthDays
    BY <1>1, <1>2, <1>3, QuotientLargest
  <1>5. LastDay \div MonthDays \in Nat
    BY <1>1, Quotient
  <1>6. QED
    BY <1>2, <1>4, <1>5 DEF MonthOf, Months

\* The days of a bucket add up to it.
MonthSum(w, m) == Total([d \in {e \in Days : MonthOf(e) = m} |-> dailySent[w][d]])
LEMMA MonthSums ==
    AccumulatorsMatchLog <=>
       \A w \in Wallets : /\ \A d \in Days : dailySent[w][d] = SentOn(w, d)
                          /\ \A m \in Months : monthlySent[w][m] = MonthSum(w, m)
  BY DEF AccumulatorsMatchLog, MonthSum, MonthOf

LEMMA DaysFinite == IsFiniteSet(Days)
  BY RegistryAssumption, FS_Interval DEF Days

LEMMA MonthSumAdds ==
    ASSUME RegistryOk, NEW w \in Wallets, NEW a \in Nat, today \in Days,
           dailySent' = [dailySent EXCEPT ![w][today] = @ + a], NEW m \in Months
    PROVE  /\ MonthSum(w, m) \in Nat
           /\ MonthSum(w, m)' = MonthSum(w, m) + (IF m = ThisMonth THEN a ELSE 0)
  <1>1. dailySent \in [Wallets -> [Days -> Nat]] /\ ThisMonth = MonthOf(today)
    BY DEF RegistryOk, RegistryInv, RegistryTypeOK, ThisMonth, MonthOf
  <1> DEFINE D == {e \in Days : MonthOf(e) = m}
             f == [d \in D |-> dailySent[w][d]]
             g == [d \in D |-> dailySent'[w][d]]
  <1>2. IsFiniteSet(D) /\ D \subseteq Days
    BY DaysFinite, FS_Subset
  <1>3. dailySent[w][today] \in Nat
    BY <1>1
  <1>4. \A d \in Days : dailySent'[w][d] = IF d = today THEN dailySent[w][today] + a ELSE dailySent[w][d]
    BY <1>1
  <1>5. f \in [D -> Nat] /\ g \in [D -> Nat] /\ \A d \in D : d # today => g[d] = f[d]
    BY <1>1, <1>2, <1>3, <1>4
  <1>6. today \in D <=> m = ThisMonth
    BY <1>1
  <1>7. today \in D => g[today] = f[today] + a
    BY <1>2, <1>4
  <1>8. MonthSum(w, m) = Total(f) /\ MonthSum(w, m)' = Total(g)
    BY DEF MonthSum
  <1> HIDE DEF D, f, g
  <1>9. CASE m = ThisMonth
    <2>1. today \in D
      BY <1>6, <1>9
    <2>2. /\ Total(f) \in Nat /\ Total(g) \in Nat /\ f[today] \in Nat /\ g[today] \in Nat
          /\ Total(g) = Total(f) - f[today] + g[today]
      BY <1>2, <1>5, <2>1, TotalChange
    <2>3. QED
      BY <1>7, <1>8, <1>9, <2>1, <2>2
  <1>10. CASE m # ThisMonth
    <2>1. \A d \in D : g[d] = f[d]
      BY <1>5, <1>6, <1>10
    <2>2. g = f
      BY <1>5, <2>1
    <2>3. Total(f) \in Nat
      BY <1>2, <1>5, TotalType
    <2>4. QED
      BY <1>8, <1>10, <2>2, <2>3
  <1>11. QED
    BY <1>9, <1>10

LEMMA RemittanceOk ==
    ASSUME RegistryOk, NEW w \in Wallets, NEW a \in RemitAmounts, RecordRemittance(w, a)
    PROVE  RegistryOk'
  <1>1. /\ RegistryTypeOK /\ IndexesAgree /\ CountIsActive /\ IdsInOrder /\ AccumulatorsMatchLog
        /\ WalletWithinLimits /\ a \in Nat
    BY RegistryAssumption DEF RegistryOk, RegistryInv
  <1>2. /\ dailySent \in [Wallets -> [Days -> Nat]] /\ monthlySent \in [Wallets -> [Months -> Nat]]
        /\ today \in Days /\ ThisMonth \in Months
    BY <1>1, MonthOfDay DEF RegistryTypeOK, ThisMonth, MonthOf
  <1>3. /\ dailySent' = [dailySent EXCEPT ![w][today] = @ + a]
        /\ monthlySent' = [monthlySent EXCEPT ![w][ThisMonth] = @ + a]
        /\ remittanceLog' = Append(remittanceLog, [sender |-> w, amountSent |-> a, day |-> today])
        /\ UNCHANGED <<consumers, ensByHash, consumerById, consumerCount, nextGlobalId, maxConsumers, today>>
    BY DEF RecordRemittance, identity
  <1>4. dailySent[w][today] + a \in Nat /\ monthlySent[w][ThisMonth] + a \in Nat
    BY <1>1, <1>2
  <1>5. /\ dailySent' \in [Wallets -> [Days -> Nat]]
        /\ \A v \in Wallets : \A d \in Days :
              dailySent'[v][d] = dailySent[v][d] + (IF v = w /\ d = today THEN a ELSE 0)
        /\ \A v \in Wallets : v # w => dailySent'[v] = dailySent[v]
    BY <1>2, <1>3, <1>4
  <1>6. /\ monthlySent' \in [Wallets -> [Months -> Nat]]
        /\ \A v \in Wallets : \A m \in Months :
              monthlySent'[v][m] = monthlySent[v][m] + (IF v = w /\ m = ThisMonth THEN a ELSE 0)
    BY <1>2, <1>3, <1>4
  <1>7. RegistryTypeOK'
    BY <1>1, <1>3, <1>5, <1>6 DEF RegistryTypeOK
  <1>8. IndexesAgree' /\ CountIsActive' /\ IdsInOrder'
    BY <1>1, <1>3 DEF IndexesAgree, CountIsActive, IdsInOrder, Active
  <1>9. remittanceLog' \in Seq(Remittance)
    <2>1. PICK e : e = [sender |-> w, amountSent |-> a, day |-> today]
      OBVIOUS
    <2>2. e \in Remittance /\ remittanceLog \in Seq(Remittance)
      BY <1>2, <2>1, LogTypes DEF Remittance
    <2>3. QED
      BY <1>3, <2>1, <2>2
  <1>10. \A v \in Wallets : \A d \in Days : dailySent'[v][d] = SentOn(v, d)'
    <2> SUFFICES ASSUME NEW v \in Wallets, NEW d \in Days PROVE dailySent'[v][d] = SentOn(v, d)'
      OBVIOUS
    <2>1. SentOn(v, d)' = SentOn(v, d) + (IF v = w /\ d = today THEN a ELSE 0)
      BY <1>2, <1>3, SentAppended
    <2>2. dailySent[v][d] = SentOn(v, d)
      BY <1>1 DEF AccumulatorsMatchLog
    <2>3. QED
      BY <1>5, <2>1, <2>2
  <1>11. \A v \in Wallets : \A m \in Months : monthlySent'[v][m] = MonthSum(v, m)'
    <2> SUFFICES ASSUME NEW v \in Wallets, NEW m \in Months PROVE monthlySent'[v][m] = MonthSum(v, m)'
      OBVIOUS
    <2>1. monthlySent[v][m] = MonthSum(v, m)
      BY <1>1, MonthSums
    <2>2. CASE v = w
      <3>1. MonthSum(w, m)' = MonthSum(w, m) + (IF m = ThisMonth THEN a ELSE 0)
        BY <1>1, <1>2, <1>3, MonthSumAdds
      <3>2. QED
        BY <1>6, <2>1, <2>2, <3>1
    <2>3. CASE v # w
      <3>1. MonthSum(v, m)' = MonthSum(v, m)
        BY <1>5, <2>3 DEF MonthSum
      <3>2. monthlySent'[v][m] = monthlySent[v][m]
        BY <1>2, <1>6, <2>3
      <3>3. QED
        BY <2>1, <3>1, <3>2
    <2>4. QED
      BY <2>2, <2>3
  <1>12. AccumulatorsMatchLog'
    <2>1. (AccumulatorsMatchLog <=>
             \A v \in Wallets : /\ \A d \in Days : dailySent[v][d] = SentOn(v, d)
                                /\ \A m \in Months : monthlySent[v][m] = MonthSum(v, m))'
      BY MonthSums DEF AccumulatorsMatchLog, MonthSum, MonthOf
    <2>2. QED
      BY <1>10, <1>11, <2>1
  <1>13. WalletWithinLimits'
    <2>1. PICK k : k = consumers[w].kycLevel
      OBVIOUS
    <2>2. k \in 1..3 /\ DailyLimit[k] \in Nat /\ MonthlyLimit[k] \in Nat
          /\ DailyLimit[3] \in Nat /\ MonthlyLimit[3] \in Nat
          /\ DailyLimit[k] <= DailyLimit[3] /\ MonthlyLimit[k] <= MonthlyLimit[3]
      <3>1. consumers[w] \in ConsumerData
        BY <1>1 DEF RecordRemittance, Active, RegistryTypeOK
      <3>2. k \in 0..3 /\ k # 0
        BY <2>1, <3>1 DEF RecordRemittance, CheckKycLimit, ConsumerData
      <3>3. k \in 1..3
        BY <3>2
      <3>4. QED
        BY <3>3, RegistryAssumption
    <2>3. /\ dailySent[w][today] + a <= DailyLimit[k]
          /\ monthlySent[w][ThisMonth] + a <= MonthlyLimit[k]
      BY <2>1 DEF RecordRemittance, CheckKycLimit
    <2>4. dailySent[w][today] + a <= DailyLimit[3] /\ monthlySent[w][ThisMonth] + a <= MonthlyLimit[3]
      BY <1>4, <2>2, <2>3
    <2>5. ASSUME NEW v \in Wallets, NEW d \in Days PROVE dailySent'[v][d] <= DailyLimit[3]
      <3>1. dailySent[v][d] <= DailyLimit[3] /\ dailySent[v][d] \in Nat
        BY <1>1, <1>2 DEF WalletWithinLimits
      <3>2. CASE v = w /\ d = today
        BY <1>5, <2>4, <3>2
      <3>3. CASE ~(v = w /\ d = today)
        BY <1>5, <3>1, <3>3
      <3>4. QED
        BY <3>2, <3>3
    <2>6. ASSUME NEW v \in Wallets, NEW m \in Months PROVE monthlySent'[v][m] <= MonthlyLimit[3]
      <3>1. monthlySent[v][m] <= MonthlyLimit[3] /\ monthlySent[v][m] \in Nat
        BY <1>1, <1>2 DEF WalletWithinLimits
      <3>2. CASE v = w /\ m = ThisMonth
        BY <1>6, <2>4, <3>2
      <3>3. CASE ~(v = w /\ m = ThisMonth)
        BY <1>6, <3>1, <3>3
      <3>4. QED
        BY <3>2, <3>3
    <2>7. QED
      BY <2>5, <2>6 DEF WalletWithinLimits
  <1>14. QED
    BY <1>7, <1>8, <1>9, <1>12, <1>13 DEF RegistryOk, RegistryInv

\* Calls and the clock that touch neither a consumer nor what is sent.
LEMMA StillOk ==
    ASSUME RegistryOk, UNCHANGED <<identity, spend>>, maxConsumers' \in Caps, today' \in Days
    PROVE  RegistryOk'
  <1>1. /\ UNCHANGED <<consumers, ensByHash, consumerById, consumerCount, nextGlobalId>>
        /\ UNCHANGED <<dailySent, monthlySent, remittanceLog>> /\ UNCHANGED spend
    BY DEF identity, spend
  <1>2. RegistryTypeOK /\ IndexesAgree /\ CountIsActive /\ IdsInOrder
    BY DEF RegistryOk, RegistryInv
  <1>3. RegistryTypeOK'
    BY <1>1, <1>2 DEF RegistryTypeOK
  <1>4. IndexesAgree' /\ CountIsActive' /\ IdsInOrder'
    BY <1>1, <1>2 DEF IndexesAgree, CountIsActive, IdsInOrder, Active
  <1>5. QED
    BY <1>1, <1>3, <1>4, SpendStill DEF RegistryOk, RegistryInv

LEMMA RegistryStarts == RegistryInit => RegistryOk
  <1> SUFFICES ASSUME RegistryInit PROVE RegistryOk
    OBVIOUS
  <1>1. /\ consumers = [w \in {} |-> NoWallet] /\ DOMAIN consumers = {}
        /\ ensByHash = [n \in Names |-> NoWallet] /\ consumerById = [i \in Ids |-> NoWallet]
        /\ consumerCount = 0 /\ nextGlobalId = 0 /\ maxConsumers \in Caps
        /\ dailySent = [w \in Wallets |-> [d \in Days |-> 0]]
        /\ monthlySent = [w \in Wallets |-> [m \in Months |-> 0]]
        /\ remittanceLog = <<>> /\ today = 0
    BY DEF RegistryInit
  <1>2. RegistryTypeOK
    BY <1>1, RegistryAssumption DEF RegistryTypeOK, Days
  <1>3. IndexesAgree
    BY <1>1 DEF IndexesAgree
  <1>4. CountIsActive
    BY <1>1, FS_EmptySet DEF CountIsActive
  <1>5. \A w \in Wallets : \A d \in Days : SentOn(w, d) = 0
    <2> SUFFICES ASSUME NEW w \in Wallets, NEW d \in Days PROVE SentOn(w, d) = 0
      OBVIOUS
    <2> DEFINE S == {j \in 1..Len(remittanceLog) : remittanceLog[j].sender = w /\ remittanceLog[j].day = d}
    <2>1. S = {}
      BY <1>1
    <2>2. SentOn(w, d) = Total([j \in S |-> remittanceLog[j].amountSent])
      BY DEF SentOn
    <2>3. [j \in S |-> remittanceLog[j].amountSent] = [j \in S |-> 0]
      BY <2>1
    <2> HIDE DEF S
    <2>4. Total([j \in S |-> 0]) = 0
      BY TotalZero
    <2>5. QED
      BY <2>2, <2>3, <2>4
  <1>6. \A w \in Wallets : \A m \in Months : MonthSum(w, m) = 0
    <2> SUFFICES ASSUME NEW w \in Wallets, NEW m \in Months PROVE MonthSum(w, m) = 0
      OBVIOUS
    <2> DEFINE S == {e \in Days : MonthOf(e) = m}
    <2>1. MonthSum(w, m) = Total([d \in S |-> dailySent[w][d]])
      BY DEF MonthSum
    <2>2. [d \in S |-> dailySent[w][d]] = [d \in S |-> 0]
      BY <1>1
    <2> HIDE DEF S
    <2>3. Total([d \in S |-> 0]) = 0
      BY TotalZero
    <2>4. QED
      BY <2>1, <2>2, <2>3
  <1>7. AccumulatorsMatchLog
    BY <1>1, <1>5, <1>6, MonthSums
  <1>8. WalletWithinLimits
    <2>1. DailyLimit[3] \in Nat /\ MonthlyLimit[3] \in Nat
      BY RegistryAssumption
    <2>2. \A w \in Wallets : (\A d \in Days : dailySent[w][d] = 0) /\ (\A m \in Months : monthlySent[w][m] = 0)
      BY <1>1
    <2>3. QED
      BY <2>1, <2>2 DEF WalletWithinLimits
  <1>9. IdsInOrder /\ remittanceLog \in Seq(Remittance)
    BY <1>1 DEF IdsInOrder
  <1>10. QED
    BY <1>2, <1>3, <1>4, <1>7, <1>8, <1>9 DEF RegistryOk, RegistryInv

LEMMA RegistryStep ==
    ASSUME RegistryOk, [RegistryNext]_registryVars
    PROVE  RegistryOk'
  <1>1. maxConsumers \in Caps /\ today \in Days
    BY DEF RegistryOk, RegistryInv, RegistryTypeOK
  <1>2. CASE UNCHANGED registryVars
    <2>1. UNCHANGED <<identity, spend>> /\ maxConsumers' = maxConsumers /\ today' = today
      BY <1>2 DEF registryVars
    <2>2. QED
      BY <1>1, <2>1, StillOk
  <1>3. ASSUME NEW n \in Caps, SetMaxConsumers(n)
        PROVE  RegistryOk'
    <2>1. UNCHANGED <<identity, spend>> /\ maxConsumers' \in Caps /\ today' = today
      BY <1>3 DEF SetMaxConsumers
    <2>2. QED
      BY <1>1, <2>1, StillOk
  <1>4. CASE NextDay
    <2>1. UNCHANGED <<identity, spend>> /\ maxConsumers' = maxConsumers /\ today' \in Days
      BY <1>1, <1>4, RegistryAssumption DEF NextDay, Days
    <2>2. QED
      BY <1>1, <2>1, StillOk
  <1>5. ASSUME NEW w \in Wallets, NEW v \in Wallets, NEW k \in Levels,
               SetSaveWallet(w, v) \/ SetUsdWallet(w, v) \/ UpdateKycLevel(w, k)
        PROVE  RegistryOk'
    BY <1>5, EditRecords, EditOk
  <1>6. Levels # {} /\ \A x : x \in Wallets => Wallets # {}
    BY RegistryAssumption
  <1>7. CASE Identity
    BY <1>3, <1>5, <1>6, <1>7, RegisterOk, RecoverOk DEF Identity
  <1>8. CASE Spending
    BY <1>4, <1>8, RemittanceOk DEF Spending
  <1>9. QED
    BY <1>2, <1>7, <1>8 DEF RegistryNext

\* In every order of registrations, recoveries, links, level changes and
\* remittances, by any number of consumers and over any number of months, the
\* indexes of Consumer.sol lead to the one active wallet of each consumer, the count
\* is theirs, the accumulators are the sums of the log, and no wallet exceeds the
\* largest limits.
THEOREM RegistryInvariant == RegistrySpec => []RegistryInv
  <1>1. RegistryOk /\ [RegistryNext]_registryVars => RegistryOk'
    BY RegistryStep
  <1>2. RegistryOk => RegistryInv
    BY DEF RegistryOk
  <1>3. QED
    BY <1>1, <1>2, RegistryStarts, PTL DEF RegistrySpec

-----------------------------------------------------------------------------
\* One step of IdentityKept: for a consumer, and for a retired wallet.
KeepsConsumer(i) ==
    consumerById[i] # NoWallet =>
       /\ consumers'[consumerById'[i]].countryCode = consumers[consumerById[i]].countryCode
       /\ consumers'[consumerById'[i]].ens = consumers[consumerById[i]].ens
       /\ consumers[consumerById[i]].saveWallet # NoWallet =>
             consumers'[consumerById'[i]].saveWallet = consumers[consumerById[i]].saveWallet
       /\ consumers[consumerById[i]].usdWallet # NoWallet =>
             consumers'[consumerById'[i]].usdWallet = consumers[consumerById[i]].usdWallet
KeepsRetired(w) ==
    ~consumers[w].isActive => consumers'[w] = consumers[w] /\ dailySent'[w] = dailySent[w]
IdentityStep ==
    /\ \A i \in Ids : KeepsConsumer(i)
    /\ \A w \in DOMAIN consumers : KeepsRetired(w)

\* An id that is used leads to an active wallet which has it.
LEMMA LedBy ==
    ASSUME RegistryOk, NEW i \in Ids, consumerById[i] # NoWallet
    PROVE  /\ consumerById[i] \in DOMAIN consumers /\ consumers[consumerById[i]].isActive
           /\ consumers[consumerById[i]].globalConsumerId = i
           /\ i < nextGlobalId
  <1>1. RegistryTypeOK /\ Leads
    BY IndexesLead DEF RegistryOk, RegistryInv
  <1>2. PICK w \in Wallets : w = consumerById[i]
    BY <1>1 DEF RegistryTypeOK
  <1>3. Active(w) /\ consumers[w].globalConsumerId = i
    BY <1>1, <1>2 DEF Leads
  <1>4. QED
    BY <1>2, <1>3 DEF Active, RegistryOk, IdsInOrder

\* A step that leaves the records of the consumers alone.
LEMMA RecordsStay ==
    ASSUME UNCHANGED <<consumers, consumerById>>, dailySent' = dailySent
    PROVE  IdentityStep
  BY DEF IdentityStep, KeepsConsumer, KeepsRetired

\* A new consumer has an id that no one had.
LEMMA RegisterKeeps ==
    ASSUME RegistryOk, NEW w \in Wallets, NEW n \in Names \cup {NoName}, NEW c \in Countries,
           NEW k \in Levels, RegisterConsumer(w, n, c, k)
    PROVE  IdentityStep
  <1>1. RegistryTypeOK
    BY DEF RegistryOk, RegistryInv
  <1>2. /\ w \notin DOMAIN consumers /\ dailySent' = dailySent
        /\ \A x \in DOMAIN consumers : consumers'[x] = consumers[x]
        /\ consumerById' = [consumerById EXCEPT ![nextGlobalId] = w]
    BY DEF RegisterConsumer, Recorded, spend
  <1>3. ASSUME NEW i \in Ids, consumerById[i] # NoWallet
        PROVE  consumerById'[i] = consumerById[i] /\ consumerById[i] \in DOMAIN consumers
    <2>1. i < nextGlobalId /\ i \in Nat /\ nextGlobalId \in Nat
      BY <1>1, <1>3, LedBy DEF Ids, RegistryTypeOK
    <2>2. i # nextGlobalId
      BY <2>1
    <2>3. QED
      BY <1>1, <1>2, <1>3, <2>2, LedBy DEF RegistryTypeOK
  <1>4. QED
    BY <1>2, <1>3 DEF IdentityStep, KeepsConsumer, KeepsRetired

\* A recovered consumer is found at the new wallet, with the record of the old one.
LEMMA RecoverKeeps ==
    ASSUME RegistryOk, NEW old \in Wallets, NEW w \in Wallets, NEW n \in Names, RecoverWallet(old, n, w)
    PROVE  IdentityStep
  <1>1. RegistryTypeOK
    BY DEF RegistryOk, RegistryInv
  <1>2. PICK r, g : r = consumers[old] /\ g = r.globalConsumerId
    OBVIOUS
  <1>3. /\ old \in DOMAIN consumers /\ w \notin DOMAIN consumers /\ r.isActive
        /\ dailySent' = dailySent /\ consumers'[w] = r
        /\ \A x \in DOMAIN consumers : x # old => consumers'[x] = consumers[x]
        /\ consumerById' = [consumerById EXCEPT ![g] = w]
    BY <1>1, <1>2 DEF RecoverWallet, Active, RegistryTypeOK, spend
  <1>4. ASSUME NEW i \in Ids, consumerById[i] # NoWallet
        PROVE  consumers'[consumerById'[i]] = consumers[consumerById[i]]
    <2>1. /\ consumerById[i] \in DOMAIN consumers
          /\ consumers[consumerById[i]].isActive
          /\ consumers[consumerById[i]].globalConsumerId = i
      BY <1>4, LedBy
    <2>2. CASE i = g
      <3>1. consumerById'[i] = w
        BY <1>1, <1>3, <2>2 DEF RegistryTypeOK
      <3>2. consumerById[i] = old
        <4>1. Active(old) /\ consumers[old].globalConsumerId = i /\ Leads
          BY <1>1, <1>2, <1>3, <2>2, IndexesLead DEF Active, RegistryOk, RegistryInv
        <4>2. QED
          BY <4>1 DEF Leads
      <3>3. QED
        BY <1>2, <1>3, <3>1, <3>2
    <2>3. CASE i # g
      <3>1. consumerById'[i] = consumerById[i] /\ consumerById[i] # old
        BY <1>1, <1>2, <1>3, <2>1, <2>3 DEF RegistryTypeOK
      <3>2. QED
        BY <1>3, <2>1, <3>1
    <2>4. QED
      BY <2>2, <2>3
  <1>5. ASSUME NEW x \in DOMAIN consumers
        PROVE  KeepsRetired(x)
    BY <1>2, <1>3, <1>5 DEF KeepsRetired
  <1>6. QED
    BY <1>4, <1>5 DEF IdentityStep, KeepsConsumer

\* A link is set once, and a level is not an identity.
LEMMA EditKeeps ==
    ASSUME RegistryOk, NEW w \in Wallets, NEW v \in Wallets, NEW k \in Levels,
           SetSaveWallet(w, v) \/ SetUsdWallet(w, v) \/ UpdateKycLevel(w, k)
    PROVE  IdentityStep
  <1>1. PICK r \in ConsumerData :
           /\ r.ens = consumers[w].ens /\ r.countryCode = consumers[w].countryCode
           /\ consumers[w].saveWallet # NoWallet => r.saveWallet = consumers[w].saveWallet
           /\ consumers[w].usdWallet # NoWallet => r.usdWallet = consumers[w].usdWallet
           /\ consumers' = [consumers EXCEPT ![w] = r]
    BY EditRecords
  <1>2. Active(w) /\ consumerById' = consumerById /\ dailySent' = dailySent
    BY EditRecords DEF spend
  <1>3. /\ w \in DOMAIN consumers /\ consumers[w].isActive /\ consumers'[w] = r
        /\ \A x \in DOMAIN consumers : x # w => consumers'[x] = consumers[x]
    BY <1>1, <1>2 DEF Active
  <1>4. ASSUME NEW i \in Ids
        PROVE  KeepsConsumer(i)
    <2>1. consumerById[i] # NoWallet => consumerById[i] \in DOMAIN consumers
      BY LedBy
    <2>2. CASE consumerById[i] = w
      BY <1>1, <1>2, <1>3, <2>2 DEF KeepsConsumer
    <2>3. CASE consumerById[i] # w
      BY <1>2, <1>3, <2>1, <2>3 DEF KeepsConsumer
    <2>4. QED
      BY <2>2, <2>3
  <1>5. ASSUME NEW x \in DOMAIN consumers
        PROVE  KeepsRetired(x)
    BY <1>2, <1>3, <1>5 DEF KeepsRetired
  <1>6. QED
    BY <1>4, <1>5 DEF IdentityStep

\* Only an active wallet sends.
LEMMA RemittanceKeeps ==
    ASSUME RegistryOk, NEW w \in Wallets, NEW a \in RemitAmounts, RecordRemittance(w, a)
    PROVE  IdentityStep
  <1>1. /\ dailySent \in [Wallets -> [Days -> Nat]] /\ DOMAIN consumers \subseteq Wallets
    BY DEF RegistryOk, RegistryInv, RegistryTypeOK
  <1>2. /\ w \in DOMAIN consumers /\ consumers[w].isActive
        /\ consumers' = consumers /\ consumerById' = consumerById
        /\ dailySent' = [dailySent EXCEPT ![w] = [dailySent[w] EXCEPT ![today] = @ + a]]
    BY DEF RecordRemittance, Active, identity
  <1>3. \A x \in Wallets : x # w => dailySent'[x] = dailySent[x]
    BY <1>1, <1>2
  <1>4. QED
    BY <1>1, <1>2, <1>3 DEF IdentityStep, KeepsConsumer, KeepsRetired

LEMMA IdentityStepKept ==
    ASSUME RegistryOk, [RegistryNext]_registryVars
    PROVE  IdentityStep
  <1>1. CASE UNCHANGED registryVars
    BY <1>1, RecordsStay DEF registryVars, identity, spend
  <1>2. ASSUME NEW n \in Caps, SetMaxConsumers(n)
        PROVE  IdentityStep
    BY <1>2, RecordsStay DEF SetMaxConsumers, identity, spend
  <1>3. ASSUME NEW w \in Wallets, NEW v \in Wallets, NEW k \in Levels,
               SetSaveWallet(w, v) \/ SetUsdWallet(w, v) \/ UpdateKycLevel(w, k)
        PROVE  IdentityStep
    BY <1>3, EditKeeps
  <1>4. Levels # {} /\ \A x : x \in Wallets => Wallets # {}
    BY RegistryAssumption
  <1>5. CASE Identity
    BY <1>2, <1>3, <1>4, <1>5, RegisterKeeps, RecoverKeeps DEF Identity
  <1>6. CASE NextDay
    BY <1>6, RecordsStay DEF NextDay, identity, spend
  <1>7. CASE Spending
    BY <1>6, <1>7, RemittanceKeeps DEF Spending
  <1>8. QED
    BY <1>1, <1>5, <1>7 DEF RegistryNext

\* Whoever is looked up by id keeps its country, its name and its linked wallets
\* through any number of recoveries, and a retired wallet's record is never touched
\* again (recoverWallet, setSaveWallet and setUsdWallet of Consumer.sol).
THEOREM IdentityStays == RegistrySpec => IdentityKept
  <1>1. RegistryOk /\ [RegistryNext]_registryVars => RegistryOk'
    BY RegistryStep
  <1>2. RegistryOk /\ [RegistryNext]_registryVars => IdentityStep
    BY IdentityStepKept
  <1>3. [][IdentityStep]_registryVars => IdentityKept
    <2>1. [IdentityStep]_registryVars =>
          [/\ \A i \in Ids :
                consumerById[i] # NoWallet =>
                   LET before == consumers[consumerById[i]]
                       after  == consumers'[consumerById'[i]]
                   IN  /\ after.countryCode = before.countryCode /\ after.ens = before.ens
                       /\ before.saveWallet # NoWallet => after.saveWallet = before.saveWallet
                       /\ before.usdWallet # NoWallet => after.usdWallet = before.usdWallet
           /\ \A w \in DOMAIN consumers :
                ~consumers[w].isActive =>
                   consumers'[w] = consumers[w] /\ dailySent'[w] = dailySent[w]]_registryVars
      BY DEF IdentityStep, KeepsConsumer, KeepsRetired
    <2>2. QED
      BY <2>1, PTL DEF IdentityKept
  <1>4. QED
    BY <1>1, <1>2, <1>3, RegistryStarts, PTL DEF RegistrySpec

(***************************************************************************)
(*                   The deployment of a treasury token                    *)
(***************************************************************************)

Busy(o) == job[o].pc # "idle"

DeployTypes ==
    /\ deployed \subseteq Proxies /\ impl \in [Proxies \cup {Old} -> {"own", "none", "shared"}]
    /\ wires \in [Proxies -> Nat]
    /\ vaultToken \in Proxies \cup {NoProxy} /\ coin \in Proxies \cup {NoProxy}
    /\ job \in [Operators -> [pc : {"idle", "proxy", "wire"}, proxy : Proxies \cup {NoProxy}]]
    /\ overlap \in BOOLEAN

\* A proxy is deployed over the shared implementation before anything refers to it.
ProxiesOk ==
    /\ \A p \in deployed : impl[p] = "shared"
    /\ \A p \in Proxies : wires[p] # 0 => p \in deployed
    /\ \A o \in Operators : job[o].pc = "wire" => job[o].proxy \in deployed
    /\ coin # NoProxy => coin \in deployed

\* One deployment at a time, of a currency without a token: the Vault holds the proxy
\* that is being wired, then the one that was.
OneAtATime ==
    /\ \A o, q \in Operators : Busy(o) /\ Busy(q) => o = q
    /\ \A o \in Operators : Busy(o) => coin = NoProxy
    /\ \A o \in Operators :
          job[o].pc = "wire" /\ wires[job[o].proxy] # 0 => vaultToken = job[o].proxy
    /\ coin # NoProxy => vaultToken = coin /\ wires[coin] = Wires

DeployInv == DeployTypes /\ ProxiesOk /\ (~overlap => OneAtATime)

LEMMA CheckDeployOk ==
    ASSUME DeployInv, NEW o \in Operators, CheckDeploy(o)
    PROVE  DeployInv'
  <1>1. DeployTypes /\ ProxiesOk
    BY DEF DeployInv
  <1>2. /\ job' = [job EXCEPT ![o].pc = "proxy"] /\ job[o].pc = "idle" /\ coin = NoProxy
        /\ UNCHANGED <<deployed, impl, wires, vaultToken, coin>>
        /\ overlap' = (overlap \/ \E q \in Operators : job[q].pc \in {"proxy", "wire"})
    BY DEF CheckDeploy
  <1>3. /\ job'[o].pc = "proxy"
        /\ \A q \in Operators : q # o => job'[q] = job[q]
    BY <1>1, <1>2 DEF DeployTypes
  <1>4. DeployTypes'
    <2>1. job' \in [Operators -> [pc : {"idle", "proxy", "wire"}, proxy : Proxies \cup {NoProxy}]]
      BY <1>1, <1>2 DEF DeployTypes
    <2>2. overlap' \in BOOLEAN
      BY <1>2, Zenon
    <2>3. QED
      BY <1>1, <1>2, <2>1, <2>2 DEF DeployTypes
  <1>5. ProxiesOk'
    BY <1>1, <1>2, <1>3 DEF ProxiesOk
  <1>6. ASSUME ~overlap'
        PROVE  OneAtATime'
    <2>1. \A q \in Operators : job[q].pc = "idle"
      BY <1>1, <1>2, <1>6 DEF DeployTypes
    <2>2. \A q \in Operators : q # o => job'[q].pc = "idle"
      BY <1>3, <2>1
    <2>3. QED
      BY <1>2, <1>3, <2>2 DEF OneAtATime, Busy
  <1>7. QED
    BY <1>4, <1>5, <1>6 DEF DeployInv

LEMMA DeployProxyOk ==
    ASSUME DeployInv, NEW o \in Operators, DeployProxy(o)
    PROVE  DeployInv'
  <1>1. DeployTypes /\ ProxiesOk
    BY DEF DeployInv
  <1>2. PICK p \in Proxies \ deployed :
           /\ deployed' = deployed \cup {p} /\ impl' = [impl EXCEPT ![p] = "shared"]
           /\ job' = [job EXCEPT ![o] = [pc |-> "wire", proxy |-> p]]
    BY DEF DeployProxy
  <1>3. job[o].pc = "proxy" /\ UNCHANGED <<wires, vaultToken, coin, overlap>>
    BY DEF DeployProxy
  <1>4. /\ job'[o].pc = "wire" /\ job'[o].proxy = p /\ \A q \in Operators : q # o => job'[q] = job[q]
        /\ impl'[p] = "shared" /\ \A q \in Proxies : q # p => impl'[q] = impl[q]
        /\ wires[p] = 0
    BY <1>1, <1>2 DEF DeployTypes, ProxiesOk
  <1>5. DeployTypes'
    BY <1>1, <1>2, <1>3 DEF DeployTypes
  <1>6. ProxiesOk'
    BY <1>1, <1>2, <1>3, <1>4 DEF ProxiesOk, DeployTypes
  <1>7. ASSUME ~overlap'
        PROVE  OneAtATime'
    <2>1. OneAtATime
      BY <1>3, <1>7 DEF DeployInv
    <2>2. QED
      BY <1>3, <1>4, <2>1 DEF OneAtATime, Busy
  <1>8. QED
    BY <1>5, <1>6, <1>7 DEF DeployInv

LEMMA WireOk ==
    ASSUME DeployInv, NEW o \in Operators, Wire(o)
    PROVE  DeployInv'
  <1>1. DeployTypes /\ ProxiesOk
    BY DEF DeployInv
  <1>2. PICK p \in deployed : p = job[o].proxy
    BY <1>1 DEF ProxiesOk, Wire
  <1>3. /\ job[o].pc = "wire" /\ wires' = [wires EXCEPT ![p] = @ + 1]
        /\ vaultToken' = IF wires[p] = 0 THEN p ELSE vaultToken
        /\ UNCHANGED <<deployed, impl, coin, job, overlap>>
    BY <1>2 DEF Wire
  <1>4. /\ p \in Proxies /\ wires'[p] = wires[p] + 1 /\ wires'[p] \in Nat
        /\ \A q \in Proxies : q # p => wires'[q] = wires[q]
    BY <1>1, <1>3 DEF DeployTypes
  <1>5. DeployTypes'
    BY <1>1, <1>3, <1>4 DEF DeployTypes
  <1>6. ProxiesOk'
    BY <1>1, <1>2, <1>3, <1>4 DEF ProxiesOk, DeployTypes
  <1>7. ASSUME ~overlap'
        PROVE  OneAtATime'
    <2>1. OneAtATime
      BY <1>3, <1>7 DEF DeployInv
    <2>2. coin = NoProxy /\ (\A q \in Operators : Busy(q) => q = o) /\ vaultToken' = p
      BY <1>2, <1>3, <2>1 DEF OneAtATime, Busy
    <2>3. QED
      BY <1>2, <1>3, <2>2 DEF OneAtATime, Busy
  <1>8. QED
    BY <1>5, <1>6, <1>7 DEF DeployInv

LEMMA RegisterTokenOk ==
    ASSUME DeployInv, NEW o \in Operators, Register(o)
    PROVE  DeployInv'
  <1>1. DeployTypes /\ ProxiesOk
    BY DEF DeployInv
  <1>2. PICK p \in deployed : p = job[o].proxy
    BY <1>1 DEF ProxiesOk, Register
  <1>3. /\ job[o].pc = "wire" /\ wires[p] = Wires /\ coin' = p
        /\ job' = [job EXCEPT ![o] = Resting]
        /\ UNCHANGED <<deployed, impl, wires, vaultToken, overlap>>
    BY <1>2 DEF Register
  <1>4. p \in Proxies /\ job'[o].pc = "idle" /\ \A q \in Operators : q # o => job'[q] = job[q]
    BY <1>1, <1>3 DEF DeployTypes, Resting
  <1>5. DeployTypes'
    BY <1>1, <1>3, <1>4 DEF DeployTypes, Resting
  <1>6. ProxiesOk'
    BY <1>1, <1>2, <1>3, <1>4 DEF ProxiesOk
  <1>7. ASSUME ~overlap'
        PROVE  OneAtATime'
    <2>1. OneAtATime
      BY <1>3, <1>7 DEF DeployInv
    <2>2. \A q \in Operators : ~Busy(q)'
      BY <1>3, <1>4, <2>1 DEF OneAtATime, Busy
    <2>3. vaultToken = p
      BY <1>2, <1>3, <2>1, DeployAssumption DEF OneAtATime
    <2>4. QED
      BY <1>3, <2>2, <2>3 DEF OneAtATime, Busy
  <1>8. QED
    BY <1>5, <1>6, <1>7 DEF DeployInv

LEMMA DeployFailsOk ==
    ASSUME DeployInv, NEW o \in Operators, DeployFails(o)
    PROVE  DeployInv'
  <1>1. DeployTypes /\ ProxiesOk
    BY DEF DeployInv
  <1>2. /\ job' = [job EXCEPT ![o] = Resting]
        /\ UNCHANGED <<deployed, impl, wires, vaultToken, coin, overlap>>
    BY DEF DeployFails
  <1>3. job'[o].pc = "idle" /\ \A q \in Operators : q # o => job'[q] = job[q]
    BY <1>1, <1>2 DEF DeployTypes, Resting
  <1>4. DeployTypes'
    BY <1>1, <1>2 DEF DeployTypes, Resting
  <1>5. ProxiesOk'
    BY <1>1, <1>2, <1>3 DEF ProxiesOk
  <1>6. ASSUME ~overlap'
        PROVE  OneAtATime'
    <2>1. OneAtATime
      BY <1>2, <1>6 DEF DeployInv
    <2>2. QED
      BY <1>2, <1>3, <2>1 DEF OneAtATime, Busy
  <1>7. QED
    BY <1>4, <1>5, <1>6 DEF DeployInv

\* reconcileTreasuryInstances only ever points an instance at the shared implementation.
LEMMA ReconcileOk ==
    ASSUME DeployInv,
           impl' = impl \/ \E p \in Proxies \cup {Old} : impl' = [impl EXCEPT ![p] = "shared"],
           UNCHANGED <<deployed, wires, vaultToken, coin, job, overlap>>
    PROVE  DeployInv'
  <1>1. DeployTypes /\ ProxiesOk /\ (~overlap => OneAtATime)
    BY DEF DeployInv
  <1>2. DeployTypes'
    BY <1>1 DEF DeployTypes
  <1>3. ProxiesOk'
    BY <1>1 DEF ProxiesOk, DeployTypes
  <1>4. OneAtATime' <=> OneAtATime
    BY DEF OneAtATime, Busy
  <1>5. QED
    BY <1>1, <1>2, <1>3, <1>4 DEF DeployInv

LEMMA DeployStep ==
    ASSUME DeployInv, [DeployNext]_deployVars
    PROVE  DeployInv'
  <1>1. CASE UNCHANGED deployVars
    BY <1>1, ReconcileOk DEF deployVars
  <1>2. ASSUME NEW o \in Operators,
               CheckDeploy(o) \/ DeployProxy(o) \/ Wire(o) \/ Register(o) \/ DeployFails(o)
        PROVE  DeployInv'
    BY <1>2, CheckDeployOk, DeployProxyOk, WireOk, RegisterTokenOk, DeployFailsOk
  <1>3. ASSUME NEW p \in Proxies \cup {Old}, AlignInstance(p)
        PROVE  DeployInv'
    BY <1>3, ReconcileOk DEF AlignInstance
  <1>4. CASE DropStrayRows
    BY <1>4, ReconcileOk DEF DropStrayRows
  <1>5. QED
    BY <1>1, <1>2, <1>3, <1>4 DEF DeployNext

LEMMA DeployStarts == DeployInit => DeployInv
  <1> SUFFICES ASSUME DeployInit PROVE DeployInv
    OBVIOUS
  <1>1. DeployTypes
    BY DEF DeployInit, DeployTypes, Resting
  <1>2. \A o \in Operators : job[o].pc = "idle"
    BY DEF DeployInit, Resting
  <1>3. ProxiesOk /\ OneAtATime
    BY <1>2 DEF DeployInit, ProxiesOk, OneAtATime, Busy
  <1>4. QED
    BY <1>1, <1>3 DEF DeployInv

\* However often a deployment fails half-way and is started again, by any number of
\* operators and with any number of wiring transactions, the token that the platform
\* registers is the one the Vault holds and its wiring is complete, unless two
\* deployments ran at the same time (deployTreasuryToken).
THEOREM DeploysWired == DeploySpec => []TokenWired
  <1>1. DeployInv /\ [DeployNext]_deployVars => DeployInv'
    BY DeployStep
  <1>2. DeployInv => TokenWired
    BY DEF DeployInv, ProxiesOk, OneAtATime, TokenWired
  <1>3. QED
    BY <1>1, <1>2, DeployStarts, PTL DEF DeploySpec

(***************************************************************************)
(*                               The indexer                               *)
(***************************************************************************)
\* The chain: a transaction is mined only after it was sent, and in a block that
\* exists.
ChainOk ==
    /\ head \in Nat /\ at \in [Txs -> Nat] /\ sent \subseteq Txs
    /\ \A t \in Txs : at[t] <= head /\ (at[t] # 0 => t \in sent)

\* No block so deep can be replaced.
Deep(b) == b \in Nat /\ b <= head - Confirmations

LogRows == [tx : Txs, block : Nat]

\* Every row is a log of the chain that stands, below what may be replaced.
EventsOk ==
    \A e \in events : e \in LogRows /\ at[e.tx] = e.block /\ e.block > 0 /\ Deep(e.block)

\* What the cursor has passed is deep, and every log there has its row.
ScannedOk ==
    /\ \A p \in scanned : Deep(p[2])
    /\ \A t \in Txs : at[t] # 0 /\ <<EmitterOf[t], at[t]>> \in scanned => t \in Indexed

\* From where it began, the cursor has passed every block for every configured
\* contract.
CursorOk ==
    /\ cursor \in Nat \cup {NoBlock} /\ origin \in Nat \cup {NoBlock}
    /\ cursor # NoBlock => \A c \in Core, b \in origin + 1..cursor : <<c, b>> \in scanned
    /\ targets # {} => Core \subseteq targets

\* The log of a transaction is waiting to be inserted.
Waiting(t) == \E l \in reader.logs : l.tx = t

\* A tick reads only what is deep; and the logs of the blocks it has read are
\* waiting or have their row.
ReaderOk ==
    /\ reader \in [pc : {"idle", "read", "insert"}, safe : Int, chunks : Nat, to : Int, logs : SUBSET LogRows]
    /\ reader.pc # "idle" => /\ cursor \in Nat /\ cursor < reader.safe
                             /\ Deep(reader.safe) /\ targets # {}
    /\ reader.pc = "insert" =>
          /\ cursor < reader.to /\ reader.to <= reader.safe
          /\ \A l \in reader.logs : at[l.tx] = l.block /\ l.block \in cursor + 1..reader.to
          /\ \A t \in Txs : at[t] \in cursor + 1..reader.to /\ EmitterOf[t] \in targets
                => t \in Indexed \/ Waiting(t)

IndexInv == ChainOk /\ EventsOk /\ ScannedOk /\ CursorOk /\ ReaderOk

\* What a block or a reorganisation does to the chain: only transactions above
\* the confirmed blocks move, and only out of the chain or into a new block.
ChainMoves ==
    /\ head' \in Nat /\ head <= head' /\ at' \in [Txs -> Nat]
    /\ \A t \in Txs : /\ at'[t] <= head'
                      /\ at'[t] = at[t] \/ ( /\ at[t] = 0 \/ at[t] > head - Confirmations
                                             /\ at'[t] = 0 \/ at'[t] > head )

\* The least of two numbers.
LEMMA MinOfTwo ==
    ASSUME NEW a \in Int, NEW b \in Int
    PROVE  /\ Min({a, b}) \in {a, b} /\ Min({a, b}) <= a /\ Min({a, b}) <= b
  <1>1. \E x \in {a, b} : \A y \in {a, b} : x <= y
    <2>1. CASE a <= b
      BY <2>1
    <2>2. CASE b <= a
      BY <2>2
    <2> QED BY <2>1, <2>2
  <1>2. Min({a, b}) \in {a, b} /\ \A y \in {a, b} : Min({a, b}) <= y
    BY <1>1, Zenon DEF Min
  <1> QED BY <1>2

LEMMA EmptyRange ==
    ASSUME NEW n \in Nat
    PROVE  n + 1..n = {}
  OBVIOUS

LEMMA StillBelow ==
    ASSUME NEW b \in Int, NEW h \in Int, NEW k \in Int, NEW c \in Int, b <= h - c, h <= k
    PROVE  b <= k - c
  OBVIOUS

LEMMA DeepStays ==
    ASSUME ChainOk, ChainMoves, NEW b, Deep(b)
    PROVE  /\ b \in Nat /\ b <= head' - Confirmations
           /\ \A t \in Txs : b > 0 => (at'[t] = b <=> at[t] = b)
  <1>1. Confirmations \in Nat
    BY IndexerAssumption
  <1>2. b \in Nat /\ b <= head' - Confirmations
    <2>1. b \in Nat /\ b <= head - Confirmations
      BY DEF Deep
    <2>2. head \in Nat /\ head' \in Nat /\ head <= head'
      BY DEF ChainOk, ChainMoves
    <2>3. b \in Int /\ head \in Int /\ head' \in Int /\ Confirmations \in Int
      BY <1>1, <2>1, <2>2
    <2> QED BY <2>1, <2>2, <2>3, StillBelow, Zenon
  <1>3. ASSUME NEW t \in Txs, b > 0 PROVE at'[t] = b <=> at[t] = b
    BY <1>1, <1>3 DEF Deep, ChainOk, ChainMoves
  <1> QED BY <1>2, <1>3, Zenon

\* The chain moves under the indexer.
LEMMA ChainKeeps ==
    ASSUME IndexInv, ChainMoves, UNCHANGED indexVars
    PROVE  EventsOk' /\ ScannedOk' /\ CursorOk' /\ ReaderOk'
  <1> USE DEF IndexInv, indexVars
  <1>1. EventsOk'
    <2> SUFFICES ASSUME NEW e \in events
                 PROVE  e \in LogRows /\ at'[e.tx] = e.block /\ e.block > 0 /\ Deep(e.block)'
      BY Zenon DEF EventsOk
    <2>1. e \in LogRows /\ at[e.tx] = e.block /\ e.block > 0 /\ Deep(e.block)
      BY DEF EventsOk
    <2>2. e.tx \in Txs
      BY <2>1 DEF LogRows
    <2> QED BY <2>1, <2>2, DeepStays, Zenon DEF Deep
  <1>2. ScannedOk'
    <2>1. \A p \in scanned : Deep(p[2])'
      BY DeepStays, Zenon DEF ScannedOk, Deep
    <2>2. ASSUME NEW t \in Txs, at'[t] # 0, <<EmitterOf[t], at'[t]>> \in scanned
          PROVE  t \in Indexed
      <3>1. Deep(at'[t])
        BY <2>2 DEF ScannedOk
      <3>2. at'[t] > 0
        BY <2>2 DEF ChainMoves
      <3>3. at[t] = at'[t]
        BY <3>1, <3>2, DeepStays, Zenon
      <3> QED BY <2>2, <3>3 DEF ScannedOk
    <2> QED BY <2>1, <2>2, Zenon DEF ScannedOk, Indexed
  <1>3. CursorOk'
    BY Zenon DEF CursorOk
  <1>4. ReaderOk'
    <2>1. reader.pc # "idle" => Deep(reader.safe)'
      BY DeepStays, Zenon DEF ReaderOk, Deep
    <2>2. ASSUME reader.pc = "insert", NEW l \in reader.logs
          PROVE  at'[l.tx] = l.block
      <3>1. l \in LogRows /\ at[l.tx] = l.block /\ l.block \in cursor + 1..reader.to
            /\ cursor \in Nat /\ reader.to <= reader.safe /\ Deep(reader.safe) /\ reader.to \in Int
        BY <2>2 DEF ReaderOk
      <3>2. l.tx \in Txs /\ l.block > 0 /\ Deep(l.block)
        BY <3>1, IndexerAssumption DEF LogRows, Deep, ChainOk
      <3> QED BY <3>1, <3>2, DeepStays, Zenon
    <2>3. ASSUME reader.pc = "insert", NEW t \in Txs, at'[t] \in cursor + 1..reader.to
          PROVE  at[t] = at'[t]
      <3>1. cursor \in Nat /\ reader.to <= reader.safe /\ Deep(reader.safe) /\ reader.to \in Int
        BY <2>3 DEF ReaderOk
      <3>2. at'[t] > 0 /\ Deep(at'[t])
        BY <2>3, <3>1, IndexerAssumption DEF Deep, ChainOk
      <3> QED BY <3>2, DeepStays, Zenon
    <2>4. ASSUME reader.pc = "insert", NEW t \in Txs, at'[t] \in cursor + 1..reader.to, EmitterOf[t] \in targets
          PROVE  t \in Indexed \/ Waiting(t)
      BY <2>3, <2>4 DEF ReaderOk
    <2>5. UNCHANGED <<reader, cursor, targets, events>>
      OBVIOUS
    <2> QED BY <2>1, <2>2, <2>4, <2>5, Zenon DEF ReaderOk, Waiting, Indexed
  <1> QED BY <1>1, <1>2, <1>3, <1>4
LEMMA MineMoves ==
    ASSUME ChainOk, MineBlock \/ ReplaceBlocks
    PROVE  ChainOk' /\ ChainMoves
  <1>1. ReorgDepth \in 0..Confirmations /\ Confirmations \in Nat
    BY IndexerAssumption
  <1>2. CASE MineBlock
    <2>1. PICK T \in SUBSET Unmined : at' = [t \in Txs |-> IF t \in T THEN head' ELSE at[t]]
      BY <1>2 DEF MineBlock
    <2>2. /\ head \in Nat /\ head' = head + 1 /\ sent' = sent /\ sent \subseteq Txs
          /\ \A t \in T : at[t] = 0 /\ t \in sent
          /\ \A t \in Txs : at[t] \in Nat /\ at[t] <= head /\ (at[t] # 0 => t \in sent)
      BY <1>2, <2>1 DEF MineBlock, Unmined, ChainOk
    <2>3. /\ at' \in [Txs -> Nat]
          /\ \A t \in Txs : /\ at'[t] <= head' /\ (at'[t] # 0 => t \in sent)
                            /\ at'[t] = at[t] \/ (at[t] = 0 /\ at'[t] > head)
      BY <2>1, <2>2
    <2>4. ChainOk'
      BY <2>2, <2>3 DEF ChainOk
    <2>5. ChainMoves
      BY <2>2, <2>3 DEF ChainMoves
    <2> QED BY <2>4, <2>5
  <1>3. CASE ReplaceBlocks
    <2>1. PICK k \in 1..ReorgDepth : at' = [t \in Txs |-> IF at[t] > head - k THEN 0 ELSE at[t]]
      BY <1>3 DEF ReplaceBlocks
    <2>2. /\ head \in Nat /\ head' = head /\ sent' = sent /\ sent \subseteq Txs
          /\ \A t \in Txs : at[t] \in Nat /\ at[t] <= head /\ (at[t] # 0 => t \in sent)
      BY <1>3 DEF ReplaceBlocks, ChainOk
    <2>3. k \in Int /\ k <= Confirmations
      BY <1>1, <2>1
    <2>4. \A t \in Txs : at'[t] = at[t] \/ (at[t] > head - Confirmations /\ at'[t] = 0)
      BY <1>1, <2>1, <2>2, <2>3
    <2>5. at' \in [Txs -> Nat]
      BY <2>1, <2>2
    <2>6. ChainOk'
      BY <2>2, <2>4, <2>5 DEF ChainOk
    <2>7. ChainMoves
      BY <2>2, <2>4, <2>5 DEF ChainMoves
    <2> QED BY <2>6, <2>7
  <1> QED BY <1>2, <1>3

LEMMA BuildTargetsKeeps ==
    ASSUME IndexInv, BuildTargets, UNCHANGED chainVars
    PROVE  IndexInv'
  <1>1. /\ targets = {} /\ Core \subseteq targets'
        /\ UNCHANGED <<head, at, sent, cursor, reader, events, origin, scanned>>
    BY Zenon DEF BuildTargets, Watched, chainVars
  <1>2. reader.pc = "idle"
    BY <1>1 DEF IndexInv, ReaderOk
  <1>3. ChainOk' /\ EventsOk' /\ ScannedOk'
    BY <1>1 DEF IndexInv, ChainOk, EventsOk, ScannedOk, Deep, Indexed
  <1>4. CursorOk'
    BY <1>1 DEF IndexInv, CursorOk
  <1>5. ReaderOk'
    BY <1>1, <1>2 DEF IndexInv, ReaderOk
  <1> QED BY <1>3, <1>4, <1>5 DEF IndexInv

LEMMA StartTickKeeps ==
    ASSUME IndexInv, StartTick, UNCHANGED chainVars
    PROVE  IndexInv'
  <1> DEFINE c == IF cursor # NoBlock THEN cursor ELSE IF StartBlock # NoBlock THEN StartBlock ELSE head
  <1>1. /\ targets # {} /\ cursor' = c /\ reader.pc = "idle"
        /\ origin' = (IF cursor = NoBlock THEN c ELSE origin)
        /\ reader' = IF Safe <= c THEN NoTick ELSE [NoTick EXCEPT !.pc = "read", !.safe = Safe]
        /\ UNCHANGED <<head, at, sent, targets, events, scanned>>
    BY DEF StartTick, chainVars
  <1>2. /\ head \in Nat /\ Confirmations \in Nat /\ StartBlock \in Nat \cup {NoBlock} /\ Safe \in Int
        /\ cursor \in Nat \cup {NoBlock} /\ origin \in Nat \cup {NoBlock} /\ NoBlock = -1
    BY IndexerAssumption DEF IndexInv, ChainOk, CursorOk, Safe, NoBlock
  <1>3. c \in Nat
    BY <1>2
  <1>4. ChainOk' /\ EventsOk' /\ ScannedOk'
    BY <1>1 DEF IndexInv, ChainOk, EventsOk, ScannedOk, Deep, Indexed
  <1>5. CursorOk'
    <2>1. cursor' \in Nat /\ origin' \in Nat \cup {NoBlock}
      BY <1>1, <1>2, <1>3
    <2>2. CASE cursor = NoBlock
      <3>1. origin' = cursor' /\ cursor' \in Nat
        BY <1>1, <1>3, <2>2
      <3>2. origin' + 1..cursor' = {}
        BY <3>1, EmptyRange, Zenon
      <3> QED BY <1>1, <2>1, <3>2, Zenon DEF CursorOk, IndexInv
    <2>3. CASE cursor # NoBlock
      <3>1. cursor' = cursor /\ origin' = origin
        BY <1>1, <2>3
      <3> QED BY <1>1, <2>3, <3>1, Zenon DEF CursorOk, IndexInv
    <2> QED BY <2>2, <2>3
  <1>6. ReaderOk'
    <2>1. CASE Safe <= c
      <3>1. reader' = NoTick
        BY <1>1, <2>1
      <3>2. /\ reader' \in [pc : {"idle", "read", "insert"}, safe : Int, chunks : Nat, to : Int, logs : SUBSET LogRows]
            /\ reader'.pc = "idle"
        BY <3>1 DEF NoTick
      <3> QED BY <3>2 DEF ReaderOk
    <2>2. CASE ~(Safe <= c)
      <3>1. reader' = [NoTick EXCEPT !.pc = "read", !.safe = Safe]
        BY <1>1, <2>2
      <3>2. /\ reader' \in [pc : {"idle", "read", "insert"}, safe : Int, chunks : Nat, to : Int, logs : SUBSET LogRows]
            /\ reader'.pc = "read" /\ reader'.safe = Safe
        <4>1. reader' = [pc |-> "read", safe |-> Safe, chunks |-> 0, to |-> 0, logs |-> {}]
          BY <3>1 DEF NoTick
        <4> HIDE DEF c
        <4> QED BY <1>2, <4>1
      <3>3. c < Safe /\ Safe \in Nat /\ Safe <= head' - Confirmations
        BY <1>1, <1>2, <1>3, <2>2 DEF Safe
      <3>4. cursor' = c /\ targets' # {}
        BY <1>1
      <3> QED BY <1>3, <3>2, <3>3, <3>4 DEF ReaderOk, Deep
    <2> QED BY <2>1, <2>2
  <1> QED BY <1>4, <1>5, <1>6 DEF IndexInv

LEMMA ReadLogsKeeps ==
    ASSUME IndexInv, ReadLogs, UNCHANGED chainVars
    PROVE  IndexInv'
  <1> DEFINE to == Min({cursor + Chunk, reader.safe})
             logs == {[tx |-> t, block |-> at[t]] :
                                 t \in {u \in Txs : at[u] \in cursor + 1..to /\ EmitterOf[u] \in targets}}
  <1>1. /\ reader.pc = "read" /\ reader' = [reader EXCEPT !.pc = "insert", !.to = to, !.chunks = @ + 1, !.logs = logs]
        /\ UNCHANGED <<head, at, sent, cursor, targets, events, origin, scanned>>
    BY DEF ReadLogs, chainVars
  <1>2. /\ cursor \in Nat /\ cursor < reader.safe /\ Deep(reader.safe) /\ targets # {} /\ reader.safe \in Nat
        /\ reader \in [pc : {"idle", "read", "insert"}, safe : Int, chunks : Nat, to : Int, logs : SUBSET LogRows]
    BY <1>1 DEF IndexInv, ReaderOk, Deep
  <1>3. to \in Int /\ cursor < to /\ to <= reader.safe
    <2>1. Chunk \in Nat /\ Chunk > 0 /\ cursor + Chunk \in Int /\ reader.safe \in Int
      BY <1>2, IndexerAssumption
    <2>2. to \in {cursor + Chunk, reader.safe} /\ to <= reader.safe
      BY <2>1, MinOfTwo, Zenon
    <2> HIDE DEF to
    <2> QED BY <1>2, <2>1, <2>2
  <1>4. logs \in SUBSET LogRows
    BY DEF IndexInv, ChainOk, LogRows
  <1>5. \A l \in logs : at[l.tx] = l.block /\ l.block \in cursor + 1..to
    <2> TAKE l \in logs
    <2>1. PICK t \in Txs : at[t] \in cursor + 1..to /\ l = [tx |-> t, block |-> at[t]]
      BY Zenon
    <2>2. l.tx = t /\ l.block = at[t]
      BY <2>1
    <2> QED BY <2>1, <2>2, Zenon
  <1>6. \A t \in Txs : at[t] \in cursor + 1..to /\ EmitterOf[t] \in targets => \E l \in logs : l.tx = t
    <2> TAKE t \in Txs
    <2> HAVE at[t] \in cursor + 1..to /\ EmitterOf[t] \in targets
    <2>1. [tx |-> t, block |-> at[t]] \in logs
      OBVIOUS
    <2> QED BY <2>1
  <1> HIDE DEF to, logs
  <1>7. /\ reader' \in [pc : {"idle", "read", "insert"}, safe : Int, chunks : Nat, to : Int, logs : SUBSET LogRows]
        /\ reader'.pc = "insert" /\ reader'.safe = reader.safe /\ reader'.to = to /\ reader'.logs = logs
    <2>1. PICK n \in Nat : n = reader.chunks + 1
      BY <1>2
    <2>2. reader' = [reader EXCEPT !.pc = "insert", !.to = to, !.chunks = n, !.logs = logs]
      BY <1>1, <2>1
    <2> QED BY <1>2, <1>3, <1>4, <2>2
  <1>8. ChainOk' /\ EventsOk' /\ ScannedOk'
    BY <1>1 DEF IndexInv, ChainOk, EventsOk, ScannedOk, Deep, Indexed
  <1>9. CursorOk'
    BY <1>1, Zenon DEF IndexInv, CursorOk
  <1>10. ReaderOk'
    <2>1. Deep(reader.safe)'
      BY <1>1, <1>2, <1>7, Zenon DEF Deep
    <2>2. \A t \in Txs : at'[t] \in cursor' + 1..reader'.to /\ EmitterOf[t] \in targets' => Waiting(t)'
      BY <1>1, <1>6, <1>7, Zenon DEF Waiting
    <2>3. \A l \in reader'.logs : at'[l.tx] = l.block /\ l.block \in cursor' + 1..reader'.to
      BY <1>1, <1>5, <1>7, Zenon
    <2>4. cursor' \in Nat /\ cursor' < reader'.safe /\ targets' # {} /\ cursor' < reader'.to /\ reader'.to <= reader'.safe
      BY <1>1, <1>2, <1>3, <1>7, Zenon
    <2> QED BY <1>7, <2>1, <2>2, <2>3, <2>4, Zenon DEF ReaderOk
  <1> QED BY <1>8, <1>9, <1>10 DEF IndexInv
LEMMA InsertLogKeeps ==
    ASSUME IndexInv, InsertLog, UNCHANGED chainVars
    PROVE  IndexInv'
  <1>1. PICK l \in reader.logs :
           /\ reader' = [reader EXCEPT !.logs = @ \ {l}]
           /\ events' = IF \E e \in events : e.tx = l.tx THEN events ELSE events \cup {l}
    BY DEF InsertLog
  <1>2. reader.pc = "insert" /\ UNCHANGED <<head, at, sent, cursor, targets, origin, scanned>>
    BY DEF InsertLog, chainVars
  <1>3. /\ reader \in [pc : {"idle", "read", "insert"}, safe : Int, chunks : Nat, to : Int, logs : SUBSET LogRows]
        /\ cursor \in Nat /\ cursor < reader.safe /\ Deep(reader.safe) /\ targets # {}
        /\ cursor < reader.to /\ reader.to <= reader.safe
        /\ \A m \in reader.logs : at[m.tx] = m.block /\ m.block \in cursor + 1..reader.to
        /\ \A t \in Txs : at[t] \in cursor + 1..reader.to /\ EmitterOf[t] \in targets
                => t \in Indexed \/ Waiting(t)
    BY <1>2 DEF IndexInv, ReaderOk
  <1>4. PICK L \in SUBSET LogRows : L = reader.logs \ {l}
    BY <1>3
  <1>5. reader' = [reader EXCEPT !.logs = L]
    BY <1>1, <1>4
  <1>6. /\ reader' \in [pc : {"idle", "read", "insert"}, safe : Int, chunks : Nat, to : Int, logs : SUBSET LogRows]
        /\ reader'.pc = "insert" /\ reader'.safe = reader.safe /\ reader'.to = reader.to
        /\ reader'.logs = reader.logs \ {l}
    BY <1>2, <1>3, <1>4, <1>5
  <1>7. l \in LogRows /\ at[l.tx] = l.block /\ l.block > 0 /\ Deep(l.block)
    <2>1. l \in LogRows /\ l.block \in cursor + 1..reader.to /\ at[l.tx] = l.block
      BY <1>1, <1>3
    <2>2. l.block > 0 /\ l.block \in Nat /\ l.block <= reader.safe /\ reader.safe \in Int
      BY <1>3, <2>1
    <2>3. head \in Nat /\ Confirmations \in Nat /\ reader.safe <= head - Confirmations
      BY <1>3, IndexerAssumption DEF IndexInv, ChainOk, Deep
    <2> QED BY <2>1, <2>2, <2>3 DEF Deep
  <1>8. events \subseteq events' /\ events' \subseteq events \cup {l} /\ l.tx \in Indexed'
    <2>1. CASE \E e \in events : e.tx = l.tx
      BY <1>1, <2>1, Zenon DEF Indexed
    <2>2. CASE ~\E e \in events : e.tx = l.tx
      <3>1. events' = events \cup {l}
        BY <1>1, <2>2, Zenon
      <3> QED BY <3>1 DEF Indexed
    <2> QED BY <2>1, <2>2
  <1>9. Indexed \subseteq Indexed'
    BY <1>8 DEF Indexed
  <1>10. ChainOk'
    BY <1>2 DEF IndexInv, ChainOk
  <1>11. EventsOk'
    <2>1. \A e \in events' : e \in LogRows /\ at[e.tx] = e.block /\ e.block > 0 /\ Deep(e.block)
      BY <1>7, <1>8, Zenon DEF IndexInv, EventsOk
    <2> QED BY <1>2, <2>1, Zenon DEF EventsOk, Deep
  <1>12. ScannedOk'
    BY <1>2, <1>9, Zenon DEF IndexInv, ScannedOk, Deep
  <1>13. CursorOk'
    BY <1>2, Zenon DEF IndexInv, CursorOk
  <1>14. ReaderOk'
    <2>1. \A t \in Txs : t \in Indexed \/ Waiting(t) => t \in Indexed' \/ Waiting(t)'
      <3> TAKE t \in Txs
      <3>1. CASE t \in Indexed
        BY <1>9, <3>1, Zenon
      <3>2. ASSUME NEW m \in reader.logs, m.tx = t PROVE t \in Indexed' \/ Waiting(t)'
        <4>1. CASE m = l
          BY <1>8, <3>2, <4>1, Zenon
        <4>2. CASE m # l
          BY <1>6, <3>2, <4>2 DEF Waiting
        <4> QED BY <4>1, <4>2
      <3> QED BY <3>1, <3>2, Zenon DEF Waiting
    <2>2. Deep(reader.safe)'
      BY <1>2, <1>3, <1>6, Zenon DEF Deep
    <2>3. \A m \in reader'.logs : at'[m.tx] = m.block /\ m.block \in cursor' + 1..reader'.to
      BY <1>2, <1>3, <1>6, Zenon
    <2>4. \A t \in Txs : at'[t] \in cursor' + 1..reader'.to /\ EmitterOf[t] \in targets'
                => t \in Indexed' \/ Waiting(t)'
      BY <1>2, <1>3, <1>6, <2>1, Zenon
    <2>5. cursor' \in Nat /\ cursor' < reader'.safe /\ targets' # {} /\ cursor' < reader'.to /\ reader'.to <= reader'.safe
      BY <1>2, <1>3, <1>6, Zenon
    <2> QED BY <1>6, <2>2, <2>3, <2>4, <2>5, Zenon DEF ReaderOk
  <1> QED BY <1>10, <1>11, <1>12, <1>13, <1>14 DEF IndexInv

\* The blocks of a range that ends where another begins.
LEMMA SplitRange ==
    ASSUME NEW o \in Int, NEW c \in Int, NEW d \in Int, NEW b \in o + 1..d
    PROVE  b \in o + 1..c \/ b \in c + 1..d
  OBVIOUS

LEMMA MoveCursorKeeps ==
    ASSUME IndexInv, MoveCursor, UNCHANGED chainVars
    PROVE  IndexInv'
  <1>1. /\ reader.pc = "insert" /\ reader.logs = {} /\ cursor' = reader.to
        /\ scanned' = scanned \cup (targets \X (cursor + 1..reader.to))
        /\ UNCHANGED <<head, at, sent, targets, events, origin>>
    BY DEF MoveCursor, chainVars
  <1>2. /\ reader \in [pc : {"idle", "read", "insert"}, safe : Int, chunks : Nat, to : Int, logs : SUBSET LogRows]
        /\ cursor \in Nat /\ cursor < reader.safe /\ Deep(reader.safe) /\ targets # {}
        /\ cursor < reader.to /\ reader.to <= reader.safe
        /\ \A t \in Txs : at[t] \in cursor + 1..reader.to /\ EmitterOf[t] \in targets
                => t \in Indexed \/ Waiting(t)
    BY <1>1 DEF IndexInv, ReaderOk
  <1>3. reader.to \in Nat /\ reader.safe \in Nat /\ reader.safe <= head - Confirmations
    BY <1>2 DEF Deep
  <1>4. head \in Nat /\ Confirmations \in Nat
    BY IndexerAssumption DEF IndexInv, ChainOk
  <1>5. ChainOk' /\ EventsOk'
    BY <1>1 DEF IndexInv, ChainOk, EventsOk, Deep
  <1>6. ScannedOk'
    <2>1. ASSUME NEW p \in scanned' PROVE Deep(p[2])'
      <3>1. CASE p \in scanned
        BY <1>1, <3>1, Zenon DEF IndexInv, ScannedOk, Deep
      <3>2. CASE p \in targets \X (cursor + 1..reader.to)
        <4>1. p[2] \in cursor + 1..reader.to
          BY <3>2
        <4>2. p[2] \in Nat /\ p[2] <= head - Confirmations
          BY <1>2, <1>3, <1>4, <4>1
        <4> QED BY <1>1, <4>2, Zenon DEF Deep
      <3> QED BY <1>1, <2>1, <3>1, <3>2
    <2>2. ASSUME NEW t \in Txs, at[t] # 0, <<EmitterOf[t], at[t]>> \in scanned'
          PROVE  t \in Indexed
      <3>1. CASE <<EmitterOf[t], at[t]>> \in scanned
        BY <2>2, <3>1 DEF IndexInv, ScannedOk
      <3>2. CASE <<EmitterOf[t], at[t]>> \in targets \X (cursor + 1..reader.to)
        <4>1. EmitterOf[t] \in targets /\ at[t] \in cursor + 1..reader.to
          BY <3>2
        <4>2. ~Waiting(t)
          BY <1>1 DEF Waiting
        <4> QED BY <1>2, <4>1, <4>2, Zenon
      <3> QED BY <1>1, <2>2, <3>1, <3>2
    <2> QED BY <1>1, <2>1, <2>2, Zenon DEF ScannedOk, Indexed
  <1>7. CursorOk'
    <2>1. Core \subseteq targets /\ origin \in Nat \cup {NoBlock}
          /\ (cursor # NoBlock => \A c \in Core, b \in origin + 1..cursor : <<c, b>> \in scanned)
      BY <1>2, Zenon DEF IndexInv, CursorOk
    <2>2. origin \in Int /\ cursor # NoBlock
      BY <1>2, <2>1 DEF NoBlock
    <2>3. ASSUME NEW c \in Core, NEW b \in origin + 1..reader.to PROVE <<c, b>> \in scanned'
      <3>1. cursor \in Int /\ reader.to \in Int
        BY <1>2, <1>3
      <3>2. b \in origin + 1..cursor \/ b \in cursor + 1..reader.to
        BY <2>2, <2>3, <3>1, SplitRange
      <3>3. CASE b \in origin + 1..cursor
        BY <1>1, <2>1, <2>2, <2>3, <3>3, Zenon
      <3>4. CASE b \in cursor + 1..reader.to
        <4>1. <<c, b>> \in targets \X (cursor + 1..reader.to)
          BY <2>1, <2>3, <3>4
        <4> QED BY <1>1, <4>1
      <3> QED BY <3>2, <3>3, <3>4
    <2>4. cursor' \in Nat \cup {NoBlock}
      BY <1>1, <1>3
    <2> QED BY <1>1, <2>1, <2>3, <2>4, Zenon DEF CursorOk
  <1>8. ReaderOk'
    <2>1. CASE reader.to < reader.safe /\ reader.chunks < MaxChunks
      <3>1. reader' = [reader EXCEPT !.pc = "read"]
        BY <2>1 DEF MoveCursor
      <3>2. /\ reader' \in [pc : {"idle", "read", "insert"}, safe : Int, chunks : Nat, to : Int, logs : SUBSET LogRows]
            /\ reader'.pc = "read" /\ reader'.safe = reader.safe
        BY <1>2, <3>1
      <3>3. Deep(reader.safe)'
        BY <1>1, <1>2, <3>2, Zenon DEF Deep
      <3> QED BY <1>1, <1>2, <1>3, <2>1, <3>2, <3>3 DEF ReaderOk
    <2>2. CASE ~(reader.to < reader.safe /\ reader.chunks < MaxChunks)
      <3>1. reader' = NoTick
        BY <2>2 DEF MoveCursor
      <3>2. /\ reader' \in [pc : {"idle", "read", "insert"}, safe : Int, chunks : Nat, to : Int, logs : SUBSET LogRows]
            /\ reader'.pc = "idle"
        BY <3>1 DEF NoTick
      <3> QED BY <3>2 DEF ReaderOk
    <2> QED BY <2>1, <2>2
  <1> QED BY <1>5, <1>6, <1>7, <1>8 DEF IndexInv

\* A tick that is given up leaves what it has written so far.
LEMMA GiveUpKeeps ==
    ASSUME IndexInv, reader' = NoTick, targets' \in {{}, targets},
           UNCHANGED <<head, at, sent, cursor, events, origin, scanned>>
    PROVE  IndexInv'
  <1>1. ChainOk' /\ EventsOk' /\ ScannedOk'
    BY DEF IndexInv, ChainOk, EventsOk, ScannedOk, Deep, Indexed
  <1>2. CursorOk'
    BY Zenon DEF IndexInv, CursorOk
  <1>3. /\ reader' \in [pc : {"idle", "read", "insert"}, safe : Int, chunks : Nat, to : Int, logs : SUBSET LogRows]
        /\ reader'.pc = "idle"
    BY DEF NoTick
  <1>4. ReaderOk'
    BY <1>3 DEF ReaderOk
  <1> QED BY <1>1, <1>2, <1>4 DEF IndexInv

\* The chain and the indexer stand still while an operation sends a transaction.
LEMMA SendKeeps ==
    ASSUME IndexInv, sent \subseteq sent', sent' \subseteq Txs,
           UNCHANGED <<head, at, indexVars>>
    PROVE  IndexInv'
  <1>1. ChainOk'
    BY DEF IndexInv, ChainOk
  <1>2. EventsOk' /\ ScannedOk'
    BY DEF IndexInv, EventsOk, ScannedOk, Deep, Indexed, indexVars
  <1>3. CursorOk'
    BY Zenon DEF IndexInv, CursorOk, indexVars
  <1>4. ReaderOk'
    BY Zenon DEF IndexInv, ReaderOk, Deep, Waiting, Indexed, indexVars
  <1> QED BY <1>1, <1>2, <1>3, <1>4 DEF IndexInv
(***************************************************************************)
(*               The operations, the report and the history                *)
(***************************************************************************)
\* A job's transactions are sent one after the other.
StepsOk ==
    /\ step \in [Jobs -> Nat]
    /\ \A j \in Jobs : /\ step[j] <= Len(Steps(KindOf[j]))
                       /\ \A i \in 1..step[j] : <<j, i>> \in sent

\* The row of a job comes after all of them.
RowsOk == rows \subseteq Jobs /\ \A j \in rows : step[j] = Len(Steps(KindOf[j]))

\* The hashes some row could name.
Hashes == UNION {Named(j) : j \in Jobs}

\* The tags with which a transaction's gas may be recorded: that of its receipt, the
\* old one of a relayed payment, or what a report makes of its hash.
RecordedAs(t, source) ==
    \/ source = StepOf(t).live /\ source # "none"
    \/ source = "relay" /\ KindOf[t[1]] \in Relayed
    \/ source = Classify(t) /\ t \in Hashes

GasRow(source) == [source |-> source, category |-> CategoryForSource(source)]

GasOk ==
    /\ DOMAIN gas \subseteq Txs /\ gas = [t \in DOMAIN gas |-> gas[t]]
    /\ \A t \in DOMAIN gas : \E source : RecordedAs(t, source) /\ gas[t] = GasRow(source)

ReportOk == report \in [pc : {"idle", "fill"}, todo : SUBSET Hashes]

BooksInv == IndexInv /\ StepsOk /\ RowsOk /\ GasOk /\ ReportOk

\* The table of operations, as far as the proofs need it.
LEMMA StepTable ==
    ASSUME NEW k \in Kinds
    PROVE  /\ Len(Steps(k)) \in 1..3
           /\ k \in {"purchase", "session"} => Len(Steps(k)) = 1 /\ Steps(k)[1].log = "Transferred"
           /\ k = "change" => Len(Steps(k)) = 2 /\ Steps(k)[2].log = "Credited"
           /\ k = "convert" => Len(Steps(k)) = 2 /\ Steps(k)[1].log = "Debited" /\ Steps(k)[2].log = "Credited"
           /\ k \in {"topup", "settle"} => Len(Steps(k)) = 2
  <1>1. k \in {"topup", "purchase", "session", "change", "convert", "settle", "enable",
               "register", "deploy", "harvest", "withdraw"}
    BY Zenon DEF Kinds
  <1>2. k \in {"topup", "change", "convert", "settle"} => Len(Steps(k)) = 2
    BY DEF Steps
  <1>3. k \in {"purchase", "session", "enable", "register", "deploy", "harvest"} => Len(Steps(k)) = 1
    BY DEF Steps
  <1>4. k = "withdraw" => Len(Steps(k)) = 3
    BY DEF Steps
  <1>5. k \in {"purchase", "session"} => Steps(k)[1].log = "Transferred"
    BY DEF Steps
  <1>6. k = "change" => Steps(k)[2].log = "Credited"
    BY DEF Steps
  <1>7. k = "convert" => Steps(k)[1].log = "Debited" /\ Steps(k)[2].log = "Credited"
    BY DEF Steps
  <1>8. Len(Steps(k)) = 1 \/ Len(Steps(k)) = 2 \/ Len(Steps(k)) = 3
    BY <1>1, <1>2, <1>3, <1>4, Zenon
  <1>9. Len(Steps(k)) \in 1..3
    BY <1>8
  <1> QED BY <1>2, <1>3, <1>5, <1>6, <1>7, <1>9, Zenon

\* The tags an operation records for its receipts.
Lives(k) ==
    CASE k = "purchase" -> {"passkey"} [] k = "session" -> {"session"} [] k = "enable" -> {"session_enable"}
      [] k = "register" -> {"register_deploy"} [] k = "deploy" -> {"contract_deploy"}
      [] OTHER -> {"none", "settlement_debit", "settlement_sweep", "consumer_withdraw",
                   "consumer_withdraw_fee_debit", "consumer_withdraw_fee_credit"}

LEMMA LiveTable ==
    ASSUME NEW k \in Kinds, NEW i \in 1..Len(Steps(k))
    PROVE  Steps(k)[i].live \in Lives(k)
  <1>1. k \in {"topup", "purchase", "session", "change", "convert", "settle", "enable",
               "register", "deploy", "harvest", "withdraw"}
    BY Zenon DEF Kinds
  <1>2. CASE k \in {"topup", "change", "convert", "settle"}
    BY <1>2 DEF Steps, Lives
  <1>3. CASE k \in {"purchase", "session", "enable", "register", "deploy", "harvest"}
    BY <1>3 DEF Steps, Lives
  <1>4. CASE k = "withdraw"
    BY <1>4 DEF Steps, Lives
  <1> QED BY <1>1, <1>2, <1>3, <1>4

\* A transaction is a step of a job.
LEMMA TxOf ==
    ASSUME NEW t
    PROVE  t \in Txs <=> \E j \in Jobs : \E i \in 1..Len(Steps(KindOf[j])) : t = <<j, i>>
  BY BooksAssumption

LEMMA TxParts ==
    ASSUME NEW t \in Txs
    PROVE  /\ t[1] \in Jobs /\ KindOf[t[1]] \in Kinds /\ t[2] \in 1..Len(Steps(KindOf[t[1]]))
           /\ t = <<t[1], t[2]>> /\ StepOf(t).live \in Lives(KindOf[t[1]])
  <1>1. PICK j \in Jobs : \E i \in 1..Len(Steps(KindOf[j])) : t = <<j, i>>
    BY TxOf, Zenon
  <1>0. PICK i \in 1..Len(Steps(KindOf[j])) : t = <<j, i>>
    BY <1>1
  <1>2. t[1] = j /\ t[2] = i /\ t = <<t[1], t[2]>>
    BY <1>0
  <1>3. KindOf[j] \in Kinds
    BY BooksAssumption
  <1>4. Steps(KindOf[j])[i].live \in Lives(KindOf[j])
    BY <1>3, LiveTable, Zenon
  <1> QED BY <1>1, <1>2, <1>3, <1>4, Zenon DEF StepOf

LEMMA HashesAre == Hashes \subseteq Txs /\ (\A t \in Hashes : KindOf[t[1]] # "enable")
  <1>1. ASSUME NEW j \in Jobs, NEW t \in Named(j) PROVE t \in Txs /\ KindOf[t[1]] # "enable"
    <2>1. KindOf[j] \in Kinds
      BY BooksAssumption
    <2>2. Len(Steps(KindOf[j])) \in 1..3 /\ (KindOf[j] \in {"topup", "convert", "settle"} => Len(Steps(KindOf[j])) = 2)
      BY <2>1, StepTable
    <2>3. /\ t \in {<<j, 1>>, <<j, 2>>} /\ KindOf[j] # "enable"
          /\ KindOf[j] \notin {"topup", "convert", "settle"} => t = <<j, 1>>
      BY <1>1 DEF Named
    <2>4. \E i \in 1..Len(Steps(KindOf[j])) : t = <<j, i>>
      BY <2>2, <2>3
    <2>5. t[1] = j
      BY <2>3
    <2> QED BY <2>3, <2>4, <2>5, TxOf, Zenon
  <1> QED BY <1>1, Zenon DEF Hashes

\* Whatever recorded the gas of a transaction put it in the right group.
LEMMA RightGroup ==
    ASSUME NEW t \in Txs, NEW source, RecordedAs(t, source)
    PROVE  /\ CategoryForSource(source) = TrueCategory(t)
           /\ source \in {"session", "session_ok", "session_fail"} => KindOf[t[1]] = "session"
  <1> DEFINE k == KindOf[t[1]]
  <1>1. k \in Kinds /\ StepOf(t).live \in Lives(k)
    BY TxParts, Zenon
  <1> HIDE DEF k
  <1>2. /\ TrueCategory(t) = IF k \in {"purchase", "session", "enable"} THEN "transaction"
                             ELSE IF k = "register" THEN "onboarding"
                             ELSE IF k = "deploy" THEN "deployment" ELSE "operations"
        /\ InferSource(t) = IF k \in Relayed THEN StepOf(t).live ELSE "passkey"
    BY DEF TrueCategory, InferSource, k
  <1>3. CASE source = StepOf(t).live /\ source # "none"
    BY <1>1, <1>2, <1>3 DEF Lives, CategoryForSource, Consumers, Kinds, k
  <1>4. CASE source = "relay" /\ k \in Relayed
    BY <1>1, <1>2, <1>4 DEF CategoryForSource, Consumers, Relayed, k
  <1>5. CASE source = Classify(t) /\ t \in Hashes
    <2>1. k # "enable"
      BY <1>5, HashesAre DEF k
    <2>2. source = CASE k = "register" -> "register_deploy"
                     [] k \in {"purchase", "session"} -> InferSource(t)
                     [] k = "settle" -> "settlement"
                     [] k = "convert" -> "conversion"
                     [] k = "topup" -> "cash_in"
                     [] k = "deploy" -> "contract_deploy"
                     [] OTHER -> "operations"
      BY <1>5 DEF Classify, k
    <2>3. CASE k = "purchase" \/ k = "session"
      <3>1. source = StepOf(t).live
        BY <1>2, <2>2, <2>3 DEF Relayed
      <3> QED BY <1>1, <1>2, <2>3, <3>1 DEF Lives, CategoryForSource, Consumers, k
    <2>4. CASE ~(k = "purchase" \/ k = "session")
      BY <1>1, <1>2, <2>1, <2>2, <2>4 DEF CategoryForSource, Consumers, Kinds, k
    <2> QED BY <2>3, <2>4
  <1> QED BY <1>3, <1>4, <1>5, Zenon DEF RecordedAs, k
\* The old tag stands only on relayed payments, and the report replaces it by the
\* tag of their receipt.
LEMMA OldTag ==
    ASSUME NEW t \in Txs, RecordedAs(t, "relay")
    PROVE  RecordedAs(t, InferSource(t))
  <1> DEFINE k == KindOf[t[1]]
  <1>1. k \in Kinds /\ StepOf(t).live \in Lives(k)
    BY TxParts, Zenon
  <1> HIDE DEF k
  <1>2. InferSource(t) = IF k \in Relayed THEN StepOf(t).live ELSE "passkey"
    BY DEF InferSource, k
  <1>3. StepOf(t).live # "relay" /\ (k \in Relayed => StepOf(t).live # "none")
    BY <1>1 DEF Lives, Relayed
  <1>4. Classify(t) # "relay"
    <2>1. Classify(t) = CASE k = "register" -> "register_deploy"
                     [] k \in {"purchase", "session"} -> InferSource(t)
                     [] k = "settle" -> "settlement"
                     [] k = "convert" -> "conversion"
                     [] k = "topup" -> "cash_in"
                     [] k = "deploy" -> "contract_deploy"
                     [] OTHER -> "operations"
      BY DEF Classify, k
    <2>2. InferSource(t) # "relay"
      BY <1>2, <1>3
    <2> QED BY <2>1, <2>2
  <1>5. k \in Relayed
    BY <1>3, <1>4, Zenon DEF RecordedAs, k
  <1> QED BY <1>2, <1>3, <1>5 DEF RecordedAs

LEMMA RecordGasOk ==
    ASSUME GasOk, NEW t \in Txs, NEW source, RecordedAs(t, source), RecordGas(t, source)
    PROVE  GasOk'
  <1>1. gas' = [u \in DOMAIN gas \cup {t} |-> IF u = t THEN GasRow(source) ELSE gas[u]]
    BY DEF RecordGas, GasRow
  <1>2. DOMAIN gas' = DOMAIN gas \cup {t}
    BY <1>1
  <1>3. ASSUME NEW u \in DOMAIN gas' PROVE \E s : RecordedAs(u, s) /\ gas'[u] = GasRow(s)
    <2>1. CASE u = t
      <3>1. gas'[u] = GasRow(source)
        BY <1>1, <2>1
      <3> QED BY <2>1, <3>1, Zenon
    <2>2. CASE u # t
      <3>1. u \in DOMAIN gas /\ gas'[u] = gas[u]
        BY <1>1, <1>2, <1>3, <2>2
      <3> QED BY <3>1, Zenon DEF GasOk
    <2> QED BY <2>1, <2>2
  <1>4. gas' = [u \in DOMAIN gas' |-> gas'[u]]
    BY <1>1
  <1> QED BY <1>2, <1>3, <1>4, Zenon DEF GasOk

LEMMA BooksStart == IndexInit /\ BooksInit => BooksInv
  <1> SUFFICES ASSUME IndexInit, BooksInit PROVE BooksInv
    OBVIOUS
  <1>1. ChainOk
    BY DEF IndexInit, ChainOk
  <1>2. EventsOk /\ ScannedOk /\ CursorOk
    BY DEF IndexInit, EventsOk, ScannedOk, CursorOk, NoBlock
  <1>3. ReaderOk
    BY DEF IndexInit, ReaderOk, NoTick
  <1>4. StepsOk
    <2>1. \A j \in Jobs : Len(Steps(KindOf[j])) \in 1..3
      BY BooksAssumption, StepTable
    <2>2. step = [j \in Jobs |-> 0]
      BY DEF BooksInit
    <2> QED BY <2>1, <2>2 DEF StepsOk
  <1>5. RowsOk /\ ReportOk
    BY DEF BooksInit, RowsOk, ReportOk, NoReport
  <1>6. GasOk
    <2>1. gas = [t \in {} |-> {}]
      BY DEF BooksInit
    <2>2. DOMAIN gas = {} /\ gas = [t \in DOMAIN gas |-> gas[t]]
      BY <2>1
    <2> QED BY <2>2 DEF GasOk
  <1> QED BY <1>1, <1>2, <1>3, <1>4, <1>5, <1>6 DEF BooksInv, IndexInv

LEMMA SendBooks ==
    ASSUME BooksInv, NEW j \in Jobs, Send(j)
    PROVE  BooksInv'
  <1> DEFINE t == <<j, step[j] + 1>>
  <1>1. /\ step[j] < Len(Steps(KindOf[j])) /\ sent' = sent \cup {t}
        /\ UNCHANGED <<head, at, indexVars, step, rows, gas, report>>
    BY DEF Send, bookVars
  <1>2. step[j] \in Nat /\ Len(Steps(KindOf[j])) \in Nat /\ sent \subseteq Txs
    <2>1. Len(Steps(KindOf[j])) \in 1..3
      BY BooksAssumption, StepTable
    <2> QED BY <2>1 DEF BooksInv, StepsOk, IndexInv, ChainOk
  <1>3. t \in Txs
    <2>1. step[j] + 1 \in 1..Len(Steps(KindOf[j]))
      BY <1>1, <1>2
    <2> QED BY <2>1, TxOf, Zenon
  <1> HIDE DEF t
  <1>4. sent \subseteq sent' /\ sent' \subseteq Txs
    BY <1>1, <1>2, <1>3
  <1>5. IndexInv'
    BY <1>1, <1>4, SendKeeps DEF BooksInv
  <1>6. StepsOk'
    BY <1>1, <1>4, Zenon DEF BooksInv, StepsOk
  <1>7. RowsOk' /\ GasOk' /\ ReportOk'
    BY <1>1, Zenon DEF BooksInv, RowsOk, GasOk, ReportOk
  <1> QED BY <1>5, <1>6, <1>7 DEF BooksInv

LEMMA ReceiveBooks ==
    ASSUME BooksInv, NEW j \in Jobs, Receive(j)
    PROVE  BooksInv'
  <1> DEFINE t == <<j, step[j] + 1>>
             s == IF j \in Legacy THEN "relay" ELSE StepOf(t).live
  <1>1. /\ t \in sent /\ step' = [step EXCEPT ![j] = @ + 1]
        /\ \/ gas' = gas
           \/ StepOf(t).live # "none" /\ RecordGas(t, s)
        /\ UNCHANGED <<head, at, sent, indexVars, rows, report>>
    BY Zenon DEF Receive, chainVars
  <1>2. step \in [Jobs -> Nat] /\ Len(Steps(KindOf[j])) \in Nat /\ t \in Txs
    <2>1. Len(Steps(KindOf[j])) \in 1..3
      BY BooksAssumption, StepTable
    <2> QED BY <1>1, <2>1 DEF BooksInv, StepsOk, IndexInv, ChainOk
  <1>3. step[j] + 1 <= Len(Steps(KindOf[j]))
    <2>1. t[1] = j /\ t[2] = step[j] + 1
      OBVIOUS
    <2>2. t[2] \in 1..Len(Steps(KindOf[t[1]]))
      BY <1>2, TxParts, Zenon
    <2> QED BY <2>1, <2>2
  <1>4. IndexInv'
    BY <1>1, SendKeeps DEF BooksInv, IndexInv, ChainOk
  <1>5. StepsOk'
    <2>1. step' \in [Jobs -> Nat] /\ step'[j] = step[j] + 1 /\ (\A i \in Jobs \ {j} : step'[i] = step[i])
      BY <1>1, <1>2
    <2>2. ASSUME NEW i \in Jobs
          PROVE  /\ step'[i] <= Len(Steps(KindOf[i]))
                 /\ \A n \in 1..step'[i] : <<i, n>> \in sent
      <3>1. step[i] <= Len(Steps(KindOf[i])) /\ \A n \in 1..step[i] : <<i, n>> \in sent
        BY DEF BooksInv, StepsOk
      <3>2. CASE i = j
        <4>1. \A n \in 1..step[j] + 1 : n \in 1..step[j] \/ n = step[j] + 1
          BY <1>2
        <4> QED BY <1>1, <1>3, <2>1, <3>1, <3>2, <4>1, Zenon
      <3>3. CASE i # j
        BY <2>1, <3>1, <3>3, Zenon
      <3> QED BY <3>2, <3>3
    <2> QED BY <1>1, <2>1, <2>2, Zenon DEF StepsOk
  <1>6. RowsOk'
    <2>1. j \notin rows
      BY <1>2, <1>3 DEF BooksInv, RowsOk
    <2>2. \A i \in rows : step'[i] = step[i]
      BY <1>1, <1>2, <2>1 DEF BooksInv, RowsOk
    <2> QED BY <1>1, <2>2 DEF BooksInv, RowsOk
  <1>7. GasOk'
    <2>1. CASE gas' = gas
      BY <2>1 DEF BooksInv, GasOk
    <2>2. CASE StepOf(t).live # "none" /\ RecordGas(t, s)
      <3>1. j \in Legacy => KindOf[j] \in Relayed
        BY BooksAssumption DEF Relayed
      <3>2. t[1] = j
        OBVIOUS
      <3> HIDE DEF t
      <3>3. RecordedAs(t, s)
        BY <2>2, <3>1, <3>2, Zenon DEF RecordedAs
      <3> QED BY <1>2, <2>2, <3>3, RecordGasOk DEF BooksInv
    <2> QED BY <1>1, <2>1, <2>2
  <1>8. ReportOk'
    BY <1>1 DEF BooksInv, ReportOk
  <1> QED BY <1>4, <1>5, <1>6, <1>7, <1>8 DEF BooksInv

LEMMA OpenReportGas ==
    ASSUME GasOk, OpenReport
    PROVE  GasOk'
  <1>1. gas' = [t \in DOMAIN gas |->
                 IF gas[t].source = "relay" THEN GasRow(InferSource(t)) ELSE gas[t]]
    BY DEF OpenReport, GasRow
  <1>2. DOMAIN gas' = DOMAIN gas /\ gas' = [t \in DOMAIN gas' |-> gas'[t]]
    BY <1>1
  <1>3. ASSUME NEW t \in DOMAIN gas PROVE \E s : RecordedAs(t, s) /\ gas'[t] = GasRow(s)
    <2>1. PICK s : RecordedAs(t, s) /\ gas[t] = GasRow(s)
      BY Zenon DEF GasOk
    <2>2. gas[t].source = s
      BY <2>1 DEF GasRow
    <2>3. CASE s = "relay"
      <3>1. t \in Txs
        BY DEF GasOk
      <3>2. RecordedAs(t, InferSource(t))
        BY <2>1, <2>3, <3>1, OldTag
      <3>3. gas'[t] = GasRow(InferSource(t))
        BY <1>1, <2>2, <2>3
      <3> QED BY <3>2, <3>3, Zenon
    <2>4. CASE s # "relay"
      <3>1. gas'[t] = gas[t]
        BY <1>1, <2>2, <2>4
      <3> QED BY <2>1, <3>1, Zenon
    <2> QED BY <2>3, <2>4
  <1> QED BY <1>2, <1>3, Zenon DEF GasOk
LEMMA ReportBooks ==
    ASSUME BooksInv, OpenReport \/ FillReport \/ CloseReport
    PROVE  BooksInv'
  <1>1. UNCHANGED <<head, at, sent, indexVars, step, rows>>
    BY Zenon DEF OpenReport, FillReport, CloseReport, chainVars
  <1>2. IndexInv'
    BY <1>1, SendKeeps DEF BooksInv, IndexInv, ChainOk
  <1>3. StepsOk' /\ RowsOk'
    BY <1>1, Zenon DEF BooksInv, StepsOk, RowsOk
  <1>4. CASE OpenReport
    <2>1. GasOk'
      BY <1>4, OpenReportGas DEF BooksInv
    <2>2. KnownHashes \subseteq Hashes
      BY Zenon DEF KnownHashes, Hashes, BooksInv, RowsOk
    <2>3. report' = [pc |-> "fill", todo |-> KnownHashes \ DOMAIN gas]
      BY <1>4 DEF OpenReport
    <2>4. ReportOk'
      BY <2>2, <2>3 DEF ReportOk
    <2> QED BY <1>2, <1>3, <2>1, <2>4 DEF BooksInv
  <1>5. CASE FillReport
    <2>1. PICK t \in report.todo :
             /\ report' = [report EXCEPT !.todo = @ \ {t}]
             /\ gas' = gas \/ RecordGas(t, Classify(t))
      BY <1>5, Zenon DEF FillReport
    <2>2. t \in Hashes /\ ReportOk'
      BY <2>1 DEF BooksInv, ReportOk
    <2>3. t \in Txs /\ RecordedAs(t, Classify(t))
      BY <2>2, HashesAre, Zenon DEF RecordedAs
    <2>4. CASE gas' = gas
      BY <1>2, <1>3, <2>2, <2>4 DEF BooksInv, GasOk
    <2>5. CASE RecordGas(t, Classify(t))
      BY <1>2, <1>3, <2>2, <2>3, <2>5, RecordGasOk DEF BooksInv
    <2> QED BY <2>1, <2>4, <2>5
  <1>6. CASE CloseReport
    BY <1>2, <1>3, <1>6 DEF BooksInv, CloseReport, ReportOk, NoReport, GasOk
  <1> QED BY <1>4, <1>5, <1>6

\* The steps of the chain and of the indexer leave the books alone.
LEMMA ChainBooks ==
    ASSUME BooksInv, MineBlock \/ ReplaceBlocks, UNCHANGED indexVars, UNCHANGED bookVars
    PROVE  BooksInv'
  <1>1. UNCHANGED sent
    BY Zenon DEF MineBlock, ReplaceBlocks
  <1>2. ChainOk' /\ ChainMoves
    BY MineMoves, Zenon DEF BooksInv, IndexInv
  <1>3. IndexInv'
    BY <1>2, ChainKeeps, Zenon DEF BooksInv, IndexInv
  <1> QED BY <1>1, <1>3, Zenon DEF BooksInv, StepsOk, RowsOk, GasOk, ReportOk, bookVars

LEMMA TickBooks ==
    ASSUME BooksInv, (Tick \/ Chain) /\ UNCHANGED bookVars
    PROVE  BooksInv'
  <1>1. IndexInv
    BY DEF BooksInv
  <1>2. CASE Tick
    <2>1. UNCHANGED chainVars /\ (BuildTargets \/ StartTick \/ ReadLogs \/ InsertLog \/ MoveCursor)
      BY <1>2, Zenon DEF Tick
    <2>2. IndexInv'
      BY <1>1, <2>1, BuildTargetsKeeps, StartTickKeeps, ReadLogsKeeps, InsertLogKeeps, MoveCursorKeeps, Zenon
    <2> QED BY <2>1, <2>2, Zenon DEF BooksInv, StepsOk, RowsOk, GasOk, ReportOk, bookVars, chainVars
  <1>3. CASE Chain
    <2>1. (MineBlock \/ ReplaceBlocks) /\ UNCHANGED indexVars /\ UNCHANGED bookVars
      BY <1>3, Zenon DEF Chain, Reorg
    <2> QED BY <2>1, ChainBooks, Zenon
  <1> QED BY <1>2, <1>3

LEMMA BooksStep == BooksInv /\ [BooksNext]_booksVars => BooksInv'
  <1> SUFFICES ASSUME BooksInv, [BooksNext]_booksVars PROVE BooksInv'
    OBVIOUS
  <1>1. ASSUME NEW j \in Jobs, Send(j) \/ Receive(j) PROVE BooksInv'
    BY <1>1, SendBooks, ReceiveBooks
  <1>2. ASSUME NEW j \in Jobs, WriteRow(j) \/ Fulfil(j) PROVE BooksInv'
    <2>1. /\ UNCHANGED <<head, at, sent, indexVars, step, gas, report>>
          /\ rows' \subseteq rows \cup {j}
          /\ j \in rows' => step[j] = Len(Steps(KindOf[j]))
      BY <1>2 DEF WriteRow, Fulfil, chainVars, BooksInv, RowsOk
    <2>2. IndexInv'
      BY <2>1, SendKeeps DEF BooksInv, IndexInv, ChainOk
    <2>3. RowsOk'
      BY <2>1 DEF BooksInv, RowsOk
    <2> QED BY <2>1, <2>2, <2>3, Zenon DEF BooksInv, StepsOk, GasOk, ReportOk
  <1>3. ASSUME OpenReport \/ FillReport \/ CloseReport PROVE BooksInv'
    BY <1>3, ReportBooks
  <1>4. ASSUME (Tick \/ Chain) /\ UNCHANGED bookVars PROVE BooksInv'
    BY <1>4, TickBooks
  <1>5. ASSUME (TickFails /\ UNCHANGED <<chainVars, tokens, bookVars>>) \/ ProcessRestarts PROVE BooksInv'
    <2>1. /\ reader' = NoTick /\ targets' \in {{}, targets}
          /\ UNCHANGED <<head, at, sent, cursor, events, origin, scanned>>
      BY <1>5, Zenon DEF TickFails, ProcessRestarts, chainVars
    <2>2. IndexInv'
      BY <2>1, GiveUpKeeps DEF BooksInv
    <2>3. UNCHANGED <<step, rows, gas>> /\ (report' = report \/ report' = NoReport)
      BY <1>5, Zenon DEF TickFails, ProcessRestarts, bookVars
    <2>4. ReportOk'
      BY <2>3 DEF BooksInv, ReportOk, NoReport
    <2> QED BY <2>1, <2>2, <2>3, <2>4, Zenon DEF BooksInv, StepsOk, RowsOk, GasOk
  <1>6. ASSUME TokensDeployed \/ FaultsAgain \/ UNCHANGED booksVars PROVE BooksInv'
    <2>1. UNCHANGED <<head, at, sent, indexVars, step, rows, gas, report>>
      BY <1>6, Zenon DEF TokensDeployed, FaultsAgain, booksVars, chainVars, bookVars
    <2>2. IndexInv'
      BY <2>1, SendKeeps DEF BooksInv, IndexInv, ChainOk
    <2> QED BY <2>1, <2>2, Zenon DEF BooksInv, StepsOk, RowsOk, GasOk, ReportOk
  <1>7. ASSUME ReorgAgain PROVE BooksInv'
    <2>1. ReplaceBlocks /\ UNCHANGED indexVars /\ UNCHANGED bookVars
      BY <1>7, Zenon DEF ReorgAgain
    <2> QED BY <2>1, ChainBooks, Zenon
  <1> QED BY <1>1, <1>2, <1>3, <1>4, <1>5, <1>6, <1>7, Zenon DEF BooksNext

\* Theorem: whatever order the operations, the poll, a report, new blocks, failed
\* ticks and restarts come in, the cursor, the rows and the gas ledger stay in step
\* with the chain.
THEOREM BooksInvariant == BooksSpec => []BooksInv
  <1>1. BooksInv /\ [BooksNext]_booksVars => BooksInv'
    BY BooksStep
  <1> QED BY BooksStart, <1>1, PTL DEF BooksSpec

\* Theorem: chain_events holds only logs of the chain that stands, and the cursor
\* never passes a log of a watched contract without its row, after any number of
\* reorganisations no deeper than the confirmations, failed ticks and restarts
\* (indexerService).
THEOREM IndexFaithfulTheorem == BooksSpec => []IndexFaithful
  <1>1. BooksInv => IndexFaithful
    <2> SUFFICES ASSUME BooksInv PROVE IndexFaithful
      OBVIOUS
    <2>1. \A e \in events : at[e.tx] = e.block
      BY Zenon DEF BooksInv, IndexInv, EventsOk
    <2>2. \A t \in Txs : at[t] # 0 /\ <<EmitterOf[t], at[t]>> \in scanned => t \in Indexed
      BY Zenon DEF BooksInv, IndexInv, ScannedOk
    <2>3. cursor # NoBlock => \A c \in Core, b \in origin + 1..cursor : <<c, b>> \in scanned
      BY Zenon DEF BooksInv, IndexInv, CursorOk
    <2> QED BY <2>1, <2>2, <2>3, Zenon DEF IndexFaithful
  <1> QED BY <1>1, BooksInvariant, PTL

LEMMA RowParts ==
    ASSUME BooksInv, NEW j \in rows
    PROVE  /\ j \in Jobs /\ KindOf[j] \in Kinds /\ LastTx(j) \in sent /\ LastTx(j)[1] = j
           /\ LastTx(j) = <<j, Len(Steps(KindOf[j]))>> /\ Len(Steps(KindOf[j])) \in 1..3
  <1>1. j \in Jobs /\ step[j] = Len(Steps(KindOf[j])) /\ (\A i \in 1..step[j] : <<j, i>> \in sent)
    BY DEF BooksInv, RowsOk, StepsOk
  <1>2. KindOf[j] \in Kinds /\ Len(Steps(KindOf[j])) \in 1..3
    BY <1>1, BooksAssumption, StepTable
  <1>3. Len(Steps(KindOf[j])) \in 1..step[j]
    <2>1. \A n \in 1..3 : n \in 1..n
      OBVIOUS
    <2> QED BY <1>1, <1>2, <2>1, Zenon
  <1> QED BY <1>1, <1>2, <1>3 DEF LastTx

\* An entry from a log, and an entry from a row.
LEMMA EntryOf ==
    ASSUME NEW n \in History
    PROVE  \/ \E e \in events : ~Hidden(e) /\ n = [from |-> "log", tx |-> e.tx, type |-> Label(e.tx)]
                                /\ n \in LogEntries
           \/ \E j \in rows : /\ KindOf[j] \in {"purchase", "session", "change"} /\ LastTx(j) \notin Seen
                              /\ n = [from |-> "row", tx |-> LastTx(j), type |-> Label(LastTx(j))]
  <1>1. CASE n \in LogEntries
    <2>1. PICK e \in {f \in Fetched : ~Hidden(f)} : n = [from |-> "log", tx |-> e.tx, type |-> Label(e.tx)]
      BY <1>1, Zenon DEF LogEntries
    <2>2. e \in events /\ ~Hidden(e)
      BY <2>1, Zenon DEF Fetched, Mine
    <2> QED BY <1>1, <2>1, <2>2, Zenon
  <1>2. CASE n \in RowEntries
    <2>1. PICK j \in {i \in rows : KindOf[i] \in {"purchase", "session", "change"} /\ LastTx(i) \notin Seen} :
             n = [from |-> "row", tx |-> LastTx(j), type |-> Label(LastTx(j))]
      BY <1>2, Zenon DEF RowEntries
    <2> QED BY <2>1, Zenon
  <1> QED BY <1>1, <1>2, Zenon DEF History

\* The entries of one transaction are one record of either kind.
LEMMA EntriesOf ==
    ASSUME NEW t, NEW n \in Entries(t)
    PROVE  /\ n.type = Label(t) /\ n.tx = t
           /\ \/ t \in Seen /\ n = [from |-> "log", tx |-> t, type |-> Label(t)]
              \/ /\ t \notin Seen /\ n = [from |-> "row", tx |-> t, type |-> Label(t)]
                 /\ \E j \in rows : KindOf[j] \in {"purchase", "session", "change"} /\ t = LastTx(j)
  <1>1. n \in History /\ n.tx = t
    BY DEF Entries
  <1>2. ASSUME NEW e \in events, n = [from |-> "log", tx |-> e.tx, type |-> Label(e.tx)], n \in LogEntries
        PROVE  t \in Seen /\ n = [from |-> "log", tx |-> t, type |-> Label(t)]
    <2>1. n.tx = e.tx
      BY <1>2
    <2> QED BY <1>1, <1>2, <2>1, Zenon DEF Seen
  <1>3. ASSUME NEW j \in rows, LastTx(j) \notin Seen, KindOf[j] \in {"purchase", "session", "change"},
               n = [from |-> "row", tx |-> LastTx(j), type |-> Label(LastTx(j))]
        PROVE  /\ t \notin Seen /\ n = [from |-> "row", tx |-> t, type |-> Label(t)]
               /\ t = LastTx(j)
    <2>1. n.tx = LastTx(j)
      BY <1>3
    <2> QED BY <1>1, <1>3, <2>1, Zenon
  <1>4. \/ t \in Seen /\ n = [from |-> "log", tx |-> t, type |-> Label(t)]
        \/ /\ t \notin Seen /\ n = [from |-> "row", tx |-> t, type |-> Label(t)]
           /\ \E j \in rows : KindOf[j] \in {"purchase", "session", "change"} /\ t = LastTx(j)
    BY <1>1, <1>2, <1>3, EntryOf, Zenon
  <1>5. n.type = Label(t)
    <2>1. [from |-> "log", tx |-> t, type |-> Label(t)].type = Label(t)
          /\ [from |-> "row", tx |-> t, type |-> Label(t)].type = Label(t)
      OBVIOUS
    <2> QED BY <1>4, <2>1, Zenon
  <1> QED BY <1>1, <1>4, <1>5, Zenon

\* A log of a transaction whose row is there, under its name.
LEMMA NamedRight ==
    ASSUME BooksInv, NEW j \in rows
    PROVE  /\ KindOf[j] \in {"purchase", "session"} => Label(LastTx(j)) = "Purchase"
           /\ KindOf[j] = "change" => Label(LastTx(j)) = "Change voucher"
           /\ KindOf[j] = "convert" => Label(<<j, 2>>) = "Converted"
  <1>1. KindOf[j] \in Kinds /\ LastTx(j) = <<j, Len(Steps(KindOf[j]))>>
    BY RowParts
  <1>2. CASE KindOf[j] \in {"purchase", "session"}
    <2>1. Len(Steps(KindOf[j])) = 1 /\ Steps(KindOf[j])[1].log = "Transferred"
      BY <1>1, <1>2, StepTable
    <2>2. LastTx(j) = <<j, 1>> /\ StepOf(<<j, 1>>).log = "Transferred"
      BY <1>1, <2>1 DEF StepOf
    <2>3. RowOf({"purchase", "session"}, <<j, 1>>)
      BY <1>2 DEF RowOf
    <2>4. Label(<<j, 1>>) = "Purchase"
      BY <2>2, <2>3 DEF Label
    <2> QED BY <1>2, <2>2, <2>4
  <1>3. CASE KindOf[j] = "change"
    <2>1. Len(Steps(KindOf[j])) = 2 /\ Steps(KindOf[j])[2].log = "Credited"
      BY <1>1, <1>3, StepTable
    <2>2. LastTx(j) = <<j, 2>> /\ StepOf(<<j, 2>>).log = "Credited"
      BY <1>1, <2>1 DEF StepOf
    <2>3. RowOf({"change"}, <<j, 2>>) /\ ~RowOf({"convert"}, <<j, 2>>)
      BY <1>3 DEF RowOf
    <2>4. Label(<<j, 2>>) = "Change voucher"
      BY <2>2, <2>3 DEF Label
    <2> QED BY <1>3, <2>2, <2>4
  <1>4. CASE KindOf[j] = "convert"
    <2>1. Steps(KindOf[j])[2].log = "Credited"
      BY <1>1, <1>4, StepTable
    <2>2. StepOf(<<j, 2>>).log = "Credited"
      BY <2>1 DEF StepOf
    <2>3. RowOf({"convert"}, <<j, 2>>)
      BY <1>4 DEF RowOf
    <2>4. Label(<<j, 2>>) = "Converted"
      BY <2>2, <2>3 DEF Label
    <2> QED BY <1>4, <2>4
  <1> QED BY <1>2, <1>3, <1>4

\* One entry, and there is one.
LEMMA OneEntry ==
    ASSUME BooksInv, NEW j \in rows, KindOf[j] \in {"purchase", "session", "change"}
    PROVE  \E n \in Entries(LastTx(j)) : Entries(LastTx(j)) = {n} /\ n.type = Label(LastTx(j))
  <1> DEFINE t == LastTx(j)
             a == [from |-> "log", tx |-> t, type |-> Label(t)]
             b == [from |-> "row", tx |-> t, type |-> Label(t)]
  <1>1. a.tx = t /\ b.tx = t
    OBVIOUS
  <1>2. CASE t \in Seen
    <2>1. PICK n \in LogEntries : n.tx = t
      BY <1>2, Zenon DEF Seen
    <2>2. n \in Entries(t)
      BY <2>1, Zenon DEF Entries, History
    <2>3. \A m \in Entries(t) : m = a /\ m.type = Label(t)
      <3> SUFFICES ASSUME NEW m \in Entries(t) PROVE m = a /\ m.type = Label(t)
        OBVIOUS
      <3> HIDE DEF t
      <3> QED BY <1>2, EntriesOf, Zenon
    <2>4. Entries(t) = {n}
      <3> HIDE DEF t, a, b
      <3> QED BY <2>2, <2>3
    <2> QED BY <2>2, <2>3, <2>4, Zenon
  <1>3. CASE t \notin Seen
    <2>1. b \in RowEntries
      BY <1>3, Zenon DEF RowEntries
    <2>2. b \in Entries(t)
      BY <1>1, <2>1, Zenon DEF Entries, History
    <2>3. \A m \in Entries(t) : m = b /\ m.type = Label(t)
      <3> SUFFICES ASSUME NEW m \in Entries(t) PROVE m = b /\ m.type = Label(t)
        OBVIOUS
      <3> HIDE DEF t
      <3> QED BY <1>3, EntriesOf, Zenon
    <2>4. Entries(t) = {b}
      <3> HIDE DEF t, a, b
      <3> QED BY <2>2, <2>3
    <2> QED BY <2>2, <2>3, <2>4, Zenon
  <1> QED BY <1>2, <1>3

\* A conversion is no payment, and its own entry bears its name.
LEMMA ConversionEntry ==
    ASSUME BooksInv, NEW j \in rows, KindOf[j] = "convert"
    PROVE  Entries(<<j, 1>>) = {} /\ \A n \in Entries(<<j, 2>>) : n.type = "Converted"
  <1>1. j \in Jobs /\ KindOf[j] \in Kinds
    BY RowParts
  <1>2. ASSUME NEW n \in Entries(<<j, 1>>) PROVE FALSE
    <2>1. n \in History /\ n.tx = <<j, 1>>
      BY DEF Entries
    <2>2. ASSUME NEW e \in events, ~Hidden(e), n = [from |-> "log", tx |-> e.tx, type |-> Label(e.tx)] PROVE FALSE
      <3>1. e.tx = <<j, 1>>
        BY <2>1, <2>2
      <3>2. Steps(KindOf[j])[1].log = "Debited"
        BY <1>1, StepTable
      <3>3. StepOf(<<j, 1>>).log = "Debited"
        BY <3>2 DEF StepOf
      <3>4. RowOf({"convert"}, <<j, 1>>)
        BY DEF RowOf
      <3> QED BY <2>2, <3>1, <3>3, <3>4 DEF Hidden
    <2>3. ASSUME NEW i \in rows, KindOf[i] \in {"purchase", "session", "change"},
                 n = [from |-> "row", tx |-> LastTx(i), type |-> Label(LastTx(i))]
          PROVE  FALSE
      <3>1. LastTx(i) = <<j, 1>>
        BY <2>1, <2>3
      <3>2. i = j
        BY <3>1 DEF LastTx
      <3> QED BY <2>3, <3>2
    <2> QED BY <2>1, <2>2, <2>3, EntryOf, Zenon
  <1>3. \A n \in Entries(<<j, 2>>) : n.type = "Converted"
    <2>1. Label(<<j, 2>>) = "Converted"
      BY NamedRight
    <2> QED BY <2>1, EntriesOf, Zenon
  <1> QED BY <1>2, <1>3

LEMMA HistoryIsExact == BooksInv => HistoryExact
  <1> SUFFICES ASSUME BooksInv PROVE HistoryExact
    OBVIOUS
  <1>1. ASSUME NEW j \in rows, KindOf[j] \in {"purchase", "session", "change"}
        PROVE  \E n \in Entries(LastTx(j)) :
                  /\ Entries(LastTx(j)) = {n}
                  /\ n.type = IF KindOf[j] = "change" THEN "Change voucher" ELSE "Purchase"
    <2>1. Label(LastTx(j)) = IF KindOf[j] = "change" THEN "Change voucher" ELSE "Purchase"
      BY <1>1, NamedRight
    <2>2. \E n \in Entries(LastTx(j)) : Entries(LastTx(j)) = {n} /\ n.type = Label(LastTx(j))
      BY <1>1, OneEntry, Zenon
    <2> QED BY <2>1, <2>2, Zenon
  <1>2. ASSUME NEW n \in History PROVE n.tx \in sent
    <2>1. ASSUME NEW e \in events, n = [from |-> "log", tx |-> e.tx, type |-> Label(e.tx)] PROVE n.tx \in sent
      <3>1. e.tx \in Txs /\ at[e.tx] # 0
        BY DEF BooksInv, IndexInv, EventsOk, LogRows
      <3>2. e.tx \in sent
        BY <3>1 DEF BooksInv, IndexInv, ChainOk
      <3> QED BY <2>1, <3>2
    <2>2. ASSUME NEW j \in rows, n = [from |-> "row", tx |-> LastTx(j), type |-> Label(LastTx(j))] PROVE n.tx \in sent
      <3>1. n.tx = LastTx(j)
        BY <2>2
      <3> QED BY <3>1, RowParts, Zenon
    <2> QED BY <2>1, <2>2, EntryOf, Zenon
  <1> QED BY <1>1, <1>2, ConversionEntry, Zenon DEF HistoryExact

\* What a row of the gas ledger says of its transaction.
LEMMA GasRows ==
    ASSUME BooksInv, NEW t \in DOMAIN gas
    PROVE  /\ t \in Txs /\ gas[t].category = TrueCategory(t) /\ TrueCategory(t) \in GroupOrder
           /\ gas[t].source \in {"session", "session_ok", "session_fail"} => KindOf[t[1]] = "session"
           /\ ReportSource(t) # "session"
           /\ ReportSource(t) \in {"session_ok", "session_fail"} =>
                 gas[t].source \in {"session", "session_ok", "session_fail"}
  <1>1. t \in Txs
    BY DEF BooksInv, GasOk
  <1>2. PICK s : RecordedAs(t, s) /\ gas[t] = GasRow(s)
    BY Zenon DEF BooksInv, GasOk
  <1>3. gas[t].source = s /\ gas[t].category = CategoryForSource(s)
    BY <1>2 DEF GasRow
  <1>4. TrueCategory(t) \in GroupOrder
    BY DEF TrueCategory, GroupOrder
  <1>5. ReportSource(t) # "session"
    BY DEF ReportSource
  <1>6. ReportSource(t) \in {"session_ok", "session_fail"} =>
           gas[t].source \in {"session", "session_ok", "session_fail"}
    BY DEF ReportSource
  <1> QED BY <1>1, <1>2, <1>3, <1>4, <1>5, <1>6, RightGroup, Zenon

LEMMA GasIsCounted == BooksInv => GasCounted
  <1> SUFFICES ASSUME BooksInv PROVE GasCounted
    OBVIOUS
  <1>1. \A t \in DOMAIN gas : gas[t].category = TrueCategory(t)
    BY GasRows, Zenon
  <1>2. ASSUME NEW t \in DOMAIN gas PROVE t \in UNION {ByGroup(g) : g \in GroupOrder}
    <2>1. gas[t].category \in GroupOrder
      BY GasRows, <1>1
    <2>2. CASE gas[t].category = "transaction"
      <3>1. t \in Bucket("transaction", ReportSource(t))
        BY <2>2 DEF Bucket
      <3>2. t \in UNION ConsumerRows
        <4>1. CASE ReportSource(t) \in {"session_ok", "session_fail"}
          <5>1. t \in UNION SessionLines
            BY <3>1, <4>1, Zenon DEF SessionLines
          <5>2. SessionLines \subseteq ConsumerRows
            BY <5>1, Zenon DEF ConsumerRows
          <5> QED BY <5>1, <5>2, Zenon
        <4>2. CASE ReportSource(t) \notin {"session_ok", "session_fail"}
          <5>1. ReportSource(t) \in {ReportSource(u) : u \in DOMAIN gas} \ {"session", "session_ok", "session_fail"}
            BY <4>2, GasRows
          <5>2. Bucket("transaction", ReportSource(t)) \in ConsumerRows
            BY <5>1, Zenon DEF ConsumerRows
          <5> QED BY <3>1, <5>2, Zenon
        <4> QED BY <4>1, <4>2, Zenon
      <3>3. t \in ByGroup("transaction")
        BY <3>2, Zenon DEF ByGroup
      <3> QED BY <2>1, <2>2, <3>3, Zenon
    <2>3. CASE gas[t].category # "transaction"
      <3>1. t \in ByGroup(gas[t].category)
        BY <2>3, Zenon DEF ByGroup, Rolled
      <3> QED BY <2>1, <3>1, Zenon
    <2> QED BY <2>2, <2>3
  <1>3. UNION {ByGroup(g) : g \in GroupOrder} \subseteq DOMAIN gas
    <2>1. \A c, s : Bucket(c, s) \subseteq DOMAIN gas
      BY Zenon DEF Bucket
    <2>2. UNION SessionLines \subseteq DOMAIN gas
      BY <2>1, Zenon DEF SessionLines
    <2>3. \A line \in ConsumerRows : line \subseteq DOMAIN gas
      BY <2>1, <2>2, Zenon DEF ConsumerRows
    <2>4. \A g : ByGroup(g) \subseteq DOMAIN gas
      BY <2>3, Zenon DEF ByGroup, Rolled
    <2> QED BY <2>4, Zenon
  <1>4. UNION BySource = DOMAIN gas
    <2>1. \A t \in DOMAIN gas : t \in Bucket(gas[t].category, ReportSource(t))
      BY Zenon DEF Bucket
    <2>2. \A c, s : Bucket(c, s) \subseteq DOMAIN gas
      BY Zenon DEF Bucket
    <2> QED BY <2>1, <2>2, Zenon DEF BySource
  <1>5. ASSUME NEW line \in SessionLines, NEW t \in line PROVE KindOf[t[1]] = "session"
    <2>1. t \in DOMAIN gas /\ ReportSource(t) \in {"session_ok", "session_fail"}
      BY <1>5, Zenon DEF SessionLines, Bucket
    <2> QED BY <2>1, GasRows, Zenon
  <1>6. UNION {ByGroup(g) : g \in GroupOrder} = DOMAIN gas
    BY <1>2, <1>3, Zenon
  <1> QED BY <1>1, <1>4, <1>5, <1>6, Zenon DEF GasCounted

\* Theorem: whichever of receipt, index, row and report comes first, and whatever is
\* restarted in between, the consumer's history lists what has a row exactly once and
\* under its name (consumer.routes), and the gas report counts every transaction once
\* and in the right group (gasCostService).
THEOREM BooksExactTheorem == BooksSpec => []BooksExact
  <1>1. BooksInv => BooksExact
    BY HistoryIsExact, GasIsCounted DEF BooksExact
  <1> QED BY <1>1, BooksInvariant, PTL

(***************************************************************************)
(*                              The reports                                *)
(***************************************************************************)
\* The table of operations once more: the log of each step.
LogIs(k, i, log) ==
    \/ k = "topup" /\ i = 1 /\ log = "Minted"
    \/ k \in {"topup", "change", "convert"} /\ i = 2 /\ log = "Credited"
    \/ k \in {"purchase", "session"} /\ i = 1 /\ log = "Transferred"
    \/ k \in {"change", "convert", "settle"} /\ i = 1 /\ log = "Debited"
    \/ k = "settle" /\ i = 2 /\ log = "ForcedTransfer"
    \/ k \in {"enable", "deploy"} /\ i = 1 /\ log = "none"
    \/ k = "register" /\ i = 1 /\ log = "ConsumerRegistered"
    \/ k = "harvest" /\ i = 1 /\ log = "YieldHarvested"
    \/ k = "withdraw" /\ i = 1 /\ log = "Withdrawn"
    \/ k = "withdraw" /\ i = 2 /\ log = "Debited"
    \/ k = "withdraw" /\ i = 3 /\ log = "Credited"

\* Each kind of operation has the logs this table says.
LEMMA LogTable ==
    ASSUME NEW k \in Kinds, NEW i \in 1..Len(Steps(k))
    PROVE  LogIs(k, i, Steps(k)[i].log)
  <1>1. k \in {"topup", "purchase", "session", "change", "convert", "settle", "enable",
               "register", "deploy", "harvest", "withdraw"}
    BY Zenon DEF Kinds
  <1>2. CASE k = "topup"
    BY <1>2 DEF Steps, LogIs
  <1>3. CASE k \in {"change", "convert"}
    BY <1>3 DEF Steps, LogIs
  <1>4. CASE k = "settle"
    BY <1>4 DEF Steps, LogIs
  <1>5. CASE k \in {"purchase", "session", "enable", "register", "deploy", "harvest"}
    BY <1>5 DEF Steps, LogIs
  <1>6. CASE k = "withdraw"
    BY <1>6 DEF Steps, LogIs
  <1> QED BY <1>1, <1>2, <1>3, <1>4, <1>5, <1>6

\* The log of a transaction.
LEMMA LogOfTx ==
    ASSUME NEW t \in Txs
    PROVE  /\ LogIs(KindOf[t[1]], t[2], StepOf(t).log) /\ t[1] \in Jobs /\ t = <<t[1], t[2]>>
           /\ KindOf[t[1]] \in Kinds /\ t[2] \in Nat
  <1>1. KindOf[t[1]] \in Kinds /\ t[2] \in 1..Len(Steps(KindOf[t[1]])) /\ t[1] \in Jobs /\ t = <<t[1], t[2]>>
    BY TxParts, Zenon
  <1>2. LogIs(KindOf[t[1]], t[2], StepOf(t).log)
    BY <1>1, LogTable, Zenon DEF StepOf
  <1>3. t[2] \in Nat
    <2>1. Len(Steps(KindOf[t[1]])) \in 1..3
      BY <1>1, StepTable
    <2> QED BY <1>1, <2>1
  <1> QED BY <1>1, <1>2, <1>3

\* Every job has a first transaction, and a second one where the table says so.
LEMMA FirstTx ==
    ASSUME NEW j \in Jobs
    PROVE  /\ <<j, 1>> \in Txs
           /\ KindOf[j] \in {"topup", "change", "convert"} => <<j, 2>> \in Txs
  <1>1. KindOf[j] \in Kinds
    BY BooksAssumption
  <1>2. Len(Steps(KindOf[j])) \in 1..3 /\ (KindOf[j] \in {"topup", "change", "convert"} => Len(Steps(KindOf[j])) = 2)
    BY <1>1, StepTable
  <1>3. 1 \in 1..Len(Steps(KindOf[j])) /\ (KindOf[j] \in {"topup", "change", "convert"} => 2 \in 1..Len(Steps(KindOf[j])))
    BY <1>2
  <1> QED BY <1>3, TxOf, Zenon

\* There are finitely many transactions.
LEMMA TxsFinite == IsFiniteSet(Txs)
  <1>1. IsFiniteSet(Jobs)
    BY ReportsAssumption
  <1>2. IsFiniteSet(1..3)
    <2>1. 1 \in Int /\ 3 \in Int
      OBVIOUS
    <2> QED BY <2>1, FS_Interval, Zenon
  <1>3. IsFiniteSet(Jobs \X (1..3))
    BY <1>1, <1>2, FS_Product
  <1>4. Txs \subseteq Jobs \X (1..3)
    <2> SUFFICES ASSUME NEW t \in Txs PROVE t \in Jobs \X (1..3)
      OBVIOUS
    <2>1. t[1] \in Jobs /\ t = <<t[1], t[2]>> /\ LogIs(KindOf[t[1]], t[2], StepOf(t).log)
      BY LogOfTx, Zenon
    <2>2. t[2] \in 1..3
      BY <2>1 DEF LogIs
    <2> QED BY <2>1, <2>2
  <1> QED BY <1>3, <1>4, FS_Subset

\* TxAmounts are natural numbers, so every volume is one.
LEMMA AmountNat ==
    ASSUME NEW t \in Txs
    PROVE  Amount(t) \in Nat
  <1>1. t[1] \in Jobs
    BY LogOfTx
  <1>2. PICK w \in Nat, f \in Nat : w = Worth[t[1]] /\ f = FeeOf[t[1]] /\ f <= w
    BY <1>1, ReportsAssumption
  <1>3. w - f \in Nat
    BY <1>2
  <1> QED BY <1>2, <1>3 DEF Amount

\* The volume of any of them is a natural number.
LEMMA VolumeNat ==
    ASSUME NEW T \in SUBSET Txs
    PROVE  Volume(T) \in Nat
  <1>1. IsFiniteSet(T)
    BY TxsFinite, FS_Subset
  <1>2. [t \in T |-> Amount(t)] \in [T -> Nat]
    BY AmountNat
  <1>3. Total([t \in T |-> Amount(t)]) \in Nat
    BY <1>1, <1>2, TotalType
  <1> QED BY <1>3 DEF Volume

\* The volumes of two separate groups add up.
LEMMA VolumeSplit ==
    ASSUME NEW A \in SUBSET Txs, NEW B \in SUBSET Txs, A \cap B = {}
    PROVE  /\ Volume(A \cup B) = Volume(A) + Volume(B)
           /\ Volume(A) \in Nat /\ Volume(B) \in Nat
  <1>1. PICK T \in SUBSET Txs : T = A \cup B
    OBVIOUS
  <1>2. A \in SUBSET T /\ B \in SUBSET T /\ IsFiniteSet(T) /\ A \cup B = T
    BY <1>1, TxsFinite, FS_Subset
  <1>3. PICK g \in [T -> Nat] : g = [t \in T |-> Amount(t)]
    BY AmountNat
  <1>4. Total([x \in A \cup B |-> g[x]]) = Total([x \in A |-> g[x]]) + Total([x \in B |-> g[x]])
    BY <1>2, TotalSplit
  <1>5. /\ [x \in A \cup B |-> g[x]] = [t \in A \cup B |-> Amount(t)]
        /\ [x \in A |-> g[x]] = [t \in A |-> Amount(t)]
        /\ [x \in B |-> g[x]] = [t \in B |-> Amount(t)]
    BY <1>2, <1>3
  <1> QED BY <1>4, <1>5, VolumeNat, Zenon DEF Volume

\* A group moves no more than everybody.
LEMMA VolumePart ==
    ASSUME NEW A \in SUBSET Txs, NEW B \in SUBSET Txs, A \subseteq B
    PROVE  /\ Volume(A) <= Volume(B)
           /\ Volume(A) \in Nat /\ Volume(B) \in Nat
  <1>1. A \cup (B \ A) = B /\ A \cap (B \ A) = {} /\ B \ A \in SUBSET Txs
    OBVIOUS
  <1>2. PICK R \in SUBSET Txs : R = B \ A
    BY <1>1
  <1>3. Volume(A \cup R) = Volume(A) + Volume(R) /\ Volume(A) \in Nat /\ Volume(R) \in Nat
    BY <1>1, <1>2, VolumeSplit
  <1>4. PICK a \in Nat, r \in Nat, b \in Nat : a = Volume(A) /\ r = Volume(R) /\ b = Volume(B)
    BY <1>3, VolumeNat, Zenon
  <1>5. A \cup R = B
    BY <1>1, <1>2, Zenon
  <1>6. b = a + r
    BY <1>3, <1>4, <1>5, Zenon
  <1>7. a <= b
    BY <1>6
  <1> QED BY <1>4, <1>7, Zenon

\* Nothing moves nothing.
LEMMA VolumeNone == Volume({}) = 0
  <1>1. [t \in {} |-> Amount(t)] = [t \in {} |-> 0]
    OBVIOUS
  <1> QED BY <1>1, TotalZero, Zenon DEF Volume

\* Without a reorganisation a transaction is sent after the one before it was mined,
\* and that one stays mined.
InOrder ==
    "reorg" \notin faults => \A j \in Jobs : <<j, 2>> \in sent => at[<<j, 1>>] # 0

\* What the reports rely on.
ReportInv == BooksInv /\ InOrder

\* No step but a reorganisation takes a mined transaction away, and a job sends its
\* second transaction only when its first is mined.
LEMMA OrderKept == BooksInv /\ InOrder /\ [BooksNext]_booksVars => InOrder'
  <1> SUFFICES ASSUME BooksInv, InOrder, [BooksNext]_booksVars, "reorg" \notin faults',
                      NEW j \in Jobs, <<j, 2>> \in sent'
               PROVE  at'[<<j, 1>>] # 0
    BY Zenon DEF InOrder
  <1>1. <<j, 1>> \in Txs /\ head \in Nat /\ at \in [Txs -> Nat]
    BY FirstTx DEF BooksInv, IndexInv, ChainOk
  <1>2. ASSUME UNCHANGED <<at, sent>>, "reorg" \notin faults PROVE at'[<<j, 1>>] # 0
    BY <1>2, Zenon DEF InOrder
  <1>3. CASE \E i \in Jobs : Send(i)
    <2>1. PICK i \in Jobs : Send(i)
      BY <1>3
    <2>2. /\ sent' = sent \cup {<<i, step[i] + 1>>} /\ at' = at /\ faults' = faults
          /\ step[i] > 0 => at[<<i, step[i]>>] # 0
      BY <2>1, Zenon DEF Send
    <2>3. CASE <<j, 2>> \in sent
      BY <1>2, <2>2, <2>3, Zenon DEF InOrder
    <2>4. CASE <<j, 2>> = <<i, step[i] + 1>>
      <3>1. step[i] \in Nat
        BY DEF BooksInv, StepsOk
      <3>2. j = i /\ step[i] = 1
        BY <2>4, <3>1
      <3> QED BY <2>2, <3>2
    <2> QED BY <2>2, <2>3, <2>4
  <1>4. CASE \E i \in Jobs : Receive(i) \/ WriteRow(i) \/ Fulfil(i)
    <2>1. UNCHANGED <<at, sent>> /\ faults \subseteq faults'
      BY <1>4, Zenon DEF Receive, WriteRow, Fulfil, chainVars, Fault
    <2> QED BY <1>2, <2>1, Zenon
  <1>5. CASE OpenReport \/ FillReport \/ CloseReport
    BY <1>2, <1>5, Zenon DEF OpenReport, FillReport, CloseReport, chainVars
  <1>6. CASE Tick
    <2>1. UNCHANGED <<at, sent>> /\ faults \subseteq faults'
      BY <1>6, Zenon DEF Tick, BuildTargets, StartTick, ReadLogs, InsertLog, MoveCursor, chainVars, Fault
    <2> QED BY <1>2, <2>1, Zenon
  <1>7. CASE MineBlock
    <2>1. PICK T \in SUBSET Unmined : at' = [t \in Txs |-> IF t \in T THEN head' ELSE at[t]]
      BY <1>7 DEF MineBlock
    <2>2. head' = head + 1 /\ sent' = sent /\ faults' = faults
      BY <1>7 DEF MineBlock
    <2>3. at[<<j, 1>>] # 0
      BY <2>2, Zenon DEF InOrder
    <2> QED BY <1>1, <2>1, <2>2, <2>3
  <1>8. CASE TickFails /\ UNCHANGED <<chainVars, tokens, bookVars>>
    <2>1. UNCHANGED <<at, sent>> /\ faults \subseteq faults'
      BY <1>8, Zenon DEF TickFails, chainVars, Fault
    <2> QED BY <1>2, <2>1, Zenon
  <1>9. CASE ProcessRestarts
    <2>1. UNCHANGED <<at, sent>> /\ faults \subseteq faults'
      BY <1>9, Zenon DEF ProcessRestarts, chainVars, Fault
    <2> QED BY <1>2, <2>1, Zenon
  <1>10. CASE TokensDeployed \/ UNCHANGED booksVars
    BY <1>2, <1>10, Zenon DEF TokensDeployed, booksVars, chainVars
  <1>11. CASE FaultsAgain
    <2>1. UNCHANGED <<at, sent>> /\ faults' = faults \cap {"reorg"}
      BY <1>11, Zenon DEF FaultsAgain, chainVars
    <2> QED BY <1>2, <2>1, Zenon
  <1>12. CASE Reorg \/ ReorgAgain
    BY <1>12, Zenon DEF Reorg, ReorgAgain, Fault
  <1> QED BY <1>3, <1>4, <1>5, <1>6, <1>7, <1>8, <1>9, <1>10, <1>11, <1>12, Zenon DEF BooksNext, Chain

\* Nothing is sent at first.
LEMMA ReportStart == IndexInit /\ BooksInit => InOrder
  BY Zenon DEF IndexInit, InOrder

\* Theorem: beside the books, a transaction of a job was sent only after the one before
\* it stood in the chain; as long as no block is replaced, a credit stands behind its
\* mint and behind the debit it was taken from.
THEOREM ReportInvariant == BooksSpec => []ReportInv
  <1>1. IndexInit /\ BooksInit => ReportInv
    BY BooksStart, ReportStart DEF ReportInv
  <1>2. ReportInv /\ [BooksNext]_booksVars => ReportInv'
    BY BooksStep, OrderKept DEF ReportInv
  <1> QED BY <1>1, <1>2, PTL DEF BooksSpec

\* The mined transactions with a log of these names in a currency.
MinedLogs(names, cur) == {t \in Mined : StepOf(t).log \in names /\ CurrencyOf(t) = cur}

\* What is indexed is mined, and what is mined was sent.
LEMMA IndexedMined ==
    ASSUME BooksInv
    PROVE  Indexed \subseteq Mined /\ Mined \subseteq Txs /\ sent \subseteq Txs
  <1>1. sent \subseteq Txs
    BY DEF BooksInv, IndexInv, ChainOk
  <1>2. ASSUME NEW t \in Indexed PROVE t \in Mined
    <2>1. PICK e \in events : e.tx = t
      BY Zenon DEF Indexed
    <2>2. e \in LogRows /\ at[e.tx] = e.block /\ e.block > 0
      BY DEF BooksInv, IndexInv, EventsOk
    <2>3. t \in Txs /\ at[t] # 0
      BY <2>1, <2>2 DEF LogRows
    <2>4. t \in sent
      BY <2>3, Zenon DEF BooksInv, IndexInv, ChainOk
    <2> QED BY <2>3, <2>4, Zenon DEF Mined
  <1> QED BY <1>1, <1>2, Zenon DEF Mined

\* Once the index has caught up, a report sees every mined log.
LEMMA CaughtUpLogs ==
    ASSUME BooksInv, CaughtUp, NEW names, NEW cur, "none" \notin names
    PROVE  Logs(names, cur) = MinedLogs(names, cur)
  <1>1. ASSUME NEW t, StepOf(t).log \in names PROVE t \in Indexed <=> t \in Mined
    BY <1>1, IndexedMined, Zenon DEF CaughtUp
  <1> QED BY <1>1, Zenon DEF Logs, MinedLogs

\* Who receives and who pays what a transaction in rand moves.
LEMMA ZarMoves ==
    ASSUME NEW t \in Txs, CurrencyOf(t) = "ZAR"
    PROVE  /\ Receiver(t) = "consumer" <=> StepOf(t).log = "Credited"
           /\ Receiver(t) = "escrow" <=> StepOf(t).log = "Transferred"
           /\ Receiver(t) # "merchant" /\ Payer(t) # "escrow"
           /\ Payer(t) = "merchant" <=> StepOf(t).log = "Debited" /\ AccountOf(t) = "merchant"
           /\ Payer(t) = "consumer" <=> \/ StepOf(t).log = "Transferred"
                                        \/ StepOf(t).log = "Debited" /\ AccountOf(t) # "merchant"
           /\ StepOf(t).log = "Credited" => AccountOf(t) = "consumer"
           /\ AccountOf(t) = "merchant" <=> OfMerchant(t)
           /\ StepOf(t).log = "Credited" => t[2] = 2 /\ KindOf[t[1]] \in {"topup", "change"}
  <1>1. PICK k, i, log : k = KindOf[t[1]] /\ i = t[2] /\ log = StepOf(t).log
    OBVIOUS
  <1>2. LogIs(k, i, log)
    BY <1>1, LogOfTx, Zenon
  <1>3. ~(k = "convert" /\ i = 2) /\ k \notin {"harvest", "withdraw"}
    BY <1>1 DEF CurrencyOf
  <1>4. AccountOf(t) = IF k = "settle" \/ (k = "change" /\ i = 1) THEN "merchant" ELSE "consumer"
    BY <1>1, <1>3 DEF AccountOf, OfMerchant, OfPlatform
  <1>5. OfMerchant(t) <=> (k = "settle" \/ (k = "change" /\ i = 1))
    BY <1>1 DEF OfMerchant
  <1>6. log = "Credited" => i = 2 /\ k \in {"topup", "change"}
    BY <1>2, <1>3 DEF LogIs
  <1>7. log # "Withdrawn" /\ log # "YieldHarvested"
    BY <1>2, <1>3 DEF LogIs
  <1>8. Receiver(t) = IF log = "Credited" THEN AccountOf(t) ELSE IF log = "Transferred" THEN "escrow" ELSE "nobody"
    BY <1>1, <1>7 DEF Receiver
  <1>9. Payer(t) = IF log = "Debited" THEN AccountOf(t) ELSE IF log = "Transferred" THEN "consumer" ELSE "nobody"
    BY <1>1, <1>7 DEF Payer
  <1>10. AccountOf(t) \in {"merchant", "consumer"} /\ (AccountOf(t) = "merchant" <=> OfMerchant(t))
    BY <1>4, <1>5
  <1>11. log = "Credited" => AccountOf(t) = "consumer"
    BY <1>4, <1>6
  <1>12. /\ Receiver(t) = "consumer" <=> log = "Credited"
         /\ Receiver(t) = "escrow" <=> log = "Transferred"
         /\ Receiver(t) # "merchant"
    BY <1>8, <1>11
  <1>13. /\ Payer(t) # "escrow"
         /\ Payer(t) = "merchant" <=> log = "Debited" /\ AccountOf(t) = "merchant"
         /\ Payer(t) = "consumer" <=> \/ log = "Transferred"
                                      \/ log = "Debited" /\ AccountOf(t) # "merchant"
    BY <1>9, <1>10
  <1> QED BY <1>1, <1>6, <1>10, <1>11, <1>12, <1>13, Zenon

\* The mined logs in rand by what they do, those against merchants apart, and the mints.
Credits == MinedLogs({"Credited"}, "ZAR")
Debits == MinedLogs({"Debited"}, "ZAR")
Transfers == MinedLogs({"Transferred"}, "ZAR")
MerchantDebits == {t \in Debits : AccountOf(t) = "merchant"}
Mints == {t \in Mined : StepOf(t).log = "Minted"}

\* Which of those logs add to an account in rand, and which take from it.
LEMMA ZarSets ==
    ASSUME BooksInv
    PROVE  /\ Credits \in SUBSET Txs /\ Debits \in SUBSET Txs /\ Transfers \in SUBSET Txs
           /\ MerchantDebits \in SUBSET Txs /\ Debits \ MerchantDebits \in SUBSET Txs /\ Mints \in SUBSET Txs
           /\ Into("consumer", "ZAR") = Credits /\ Into("merchant", "ZAR") = {} /\ Into("escrow", "ZAR") = Transfers
           /\ OutOf("consumer", "ZAR") = (Debits \ MerchantDebits) \cup Transfers
           /\ OutOf("merchant", "ZAR") = MerchantDebits /\ OutOf("escrow", "ZAR") = {}
  <1>1. Mined \subseteq Txs
    BY IndexedMined
  <1>2. /\ Credits \in SUBSET Txs /\ Debits \in SUBSET Txs /\ Transfers \in SUBSET Txs
        /\ MerchantDebits \in SUBSET Txs /\ Debits \ MerchantDebits \in SUBSET Txs /\ Mints \in SUBSET Txs
    BY <1>1 DEF Credits, Debits, Transfers, MerchantDebits, Mints, MinedLogs
  <1>3. /\ \A t : t \in Credits <=> t \in Mined /\ StepOf(t).log = "Credited" /\ CurrencyOf(t) = "ZAR"
        /\ \A t : t \in Transfers <=> t \in Mined /\ StepOf(t).log = "Transferred" /\ CurrencyOf(t) = "ZAR"
        /\ \A t : t \in Debits <=> t \in Mined /\ StepOf(t).log = "Debited" /\ CurrencyOf(t) = "ZAR"
        /\ \A t : t \in MerchantDebits <=> t \in Debits /\ AccountOf(t) = "merchant"
    BY DEF Credits, Debits, Transfers, MerchantDebits, MinedLogs
  <1>4. \A u, t : /\ t \in Into(u, "ZAR") <=> t \in Mined /\ CurrencyOf(t) = "ZAR" /\ Receiver(t) = u
                  /\ t \in OutOf(u, "ZAR") <=> t \in Mined /\ CurrencyOf(t) = "ZAR" /\ Payer(t) = u
    BY Zenon DEF Into, OutOf
  <1>5. ASSUME NEW t, t \in Mined, CurrencyOf(t) = "ZAR"
        PROVE  /\ t \in Into("consumer", "ZAR") <=> t \in Credits
               /\ t \in Into("escrow", "ZAR") <=> t \in Transfers
               /\ t \notin Into("merchant", "ZAR") /\ t \notin OutOf("escrow", "ZAR")
               /\ t \in OutOf("merchant", "ZAR") <=> t \in MerchantDebits
               /\ t \in OutOf("consumer", "ZAR") <=> t \in (Debits \ MerchantDebits) \cup Transfers
    <2>1. t \in Txs
      BY <1>1, <1>5
    <2>2. /\ t \in Credits <=> StepOf(t).log = "Credited"
          /\ t \in Transfers <=> StepOf(t).log = "Transferred"
          /\ t \in Debits <=> StepOf(t).log = "Debited"
          /\ t \in MerchantDebits <=> StepOf(t).log = "Debited" /\ AccountOf(t) = "merchant"
      BY <1>3, <1>5, Zenon
    <2>3. \A u : /\ t \in Into(u, "ZAR") <=> Receiver(t) = u
                 /\ t \in OutOf(u, "ZAR") <=> Payer(t) = u
      BY <1>4, <1>5, Zenon
    <2>4. /\ Receiver(t) = "consumer" <=> StepOf(t).log = "Credited"
          /\ Receiver(t) = "escrow" <=> StepOf(t).log = "Transferred"
          /\ Receiver(t) # "merchant" /\ Payer(t) # "escrow"
          /\ Payer(t) = "merchant" <=> StepOf(t).log = "Debited" /\ AccountOf(t) = "merchant"
          /\ Payer(t) = "consumer" <=> \/ StepOf(t).log = "Transferred"
                                       \/ StepOf(t).log = "Debited" /\ AccountOf(t) # "merchant"
      BY <1>5, <2>1, ZarMoves, Zenon
    <2>5. t \in (Debits \ MerchantDebits) \cup Transfers <=>
             StepOf(t).log = "Transferred" \/ (StepOf(t).log = "Debited" /\ AccountOf(t) # "merchant")
      BY <2>2, Zenon
    <2> QED BY <2>2, <2>3, <2>4, <2>5, Zenon
  <1>6. ASSUME NEW t, ~(t \in Mined /\ CurrencyOf(t) = "ZAR")
        PROVE  /\ t \notin Credits /\ t \notin Transfers /\ t \notin Debits /\ t \notin MerchantDebits
               /\ \A u : t \notin Into(u, "ZAR") /\ t \notin OutOf(u, "ZAR")
    BY <1>3, <1>4, <1>6, Zenon
  <1>7. ASSUME NEW t
        PROVE  /\ t \in Into("consumer", "ZAR") <=> t \in Credits
               /\ t \in Into("escrow", "ZAR") <=> t \in Transfers
               /\ t \notin Into("merchant", "ZAR") /\ t \notin OutOf("escrow", "ZAR")
               /\ t \in OutOf("merchant", "ZAR") <=> t \in MerchantDebits
               /\ t \in OutOf("consumer", "ZAR") <=> t \in (Debits \ MerchantDebits) \cup Transfers
    <2>1. CASE t \in Mined /\ CurrencyOf(t) = "ZAR"
      BY <1>5, <2>1, Zenon
    <2>2. CASE ~(t \in Mined /\ CurrencyOf(t) = "ZAR")
      BY <1>6, <2>2, Zenon
    <2> QED BY <2>1, <2>2, Zenon
  <1>8. Into("consumer", "ZAR") = Credits /\ Into("escrow", "ZAR") = Transfers
    BY <1>7, Zenon
  <1>9. Into("merchant", "ZAR") = {} /\ OutOf("escrow", "ZAR") = {}
    BY <1>7, Zenon
  <1>10. OutOf("merchant", "ZAR") = MerchantDebits
    BY <1>7, Zenon
  <1>11. OutOf("consumer", "ZAR") = (Debits \ MerchantDebits) \cup Transfers
    BY <1>7, Zenon
  <1> QED BY <1>2, <1>8, <1>9, <1>10, <1>11, Zenon

\* Without a reorganisation every rand credited was minted or debited before.
LEMMA CreditsBacked ==
    ASSUME BooksInv, InOrder, "reorg" \notin faults
    PROVE  Volume(Credits) <= Volume(Mints) + Volume(Debits)
  <1>1. Credits \in SUBSET Txs /\ Debits \in SUBSET Txs /\ Mints \in SUBSET Txs
    BY ZarSets, Zenon
  <1>2. Mints \cap Debits = {}
    BY DEF Mints, Debits, MinedLogs
  <1>3. Volume(Mints \cup Debits) = Volume(Mints) + Volume(Debits)
    BY <1>1, <1>2, VolumeSplit, Zenon
  <1>4. PICK S \in SUBSET Txs, T \in SUBSET Txs : S = Credits /\ T = Mints \cup Debits
    BY <1>1
  <1>5. IsFiniteSet(T)
    BY TxsFinite, FS_Subset
  <1>6. PICK f \in [S -> Nat], g \in [T -> Nat] : f = [t \in S |-> Amount(t)] /\ g = [t \in T |-> Amount(t)]
    BY AmountNat
  <1>7. PICK b : b = [t \in S |-> <<t[1], 1>>]
    OBVIOUS
  <1>8. ASSUME NEW t \in S
        PROVE  b[t] \in T /\ Amount(t) = Amount(b[t]) /\ t = <<t[1], 2>> /\ b[t] = <<t[1], 1>>
    <2>1. t \in Mined /\ StepOf(t).log = "Credited" /\ CurrencyOf(t) = "ZAR" /\ t \in Txs
      BY <1>4 DEF Credits, MinedLogs
    <2>2. t[2] = 2 /\ KindOf[t[1]] \in {"topup", "change"} /\ t[1] \in Jobs /\ t = <<t[1], t[2]>>
      BY <2>1, ZarMoves, LogOfTx, Zenon
    <2>3. PICK j \in Jobs : j = t[1] /\ t = <<j, 2>> /\ KindOf[j] \in {"topup", "change"}
      BY <2>2
    <2>4. b[t] = <<j, 1>>
      BY <1>7, <2>3
    <2>5. <<j, 1>> \in Txs /\ at[<<j, 1>>] # 0
      BY <2>1, <2>3, FirstTx, Zenon DEF InOrder, Mined
    <2>6. <<j, 1>> \in Mined
      BY <2>5, Zenon DEF Mined, BooksInv, IndexInv, ChainOk
    <2>7. <<j, 1>>[1] = j /\ <<j, 1>>[2] = 1 /\ <<j, 2>>[1] = j /\ <<j, 2>>[2] = 2
      OBVIOUS
    <2>8. LogIs(KindOf[j], 1, StepOf(<<j, 1>>).log)
      BY <2>5, <2>7, LogOfTx
    <2>9. CASE KindOf[j] = "topup"
      <3>1. StepOf(<<j, 1>>).log = "Minted"
        BY <2>8, <2>9 DEF LogIs
      <3>2. <<j, 1>> \in T
        BY <1>4, <2>6, <3>1 DEF Mints
      <3>3. Amount(<<j, 1>>) = Worth[j] /\ Amount(<<j, 2>>) = Worth[j]
        BY <2>9 DEF Amount
      <3> QED BY <2>3, <2>4, <3>2, <3>3
    <2>10. CASE KindOf[j] = "change"
      <3>1. StepOf(<<j, 1>>).log = "Debited"
        BY <2>8, <2>10 DEF LogIs
      <3>2. CurrencyOf(<<j, 1>>) = "ZAR"
        BY <2>10 DEF CurrencyOf
      <3>3. <<j, 1>> \in T
        BY <1>4, <2>6, <3>1, <3>2 DEF Debits, MinedLogs
      <3>4. Amount(<<j, 1>>) = Worth[j] /\ Amount(<<j, 2>>) = Worth[j]
        BY <2>10 DEF Amount
      <3> QED BY <2>3, <2>4, <3>3, <3>4
    <2> QED BY <2>3, <2>9, <2>10
  <1>9. b \in [S -> T]
    BY <1>7, <1>8
  <1>10. ASSUME NEW t \in S, NEW u \in S, b[t] = b[u] PROVE t = u
    <2>1. t = <<t[1], 2>> /\ u = <<u[1], 2>> /\ <<t[1], 1>> = <<u[1], 1>>
      BY <1>8, <1>10
    <2>2. t[1] = u[1]
      BY <2>1
    <2> QED BY <2>1, <2>2
  <1>11. ASSUME NEW t \in S PROVE f[t] <= g[b[t]]
    <2>1. f[t] \in Nat /\ f[t] = Amount(t) /\ g[b[t]] = Amount(b[t])
      BY <1>6, <1>8
    <2> QED BY <1>8, <2>1
  <1>12. Total(f) <= Total(g)
    BY <1>5, <1>9, <1>10, <1>11, TotalInjected
  <1>13. Volume(S) = Total(f) /\ Volume(T) = Total(g)
    BY <1>6, Zenon DEF Volume
  <1> QED BY <1>3, <1>4, <1>12, <1>13

\* The balances in rand, account by account: what was there, credited, debited from
\* anyone and from merchants, and moved to the escrow account.
ZarRow(oc, om, oe, cr, de, dm, tr) ==
    /\ Opened("ZAR") = oc + om + oe
    /\ cr = Volume(Credits) /\ de = Volume(Debits) /\ dm = Volume(MerchantDebits) /\ tr = Volume(Transfers)
    /\ dm <= om
    /\ OnChain("consumer", "ZAR") = oc + cr - (de - dm + tr)
    /\ OnChain("merchant", "ZAR") = om - dm
    /\ OnChain("escrow", "ZAR") = oe + tr

LEMMA ZarBalances ==
    ASSUME BooksInv
    PROVE  \E oc, om, oe, cr, de, dm, tr \in Nat : ZarRow(oc, om, oe, cr, de, dm, tr)
  <1>0. PICK oc, om, oe : /\ oc = Opening["consumer"]["ZAR"] /\ om = Opening["merchant"]["ZAR"]
                          /\ oe = Opening["escrow"]["ZAR"]
    OBVIOUS
  <1>1. oc \in Nat /\ om \in Nat /\ oe \in Nat
    BY <1>0, ReportsAssumption
  <1>2. Opened("ZAR") = oc + om + oe
    BY <1>0, Zenon DEF Opened
  <1>3. /\ Credits \in SUBSET Txs /\ Debits \in SUBSET Txs /\ Transfers \in SUBSET Txs
        /\ MerchantDebits \in SUBSET Txs /\ Debits \ MerchantDebits \in SUBSET Txs
        /\ Into("consumer", "ZAR") = Credits /\ Into("merchant", "ZAR") = {} /\ Into("escrow", "ZAR") = Transfers
        /\ OutOf("consumer", "ZAR") = (Debits \ MerchantDebits) \cup Transfers
        /\ OutOf("merchant", "ZAR") = MerchantDebits /\ OutOf("escrow", "ZAR") = {}
    BY ZarSets, Zenon
  <1>4. PICK R \in SUBSET Txs : R = Debits \ MerchantDebits
    BY <1>3, Zenon
  <1>5. /\ R \cap Transfers = {} /\ MerchantDebits \cap R = {} /\ MerchantDebits \cup R = Debits
    BY <1>4 DEF Debits, Transfers, MerchantDebits, MinedLogs
  <1>6. PICK cr \in Nat, de \in Nat, dm \in Nat, dr \in Nat, tr \in Nat :
           /\ cr = Volume(Credits) /\ de = Volume(Debits) /\ dm = Volume(MerchantDebits)
           /\ dr = Volume(R) /\ tr = Volume(Transfers)
    BY <1>3, VolumeNat, Zenon
  <1>7. Volume(R \cup Transfers) = dr + tr /\ de = dm + dr
    BY <1>3, <1>5, <1>6, VolumeSplit, Zenon
  <1>8. dm <= om
    <2>1. PICK A \in SUBSET Txs : A = {t \in Txs : OfMerchant(t) /\ StepOf(t).log = "Debited"}
      OBVIOUS
    <2>2. MerchantDebits \subseteq A
      <3> SUFFICES ASSUME NEW t \in MerchantDebits PROVE t \in A
        OBVIOUS
      <3>1. t \in Txs /\ StepOf(t).log = "Debited" /\ CurrencyOf(t) = "ZAR" /\ AccountOf(t) = "merchant"
        BY <1>3 DEF MerchantDebits, Debits, MinedLogs
      <3> QED BY <2>1, <3>1, ZarMoves, Zenon
    <2>3. dm <= Volume(A) /\ Volume(A) \in Nat
      BY <1>3, <1>6, <2>2, VolumePart, Zenon
    <2>4. Volume(A) <= om
      BY <1>0, <2>1, ReportsAssumption, Zenon
    <2> QED BY <1>1, <2>3, <2>4
  <1>9. OnChain("consumer", "ZAR") = oc + cr - (dr + tr)
    BY <1>0, <1>3, <1>4, <1>6, <1>7, Zenon DEF OnChain
  <1>10. OnChain("merchant", "ZAR") = om + 0 - dm
    BY <1>0, <1>3, <1>6, VolumeNone, Zenon DEF OnChain
  <1>11. OnChain("escrow", "ZAR") = oe + tr - 0
    BY <1>0, <1>3, <1>6, VolumeNone, Zenon DEF OnChain
  <1>12. dr = de - dm
    BY <1>7
  <1>13. om + 0 - dm = om - dm /\ oe + tr - 0 = oe + tr
    BY <1>1, <1>6
  <1>14. /\ OnChain("consumer", "ZAR") = oc + cr - (de - dm + tr)
         /\ OnChain("merchant", "ZAR") = om - dm /\ OnChain("escrow", "ZAR") = oe + tr
    BY <1>9, <1>10, <1>11, <1>12, <1>13, Zenon
  <1>15. ZarRow(oc, om, oe, cr, de, dm, tr)
    BY <1>2, <1>6, <1>8, <1>14, Zenon DEF ZarRow
  <1> QED BY <1>1, <1>6, <1>15, Zenon

\* The greater of two numbers.
LEMMA MaxOfTwo ==
    ASSUME NEW a \in Int, NEW b \in Int
    PROVE  /\ Max({a, b}) \in {a, b} /\ a <= Max({a, b}) /\ b <= Max({a, b})
  <1>1. \E x \in {a, b} : \A y \in {a, b} : x >= y
    <2>1. CASE a <= b
      BY <2>1
    <2>2. CASE b <= a
      BY <2>2
    <2> QED BY <2>1, <2>2
  <1>2. Max({a, b}) \in {a, b} /\ \A y \in {a, b} : Max({a, b}) >= y
    BY <1>1, Zenon DEF Max
  <1>3. PICK m \in Int : m = Max({a, b})
    BY <1>2
  <1>4. m >= a /\ m >= b
    BY <1>2, <1>3
  <1>5. a <= m /\ b <= m
    BY <1>4
  <1> QED BY <1>2, <1>3, <1>5, Zenon

\* What the seeded currencies make of a code.
LEMMA CurrencyTable ==
    /\ FiatOf("ZAR") # "USD" /\ FiatOf("USDC") = "USD"
    /\ ~IsTvlClaim("USDC") /\ IsTvlClaim("ZAR")
  <1>1. CurrencyRows["ZAR"].type = "FIAT" /\ CurrencyRows["USDC"] = [type |-> "STABLECOIN", base |-> "USD"]
    BY ReportsAssumption
  <1>2. PICK c \in DOMAIN CurrencyRows : CurrencyRows[c] = [type |-> "TREASURY", base |-> "ZAR"]
    BY ReportsAssumption
  <1>3. CurrencyRows["USDC"].type = "STABLECOIN" /\ CurrencyRows["USDC"].base = "USD"
    BY <1>1
  <1>4. FiatOf("ZAR") = "ZAR" /\ FiatOf("USDC") = "USD"
    BY <1>1, <1>3 DEF FiatOf
  <1>5. ~IsTvlClaim("USDC")
    BY <1>3 DEF IsTvlClaim
  <1>6. TokenFor("ZAR") # {}
    <2>1. c \in TokensFor("ZAR", "TREASURY")
      BY <1>2, Zenon DEF TokensFor
    <2> QED BY <2>1, Zenon DEF TokenFor
  <1>7. IsTvlClaim("ZAR")
    BY <1>1, <1>6 DEF IsTvlClaim
  <1> QED BY <1>4, <1>5, <1>7

\* The balance report's net is what the accounts gained, and the token report's is the
\* supply, once the index has caught up.
LEMMA NetsReconcile ==
    ASSUME BooksInv, CaughtUp
    PROVE  /\ LedgerNet("ZAR") = Gained("ZAR") /\ Net("ZAR") = LedgerNet("ZAR")
           /\ TotalsByToken = Supply
  <1>1. PICK oc, om, oe, cr, de, dm, tr \in Nat : ZarRow(oc, om, oe, cr, de, dm, tr)
    BY ZarBalances, Zenon
  <1>2. Opened("ZAR") = oc + om + oe
    BY <1>1, Zenon DEF ZarRow
  <1>3. /\ cr = Volume(Credits) /\ de = Volume(Debits) /\ dm = Volume(MerchantDebits)
        /\ tr = Volume(Transfers) /\ dm <= om
        /\ OnChain("consumer", "ZAR") = oc + cr - (de - dm + tr)
        /\ OnChain("merchant", "ZAR") = om - dm
        /\ OnChain("escrow", "ZAR") = oe + tr
    BY <1>1, Zenon DEF ZarRow
  <1>4. LedgerNet("ZAR") = cr - de
    <2>1. "none" \notin {"Credited"} /\ "none" \notin {"Debited"}
      OBVIOUS
    <2>2. Logs({"Credited"}, "ZAR") = Credits /\ Logs({"Debited"}, "ZAR") = Debits
      BY <2>1, CaughtUpLogs, Zenon DEF Credits, Debits
    <2> QED BY <1>3, <2>2, Zenon DEF LedgerNet
  <1>5. Gained("ZAR") = (oc + cr - (de - dm + tr)) + (om - dm) + (oe + tr) - (oc + om + oe)
    BY <1>2, <1>3, Zenon DEF Gained
  <1>6. (oc + cr - (de - dm + tr)) + (om - dm) + (oe + tr) - (oc + om + oe) = cr - de
    BY <1>2
  <1>7. Net("ZAR") = LedgerNet("ZAR")
    BY CurrencyTable, Zenon DEF Net
  <1>8. TotalsByToken = Supply
    <2>1. Mints \in SUBSET Txs /\ Volume(Mints) \in Nat
      BY ZarSets, VolumeNat, Zenon
    <2>2. ASSUME NEW t PROVE t \in TreasuryEvents /\ StepOf(t).log = "Minted" <=> t \in Mints
      <3>1. StepOf(t).log = "Minted" => StepOf(t).log # "none" /\ StepOf(t).log \in {"Minted", "Burned"}
        BY Zenon
      <3>2. StepOf(t).log = "Minted" => (t \in Indexed <=> t \in Mined)
        BY <3>1, IndexedMined, Zenon DEF CaughtUp
      <3> QED BY <3>1, <3>2, Zenon DEF TreasuryEvents, Mints
    <2>3. {t \in TreasuryEvents : StepOf(t).log = "Minted"} = Mints
      BY <2>2, Zenon
    <2>4. ASSUME NEW t \in TreasuryEvents PROVE StepOf(t).log # "Burned"
      <3>1. t \in Txs
        BY IndexedMined, Zenon DEF TreasuryEvents
      <3>2. LogIs(KindOf[t[1]], t[2], StepOf(t).log)
        BY <3>1, LogOfTx, Zenon
      <3> QED BY <3>2 DEF LogIs
    <2>5. {t \in TreasuryEvents : StepOf(t).log = "Burned"} = {}
      BY <2>4, Zenon
    <2>6. TotalsByToken = Volume(Mints) - 0
      BY <2>3, <2>5, VolumeNone, Zenon DEF TotalsByToken
    <2>7. PICK m \in Nat : m = Volume(Mints)
      BY <2>1
    <2>8. m - 0 = m
      OBVIOUS
    <2>9. Supply = m
      BY <2>7, Zenon DEF Supply, Mints
    <2> QED BY <2>6, <2>7, <2>8, <2>9, Zenon
  <1> QED BY <1>4, <1>5, <1>6, <1>7, <1>8, Zenon

\* What is asked for in the open requests is a number.
LEMMA PendingNat ==
    ASSUME NEW open \in OpenRequests
    PROVE  PendingZar(open) \in Nat
  <1>1. open \in SUBSET Jobs
    BY DEF OpenRequests
  <1>2. IsFiniteSet(open) /\ Worth \in [Jobs -> Nat]
    BY <1>1, ReportsAssumption, FS_Subset
  <1>3. [j \in open |-> Worth[j]] \in [open -> Nat]
    BY <1>1, <1>2
  <1> QED BY <1>2, <1>3, TotalType, Zenon DEF PendingZar

\* The merchants' figure: the ledger only ever debits them, so the balance is the larger.
LEMMA MerchantFigure ==
    ASSUME BooksInv, CaughtUp, NEW open \in OpenRequests
    PROVE  MerchantTvl(open) <= OnChain("merchant", "ZAR") + PendingZar(open)
  <1>1. PICK oc, om, oe, cr, de, dm, tr \in Nat : ZarRow(oc, om, oe, cr, de, dm, tr)
    BY ZarBalances, Zenon
  <1>2. om \in Nat /\ dm \in Nat
    OBVIOUS
  <1>3. dm = Volume(MerchantDebits) /\ dm <= om /\ OnChain("merchant", "ZAR") = om - dm
    BY <1>1, Zenon DEF ZarRow
  <1>4. SegmentLedger("merchant", "ZAR") = 0 - dm
    <2>1. "none" \notin {"Credited"} /\ "none" \notin {"Debited"}
      OBVIOUS
    <2>2. Logs({"Credited"}, "ZAR") = Credits /\ Logs({"Debited"}, "ZAR") = Debits
      BY <2>1, CaughtUpLogs, Zenon DEF Credits, Debits
    <2>3. ASSUME NEW t \in Credits PROVE AccountOf(t) # "merchant"
      <3>1. t \in Txs
        BY ZarSets, Zenon
      <3>2. StepOf(t).log = "Credited" /\ CurrencyOf(t) = "ZAR"
        BY Zenon DEF Credits, MinedLogs
      <3>3. AccountOf(t) = "consumer"
        BY <3>1, <3>2, ZarMoves, Zenon
      <3> QED BY <3>3
    <2>4. {t \in Credits : AccountOf(t) = "merchant"} = {}
      BY <2>3, Zenon
    <2> QED BY <1>3, <2>2, <2>4, VolumeNone, Zenon DEF SegmentLedger, MerchantDebits
  <1>5. Positive(SegmentLedger("merchant", "ZAR")) = 0
    BY <1>4 DEF Positive
  <1>6. PICK b \in Int, p \in Nat : b = OnChain("merchant", "ZAR") /\ p = PendingZar(open) /\ b >= 0
    BY <1>2, <1>3, PendingNat
  <1>7. MerchantTvl(open) = Max({b, 0 + p})
    BY <1>5, <1>6, Zenon DEF MerchantTvl, SumSegment
  <1>8. 0 + p = p /\ p \in Int
    OBVIOUS
  <1>9. Max({b, p}) \in {b, p}
    BY <1>8, MaxOfTwo, Zenon
  <1>10. \A m \in {b, p} : m <= b + p
    BY <1>6
  <1> QED BY <1>6, <1>7, <1>8, <1>9, <1>10, Zenon

\* The platform's part of the supply covers the escrow account's claim.
LEMMA EscrowCovered ==
    ASSUME BooksInv, InOrder, "reorg" \notin faults
    PROVE  PlatformTtza >= OnChain("escrow", "ZAR")
  <1>1. PICK oc, om, oe, cr, de, dm, tr \in Nat : ZarRow(oc, om, oe, cr, de, dm, tr)
    BY ZarBalances, Zenon
  <1>2. Opened("ZAR") = oc + om + oe
    BY <1>1, Zenon DEF ZarRow
  <1>3. /\ cr = Volume(Credits) /\ de = Volume(Debits) /\ dm = Volume(MerchantDebits)
        /\ tr = Volume(Transfers) /\ dm <= om
        /\ OnChain("consumer", "ZAR") = oc + cr - (de - dm + tr)
        /\ OnChain("merchant", "ZAR") = om - dm
        /\ OnChain("escrow", "ZAR") = oe + tr
    BY <1>1, Zenon DEF ZarRow
  <1>4. PICK mi \in Nat : mi = Volume(Mints) /\ mi = Supply /\ cr <= mi + de
    <2>1. Volume(Mints) \in Nat /\ Supply = Volume(Mints)
      BY ZarSets, VolumeNat, Zenon DEF Supply, Mints
    <2> QED BY <1>3, <2>1, CreditsBacked, Zenon
  <1>5. UserClaims = (oc + cr - (de - dm + tr)) + (om - dm)
    BY <1>3, Zenon DEF UserClaims, ConsumerTvl, SumSegment
  <1>6. Outstanding = oc + om + oe + mi
    BY <1>2, <1>4, Zenon DEF Outstanding
  <1>7. PICK x \in Int : x = Outstanding - UserClaims
    BY <1>2, <1>3, <1>4, <1>5, <1>6
  <1>8. x >= oe + tr
    BY <1>2, <1>4, <1>5, <1>6, <1>7
  <1>9. PlatformTtza = IF x > 0 THEN x ELSE 0
    BY <1>7, Zenon DEF PlatformTtza, Positive
  <1>10. PlatformTtza >= oe + tr
    BY <1>2, <1>8, <1>9
  <1> QED BY <1>3, <1>10, Zenon

\* Who receives and who pays what a transaction in dollars moves.
LEMMA UsdMoves ==
    ASSUME NEW t \in Txs, CurrencyOf(t) = "USDC"
    PROVE  /\ Receiver(t) = "consumer" <=> \/ StepOf(t).log = "Credited" /\ AccountOf(t) = "consumer"
                                           \/ StepOf(t).log = "YieldHarvested"
           /\ Payer(t) = "consumer" <=> \/ StepOf(t).log = "Debited" /\ AccountOf(t) = "consumer"
                                        \/ StepOf(t).log = "Withdrawn"
           /\ Receiver(t) # "merchant" /\ Payer(t) # "merchant" /\ AccountOf(t) # "merchant"
  <1>1. PICK k, i, log : k = KindOf[t[1]] /\ i = t[2] /\ log = StepOf(t).log
    OBVIOUS
  <1>2. LogIs(k, i, log)
    BY <1>1, LogOfTx, Zenon
  <1>3. (k = "convert" /\ i = 2) \/ k \in {"harvest", "withdraw"}
    BY <1>1 DEF CurrencyOf
  <1>4. AccountOf(t) \in {"consumer", "platform"}
    BY <1>1, <1>3 DEF AccountOf, OfMerchant
  <1>5. log \in {"Credited", "Debited", "Withdrawn", "YieldHarvested"}
    BY <1>2, <1>3 DEF LogIs
  <1>6. log = "Withdrawn" => AccountOf(t) = "consumer"
    BY <1>1, <1>2, <1>3 DEF LogIs, AccountOf, OfMerchant, OfPlatform
  <1>7. Receiver(t) = IF log = "Credited" THEN AccountOf(t) ELSE IF log = "YieldHarvested" THEN "consumer" ELSE "nobody"
    BY <1>1, <1>5 DEF Receiver
  <1>8. Payer(t) = IF log \in {"Debited", "Withdrawn"} THEN AccountOf(t) ELSE "nobody"
    BY <1>1, <1>5 DEF Payer
  <1> QED BY <1>1, <1>4, <1>5, <1>6, <1>7, <1>8

\* The mined logs in dollars: credits and debits of the consumer, harvests, withdrawals.
UsdCredits == {t \in MinedLogs({"Credited"}, "USDC") : AccountOf(t) = "consumer"}
UsdDebits == {t \in MinedLogs({"Debited"}, "USDC") : AccountOf(t) = "consumer"}
UsdHarvests == MinedLogs({"YieldHarvested"}, "USDC")
UsdWithdrawals == MinedLogs({"Withdrawn"}, "USDC")

\* Which of those logs add to an account in dollars, and which take from it.
LEMMA UsdSets ==
    ASSUME BooksInv
    PROVE  /\ UsdCredits \in SUBSET Txs /\ UsdDebits \in SUBSET Txs
           /\ UsdHarvests \in SUBSET Txs /\ UsdWithdrawals \in SUBSET Txs
           /\ UsdCredits \cap UsdHarvests = {} /\ UsdDebits \cap UsdWithdrawals = {}
           /\ Into("consumer", "USDC") = UsdCredits \cup UsdHarvests
           /\ OutOf("consumer", "USDC") = UsdDebits \cup UsdWithdrawals
           /\ Into("merchant", "USDC") = {} /\ OutOf("merchant", "USDC") = {}
           /\ UsdWithdrawals = Withdrawals
  <1>1. Mined \subseteq Txs
    BY IndexedMined
  <1>2. /\ UsdCredits \in SUBSET Txs /\ UsdDebits \in SUBSET Txs
        /\ UsdHarvests \in SUBSET Txs /\ UsdWithdrawals \in SUBSET Txs
        /\ UsdCredits \cap UsdHarvests = {} /\ UsdDebits \cap UsdWithdrawals = {}
    BY <1>1 DEF UsdCredits, UsdDebits, UsdHarvests, UsdWithdrawals, MinedLogs
  <1>3. /\ \A t : t \in UsdCredits <=> /\ t \in Mined /\ StepOf(t).log = "Credited" /\ CurrencyOf(t) = "USDC"
                                       /\ AccountOf(t) = "consumer"
        /\ \A t : t \in UsdDebits <=> /\ t \in Mined /\ StepOf(t).log = "Debited" /\ CurrencyOf(t) = "USDC"
                                      /\ AccountOf(t) = "consumer"
        /\ \A t : t \in UsdHarvests <=> t \in Mined /\ StepOf(t).log = "YieldHarvested" /\ CurrencyOf(t) = "USDC"
        /\ \A t : t \in UsdWithdrawals <=> t \in Mined /\ StepOf(t).log = "Withdrawn" /\ CurrencyOf(t) = "USDC"
    BY DEF UsdCredits, UsdDebits, UsdHarvests, UsdWithdrawals, MinedLogs
  <1>4. \A u, t : /\ t \in Into(u, "USDC") <=> t \in Mined /\ CurrencyOf(t) = "USDC" /\ Receiver(t) = u
                  /\ t \in OutOf(u, "USDC") <=> t \in Mined /\ CurrencyOf(t) = "USDC" /\ Payer(t) = u
    BY Zenon DEF Into, OutOf
  <1>5. ASSUME NEW t
        PROVE  /\ t \in Into("consumer", "USDC") <=> t \in UsdCredits \cup UsdHarvests
               /\ t \in OutOf("consumer", "USDC") <=> t \in UsdDebits \cup UsdWithdrawals
               /\ t \notin Into("merchant", "USDC") /\ t \notin OutOf("merchant", "USDC")
    <2>1. CASE t \in Mined /\ CurrencyOf(t) = "USDC"
      <3>1. t \in Txs
        BY <1>1, <2>1
      <3>2. /\ Receiver(t) = "consumer" <=> \/ StepOf(t).log = "Credited" /\ AccountOf(t) = "consumer"
                                            \/ StepOf(t).log = "YieldHarvested"
            /\ Payer(t) = "consumer" <=> \/ StepOf(t).log = "Debited" /\ AccountOf(t) = "consumer"
                                         \/ StepOf(t).log = "Withdrawn"
            /\ Receiver(t) # "merchant" /\ Payer(t) # "merchant"
        BY <2>1, <3>1, UsdMoves, Zenon
      <3> QED BY <1>3, <1>4, <2>1, <3>2, Zenon
    <2>2. CASE ~(t \in Mined /\ CurrencyOf(t) = "USDC")
      BY <1>3, <1>4, <2>2, Zenon
    <2> QED BY <2>1, <2>2, Zenon
  <1>6. Into("consumer", "USDC") = UsdCredits \cup UsdHarvests
    BY <1>5, Zenon
  <1>7. OutOf("consumer", "USDC") = UsdDebits \cup UsdWithdrawals
    BY <1>5, Zenon
  <1>8. Into("merchant", "USDC") = {} /\ OutOf("merchant", "USDC") = {}
    BY <1>5, Zenon
  <1>9. ASSUME NEW t \in Mined, StepOf(t).log = "Withdrawn" PROVE CurrencyOf(t) = "USDC"
    <2>1. LogIs(KindOf[t[1]], t[2], StepOf(t).log)
      BY <1>1, LogOfTx, Zenon
    <2>2. KindOf[t[1]] = "withdraw"
      BY <1>9, <2>1 DEF LogIs
    <2> QED BY <2>2 DEF CurrencyOf
  <1>10. UsdWithdrawals = Withdrawals
    BY <1>3, <1>9, Zenon DEF Withdrawals
  <1> QED BY <1>2, <1>6, <1>7, <1>8, <1>10, Zenon

\* The dollars on the dashboard: the ledger sees the credits and the fees but neither
\* the harvests nor the withdrawals.
LEMMA DollarsHeld ==
    ASSUME BooksInv
    PROVE  /\ CaughtUp => TotalHeld <= Positive(Net("USDC") + Volume(Withdrawals))
           /\ Net("USDC") > 0 => TotalHeld = Net("USDC")
  <1>1. /\ UsdCredits \in SUBSET Txs /\ UsdDebits \in SUBSET Txs
        /\ UsdHarvests \in SUBSET Txs /\ UsdWithdrawals \in SUBSET Txs
        /\ UsdCredits \cap UsdHarvests = {} /\ UsdDebits \cap UsdWithdrawals = {}
        /\ Into("consumer", "USDC") = UsdCredits \cup UsdHarvests
        /\ OutOf("consumer", "USDC") = UsdDebits \cup UsdWithdrawals
        /\ Into("merchant", "USDC") = {} /\ OutOf("merchant", "USDC") = {}
        /\ UsdWithdrawals = Withdrawals
    BY UsdSets, Zenon
  <1>2. PICK oc, om : oc = Opening["consumer"]["USDC"] /\ om = Opening["merchant"]["USDC"]
    OBVIOUS
  <1>3. oc \in Nat /\ om \in Nat
    BY <1>2, ReportsAssumption
  <1>4. PICK cr \in Nat, de \in Nat, ha \in Nat, wi \in Nat :
           /\ cr = Volume(UsdCredits) /\ de = Volume(UsdDebits)
           /\ ha = Volume(UsdHarvests) /\ wi = Volume(UsdWithdrawals)
    BY <1>1, VolumeNat, Zenon
  <1>5. Volume(UsdCredits \cup UsdHarvests) = cr + ha /\ Volume(UsdDebits \cup UsdWithdrawals) = de + wi
    BY <1>1, <1>4, VolumeSplit, Zenon
  <1>6. OnChain("consumer", "USDC") = oc + (cr + ha) - (de + wi)
    BY <1>1, <1>2, <1>5, Zenon DEF OnChain
  <1>7. OnChain("merchant", "USDC") = om + 0 - 0
    BY <1>1, <1>2, VolumeNone, Zenon DEF OnChain
  <1>8. PICK n \in Int : n = (oc + (cr + ha) - (de + wi)) + (om + 0 - 0)
    BY <1>3, <1>4
  <1>9. Net("USDC") = n
    BY <1>6, <1>7, <1>8, CurrencyTable, Zenon DEF Net, SumSegment
  <1>10. TotalHeld = IF n > 0 THEN n
                     ELSE Positive(SegmentLedger("consumer", "USDC")) + Positive(SegmentLedger("merchant", "USDC"))
    BY <1>6, <1>7, <1>8, Zenon DEF TotalHeld, SumSegment
  <1>11. ASSUME CaughtUp PROVE TotalHeld <= Positive(n + wi)
    <2>1. "none" \notin {"Credited"} /\ "none" \notin {"Debited"}
      OBVIOUS
    <2>2. /\ Logs({"Credited"}, "USDC") = MinedLogs({"Credited"}, "USDC")
          /\ Logs({"Debited"}, "USDC") = MinedLogs({"Debited"}, "USDC")
      BY <1>11, <2>1, CaughtUpLogs, Zenon
    <2>3. SegmentLedger("consumer", "USDC") = cr - de
      BY <1>4, <2>2, Zenon DEF SegmentLedger, UsdCredits, UsdDebits
    <2>4. ASSUME NEW names PROVE {t \in MinedLogs(names, "USDC") : AccountOf(t) = "merchant"} = {}
      <3>1. ASSUME NEW t \in MinedLogs(names, "USDC") PROVE AccountOf(t) # "merchant"
        <4>1. t \in Txs /\ CurrencyOf(t) = "USDC"
          BY IndexedMined DEF MinedLogs
        <4> QED BY <4>1, UsdMoves, Zenon
      <3> QED BY <3>1, Zenon
    <2>5. SegmentLedger("merchant", "USDC") = 0 - 0
      BY <2>2, <2>4, VolumeNone, Zenon DEF SegmentLedger
    <2>6. Positive(SegmentLedger("consumer", "USDC")) = IF cr - de > 0 THEN cr - de ELSE 0
      BY <2>3, Zenon DEF Positive
    <2>7. Positive(SegmentLedger("merchant", "USDC")) = 0
      BY <2>5 DEF Positive
    <2>8. Positive(n + wi) = IF n + wi > 0 THEN n + wi ELSE 0
      BY Zenon DEF Positive
    <2>9. TotalHeld = IF n > 0 THEN n ELSE (IF cr - de > 0 THEN cr - de ELSE 0) + 0
      BY <1>10, <2>6, <2>7, Zenon
    <2> QED BY <1>3, <1>4, <1>8, <2>8, <2>9
  <1> QED BY <1>1, <1>4, <1>9, <1>10, <1>11, Zenon

\* The balance figures agree in every state the invariant allows.
LEMMA Reconciled == BooksInv /\ InOrder => BalancesReconcile
  <1> SUFFICES ASSUME BooksInv, InOrder PROVE BalancesReconcile
    OBVIOUS
  <1>1. CaughtUp => /\ LedgerNet("ZAR") = Gained("ZAR") /\ Net("ZAR") = LedgerNet("ZAR")
                    /\ TotalsByToken = Supply
                    /\ \A open \in OpenRequests :
                          MerchantTvl(open) <= OnChain("merchant", "ZAR") + PendingZar(open)
    BY NetsReconcile, MerchantFigure, Zenon
  <1>2. /\ CaughtUp => TotalHeld <= Positive(Net("USDC") + Volume(Withdrawals))
        /\ Net("USDC") > 0 => TotalHeld = Net("USDC")
    BY DollarsHeld, Zenon
  <1>3. "reorg" \notin faults => PlatformTtza >= OnChain("escrow", "ZAR")
    BY EscrowCovered, Zenon
  <1> QED BY <1>1, <1>2, <1>3, CurrencyTable, Zenon DEF BalancesReconcile

\* The ledger report and the history call the same movements conversions.
LEMMA SameNames ==
    ASSUME NEW t \in Txs, StepOf(t).log \in {"Credited", "Debited"}
    PROVE  /\ (LedgerType(t) = "Conversion (buy)") = (StepOf(t).log = "Credited" /\ Label(t) = "Converted")
           /\ (LedgerType(t) = "Conversion (sell)") = Hidden([tx |-> t])
  <1>1. PICK j, i, log : j = t[1] /\ i = t[2] /\ log = StepOf(t).log
    OBVIOUS
  <1>2. LogIs(KindOf[j], i, log) /\ t = <<j, i>> /\ i \in Nat
    BY <1>1, LogOfTx, Zenon
  <1>3. t \in ConvBuyTx <=> j \in rows /\ KindOf[j] = "convert" /\ i = 2
    BY <1>2 DEF ConvBuyTx
  <1>4. t \in ConvSellTx <=> j \in rows /\ KindOf[j] = "convert" /\ i = 1
    BY <1>2 DEF ConvSellTx
  <1>5. KindOf[j] = "convert" => (log = "Credited" <=> i = 2) /\ (log = "Debited" <=> i = 1) /\ i \in {1, 2}
    BY <1>2 DEF LogIs
  <1>6. RowOf({"convert"}, t) <=> j \in rows /\ KindOf[j] = "convert"
    BY <1>1 DEF RowOf
  <1>7. log \in {"Credited", "Debited"}
    BY <1>1
  <1>8. LedgerType(t) = "Conversion (buy)" <=> log = "Credited" /\ RowOf({"convert"}, t)
    BY <1>1, <1>3, <1>4, <1>5, <1>6 DEF LedgerType
  <1>9. LedgerType(t) = "Conversion (sell)" <=> log = "Debited" /\ RowOf({"convert"}, t)
    BY <1>1, <1>3, <1>4, <1>5, <1>6, <1>7 DEF LedgerType
  <1>10. log = "Credited" => (Label(t) = "Converted" <=> RowOf({"convert"}, t))
    BY <1>1 DEF Label
  <1>11. Hidden([tx |-> t]) <=> log = "Debited" /\ RowOf({"convert"}, t)
    <2>1. PICK e : e = [tx |-> t]
      OBVIOUS
    <2>2. e.tx = t
      BY <2>1
    <2> QED BY <1>1, <2>1, <2>2, Zenon DEF Hidden
  <1>12. LedgerType(t) = "Conversion (buy)" <=> StepOf(t).log = "Credited" /\ Label(t) = "Converted"
    BY <1>1, <1>8, <1>10, Zenon
  <1>13. LedgerType(t) = "Conversion (sell)" <=> Hidden([tx |-> t])
    BY <1>9, <1>11, Zenon
  <1>14. Hidden([tx |-> t]) \in BOOLEAN
    BY DEF Hidden
  <1> QED BY <1>12, <1>13, <1>14, Zenon

\* A mint is shown with the reference of its own deposit.
LEMMA OwnReference ==
    ASSUME BooksInv, NEW t \in TreasuryEvents
    PROVE  RefByTx(t) = {t[1]} \cap rows
  <1>1. t \in Txs /\ StepOf(t).log \in {"Minted", "Burned"}
    BY IndexedMined, Zenon DEF TreasuryEvents
  <1>2. PICK j, i : j = t[1] /\ i = t[2]
    OBVIOUS
  <1>3. LogIs(KindOf[j], i, StepOf(t).log) /\ t = <<j, i>>
    BY <1>1, <1>2, LogOfTx, Zenon
  <1>4. KindOf[j] = "topup" /\ i = 1
    BY <1>1, <1>3 DEF LogIs
  <1>5. ASSUME NEW k, KindOf[k] = "topup" PROVE t \in Named(k) <=> k = j
    <2>1. Named(k) = {<<k, 1>>, <<k, 2>>}
      BY <1>5 DEF Named
    <2> QED BY <1>3, <1>4, <2>1
  <1>6. ASSUME NEW k PROVE k \in RefByTx(t) <=> k \in rows /\ k = j
    BY <1>4, <1>5, Zenon DEF RefByTx
  <1> QED BY <1>2, <1>6, Zenon

\* The fees of two separate groups of jobs add up, and a group's are part of all.
LEMMA FeesSplit ==
    ASSUME NEW A \in SUBSET Jobs, NEW B \in SUBSET Jobs, A \cap B = {}
    PROVE  /\ Fees(A \cup B) = Fees(A) + Fees(B)
           /\ Fees(A) \in Nat /\ Fees(B) \in Nat
  <1>1. PICK T \in SUBSET Jobs : T = A \cup B
    OBVIOUS
  <1>2. IsFiniteSet(Jobs) /\ FeeOf \in [Jobs -> Nat]
    BY ReportsAssumption
  <1>3. A \in SUBSET T /\ B \in SUBSET T /\ IsFiniteSet(T) /\ A \cup B = T
    BY <1>1, <1>2, FS_Subset
  <1>4. PICK g \in [T -> Nat] : g = [j \in T |-> FeeOf[j]]
    BY <1>2
  <1>5. Total([x \in A \cup B |-> g[x]]) = Total([x \in A |-> g[x]]) + Total([x \in B |-> g[x]])
    BY <1>3, TotalSplit
  <1>6. /\ [x \in A \cup B |-> g[x]] = [j \in A \cup B |-> FeeOf[j]]
        /\ [x \in A |-> g[x]] = [j \in A |-> FeeOf[j]]
        /\ [x \in B |-> g[x]] = [j \in B |-> FeeOf[j]]
    BY <1>3, <1>4
  <1>7. IsFiniteSet(A) /\ IsFiniteSet(B)
    BY <1>2, FS_Subset
  <1>8. [j \in A |-> FeeOf[j]] \in [A -> Nat] /\ [j \in B |-> FeeOf[j]] \in [B -> Nat]
    BY <1>2
  <1>9. Total([j \in A |-> FeeOf[j]]) \in Nat /\ Total([j \in B |-> FeeOf[j]]) \in Nat
    BY <1>7, <1>8, TotalType
  <1> QED BY <1>5, <1>6, <1>9, Zenon DEF Fees

\* A row stands for a job whose first transaction was sent.
LEMMA RowSent ==
    ASSUME BooksInv, NEW j \in rows
    PROVE  j \in Jobs /\ <<j, 1>> \in sent
  <1>1. j \in Jobs /\ step[j] = Len(Steps(KindOf[j])) /\ (\A i \in 1..step[j] : <<j, i>> \in sent)
    BY DEF BooksInv, RowsOk, StepsOk
  <1>2. Len(Steps(KindOf[j])) \in 1..3
    BY <1>1, BooksAssumption, StepTable
  <1>3. 1 \in 1..step[j]
    BY <1>1, <1>2
  <1> QED BY <1>1, <1>3, Zenon

\* Revenue counts each fee once, and only those of transactions that were sent.
LEMMA RevenueEarned ==
    ASSUME BooksInv
    PROVE  Revenue <= Fees({j \in Jobs : <<j, 1>> \in sent})
  <1>1. PICK C, S, H, W : /\ C = {j \in rows : KindOf[j] = "convert"} /\ S = {j \in rows : KindOf[j] = "settle"}
                          /\ W = {j \in rows : KindOf[j] = "withdraw"}
                          /\ H = {t[1] : t \in {u \in Indexed : StepOf(u).log = "YieldHarvested"}}
    OBVIOUS
  <1>2. PICK P \in SUBSET Jobs : P = {j \in Jobs : <<j, 1>> \in sent}
    OBVIOUS
  <1>3. \A j \in rows : j \in P
    BY <1>2, RowSent
  <1>4. C \in SUBSET P /\ S \in SUBSET P /\ W \in SUBSET P
    BY <1>1, <1>3
  <1>5. \A j \in H : j \in P /\ KindOf[j] = "harvest"
    <2> SUFFICES ASSUME NEW j \in H PROVE j \in P /\ KindOf[j] = "harvest"
      OBVIOUS
    <2>1. PICK t \in Indexed : StepOf(t).log = "YieldHarvested" /\ j = t[1]
      BY <1>1, Zenon
    <2>2. t \in Txs /\ t \in sent
      BY IndexedMined, Zenon DEF Mined
    <2>3. LogIs(KindOf[j], t[2], StepOf(t).log) /\ j \in Jobs /\ t = <<j, t[2]>>
      BY <2>1, <2>2, LogOfTx, Zenon
    <2>4. KindOf[j] = "harvest" /\ t[2] = 1
      BY <2>1, <2>3 DEF LogIs
    <2>5. <<j, 1>> \in sent
      BY <2>2, <2>3, <2>4, Zenon
    <2> QED BY <1>2, <2>3, <2>4, <2>5
  <1>6. H \in SUBSET P
    BY <1>5
  <1>7. /\ \A j \in C : KindOf[j] = "convert"
        /\ \A j \in S : KindOf[j] = "settle"
        /\ \A j \in W : KindOf[j] = "withdraw"
    BY <1>1, Zenon
  <1>8. C \cap S = {} /\ (C \cup S) \cap H = {} /\ (C \cup S \cup H) \cap W = {}
    BY <1>5, <1>7
  <1>9. PICK CS \in SUBSET Jobs, CSH \in SUBSET Jobs, All \in SUBSET Jobs, R \in SUBSET Jobs :
           CS = C \cup S /\ CSH = CS \cup H /\ All = CSH \cup W /\ R = P \ All
    BY <1>4, <1>6
  <1>10. C \in SUBSET Jobs /\ S \in SUBSET Jobs /\ W \in SUBSET Jobs /\ H \in SUBSET Jobs
    BY <1>4, <1>6
  <1>11. CS \cap H = {} /\ CSH \cap W = {} /\ All \cap R = {} /\ All \cup R = P
    BY <1>4, <1>6, <1>8, <1>9
  <1>12. /\ Fees(CS) = Fees(C) + Fees(S) /\ Fees(C) \in Nat /\ Fees(S) \in Nat
         /\ Fees(CSH) = Fees(CS) + Fees(H) /\ Fees(H) \in Nat
         /\ Fees(All) = Fees(CSH) + Fees(W) /\ Fees(W) \in Nat
         /\ Fees(P) = Fees(All) + Fees(R) /\ Fees(R) \in Nat
    BY <1>8, <1>9, <1>10, <1>11, FeesSplit, Zenon
  <1>13. Revenue = Fees(C) + Fees(S) + Fees(H) + Fees(W)
    BY <1>1, Zenon DEF Revenue, ConversionFees, SettlementFees, YieldRevenue, WithdrawalFees, FeesOf
  <1>14. PICK c, s, h, w, r \in Nat : c = Fees(C) /\ s = Fees(S) /\ h = Fees(H) /\ w = Fees(W) /\ r = Fees(R)
    BY <1>12, Zenon
  <1>15. Fees(P) = c + s + h + w + r
    BY <1>12, <1>14, Zenon
  <1>16. c + s + h + w <= c + s + h + w + r
    OBVIOUS
  <1> QED BY <1>2, <1>13, <1>14, <1>15, <1>16, Zenon

\* The expense lines and the sign-ups that did not complete make up all of the gas.
LEMMA ExpensesSplit ==
    ASSUME BooksInv
    PROVE  Expenses = ExpenseLines + Cardinality(Abandoned)
  <1>1. PICK G, T, O, D, S, A :
           /\ G = DOMAIN gas /\ T = Rolled("transaction") /\ O = Rolled("operations") /\ D = Rolled("deployment")
           /\ S = {t \in Rolled("onboarding") : t[1] \in rows} /\ A = Abandoned
    OBVIOUS
  <1>2. IsFiniteSet(G)
    <2>1. G \subseteq Txs
      BY <1>1 DEF BooksInv, GasOk
    <2> QED BY <2>1, TxsFinite, FS_Subset
  <1>3. \A t \in G : gas[t].category \in {"transaction", "onboarding", "operations", "deployment"}
    BY <1>1, GasRows, Zenon DEF GroupOrder
  <1>4. /\ \A t : t \in T <=> t \in G /\ gas[t].category = "transaction"
        /\ \A t : t \in O <=> t \in G /\ gas[t].category = "operations"
        /\ \A t : t \in D <=> t \in G /\ gas[t].category = "deployment"
        /\ \A t : t \in S <=> t \in G /\ gas[t].category = "onboarding" /\ t[1] \in rows
        /\ \A t : t \in A <=> t \in G /\ gas[t].category = "onboarding" /\ t[1] \notin rows
    BY <1>1, Zenon DEF Rolled, Abandoned
  <1>5. T \in SUBSET G /\ O \in SUBSET G /\ D \in SUBSET G /\ S \in SUBSET G /\ A \in SUBSET G
    BY <1>4
  <1>6. G = T \cup S \cup O \cup D \cup A
    BY <1>3, <1>4
  <1>7. PICK TS, TSO, TSOD : TS = T \cup S /\ TSO = TS \cup O /\ TSOD = TSO \cup D
    OBVIOUS
  <1>8. T \cap S = {} /\ TS \cap O = {} /\ TSO \cap D = {} /\ TSOD \cap A = {}
    BY <1>4, <1>7
  <1>9. IsFiniteSet(T) /\ IsFiniteSet(S) /\ IsFiniteSet(O) /\ IsFiniteSet(D) /\ IsFiniteSet(A)
    BY <1>2, <1>5, FS_Subset
  <1>10. IsFiniteSet(TS) /\ IsFiniteSet(TSO) /\ IsFiniteSet(TSOD)
    BY <1>2, <1>5, <1>7, FS_Subset
  <1>11. /\ Cardinality(TS) = Cardinality(T) + Cardinality(S)
         /\ Cardinality(TSO) = Cardinality(TS) + Cardinality(O)
         /\ Cardinality(TSOD) = Cardinality(TSO) + Cardinality(D)
         /\ Cardinality(G) = Cardinality(TSOD) + Cardinality(A)
    BY <1>6, <1>7, <1>8, <1>9, <1>10, DisjointUnion, Zenon
  <1>12. ExpenseLines = Cardinality(T) + Cardinality(S) + Cardinality(O) + Cardinality(D)
    BY <1>1 DEF ExpenseLines, ExpenseLine, Acquisition
  <1> QED BY <1>1, <1>11, <1>12, Zenon DEF Expenses

\* And so does everything the reports say.
LEMMA ReportsDoAgree == ReportInv => ReportsAgree
  <1> SUFFICES ASSUME BooksInv, InOrder PROVE ReportsAgree
    BY DEF ReportInv
  <1>1. BalancesReconcile
    BY Reconciled
  <1>2. \A t \in Indexed : StepOf(t).log \in {"Credited", "Debited"} =>
           /\ (LedgerType(t) = "Conversion (buy)") = (StepOf(t).log = "Credited" /\ Label(t) = "Converted")
           /\ (LedgerType(t) = "Conversion (sell)") = Hidden([tx |-> t])
    BY IndexedMined, SameNames, Zenon
  <1>3. \A t \in TreasuryEvents : RefByTx(t) = {t[1]} \cap rows
    BY OwnReference, Zenon
  <1> QED BY <1>1, <1>2, <1>3, RevenueEarned, ExpensesSplit, Zenon DEF ReportsAgree

\* Theorem: the reports agree with the chain, with each other and with the consumer's
\* history, whatever the indexer, the operations and restarts have left undone, for
\* every set of operations and all amounts (reports.routes, platformStats,
\* platformFinancials).
THEOREM ReportsTheorem == BooksSpec => []ReportsAgree
  BY ReportInvariant, ReportsDoAgree, PTL
=============================================================================
