---------------------------- MODULE Vault_proofs ----------------------------
(***************************************************************************)
(* Proofs about the Vault contract for any sets of users, currencies,      *)
(* tokens and amounts: its redundant storage stays consistent, every call  *)
(* is one operation of the share ledger on each currency or none, and the  *)
(* calls that move tokens keep the vault exactly as well backed as it was. *)
(* Then about the people it holds balances for: how they become consumers  *)
(* of the registry, wherever a registration breaks off.                    *)
(***************************************************************************)
EXTENDS Vault, Onboarding, ShareMath_proofs, SequenceTheorems

(***************************************************************************)
(*                    What a call does to the books                        *)
(***************************************************************************)

Credited(c) == \E u \in Users, a \in Nat :
                  ledger'[c] = CreditAssets(ledger[c], u, a) /\ Fits(ledger'[c])
Debited(c)  == \E u \in Users, a \in Nat :
                  UnifiedBalance(u, c) >= a /\ ledger'[c] = DebitAssets(ledger[c], u, a)
Moved(c)    == \E from, to \in Users, a \in Nat, m \in Nat :
                  /\ UnifiedBalance(from, c) >= a
                  /\ m = MoveShares(ledger[c].totalShares, ledger[c].totalAssets,
                                    ledger[c].shares[from], a)
                  /\ ledger'[c].shares =
                       [[ledger[c].shares EXCEPT ![from] = @ - m] EXCEPT ![to] = @ + m]
                  /\ ledger'[c].totalShares = ledger[c].totalShares
                  /\ ledger'[c].totalAssets = ledger[c].totalAssets
                  /\ \E g : ledger'[c] = [shares |-> g,
                                          totalShares |-> ledger[c].totalShares,
                                          totalAssets |-> ledger[c].totalAssets]
Reprices(c, n) == /\ ledger'[c] \in LedgerType
                  /\ ledger'[c].shares = ledger[c].shares
                  /\ ledger'[c].totalShares = ledger[c].totalShares
                  /\ ledger'[c].totalAssets = n
Repriced(c) == \E n \in 0..MaxAssets :
                  /\ n >= ledger[c].totalAssets \/ n \in Corrections
                  /\ Reprices(c, n)

BookStep(c) == Credited(c) \/ Debited(c) \/ Moved(c) \/ Repriced(c) \/ ledger'[c] = ledger[c]

\* A currency's books: well typed, the shares adding up to their total.
Sound(l) == l \in LedgerType /\ l.totalShares = Total(l.shares)

\* The parts of a currency's books.
LEMMA SoundParts ==
    ASSUME NEW l, Sound(l)
    PROVE  /\ l.shares \in [Users -> Nat]
           /\ l.totalShares \in Nat /\ l.totalShares <= MaxShares
           /\ l.totalAssets \in Nat /\ l.totalAssets <= MaxAssets
           /\ l.totalShares = Total(l.shares)
           /\ IsFiniteSet(Users) /\ MaxAssets \in Nat /\ MaxShares \in Nat
  BY VaultAssumption DEF Sound, LedgerType

\* The ledger's arithmetic is the vault's.
LEMMA SameArithmetic ==
    ASSUME NEW c
    PROVE  \A ts, ta, s, a :
              /\ L(c)!SharesDown(ts, ta, a) = SharesDown(ts, ta, a)
              /\ L(c)!AssetsDown(ts, ta, a) = AssetsDown(ts, ta, a)
              /\ L(c)!BurnShares(ts, ta, s, a) = BurnShares(ts, ta, s, a)
              /\ L(c)!MoveShares(ts, ta, s, a) = MoveShares(ts, ta, s, a)
  <1>1. \A ts, ta, a :
              /\ L(c)!SharesDown(ts, ta, a) = SharesDown(ts, ta, a)
              /\ L(c)!AssetsDown(ts, ta, a) = AssetsDown(ts, ta, a)
              /\ L(c)!SharesUp(ts, ta, a) = SharesUp(ts, ta, a)
    BY DEF SharesDown, AssetsDown, SharesUp, L!SharesDown, L!AssetsDown, L!SharesUp
  <1>2. QED
    BY <1>1 DEF BurnShares, MoveShares, L!BurnShares, L!MoveShares

\* A credit keeps the books sound and is the ledger's Credit.
LEMMA CreditBook ==
    ASSUME NEW c \in Currencies, Sound(ledger[c]), Credited(c)
    PROVE  Sound(ledger'[c]) /\ L(c)!Next
  <1>1. PICK u \in Users, a \in Nat :
           ledger'[c] = CreditAssets(ledger[c], u, a) /\ Fits(ledger'[c])
    BY DEF Credited
  <1>2. PICK f, ts, ta, m : /\ f = ledger[c].shares /\ ts = ledger[c].totalShares
                            /\ ta = ledger[c].totalAssets /\ m = SharesDown(ts, ta, a)
    OBVIOUS
  <1>3. /\ f \in [Users -> Nat] /\ ts \in Nat /\ ta \in Nat /\ ts = Total(f)
        /\ IsFiniteSet(Users) /\ MaxAssets \in Nat /\ MaxShares \in Nat
    BY <1>2, SoundParts
  <1>4. /\ m \in Nat
        /\ [f EXCEPT ![u] = f[u] + m] \in [Users -> Nat]
        /\ ts + m = Total([f EXCEPT ![u] = f[u] + m])
    BY <1>2, <1>3, CreditSum
  <1>5. ledger'[c] = [shares |-> [f EXCEPT ![u] = f[u] + m], totalShares |-> ts + m,
                      totalAssets |-> ta + a]
    BY <1>1, <1>2 DEF CreditAssets
  <1>6. ts + m <= MaxShares /\ ta + a <= MaxAssets
    BY <1>1, <1>5 DEF Fits
  <1>7. Sound(ledger'[c])
    BY <1>3, <1>4, <1>5, <1>6 DEF Sound, LedgerType
  <1>8. L(c)!Credit(u, a)
    <2>1. /\ ledger'[c].shares = [f EXCEPT ![u] = f[u] + m]
          /\ ledger'[c].totalShares = ts + m /\ ledger'[c].totalAssets = ta + a
      BY <1>5
    <2>2. L(c)!SharesDown(ts, ta, a) = m
      BY <1>2, SameArithmetic
    <2>3. QED
      BY <1>2, <1>6, <2>1, <2>2 DEF L!Credit
  <1>9. a \in 0..MaxAssets
    BY <1>3, <1>6
  <1>10. QED
    BY <1>7, <1>8, <1>9 DEF L!Next

\* A debit keeps the books sound and is the ledger's Debit.
LEMMA DebitBook ==
    ASSUME NEW c \in Currencies, Sound(ledger[c]), Debited(c)
    PROVE  Sound(ledger'[c]) /\ L(c)!Next
  <1>1. PICK u \in Users, a \in Nat :
           UnifiedBalance(u, c) >= a /\ ledger'[c] = DebitAssets(ledger[c], u, a)
    BY DEF Debited
  <1>2. PICK f, ts, ta, m : /\ f = ledger[c].shares /\ ts = ledger[c].totalShares
                            /\ ta = ledger[c].totalAssets /\ m = BurnShares(ts, ta, f[u], a)
    OBVIOUS
  <1>3. /\ f \in [Users -> Nat] /\ ts \in Nat /\ ta \in Nat /\ ts = Total(f)
        /\ ts <= MaxShares /\ ta <= MaxAssets
        /\ IsFiniteSet(Users) /\ MaxAssets \in Nat /\ MaxShares \in Nat
    BY <1>2, SoundParts
  <1>4. AssetsDown(ts, ta, f[u]) >= a
    BY <1>1, <1>2 DEF UnifiedBalance
  <1>5. /\ m \in Nat /\ ts - m \in Nat /\ ta - a \in Nat
        /\ [f EXCEPT ![u] = f[u] - m] \in [Users -> Nat]
        /\ ts - m = Total([f EXCEPT ![u] = f[u] - m])
    BY <1>2, <1>3, <1>4, DebitSum, SMTT(60)
  <1>6. ledger'[c] = [shares |-> [f EXCEPT ![u] = f[u] - m], totalShares |-> ts - m,
                      totalAssets |-> ta - a]
    BY <1>1, <1>2 DEF DebitAssets
  <1>7. Sound(ledger'[c])
    BY <1>3, <1>5, <1>6 DEF Sound, LedgerType
  <1>8. L(c)!Debit(u, a)
    <2>1. /\ ledger'[c].shares = [f EXCEPT ![u] = f[u] - m]
          /\ ledger'[c].totalShares = ts - m /\ ledger'[c].totalAssets = ta - a
      BY <1>6
    <2>2. L(c)!BurnShares(ts, ta, f[u], a) = m /\ L(c)!AssetsDown(ts, ta, f[u]) >= a
      BY <1>2, <1>4, SameArithmetic
    <2>3. QED
      BY <1>2, <2>1, <2>2 DEF L!Debit, L!Balance
  <1>9. a \in 0..MaxAssets
    BY <1>3, <1>5
  <1>10. QED
    BY <1>7, <1>8, <1>9 DEF L!Next

\* A transfer keeps the books sound and is the ledger's Move.
LEMMA MoveBook ==
    ASSUME NEW c \in Currencies, Sound(ledger[c]), Moved(c)
    PROVE  Sound(ledger'[c]) /\ L(c)!Next
  <1>1. PICK from \in Users, to \in Users, a \in Nat, m \in Nat :
           /\ UnifiedBalance(from, c) >= a
           /\ m = MoveShares(ledger[c].totalShares, ledger[c].totalAssets,
                             ledger[c].shares[from], a)
           /\ ledger'[c].shares =
                [[ledger[c].shares EXCEPT ![from] = @ - m] EXCEPT ![to] = @ + m]
           /\ ledger'[c].totalShares = ledger[c].totalShares
           /\ ledger'[c].totalAssets = ledger[c].totalAssets
           /\ \E g : ledger'[c] = [shares |-> g,
                                   totalShares |-> ledger[c].totalShares,
                                   totalAssets |-> ledger[c].totalAssets]
    BY DEF Moved
  <1>2. PICK f, ts, ta, g : /\ f = ledger[c].shares /\ ts = ledger[c].totalShares
                            /\ ta = ledger[c].totalAssets
                            /\ g = [[f EXCEPT ![from] = @ - m] EXCEPT ![to] = @ + m]
    OBVIOUS
  <1>3. /\ f \in [Users -> Nat] /\ ts \in Nat /\ ta \in Nat /\ ts = Total(f)
        /\ ts <= MaxShares /\ ta <= MaxAssets
        /\ IsFiniteSet(Users) /\ MaxAssets \in Nat /\ MaxShares \in Nat
    BY <1>2, SoundParts
  <1>4. AssetsDown(ts, ta, f[from]) >= a /\ m = MoveShares(ts, ta, f[from], a)
    BY <1>1, <1>2 DEF UnifiedBalance
  <1>5. g \in [Users -> Nat] /\ Total(g) = Total(f)
    <2>1. g = AfterMove(f, from, to, m)
      BY <1>2 DEF AfterMove
    <2>2. f[from] \in Nat /\ m <= f[from]
      BY <1>3, <1>4, BurnBounds
    <2>3. QED
      BY <1>3, <2>1, <2>2, MoveSum
  <1>6. ledger'[c] = [shares |-> g, totalShares |-> ts, totalAssets |-> ta]
    BY <1>1, <1>2
  <1>7. Sound(ledger'[c])
    BY <1>3, <1>5, <1>6 DEF Sound, LedgerType
  <1>8. L(c)!Move(from, to, a)
    <2>1. ledger'[c].shares = g
      BY <1>1, <1>2
    <2>2. QED
      BY <1>1, <1>2, <1>3, <1>4, <2>1, SameArithmetic DEF L!Move, L!Balance
  <1>9. a \in 0..MaxAssets
    <2>1. f[from] \in Nat /\ f[from] <= ts
      BY <1>3, TotalMember
    <2>2. QED
      BY <1>3, <1>4, <2>1, BalanceBound, SMTT(60)
  <1>10. QED
    BY <1>7, <1>8, <1>9 DEF L!Next

\* A harvest or a reconciliation keeps them too: the ledger's Accrue or Reconcile.
LEMMA RepriceBook ==
    ASSUME NEW c \in Currencies, Sound(ledger[c]), Repriced(c)
    PROVE  Sound(ledger'[c]) /\ L(c)!Next
  <1>1. PICK n \in 0..MaxAssets :
           /\ n >= ledger[c].totalAssets \/ n \in Corrections
           /\ Reprices(c, n)
    BY DEF Repriced
  <1>2. PICK f, ts, ta : /\ f = ledger[c].shares /\ ts = ledger[c].totalShares
                         /\ ta = ledger[c].totalAssets
    OBVIOUS
  <1>3. /\ f \in [Users -> Nat] /\ ts \in Nat /\ ta \in Nat /\ ts = Total(f)
        /\ ts <= MaxShares /\ MaxAssets \in Nat /\ MaxShares \in Nat
    BY <1>2, SoundParts
  <1>4. Sound(ledger'[c])
    BY <1>1, <1>2, <1>3 DEF Sound, Reprices
  <1>5. CASE n \in Corrections
    <2>1. L(c)!Reconcile(n)
      BY <1>1, <1>3 DEF L!Reconcile, Reprices
    <2>2. QED
      BY <1>4, <1>5, <2>1 DEF L!Next
  <1>6. CASE n >= ta
    <2>1. PICK a \in 0..MaxAssets : a = n - ta /\ n = ta + a
      BY <1>3, <1>6
    <2>2. L(c)!Accrue(a)
      BY <1>1, <1>2, <1>3, <2>1 DEF L!Accrue, Reprices
    <2>3. QED
      BY <1>4, <2>2 DEF L!Next
  <1>7. QED
    BY <1>1, <1>2, <1>5, <1>6

\* So a call that does one of these to a currency keeps its books sound and is a
\* step of the share ledger or leaves it alone.
LEMMA BookStepSound ==
    ASSUME NEW c \in Currencies, Sound(ledger[c]), BookStep(c)
    PROVE  Sound(ledger'[c]) /\ (L(c)!Next \/ ledger'[c] = ledger[c])
  BY CreditBook, DebitBook, MoveBook, RepriceBook DEF BookStep

(***************************************************************************)
(*              Every call is a step of each currency's books              *)
(***************************************************************************)

\* Writing one currency's books leaves the others alone.
LEMMA OneCurrency ==
    ASSUME TypeOK, NEW c \in Currencies, NEW l, ledger' = [ledger EXCEPT ![c] = l]
    PROVE  /\ ledger' = [d \in Currencies |-> ledger'[d]]
           /\ ledger'[c] = l
           /\ \A d \in Currencies : d # c => ledger'[d] = ledger[d]
  BY DEF TypeOK

\* The calls that write one currency's books.
LEMMA OneCurrencyStep ==
    ASSUME TypeOK, NEW c \in Currencies, NEW l, ledger' = [ledger EXCEPT ![c] = l],
           ledger'[c] = l => BookStep(c)
    PROVE  /\ ledger' = [d \in Currencies |-> ledger'[d]]
           /\ \A d \in Currencies : BookStep(d)
  BY OneCurrency DEF BookStep

\* A call that does not write the books.
LEMMA NoCurrencyStep ==
    ASSUME TypeOK, UNCHANGED ledger
    PROVE  /\ ledger' = [d \in Currencies |-> ledger'[d]]
           /\ \A d \in Currencies : BookStep(d)
  BY DEF TypeOK, BookStep

\* A registered token belongs to a currency.
LEMMA TokenOfCurrency ==
    ASSUME TypeOK, NEW t \in Tokens, tokenCurrency[t] # NoCurrency
    PROVE  tokenCurrency[t] \in Currencies
  BY DEF TypeOK

\* The vault's holdings are a natural number.
LEMMA HoldingsNat ==
    ASSUME TypeOK, NEW c \in Currencies
    PROVE  /\ Len(currencyTokenAt[c]) \in Nat /\ IsFiniteSet(1..Len(currencyTokenAt[c]))
           /\ [i \in 1..Len(currencyTokenAt[c]) |-> held[currencyTokenAt[c][i]]]
                 \in [1..Len(currencyTokenAt[c]) -> Nat]
           /\ ActualHoldings(c) \in Nat
  <1>1. currencyTokenAt[c] \in Seq(Tokens) /\ held \in [Tokens -> Nat]
    BY DEF TypeOK
  <1>2. PICK n \in Nat : n = Len(currencyTokenAt[c])
    BY <1>1
  <1>3. IsFiniteSet(1..n)
    BY FS_Interval
  <1>4. \A i \in 1..n : currencyTokenAt[c][i] \in Tokens
    BY <1>1, <1>2, ElementOfSeq
  <1>5. PICK f \in [1..n -> Nat] : f = [i \in 1..n |-> held[currencyTokenAt[c][i]]]
    BY <1>1, <1>4
  <1>6. Total(f) \in Nat
    BY <1>3, TotalType
  <1>7. QED
    BY <1>2, <1>3, <1>5, <1>6 DEF ActualHoldings

\* The platform's cut of a harvest is at most the yield.
LEMMA CutBound ==
    ASSUME NEW y \in Nat, NEW fee \in Nat, fee <= BPS_DENOMINATOR
    PROVE  /\ (y * fee) \div BPS_DENOMINATOR \in Nat
           /\ (y * fee) \div BPS_DENOMINATOR <= y
  <1>1. PICK b \in Nat : b = BPS_DENOMINATOR /\ b > 0
    BY VaultAssumption
  <1>2. y * fee \in Nat /\ y * fee <= y * b
    BY <1>1, Multiply
  <1>3. PICK q \in Nat : q = (y * fee) \div b /\ b * q <= y * fee
    BY <1>1, <1>2, Quotient
  <1>4. b * q <= b * y
    BY <1>1, <1>2, <1>3
  <1>5. q <= y
    BY <1>1, <1>4, CancelFactor
  <1>6. QED
    BY <1>1, <1>3, <1>5

\* Writing totalAssets alone.
LEMMA RepriceCurrency ==
    ASSUME TypeOK, NEW c \in Currencies, NEW n \in 0..MaxAssets,
           ledger' = [ledger EXCEPT ![c].totalAssets = n]
    PROVE  /\ ledger' = [d \in Currencies |-> ledger'[d]]
           /\ Reprices(c, n)
           /\ \A d \in Currencies : d # c => ledger'[d] = ledger[d]
  BY DEF TypeOK, LedgerType, Reprices

\* A harvest adds the users' part of the yield to totalAssets.
LEMMA HarvestParts ==
    ASSUME VaultInv, NEW c \in Currencies, NEW fee \in FeeBps, Harvest(c, fee)
    PROVE  \E y \in Nat, cut \in Nat, n \in 0..MaxAssets :
             /\ y = ActualHoldings(c) - Liabilities(c) /\ y > 0 /\ cut <= y
             /\ cut = (y * fee) \div BPS_DENOMINATOR
             /\ ledger[c].totalAssets \in Nat
             /\ n = ledger[c].totalAssets + (y - cut)
             /\ ledger' = [ledger EXCEPT ![c].totalAssets = n]
             /\ \/ cut = 0 /\ held' = held
                \/ /\ cut > 0 /\ held[currencyTokenAt[c][1]] >= cut
                   /\ held' = [held EXCEPT ![currencyTokenAt[c][1]] = @ - cut]
  <1>1. TypeOK /\ fee \in Nat /\ fee <= BPS_DENOMINATOR /\ ActualHoldings(c) > Liabilities(c)
    BY VaultAssumption DEF VaultInv, Harvest
  <1>2. ActualHoldings(c) \in Nat
    BY <1>1, HoldingsNat
  <1>3. ledger[c] \in LedgerType /\ platformReserveAssets[c] \in Nat
    BY <1>1 DEF TypeOK
  <1>4. ledger[c].totalAssets \in Nat /\ MaxAssets \in Nat
    BY <1>3, VaultAssumption DEF LedgerType
  <1>5. PICK y \in Nat : y = ActualHoldings(c) - Liabilities(c) /\ y > 0
    BY <1>1, <1>2, <1>3, <1>4 DEF Liabilities
  <1>6. PICK cut \in Nat : cut = (y * fee) \div BPS_DENOMINATOR /\ cut <= y
    BY <1>1, CutBound
  <1>7. PICK n \in Nat : n = ledger[c].totalAssets + (y - cut)
    BY <1>4, <1>6
  <1>8. /\ ledger' = [ledger EXCEPT ![c].totalAssets = n]
        /\ Fits(ledger'[c])
        /\ \/ cut = 0 /\ held' = held
           \/ /\ cut > 0 /\ held[currencyTokenAt[c][1]] >= cut
              /\ held' = [held EXCEPT ![currencyTokenAt[c][1]] = @ - cut]
    BY <1>5, <1>6, <1>7 DEF Harvest
  <1>9. ledger'[c].totalAssets = n
    BY <1>1, <1>3, <1>8 DEF TypeOK, LedgerType
  <1>10. n \in 0..MaxAssets
    BY <1>4, <1>8, <1>9 DEF Fits
  <1>11. QED
    BY <1>4, <1>5, <1>6, <1>7, <1>8, <1>10

\* A credit of one currency.
LEMMA CreditOne ==
    ASSUME TypeOK, NEW u \in Users, NEW c \in Currencies, NEW a \in Nat,
           ledger' = [ledger EXCEPT ![c] = CreditAssets(@, u, a)], Fits(ledger'[c])
    PROVE  /\ ledger' = [d \in Currencies |-> ledger'[d]]
           /\ \A d \in Currencies : BookStep(d)
  <1>1. PICK l : l = CreditAssets(ledger[c], u, a)
    OBVIOUS
  <1>2. ledger' = [ledger EXCEPT ![c] = l]
    BY <1>1
  <1>3. ledger'[c] = l => BookStep(c)
    BY <1>1 DEF BookStep, Credited
  <1>4. QED
    BY <1>2, <1>3, OneCurrencyStep

\* A debit of one currency.
LEMMA DebitOne ==
    ASSUME TypeOK, NEW u \in Users, NEW c \in Currencies, NEW a \in Nat,
           UnifiedBalance(u, c) >= a,
           ledger' = [ledger EXCEPT ![c] = DebitAssets(@, u, a)]
    PROVE  /\ ledger' = [d \in Currencies |-> ledger'[d]]
           /\ \A d \in Currencies : BookStep(d)
  <1>1. PICK l : l = DebitAssets(ledger[c], u, a)
    OBVIOUS
  <1>2. ledger' = [ledger EXCEPT ![c] = l]
    BY <1>1
  <1>3. ledger'[c] = l => BookStep(c)
    BY <1>1 DEF BookStep, Debited
  <1>4. QED
    BY <1>2, <1>3, OneCurrencyStep

\* A purchase debits the local currency and credits USDC, which are different.
LEMMA PurchaseBooks ==
    ASSUME TypeOK, NEW u \in Users, NEW c \in Currencies, NEW a \in Nat, NEW out \in Nat,
           PurchaseUsd(u, c, a, out)
    PROVE  /\ ledger' = [d \in Currencies |-> ledger'[d]]
           /\ \A d \in Currencies : BookStep(d)
  <1>1. PICK l, k : /\ l = DebitAssets(ledger[c], u, a)
                    /\ k = CreditAssets(ledger[USDC_CODE], u, out)
    OBVIOUS
  <1>2. c # USDC_CODE /\ USDC_CODE \in Currencies /\ UnifiedBalance(u, c) >= a
    BY VaultAssumption DEF PurchaseUsd
  <1>3. ledger' = [ledger EXCEPT ![c] = l, ![USDC_CODE] = k] /\ Fits(ledger'[USDC_CODE])
    BY <1>1, <1>2 DEF PurchaseUsd, TypeOK
  <1>4. /\ ledger' = [d \in Currencies |-> ledger'[d]]
        /\ ledger'[c] = l /\ ledger'[USDC_CODE] = k
        /\ \A d \in Currencies : d # c /\ d # USDC_CODE => ledger'[d] = ledger[d]
    BY <1>2, <1>3 DEF TypeOK
  <1>5. Debited(c) /\ Credited(USDC_CODE)
    BY <1>1, <1>2, <1>3, <1>4 DEF Debited, Credited
  <1>6. QED
    BY <1>4, <1>5 DEF BookStep

\* A transfer moves shares within one currency.
LEMMA TransferBooks ==
    ASSUME TypeOK, NEW from \in Users, NEW to \in Users, NEW c \in Currencies, NEW a \in Nat,
           Transfer(from, to, c, a)
    PROVE  /\ ledger' = [d \in Currencies |-> ledger'[d]]
           /\ \A d \in Currencies : BookStep(d)
  <1>1. PICK m : m = MoveShares(ledger[c].totalShares, ledger[c].totalAssets,
                                ledger[c].shares[from], a)
    OBVIOUS
  <1>2. PICK g : g = [[ledger[c].shares EXCEPT ![from] = @ - m] EXCEPT ![to] = @ + m]
    OBVIOUS
  <1>3. UnifiedBalance(from, c) >= a /\ ledger' = [ledger EXCEPT ![c].shares = g]
    BY <1>1, <1>2 DEF Transfer
  <1>4. ledger \in [Currencies -> LedgerType]
    BY DEF TypeOK
  <1>5. /\ ledger' = [d \in Currencies |-> ledger'[d]]
        /\ \A d \in Currencies : d # c => ledger'[d] = ledger[d]
        /\ ledger'[c].shares = g
        /\ ledger'[c].totalShares = ledger[c].totalShares
        /\ ledger'[c].totalAssets = ledger[c].totalAssets
        /\ ledger'[c] = [shares |-> g, totalShares |-> ledger[c].totalShares,
                         totalAssets |-> ledger[c].totalAssets]
    BY <1>3, <1>4, ZenonT(90) DEF LedgerType
  <1>6. m \in Nat
    <2>1. PICK f \in [Users -> Nat], ts \in Nat, ta \in Nat :
             f = ledger[c].shares /\ ts = ledger[c].totalShares /\ ta = ledger[c].totalAssets
      BY <1>4, VaultAssumption DEF LedgerType
    <2>2. PICK own \in Nat : own = f[from]
      BY <2>1
    <2>3. m = MoveShares(ts, ta, own, a)
      BY <1>1, <2>1, <2>2
    <2>4. MoveShares(ts, ta, own, a) \in 0..own
      BY BurnBounds
    <2>5. QED
      BY <2>3, <2>4
  <1>7. Moved(c)
    <2>1. /\ UnifiedBalance(from, c) >= a
          /\ m = MoveShares(ledger[c].totalShares, ledger[c].totalAssets,
                            ledger[c].shares[from], a)
          /\ ledger'[c].shares =
               [[ledger[c].shares EXCEPT ![from] = @ - m] EXCEPT ![to] = @ + m]
          /\ ledger'[c].totalShares = ledger[c].totalShares
          /\ ledger'[c].totalAssets = ledger[c].totalAssets
      BY <1>1, <1>2, <1>3, <1>5
    <2>2. \E h : ledger'[c] = [shares |-> h, totalShares |-> ledger[c].totalShares,
                               totalAssets |-> ledger[c].totalAssets]
      BY <1>5
    <2>3. QED
      BY <1>6, <2>1, <2>2, ZenonT(90) DEF Moved
  <1>8. QED
    BY <1>5, <1>7 DEF BookStep

\* The calls that move money.
LEMMA MoneyBooks ==
    ASSUME VaultInv, Money
    PROVE  /\ ledger' = [d \in Currencies |-> ledger'[d]]
           /\ \A d \in Currencies : BookStep(d)
  <1>0. TypeOK /\ Amounts \subseteq Nat
    BY VaultAssumption DEF VaultInv
  <1>1. ASSUME NEW u \in Users, NEW c \in Currencies, NEW a \in Amounts, AdminCredit(u, c, a)
        PROVE  ledger' = [d \in Currencies |-> ledger'[d]] /\ \A d \in Currencies : BookStep(d)
    BY <1>0, <1>1, CreditOne DEF AdminCredit
  <1>2. ASSUME NEW u \in Users, NEW c \in Currencies, NEW a \in Amounts, AdminDebit(u, c, a)
        PROVE  ledger' = [d \in Currencies |-> ledger'[d]] /\ \A d \in Currencies : BookStep(d)
    BY <1>0, <1>2, DebitOne DEF AdminDebit
  <1>3. ASSUME NEW from \in Users, NEW to \in Users, NEW c \in Currencies, NEW a \in Amounts,
               Transfer(from, to, c, a)
        PROVE  ledger' = [d \in Currencies |-> ledger'[d]] /\ \A d \in Currencies : BookStep(d)
    BY <1>0, <1>3, TransferBooks
  <1>4. ASSUME NEW u \in Users, NEW t \in Tokens, NEW a \in Amounts, NEW r \in 0..a,
               DepositFromExternal(u, t, a, r)
        PROVE  ledger' = [d \in Currencies |-> ledger'[d]] /\ \A d \in Currencies : BookStep(d)
    <2>1. tokenCurrency[t] \in Currencies /\ r \in Nat
      BY <1>0, <1>4, TokenOfCurrency DEF DepositFromExternal
    <2>2. QED
      BY <1>0, <1>4, <2>1, CreditOne DEF DepositFromExternal
  <1>5. ASSUME NEW u \in Users, NEW t \in Tokens, NEW a \in Amounts, WithdrawToExternal(u, t, a)
        PROVE  ledger' = [d \in Currencies |-> ledger'[d]] /\ \A d \in Currencies : BookStep(d)
    <2>1. tokenCurrency[t] \in Currencies
      BY <1>0, <1>5, TokenOfCurrency DEF WithdrawToExternal
    <2>2. QED
      BY <1>0, <1>5, <2>1, DebitOne DEF WithdrawToExternal
  <1>6. ASSUME NEW u \in Users, NEW c \in Currencies, NEW a \in Amounts, NEW out \in Amounts,
               PurchaseUsd(u, c, a, out)
        PROVE  ledger' = [d \in Currencies |-> ledger'[d]] /\ \A d \in Currencies : BookStep(d)
    BY <1>0, <1>6, PurchaseBooks
  <1>7. ASSUME NEW c \in Currencies, NEW fee \in FeeBps, Harvest(c, fee)
        PROVE  ledger' = [d \in Currencies |-> ledger'[d]] /\ \A d \in Currencies : BookStep(d)
    <2>1. PICK y \in Nat, cut \in Nat, n \in 0..MaxAssets :
             /\ cut <= y /\ ledger[c].totalAssets \in Nat
             /\ n = ledger[c].totalAssets + (y - cut)
             /\ ledger' = [ledger EXCEPT ![c].totalAssets = n]
      BY <1>7, HarvestParts
    <2>2. n >= ledger[c].totalAssets
      BY <2>1
    <2>3. QED
      BY <1>0, <2>1, <2>2, RepriceCurrency DEF BookStep, Repriced
  <1>8. ASSUME NEW c \in Currencies, NEW n \in Corrections, ReconcileTotalAssets(c, n)
        PROVE  ledger' = [d \in Currencies |-> ledger'[d]] /\ \A d \in Currencies : BookStep(d)
    <2>1. n \in 0..MaxAssets /\ ledger' = [ledger EXCEPT ![c].totalAssets = n]
      BY <1>8, VaultAssumption DEF ReconcileTotalAssets
    <2>2. QED
      BY <1>0, <2>1, RepriceCurrency DEF BookStep, Repriced
  <1>9. ASSUME NEW c \in Currencies, NEW a \in Amounts, RecordPlatformReserve(c, a)
        PROVE  ledger' = [d \in Currencies |-> ledger'[d]] /\ \A d \in Currencies : BookStep(d)
    BY <1>0, <1>9, NoCurrencyStep DEF RecordPlatformReserve
  <1>10. ASSUME NEW t \in Tokens, NEW a \in Amounts, TokensArrive(t, a)
        PROVE  ledger' = [d \in Currencies |-> ledger'[d]] /\ \A d \in Currencies : BookStep(d)
    BY <1>0, <1>10, NoCurrencyStep DEF TokensArrive
  <1>11. QED
    BY <1>1, <1>2, <1>3, <1>4, <1>5, <1>6, <1>7, <1>8, <1>9, <1>10 DEF Money

\* The other calls: only payRemittance writes the books.
LEMMA OtherBooks ==
    ASSUME VaultInv, Remittance \/ Administration \/ Registry
    PROVE  /\ ledger' = [d \in Currencies |-> ledger'[d]]
           /\ \A d \in Currencies : BookStep(d)
  <1>0. TypeOK /\ Amounts \subseteq Nat
    BY VaultAssumption DEF VaultInv
  <1>1. ASSUME NEW u \in Users, NEW c \in Currencies, NEW a \in Amounts, NEW d \in Destinations,
               PayRemittance(u, c, a, d)
        PROVE  ledger' = [e \in Currencies |-> ledger'[e]] /\ \A e \in Currencies : BookStep(e)
    BY <1>0, <1>1, DebitOne DEF PayRemittance
  <1>2. CASE UNCHANGED ledger
    BY <1>0, <1>2, NoCurrencyStep
  <1>3. CASE Administration
    BY <1>2, <1>3 DEF Administration, AddToken, SetCurrencyTreasuryToken, SetConsumerContract,
       SetTrustedCounterparty, AddAllowedDestination, RemoveAllowedDestination, SetPaused, money
  <1>4. CASE Registry
    BY <1>2, <1>4 DEF Registry, RegistryRegisters, RegistryUpdatesKyc, RegistryRetires, money
  <1>5. CASE Remittance
    BY <1>1, <1>2, <1>5 DEF Remittance, StartRemittance, TreasuryMint, money
  <1>6. QED
    BY <1>3, <1>4, <1>5
(***************************************************************************)
(*                     Arrays that list a set                              *)
(***************************************************************************)

\* Pushing an entry that is not listed yet.
LEMMA AppendIndexed ==
    ASSUME NEW S, NEW s \in Seq(S), NEW e \in S, e \notin ToSet(s), IsInjective(s)
    PROVE  /\ Append(s, e) \in Seq(S)
           /\ ToSet(Append(s, e)) = ToSet(s) \cup {e}
           /\ IsInjective(Append(s, e))
  <1>1. PICK n \in Nat : n = Len(s)
    OBVIOUS
  <1>2. PICK r \in Seq(S) : r = Append(s, e)
    <2>1. Append(s, e) \in Seq(S)
      BY AppendProperties
    <2>2. QED
      BY <2>1
  <1>3. DOMAIN s = 1..n /\ DOMAIN r = 1..(n + 1) /\ r[n + 1] = e /\ \A i \in 1..n : r[i] = s[i]
    BY <1>1, <1>2
  <1>4. \A i \in 1..(n + 1) : i \in 1..n \/ i = n + 1
    OBVIOUS
  <1>5. ToSet(s) = {s[i] : i \in 1..n} /\ ToSet(r) = {r[i] : i \in 1..(n + 1)}
    BY <1>3 DEF ToSet
  <1>6. ToSet(r) = ToSet(s) \cup {e}
    <2>1. 1..n \subseteq 1..(n + 1) /\ n + 1 \in 1..(n + 1)
      OBVIOUS
    <2>2. QED
      BY <1>3, <1>4, <1>5, <2>1
  <1>7. \A i, j \in 1..(n + 1) : r[i] = r[j] => i = j
    <2>1. \A i \in 1..n : s[i] # e
      BY <1>5
    <2>2. \A i, j \in 1..n : s[i] = s[j] => i = j
      BY <1>3 DEF IsInjective
    <2>3. QED
      BY <1>3, <1>4, <2>1, <2>2
  <1>8. QED
    BY <1>2, <1>3, <1>6, <1>7 DEF IsInjective

\* Swapping an entry with the last one and popping removes exactly that entry.
LEMMA SwapAndPop ==
    ASSUME NEW S, NEW s \in Seq(S), IsInjective(s), NEW k \in 1..Len(s)
    PROVE  /\ Front(ReplaceAt(s, k, s[Len(s)])) \in Seq(S)
           /\ ToSet(Front(ReplaceAt(s, k, s[Len(s)]))) = ToSet(s) \ {s[k]}
           /\ IsInjective(Front(ReplaceAt(s, k, s[Len(s)])))
  <1>1. PICK n \in Nat : n = Len(s) /\ n > 0 /\ k \in 1..n
    OBVIOUS
  <1>2. PICK m \in Nat : m = n - 1
    BY <1>1
  <1>3. PICK w \in Seq(S) : w = ReplaceAt(s, k, s[Len(s)])
    <2>1. s[Len(s)] \in S
      BY <1>1, ElementOfSeq
    <2>2. QED
      BY <2>1, ExceptSeq DEF ReplaceAt
  <1>4. Len(w) = n /\ \A i \in 1..n : w[i] = IF i = k THEN s[n] ELSE s[i]
    BY <1>1, <1>3, ExceptSeq DEF ReplaceAt
  <1>5. PICK r : r = Front(w) /\ r = SubSeq(w, 1, m)
    BY <1>2, <1>4 DEF Front
  <1>6. r \in Seq(S) /\ DOMAIN r = 1..m /\ \A i \in 1..m : r[i] = w[i]
    <2>1. 1 \in 1..(Len(w) + 1) /\ m \in 0..Len(w)
      BY <1>1, <1>2, <1>4
    <2>2. SubSeq(w, 1, m) \in Seq(S) /\ Len(SubSeq(w, 1, m)) = m
             /\ \A i \in 1..m : SubSeq(w, 1, m)[i] = w[i]
      BY <1>2, <1>3, <2>1
    <2>3. QED
      BY <1>5, <2>2
  <1>7. \A i \in 1..m : i \in 1..n /\ i # n /\ r[i] = IF i = k THEN s[n] ELSE s[i]
    BY <1>1, <1>2, <1>4, <1>6
  <1>8. DOMAIN s = 1..n /\ \A i, j \in 1..n : s[i] = s[j] => i = j
    BY <1>1 DEF IsInjective
  <1>9. \A i \in 1..n : i \in 1..m \/ i = n
    BY <1>1, <1>2
  <1>10. ToSet(s) = {s[i] : i \in 1..n} /\ ToSet(r) = {r[i] : i \in 1..m}
    BY <1>6, <1>8 DEF ToSet
  <1>11. ToSet(r) \subseteq ToSet(s) \ {s[k]}
    BY <1>1, <1>7, <1>8, <1>10
  <1>12. ToSet(s) \ {s[k]} \subseteq ToSet(r)
    <2> SUFFICES ASSUME NEW i \in 1..n, s[i] # s[k]
                 PROVE  \E j \in 1..m : r[j] = s[i]
      BY <1>10
    <2>1. CASE i \in 1..m
      BY <1>7, <2>1
    <2>2. CASE i = n
      <3>1. k \in 1..m
        BY <1>1, <1>9, <2>2
      <3>2. r[k] = s[n]
        BY <1>7, <3>1
      <3>3. QED
        BY <2>2, <3>1, <3>2
    <2>3. QED
      BY <1>9, <2>1, <2>2
  <1>13. \A i, j \in 1..m : r[i] = r[j] => i = j
    BY <1>1, <1>7, <1>8
  <1>14. IsInjective(r)
    BY <1>6, <1>13 DEF IsInjective
  <1>15. QED
    BY <1>3, <1>5, <1>6, <1>11, <1>12, <1>14

\* The index removeAllowedDestination looks for: the entry's, 0 when it is not there.
LEMMA FindsEntry ==
    ASSUME NEW S, NEW s \in Seq(S), IsInjective(s), NEW d,
           NEW k, NEW I, I = {i \in 1..Len(s) : s[i] = d}, k = IF I # {} THEN Min(I) ELSE 0
    PROVE  /\ d \in ToSet(s) => k \in 1..Len(s) /\ s[k] = d /\ k > 0
           /\ d \notin ToSet(s) => k = 0
  <1>1. ToSet(s) = {s[i] : i \in 1..Len(s)} /\ \A i, j \in 1..Len(s) : s[i] = s[j] => i = j
    BY DEF ToSet, IsInjective
  <1>2. CASE d \in ToSet(s)
    <2>1. PICK i \in 1..Len(s) : s[i] = d
      BY <1>1, <1>2
    <2>2. I = {i}
      BY <1>1, <2>1
    <2>3. Min(I) = i
      BY <2>2 DEF Min
    <2>4. QED
      BY <1>2, <2>1, <2>2, <2>3
  <1>3. CASE d \notin ToSet(s)
    BY <1>1, <1>3
  <1>4. QED
    BY <1>2, <1>3
(***************************************************************************)
(*                         The invariant                                   *)
(***************************************************************************)

\* What initialize() leaves behind.
LEMMA VaultInit == Init => VaultInv
  <1> SUFFICES ASSUME Init PROVE VaultInv
    OBVIOUS
  <1>1. EmptyLedger \in LedgerType /\ EmptyLedger.totalShares = Total(EmptyLedger.shares)
    <2>1. Total([u \in Users |-> 0]) = 0
      BY TotalZero
    <2>2. QED
      BY <2>1, VaultAssumption DEF EmptyLedger, LedgerType
  <1>2. SharesIssued
    BY <1>1 DEF Init, SharesIssued
  <1>3. DOMAIN <<>> = {} /\ \A c \in Currencies : currencyTokenAt[c] = <<>>
    BY DEF Init
  <1>4. TokensIndexed
    BY <1>3, VaultAssumption DEF Init, TokensIndexed, ToSet, IsInjective
  <1>5. DestinationsIndexed
    <2>1. DOMAIN <<FirstDestination>> = {1} /\ <<FirstDestination>>[1] = FirstDestination
      OBVIOUS
    <2>2. QED
      BY <2>1 DEF Init, DestinationsIndexed, ToSet, IsInjective
  <1>6. TypeOK
    <2>1. ledger \in [Currencies -> LedgerType]
      BY <1>1 DEF Init
    <2>2. currencyTokenAt \in [Currencies -> Seq(Tokens)] /\ allowedDestinations \in Seq(Destinations)
      BY VaultAssumption DEF Init
    <2>3. QED
      BY <2>1, <2>2, VaultAssumption DEF Init, TypeOK
  <1>7. QED
    BY <1>2, <1>4, <1>5, <1>6 DEF VaultInv

\* The books stay sound, whatever is called.
LEMMA BooksStep ==
    ASSUME VaultInv, Next
    PROVE  /\ ledger' \in [Currencies -> LedgerType]
           /\ SharesIssued'
           /\ LedgerStep
  <1>1. /\ ledger' = [d \in Currencies |-> ledger'[d]]
        /\ \A d \in Currencies : BookStep(d)
    BY MoneyBooks, OtherBooks DEF Next
  <1>2. \A d \in Currencies : Sound(ledger[d])
    BY DEF VaultInv, TypeOK, SharesIssued, Sound
  <1>3. \A d \in Currencies : Sound(ledger'[d]) /\ (L(d)!Next \/ ledger'[d] = ledger[d])
    BY <1>1, <1>2, BookStepSound
  <1>4. ledger' \in [Currencies -> LedgerType]
    BY <1>1, <1>3 DEF Sound
  <1>5. SharesIssued'
    BY <1>3 DEF Sound, SharesIssued
  <1>6. LedgerStep
    BY <1>3 DEF LedgerStep
  <1>7. QED
    BY <1>4, <1>5, <1>6

\* The array of destinations keeps listing the set that gates remittances.
LEMMA DestinationsStep ==
    ASSUME VaultInv, Next
    PROVE  /\ DestinationsIndexed'
           /\ allowedDestinations' \in Seq(Destinations) /\ isAllowedDestination' \subseteq Destinations
  <1>0. /\ allowedDestinations \in Seq(Destinations) /\ isAllowedDestination \subseteq Destinations
        /\ ToSet(allowedDestinations) = isAllowedDestination /\ IsInjective(allowedDestinations)
    BY DEF VaultInv, TypeOK, DestinationsIndexed
  <1>1. CASE UNCHANGED corridor
    BY <1>0, <1>1 DEF corridor, DestinationsIndexed
  <1>2. ASSUME NEW d \in Destinations, AddAllowedDestination(d)
        PROVE  /\ DestinationsIndexed'
               /\ allowedDestinations' \in Seq(Destinations)
               /\ isAllowedDestination' \subseteq Destinations
    <2>1. CASE d \in isAllowedDestination
      BY <1>0, <1>2, <2>1 DEF AddAllowedDestination, DestinationsIndexed
    <2>2. CASE d \notin isAllowedDestination
      <3>1. /\ isAllowedDestination' = isAllowedDestination \cup {d}
            /\ allowedDestinations' = Append(allowedDestinations, d)
        BY <1>2, <2>2 DEF AddAllowedDestination
      <3>2. QED
        BY <1>0, <2>2, <3>1, AppendIndexed DEF DestinationsIndexed
    <2>3. QED
      BY <2>1, <2>2
  <1>3. ASSUME NEW d \in Destinations, RemoveAllowedDestination(d)
        PROVE  /\ DestinationsIndexed'
               /\ allowedDestinations' \in Seq(Destinations)
               /\ isAllowedDestination' \subseteq Destinations
    <2>1. PICK I, k : /\ I = {i \in 1..Len(allowedDestinations) : allowedDestinations[i] = d}
                      /\ k = IF I # {} THEN Min(I) ELSE 0
                      /\ k = SelectInSeq(allowedDestinations, LAMBDA e : e = d)
      BY DEF SelectInSeq
    <2>2. /\ isAllowedDestination' = isAllowedDestination \ {d}
          /\ allowedDestinations' =
               IF d \in isAllowedDestination /\ k > 0
               THEN Front(ReplaceAt(allowedDestinations, k,
                                    allowedDestinations[Len(allowedDestinations)]))
               ELSE allowedDestinations
      BY <1>3, <2>1 DEF RemoveAllowedDestination
    <2>3. CASE d \in isAllowedDestination
      <3>1. k \in 1..Len(allowedDestinations) /\ allowedDestinations[k] = d /\ k > 0
        BY <1>0, <2>1, <2>3, FindsEntry, ZenonT(90)
      <3>2. QED
        BY <1>0, <2>2, <2>3, <3>1, SwapAndPop DEF DestinationsIndexed
    <2>4. CASE d \notin isAllowedDestination
      BY <1>0, <2>2, <2>4 DEF DestinationsIndexed
    <2>5. QED
      BY <2>3, <2>4
  <1>4. CASE Administration
    BY <1>1, <1>2, <1>3, <1>4 DEF Administration, AddToken, SetCurrencyTreasuryToken,
       SetConsumerContract, SetTrustedCounterparty, SetPaused
  <1>5. CASE Money
    BY <1>1, <1>5 DEF Money, AdminCredit, AdminDebit, Transfer, DepositFromExternal,
       WithdrawToExternal, PurchaseUsd, RecordPlatformReserve, Harvest, ReconcileTotalAssets,
       TokensArrive
  <1>6. CASE Remittance \/ Registry
    BY <1>1, <1>6 DEF Remittance, Registry, StartRemittance, PayRemittance, TreasuryMint,
       RegistryRegisters, RegistryUpdatesKyc, RegistryRetires
  <1>7. QED
    BY <1>4, <1>5, <1>6 DEF Next

\* The token lists keep describing tokenCurrency.
LEMMA TokensStep ==
    ASSUME VaultInv, Next
    PROVE  /\ TokensIndexed'
           /\ tokenCurrency' \in [Tokens -> Currencies \cup {NoCurrency}]
           /\ currencyTokenAt' \in [Currencies -> Seq(Tokens)]
           /\ currencyTreasuryToken' \subseteq Currencies
  <1> DEFINE Goal == /\ TokensIndexed'
                     /\ tokenCurrency' \in [Tokens -> Currencies \cup {NoCurrency}]
                     /\ currencyTokenAt' \in [Currencies -> Seq(Tokens)]
                     /\ currencyTreasuryToken' \subseteq Currencies
  <1>0. /\ tokenCurrency \in [Tokens -> Currencies \cup {NoCurrency}]
        /\ currencyTokenAt \in [Currencies -> Seq(Tokens)]
        /\ currencyTreasuryToken \subseteq Currencies /\ TokensIndexed
    BY DEF VaultInv, TypeOK
  <1>1. CASE UNCHANGED tokens
    BY <1>0, <1>1 DEF tokens, TokensIndexed
  <1>2. ASSUME NEW t \in Tokens, NEW c \in Currencies, AddToken(t, c) PROVE Goal
    <2>1. /\ tokenCurrency[t] = NoCurrency /\ NoCurrency \notin Currencies
          /\ tokenCurrency' = [tokenCurrency EXCEPT ![t] = c]
          /\ currencyTokenAt' = [currencyTokenAt EXCEPT ![c] = Append(currencyTokenAt[c], t)]
          /\ currencyTreasuryToken' = currencyTreasuryToken
      BY <1>2, VaultAssumption DEF AddToken
    <2>2. PICK s \in Seq(Tokens) : s = currencyTokenAt[c]
      BY <1>0
    <2>3. t \notin ToSet(s) /\ IsInjective(s) /\ ToSet(s) = {x \in Tokens : tokenCurrency[x] = c}
      BY <1>0, <2>1, <2>2 DEF TokensIndexed
    <2>4. /\ Append(s, t) \in Seq(Tokens) /\ ToSet(Append(s, t)) = ToSet(s) \cup {t}
          /\ IsInjective(Append(s, t))
      BY <2>3, AppendIndexed
    <2>5. /\ currencyTokenAt'[c] = Append(s, t)
          /\ \A d \in Currencies : d # c => currencyTokenAt'[d] = currencyTokenAt[d]
          /\ \A x \in Tokens : tokenCurrency'[x] = IF x = t THEN c ELSE tokenCurrency[x]
      BY <1>0, <2>1, <2>2
    <2>6. \A d \in Currencies :
             /\ ToSet(currencyTokenAt'[d]) = {x \in Tokens : tokenCurrency'[x] = d}
             /\ IsInjective(currencyTokenAt'[d])
      <3> SUFFICES ASSUME NEW d \in Currencies
                   PROVE  /\ ToSet(currencyTokenAt'[d]) = {x \in Tokens : tokenCurrency'[x] = d}
                          /\ IsInjective(currencyTokenAt'[d])
        OBVIOUS
      <3>1. CASE d = c
        BY <2>3, <2>4, <2>5, <3>1
      <3>2. CASE d # c
        <4>1. /\ ToSet(currencyTokenAt[d]) = {x \in Tokens : tokenCurrency[x] = d}
              /\ IsInjective(currencyTokenAt[d])
          BY <1>0 DEF TokensIndexed
        <4>2. {x \in Tokens : tokenCurrency'[x] = d} = {x \in Tokens : tokenCurrency[x] = d}
          BY <2>1, <2>5, <3>2
        <4>3. QED
          BY <2>5, <3>2, <4>1, <4>2
      <3>3. QED
        BY <3>1, <3>2
    <2>7. TokensIndexed'
      BY <2>6 DEF TokensIndexed
    <2>8. QED
      BY <1>0, <2>1, <2>2, <2>4, <2>7
  <1>3. ASSUME NEW c \in Currencies, SetCurrencyTreasuryToken(c) PROVE Goal
    BY <1>0, <1>3 DEF SetCurrencyTreasuryToken, TokensIndexed
  <1>4. CASE Administration
    BY <1>1, <1>2, <1>3, <1>4 DEF Administration, AddAllowedDestination, RemoveAllowedDestination,
       SetConsumerContract, SetTrustedCounterparty, SetPaused
  <1>5. CASE Money
    BY <1>1, <1>5 DEF Money, AdminCredit, AdminDebit, Transfer, DepositFromExternal,
       WithdrawToExternal, PurchaseUsd, RecordPlatformReserve, Harvest, ReconcileTotalAssets,
       TokensArrive
  <1>6. CASE Remittance \/ Registry
    BY <1>1, <1>6 DEF Remittance, Registry, StartRemittance, PayRemittance, TreasuryMint,
       RegistryRegisters, RegistryUpdatesKyc, RegistryRetires
  <1>7. QED
    BY <1>4, <1>5, <1>6 DEF Next
\* No external balance goes below zero, no purchase or burn excepted.
LEMMA BalancesStep ==
    ASSUME VaultInv, Next
    PROVE  /\ held' \in [Tokens -> Nat]
           /\ platformReserveAssets' \in [Currencies -> Nat]
           /\ ttBalance' \in [Currencies -> [Users -> Nat]]
  <1> DEFINE Goal == /\ held' \in [Tokens -> Nat]
                     /\ platformReserveAssets' \in [Currencies -> Nat]
                     /\ ttBalance' \in [Currencies -> [Users -> Nat]]
  <1>0. /\ held \in [Tokens -> Nat]
        /\ platformReserveAssets \in [Currencies -> Nat]
        /\ ttBalance \in [Currencies -> [Users -> Nat]]
        /\ currencyTokenAt \in [Currencies -> Seq(Tokens)] /\ Amounts \subseteq Nat
        /\ TypeOK
    BY VaultAssumption DEF VaultInv, TypeOK
  <1>1. CASE UNCHANGED <<held, platformReserveAssets, ttBalance>>
    BY <1>0, <1>1
  <1>2. ASSUME NEW u \in Users, NEW c \in Currencies, NEW a \in Amounts, CanBurn(u, c, a)
        PROVE  Burned(u, c, a) \in [Currencies -> [Users -> Nat]]
    <2>1. CASE c \in currencyTreasuryToken
      <3>1. a \in Nat /\ ttBalance[c] \in [Users -> Nat] /\ ttBalance[c][u] - a \in Nat
        BY <1>0, <1>2, <2>1 DEF CanBurn
      <3>2. QED
        BY <1>0, <2>1, <3>1 DEF Burned
    <2>2. CASE c \notin currencyTreasuryToken
      BY <1>0, <2>2 DEF Burned
    <2>3. QED
      BY <2>1, <2>2
  <1>3. ASSUME NEW u \in Users, NEW t \in Tokens, NEW a \in Amounts, NEW r \in 0..a,
               DepositFromExternal(u, t, a, r)
        PROVE  Goal
    BY <1>0, <1>3 DEF DepositFromExternal
  <1>4. ASSUME NEW u \in Users, NEW t \in Tokens, NEW a \in Amounts, WithdrawToExternal(u, t, a)
        PROVE  Goal
    BY <1>0, <1>4 DEF WithdrawToExternal
  <1>5. ASSUME NEW u \in Users, NEW c \in Currencies, NEW a \in Amounts, NEW out \in Amounts,
               PurchaseUsd(u, c, a, out)
        PROVE  Goal
    <2>1. PICK t : t = currencyTokenAt[c][1]
      OBVIOUS
    <2>2. t \in Tokens /\ usdcToken \in Tokens /\ a \in Nat /\ out \in Nat
      <3>1. currencyTokenAt[c] \in Seq(Tokens) /\ currencyTokenAt[c] # <<>>
        BY <1>0, <1>5 DEF PurchaseUsd
      <3>2. QED
        BY <1>0, <2>1, <3>1, ElementOfSeq, VaultAssumption
    <2>3. /\ t # usdcToken /\ held[t] >= a
          /\ held' = [held EXCEPT ![t] = @ - a, ![usdcToken] = @ + out]
          /\ ttBalance' = Burned(u, c, a) /\ CanBurn(u, c, a)
          /\ platformReserveAssets' = platformReserveAssets
      BY <1>5, <2>1 DEF PurchaseUsd
    <2>4. held' \in [Tokens -> Nat]
      <3>1. held[t] \in Nat /\ held[usdcToken] \in Nat
        BY <1>0, <2>2
      <3>2. QED
        BY <1>0, <2>2, <2>3, <3>1, SMTT(60)
    <2>5. QED
      BY <1>0, <1>2, <2>3, <2>4
  <1>6. ASSUME NEW c \in Currencies, NEW a \in Amounts, RecordPlatformReserve(c, a) PROVE Goal
    BY <1>0, <1>6 DEF RecordPlatformReserve
  <1>7. ASSUME NEW c \in Currencies, NEW fee \in FeeBps, Harvest(c, fee) PROVE Goal
    <2>1. PICK cut \in Nat :
             \/ cut = 0 /\ held' = held
             \/ /\ cut > 0 /\ held[currencyTokenAt[c][1]] >= cut
                /\ held' = [held EXCEPT ![currencyTokenAt[c][1]] = @ - cut]
      BY <1>7, HarvestParts
    <2>2. held' \in [Tokens -> Nat]
      <3>1. PICK t : t = currencyTokenAt[c][1]
        OBVIOUS
      <3>2. CASE held' = held
        BY <1>0, <3>2
      <3>3. CASE held[t] >= cut /\ held' = [held EXCEPT ![t] = @ - cut]
        <4>1. CASE t \in Tokens
          <5>1. held[t] - cut \in Nat
            BY <1>0, <3>3, <4>1
          <5>2. QED
            BY <1>0, <3>3, <5>1
        <4>2. CASE t \notin Tokens
          BY <1>0, <3>3, <4>2
        <4>3. QED
          BY <4>1, <4>2
      <3>4. QED
        BY <2>1, <3>1, <3>2, <3>3
    <2>3. QED
      BY <1>0, <1>7, <2>2 DEF Harvest
  <1>8. ASSUME NEW t \in Tokens, NEW a \in Amounts, TokensArrive(t, a) PROVE Goal
    BY <1>0, <1>8 DEF TokensArrive
  <1>9. ASSUME NEW u \in Users, NEW c \in Currencies, NEW a \in Amounts, NEW d \in Destinations,
               PayRemittance(u, c, a, d)
        PROVE  Goal
    BY <1>0, <1>2, <1>9 DEF PayRemittance
  <1>10. ASSUME NEW c \in Currencies, NEW u \in Users, NEW a \in Amounts, TreasuryMint(c, u, a)
         PROVE  Goal
    BY <1>0, <1>10 DEF TreasuryMint
  <1>11. CASE Money
    BY <1>1, <1>3, <1>4, <1>5, <1>6, <1>7, <1>8, <1>11 DEF Money, AdminCredit, AdminDebit, Transfer,
       ReconcileTotalAssets
  <1>12. CASE Remittance
    BY <1>1, <1>9, <1>10, <1>12 DEF Remittance, StartRemittance, money
  <1>13. CASE Administration
    BY <1>1, <1>13 DEF Administration, AddToken, SetCurrencyTreasuryToken, SetConsumerContract,
       SetTrustedCounterparty, AddAllowedDestination, RemoveAllowedDestination, SetPaused, money
  <1>14. CASE Registry
    BY <1>1, <1>14 DEF Registry, RegistryRegisters, RegistryUpdatesKyc, RegistryRetires, money
  <1>15. QED
    BY <1>11, <1>12, <1>13, <1>14 DEF Next

\* The switches and the registry's state keep their types.
LEMMA SwitchesStep ==
    ASSUME VaultInv, Next
    PROVE  /\ remittanceLocked' \subseteq Users
           /\ consumerContract' \in BOOLEAN /\ paused' \in BOOLEAN
           /\ status' \in [Users -> {"unknown", "active", "retired"}]
           /\ kycLevel' \in [Users -> KycLevels]
           /\ trustedCounterparty' \subseteq Users
  <1>0. /\ remittanceLocked \subseteq Users
        /\ consumerContract \in BOOLEAN /\ paused \in BOOLEAN
        /\ status \in [Users -> {"unknown", "active", "retired"}]
        /\ kycLevel \in [Users -> KycLevels]
        /\ trustedCounterparty \subseteq Users
    BY DEF VaultInv, TypeOK
  <1>1. CASE Money
    BY <1>0, <1>1 DEF Money, AdminCredit, AdminDebit, Transfer, DepositFromExternal,
       WithdrawToExternal, PurchaseUsd, RecordPlatformReserve, Harvest, ReconcileTotalAssets,
       TokensArrive, registry, gate
  <1>2. CASE Remittance
    BY <1>0, <1>2 DEF Remittance, StartRemittance, PayRemittance, TreasuryMint, registry, gate
  <1>3. CASE Administration
    BY <1>0, <1>3 DEF Administration, AddToken, SetCurrencyTreasuryToken, SetConsumerContract,
       SetTrustedCounterparty, AddAllowedDestination, RemoveAllowedDestination, SetPaused,
       registry, gate
  <1>4. CASE Registry
    BY <1>0, <1>4 DEF Registry, RegistryRegisters, RegistryUpdatesKyc, RegistryRetires, gate
  <1>5. QED
    BY <1>1, <1>2, <1>3, <1>4 DEF Next

\* Every call keeps the invariant, and is a step of each currency's share ledger.
LEMMA VaultNext ==
    ASSUME VaultInv, [Next]_vars
    PROVE  VaultInv' /\ (LedgerStep \/ UNCHANGED vars)
  <1>1. CASE Next
    BY <1>1, BooksStep, DestinationsStep, TokensStep, BalancesStep, SwitchesStep
       DEF VaultInv, TypeOK
  <1>2. CASE UNCHANGED vars
    <2>1. UNCHANGED <<ledger, platformReserveAssets, tokenCurrency, currencyTokenAt, held,
             currencyTreasuryToken, ttBalance, remittanceLocked, isAllowedDestination,
             allowedDestinations, consumerContract, status, kycLevel, trustedCounterparty, paused>>
      BY <1>2 DEF vars, money, tokens, corridor, registry, gate
    <2>2. QED
      BY <1>2, <2>1 DEF VaultInv, TypeOK, SharesIssued, TokensIndexed, DestinationsIndexed
  <1>3. QED
    BY <1>1, <1>2

\* Vault.sol keeps its storage consistent in every order of calls: the amounts
\* stay naturals, the shares of a currency add up to its total, and the token and
\* destination arrays list exactly what their mappings say, without repetition.
THEOREM VaultInvariant == Spec => []VaultInv
  <1>1. VaultInv /\ [Next]_vars => VaultInv'
    BY VaultNext
  <1>2. QED
    BY VaultInit, <1>1, PTL DEF Spec

\* Vault.sol implements ShareLedger for every currency: each external call does to
\* each currency one of the ledger's five operations, or nothing.
THEOREM LedgerRefinement == Spec => LedgerRefined
  <1>1. Init => \A c \in Currencies : L(c)!Init
    BY DEF Init, EmptyLedger, L!Init
  <1>2. VaultInv /\ [Next]_vars => [LedgerStep]_vars
    BY VaultNext
  <1>3. QED
    BY VaultInvariant, <1>1, <1>2, PTL DEF Spec, LedgerRefined
(***************************************************************************)
(*                       Backing of a currency                             *)
(***************************************************************************)

\* The holdings of c when the vault's token balances are h.
Holdings(h, c) == Total([i \in 1..Len(currencyTokenAt[c]) |-> h[currencyTokenAt[c][i]]])

\* A change of one token's balance changes the holdings of its own currency by as
\* much, and no other's: each token is listed once, under its currency.
LEMMA HoldingsExcept ==
    ASSUME VaultInv, NEW c \in Currencies, NEW h \in [Tokens -> Nat], NEW t \in Tokens,
           NEW v \in Nat
    PROVE  /\ Holdings(h, c) \in Nat
           /\ Holdings([h EXCEPT ![t] = v], c) =
                IF tokenCurrency[t] = c THEN Holdings(h, c) - h[t] + v ELSE Holdings(h, c)
  <1>1. PICK s : s = currencyTokenAt[c]
    OBVIOUS
  <1>2. /\ s \in Seq(Tokens) /\ ToSet(s) = {x \in Tokens : tokenCurrency[x] = c}
        /\ IsInjective(s)
    BY <1>1 DEF VaultInv, TypeOK, TokensIndexed
  <1>3. PICK n \in Nat : n = Len(s) /\ DOMAIN s = 1..n
    BY <1>2
  <1>4. IsFiniteSet(1..n)
    BY FS_Interval
  <1>5. \A i \in 1..n : s[i] \in Tokens
    BY <1>2, <1>3, ElementOfSeq
  <1>6. PICK f \in [1..n -> Nat] : f = [i \in 1..n |-> h[s[i]]]
    BY <1>5
  <1>7. PICK h2 \in [Tokens -> Nat] : h2 = [h EXCEPT ![t] = v]
    OBVIOUS
  <1>8. PICK g : g = [i \in 1..n |-> h2[s[i]]]
    OBVIOUS
  <1>9. Holdings(h, c) = Total(f) /\ Holdings(h2, c) = Total(g) /\ Total(f) \in Nat
    BY <1>1, <1>3, <1>4, <1>6, <1>8, TotalType DEF Holdings
  <1>10. CASE tokenCurrency[t] = c
    <2>1. PICK k \in 1..n : s[k] = t
      BY <1>2, <1>3, <1>10 DEF ToSet
    <2>2. \A i \in 1..n : s[i] = t => i = k
      BY <1>2, <1>3, <2>1 DEF IsInjective
    <2>3. g = [f EXCEPT ![k] = v]
      BY <1>5, <1>6, <1>7, <1>8, <2>1, <2>2
    <2>4. Total([f EXCEPT ![k] = v]) = Total(f) - f[k] + v
      BY <1>4, TotalExcept
    <2>5. f[k] = h[t]
      BY <1>6, <2>1
    <2>6. QED
      BY <1>7, <1>9, <1>10, <2>3, <2>4, <2>5
  <1>11. CASE tokenCurrency[t] # c
    <2>1. \A i \in 1..n : s[i] # t
      BY <1>2, <1>3, <1>11 DEF ToSet
    <2>2. g = f
      BY <1>5, <1>6, <1>7, <1>8, <2>1
    <2>3. QED
      BY <1>7, <1>9, <1>11, <2>2
  <1>12. QED
    BY <1>10, <1>11

\* ActualHoldings before and after a call that adds no token.
LEMMA HoldingsNow ==
    ASSUME NEW c
    PROVE  /\ ActualHoldings(c) = Holdings(held, c)
           /\ currencyTokenAt' = currencyTokenAt => ActualHoldings(c)' = Holdings(held', c)
  BY DEF ActualHoldings, Holdings

\* A credit or a debit of a currency's books moves its assets by the amount.
LEMMA BookAssets ==
    ASSUME NEW l, NEW u, NEW a
    PROVE  /\ CreditAssets(l, u, a).totalAssets = l.totalAssets + a
           /\ DebitAssets(l, u, a).totalAssets = l.totalAssets - a
  BY DEF CreditAssets, DebitAssets

\* The numbers a surplus is made of.
LEMMA SurplusParts ==
    ASSUME VaultInv, NEW c \in Currencies
    PROVE  /\ ledger[c].totalAssets \in Nat /\ platformReserveAssets[c] \in Nat
           /\ Holdings(held, c) \in Nat
           /\ Surplus(c) = Holdings(held, c) - (ledger[c].totalAssets + platformReserveAssets[c])
  <1>1. TypeOK
    BY DEF VaultInv
  <1>2. ActualHoldings(c) \in Nat
    BY <1>1, HoldingsNat
  <1>3. ledger[c].totalAssets \in Nat /\ platformReserveAssets[c] \in Nat
    BY <1>1, VaultAssumption DEF TypeOK, LedgerType
  <1>4. QED
    BY <1>2, <1>3, HoldingsNow DEF Surplus, Liabilities

\* A deposit credits what arrives.
LEMMA DepositSurplus ==
    ASSUME VaultInv, NEW u \in Users, NEW t \in Tokens, NEW a \in Amounts, NEW r \in 0..a,
           DepositFromExternal(u, t, a, r), NEW c \in Currencies
    PROVE  Surplus(c)' = Surplus(c)
  <1>1. TypeOK /\ a \in Nat /\ r \in Nat /\ held \in [Tokens -> Nat]
    BY VaultAssumption, SMTT(60) DEF VaultInv, TypeOK
  <1>2. PICK d \in Currencies : d = tokenCurrency[t]
    BY <1>1, TokenOfCurrency DEF DepositFromExternal
  <1>3. PICK v \in Nat : v = held[t] + r
    BY <1>1
  <1>4. /\ held' = [held EXCEPT ![t] = v]
        /\ ledger' = [ledger EXCEPT ![d] = CreditAssets(ledger[d], u, r)]
        /\ platformReserveAssets' = platformReserveAssets /\ currencyTokenAt' = currencyTokenAt
    BY <1>1, <1>2, <1>3 DEF DepositFromExternal, tokens
  <1>5. /\ ledger'[d].totalAssets = ledger[d].totalAssets + r
        /\ c # d => ledger'[c] = ledger[c]
    BY <1>1, <1>4, BookAssets DEF TypeOK
  <1>6. Holdings(held', c) = IF c = d THEN Holdings(held, c) + r ELSE Holdings(held, c)
    <2>1. Holdings([held EXCEPT ![t] = v], c) =
            IF tokenCurrency[t] = c THEN Holdings(held, c) - held[t] + v ELSE Holdings(held, c)
      BY <1>1, HoldingsExcept
    <2>2. held[t] \in Nat /\ Holdings(held, c) \in Nat
      BY <1>1, SurplusParts
    <2>3. QED
      BY <1>1, <1>2, <1>3, <1>4, <2>1, <2>2
  <1>7. Surplus(c)' = Holdings(held', c) - (ledger'[c].totalAssets + platformReserveAssets[c])
    BY <1>4, HoldingsNow DEF Surplus, Liabilities
  <1>8. QED
    BY <1>1, <1>5, <1>6, <1>7, SurplusParts

\* A withdrawal debits what leaves.
LEMMA WithdrawSurplus ==
    ASSUME VaultInv, NEW u \in Users, NEW t \in Tokens, NEW a \in Amounts,
           WithdrawToExternal(u, t, a), NEW c \in Currencies
    PROVE  Surplus(c)' = Surplus(c)
  <1>1. TypeOK /\ a \in Nat /\ held \in [Tokens -> Nat]
    BY VaultAssumption DEF VaultInv, TypeOK
  <1>2. PICK d \in Currencies : d = tokenCurrency[t]
    BY <1>1, TokenOfCurrency DEF WithdrawToExternal
  <1>3. PICK v \in Nat : v = held[t] - a
    BY <1>1 DEF WithdrawToExternal
  <1>4. /\ held' = [held EXCEPT ![t] = v]
        /\ ledger' = [ledger EXCEPT ![d] = DebitAssets(ledger[d], u, a)]
        /\ platformReserveAssets' = platformReserveAssets /\ currencyTokenAt' = currencyTokenAt
    BY <1>1, <1>2, <1>3 DEF WithdrawToExternal, tokens
  <1>5. /\ ledger'[d].totalAssets = ledger[d].totalAssets - a
        /\ c # d => ledger'[c] = ledger[c]
    BY <1>1, <1>4, BookAssets DEF TypeOK
  <1>6. Holdings(held', c) = IF c = d THEN Holdings(held, c) - a ELSE Holdings(held, c)
    <2>1. Holdings([held EXCEPT ![t] = v], c) =
            IF tokenCurrency[t] = c THEN Holdings(held, c) - held[t] + v ELSE Holdings(held, c)
      BY <1>1, HoldingsExcept
    <2>2. held[t] \in Nat /\ Holdings(held, c) \in Nat
      BY <1>1, SurplusParts
    <2>3. QED
      BY <1>1, <1>2, <1>3, <1>4, <2>1, <2>2
  <1>7. Surplus(c)' = Holdings(held', c) - (ledger'[c].totalAssets + platformReserveAssets[c])
    BY <1>4, HoldingsNow DEF Surplus, Liabilities
  <1>8. QED
    BY <1>1, <1>5, <1>6, <1>7, SurplusParts

\* A purchase moves the local token and the local books, USDC and the USDC books.
LEMMA PurchaseSurplus ==
    ASSUME VaultInv, NEW u \in Users, NEW d \in Currencies, NEW a \in Amounts, NEW out \in Amounts,
           PurchaseUsd(u, d, a, out), tokenCurrency[usdcToken] = USDC_CODE, NEW c \in Currencies
    PROVE  Surplus(c)' = Surplus(c)
  <1>1. /\ TypeOK /\ a \in Nat /\ out \in Nat /\ held \in [Tokens -> Nat]
        /\ usdcToken \in Tokens /\ USDC_CODE \in Currencies /\ d # USDC_CODE
    BY VaultAssumption DEF VaultInv, TypeOK, PurchaseUsd
  <1>2. PICK t : t = currencyTokenAt[d][1]
    OBVIOUS
  <1>3. t \in Tokens /\ tokenCurrency[t] = d
    <2>1. currencyTokenAt[d] \in Seq(Tokens) /\ currencyTokenAt[d] # <<>>
      BY <1>1 DEF TypeOK, PurchaseUsd
    <2>2. 1 \in 1..Len(currencyTokenAt[d]) /\ 1 \in DOMAIN currencyTokenAt[d]
      BY <2>1
    <2>3. t \in ToSet(currencyTokenAt[d])
      BY <1>2, <2>2 DEF ToSet
    <2>4. QED
      BY <2>3 DEF VaultInv, TokensIndexed
  <1>4. PICK v \in Nat, w \in Nat : v = held[t] - a /\ w = held[usdcToken] + out
    BY <1>1, <1>2, <1>3 DEF PurchaseUsd
  <1>5. PICK h \in [Tokens -> Nat] : h = [held EXCEPT ![t] = v]
    BY <1>1
  <1>6. PICK l, k : /\ l = DebitAssets(ledger[d], u, a)
                    /\ k = CreditAssets(ledger[USDC_CODE], u, out)
    OBVIOUS
  <1>7. /\ t # usdcToken
        /\ held' = [held EXCEPT ![t] = v, ![usdcToken] = w]
        /\ ledger' = [ledger EXCEPT ![d] = l, ![USDC_CODE] = k]
        /\ platformReserveAssets' = platformReserveAssets /\ currencyTokenAt' = currencyTokenAt
    BY <1>1, <1>2, <1>3, <1>4, <1>6 DEF PurchaseUsd, tokens, TypeOK
  <1>8. held' = [h EXCEPT ![usdcToken] = w] /\ h[usdcToken] = held[usdcToken]
    BY <1>1, <1>3, <1>5, <1>7
  <1>9. /\ ledger'[d].totalAssets = ledger[d].totalAssets - a
        /\ ledger'[USDC_CODE].totalAssets = ledger[USDC_CODE].totalAssets + out
        /\ c # d /\ c # USDC_CODE => ledger'[c] = ledger[c]
    <2>1. l.totalAssets = ledger[d].totalAssets - a
      BY <1>6, BookAssets
    <2>2. k.totalAssets = ledger[USDC_CODE].totalAssets + out
      BY <1>6, BookAssets
    <2>3. ledger'[d] = l /\ ledger'[USDC_CODE] = k
          /\ (c # d /\ c # USDC_CODE => ledger'[c] = ledger[c])
      BY <1>1, <1>7 DEF TypeOK
    <2>4. QED
      BY <2>1, <2>2, <2>3
  <1>10. Holdings(h, c) = IF c = d THEN Holdings(held, c) - a ELSE Holdings(held, c)
    <2>1. Holdings([held EXCEPT ![t] = v], c) =
            IF tokenCurrency[t] = c THEN Holdings(held, c) - held[t] + v ELSE Holdings(held, c)
      BY <1>1, <1>3, HoldingsExcept, ZenonT(90)
    <2>2. held[t] \in Nat /\ Holdings(held, c) \in Nat
      BY <1>1, <1>3, SurplusParts
    <2>3. QED
      BY <1>1, <1>3, <1>4, <1>5, <2>1, <2>2
  <1>11. Holdings(held', c) = IF c = USDC_CODE THEN Holdings(h, c) + out ELSE Holdings(h, c)
    <2>1. /\ Holdings([h EXCEPT ![usdcToken] = w], c) =
               IF tokenCurrency[usdcToken] = c THEN Holdings(h, c) - h[usdcToken] + w
                                               ELSE Holdings(h, c)
          /\ Holdings(h, c) \in Nat
      BY <1>1, HoldingsExcept
    <2>2. held[usdcToken] \in Nat
      BY <1>1
    <2>3. QED
      BY <1>1, <1>4, <1>8, <2>1, <2>2
  <1>12. Surplus(c)' = Holdings(held', c) - (ledger'[c].totalAssets + platformReserveAssets[c])
    BY <1>7, HoldingsNow DEF Surplus, Liabilities
  <1>13. QED
    BY <1>1, <1>9, <1>10, <1>11, <1>12, SurplusParts

\* A harvest takes the yield to the unit.
LEMMA HarvestSurplus ==
    ASSUME VaultInv, NEW c \in Currencies, NEW fee \in FeeBps, Harvest(c, fee)
    PROVE  Surplus(c)' = 0
  <1>1. TypeOK /\ held \in [Tokens -> Nat]
    BY DEF VaultInv, TypeOK
  <1>2. PICK y \in Nat, cut \in Nat, n \in 0..MaxAssets :
             /\ y = ActualHoldings(c) - Liabilities(c) /\ y > 0 /\ cut <= y
             /\ n = ledger[c].totalAssets + (y - cut)
             /\ ledger' = [ledger EXCEPT ![c].totalAssets = n]
             /\ \/ cut = 0 /\ held' = held
                \/ /\ cut > 0 /\ held[currencyTokenAt[c][1]] >= cut
                   /\ held' = [held EXCEPT ![currencyTokenAt[c][1]] = @ - cut]
    BY HarvestParts
  <1>3. platformReserveAssets' = platformReserveAssets /\ currencyTokenAt' = currencyTokenAt
    BY DEF Harvest, tokens
  <1>4. ledger'[c].totalAssets = n
    BY <1>1, <1>2, RepriceCurrency DEF Reprices
  <1>5. /\ ledger[c].totalAssets \in Nat /\ platformReserveAssets[c] \in Nat
        /\ Holdings(held, c) \in Nat
        /\ y = Holdings(held, c) - (ledger[c].totalAssets + platformReserveAssets[c])
    BY <1>2, SurplusParts DEF Surplus
  <1>6. Holdings(held', c) = Holdings(held, c) - cut
    <2>1. CASE held' = held /\ cut = 0
      BY <1>5, <2>1
    <2>2. CASE held' # held \/ cut # 0
      <3>1. PICK s \in Seq(Tokens) : s = currencyTokenAt[c] /\ s # <<>>
        <4>1. currencyTokenAt[c] \in Seq(Tokens)
          BY <1>1 DEF TypeOK
        <4>2. ASSUME currencyTokenAt[c] = <<>> PROVE FALSE
          <5>1. [i \in 1..Len(currencyTokenAt[c]) |-> held[currencyTokenAt[c][i]]] = [i \in {} |-> 0]
            BY <4>2
          <5>2. Holdings(held, c) = 0
            BY <5>1, TotalZero DEF Holdings
          <5>3. QED
            BY <1>2, <1>5, <5>2
        <4>3. QED
          BY <4>1, <4>2
      <3>2. 1 \in 1..Len(s) /\ 1 \in DOMAIN s
        BY <3>1
      <3>3. PICK t \in Tokens : t = s[1] /\ tokenCurrency[t] = c
        <4>1. s[1] \in ToSet(currencyTokenAt[c])
          BY <3>1, <3>2 DEF ToSet
        <4>2. QED
          BY <4>1 DEF VaultInv, TokensIndexed
      <3>4. PICK v \in Nat : v = held[t] - cut /\ held' = [held EXCEPT ![t] = v]
        BY <1>1, <1>2, <2>2, <3>1, <3>3, SMTT(60)
      <3>5. Holdings([held EXCEPT ![t] = v], c) = Holdings(held, c) - held[t] + v
        BY <1>1, <3>3, HoldingsExcept, ZenonT(90)
      <3>6. held[t] \in Nat
        BY <1>1, <3>3
      <3>7. QED
        BY <1>5, <3>4, <3>5, <3>6
    <2>3. QED
      BY <2>1, <2>2
  <1>7. Surplus(c)' = Holdings(held', c) - (ledger'[c].totalAssets + platformReserveAssets[c])
    BY <1>3, HoldingsNow DEF Surplus, Liabilities
  <1>8. QED
    BY <1>2, <1>4, <1>5, <1>6, <1>7

\* Deposits, withdrawals and purchases of Vault.sol leave every currency exactly as
\* well backed as it was, and a harvest leaves no yield and no shortfall behind.
THEOREM SurplusKept == Spec => MovesKeepSurplus
  <1> DEFINE Moves == \/ \E u \in Users, t \in Tokens, a \in Amounts : \E r \in 0..a :
                            DepositFromExternal(u, t, a, r)
                      \/ \E u \in Users, t \in Tokens, a \in Amounts : WithdrawToExternal(u, t, a)
                      \/ /\ tokenCurrency[usdcToken] = USDC_CODE
                         /\ \E u \in Users, c \in Currencies, a, out \in Amounts :
                               PurchaseUsd(u, c, a, out)
             Kept == Moves => \A c \in Currencies : Surplus(c)' = Surplus(c)
             Taken == \A c \in Currencies : (\E fee \in FeeBps : Harvest(c, fee)) => Surplus(c)' = 0
  <1>1. VaultInv => Kept
    BY DepositSurplus, WithdrawSurplus, PurchaseSurplus
  <1>2. VaultInv => Taken
    BY HarvestSurplus
  <1>3. MovesKeepSurplus <=> [][Kept]_vars /\ [][Taken]_vars
    BY DEF MovesKeepSurplus
  <1> HIDE DEF Kept, Taken
  <1>4. QED
    BY VaultInvariant, <1>1, <1>2, <1>3, PTL

-----------------------------------------------------------------------------
(***************************************************************************)
(* How a person becomes a consumer: how far a request has come, what its   *)
(* wallet is on the chain, in the name service and in the tables.          *)
(***************************************************************************)
Early == {"signer", "deploy"}
Middle == {"idos", "mint", "mint_bare", "point", "point_bare", "sponsor", "sponsor_bare", "db", "db_bare"}
Late == {"finish", "credential", "answer"}
LivePcs == Early \cup Middle \cup Late
Live(r) == run[r].pc \in LivePcs
Owned(k) == \E w \in DOMAIN owner : owner[w] = k
Tried(k) == k[2] <= page[k[1]].tries

\* The fields of a request, a page, an attempt and a consumer's row.
IsRun(x) == x = [pc |-> x.pc, tag |-> x.tag, wallet |-> x.wallet]
IsPage(x) == x = [at |-> x.at, tries |-> x.tries] /\ x.tries \in Nat
IsAttempt(x) == x = [status |-> x.status, step |-> x.step, wallet |-> x.wallet]
IsRow(x) == x = [tag |-> x.tag, id |-> x.id, level |-> x.level, idos |-> x.idos]
IsConsumer(x) == x = [saveWallet |-> x.saveWallet, usdWallet |-> x.usdWallet, ens |-> x.ens,
                      countryCode |-> x.countryCode, kycLevel |-> x.kycLevel,
                      isActive |-> x.isActive, globalConsumerId |-> x.globalConsumerId]

PagesOk == page = [p \in Persons |-> page[p]] /\ \A p \in Persons : IsPage(page[p])
RunsOk ==
    /\ run = [r \in Runs |-> run[r]]
    /\ \A r \in Runs : /\ IsRun(run[r]) /\ run[r].pc \in LivePcs \cup {"none", "post", "done"}
                       /\ run[r].pc # "none" => run[r].tag \in Names /\ Tried(r[1])

\* A passkey's challenge admits one request, which may deploy one wallet for it.
OneRequest ==
    /\ challenges \subseteq Passkeys /\ \A k \in challenges : Tried(k) /\ ~Owned(k)
    /\ \A r \in Runs : Live(r) =>
          r[1] \notin challenges /\ \A o \in Runs : o[1] = r[1] /\ Live(o) => o = r
    /\ \A r \in Runs : run[r].pc \in Early => ~Owned(r[1])
OneWallet ==
    /\ \A w \in DOMAIN owner : owner[w] \in Passkeys /\ Tried(owner[w])
    /\ \A v, w \in DOMAIN owner : owner[v] = owner[w] => v = w
    /\ \A r \in Runs :
          /\ run[r].wallet # NoWallet => run[r].wallet \in DOMAIN owner /\ owner[run[r].wallet] = r[1]
          /\ run[r].pc \in Middle \cup Late => run[r].wallet # NoWallet
          /\ run[r].pc \in Early \cup {"none", "post"} => run[r].wallet = NoWallet
    /\ \A r, o \in Runs : run[r].wallet = run[o].wallet /\ run[r].wallet # NoWallet => r = o

\* What the registry knows of the wallets it deployed, and the name service with it.
ChainTypes ==
    /\ DOMAIN owner \subseteq DOMAIN consumers /\ DOMAIN consumers \subseteq Wallets
    /\ \A w \in DOMAIN consumers : IsConsumer(consumers[w])
    /\ ensByHash \in [Names -> Wallets \cup {NoWallet}] /\ consumerById \in [Ids -> Wallets \cup {NoWallet}]
    /\ nextGlobalId = Cardinality(DOMAIN owner) /\ names = [n \in Names |-> names[n]]
Indexed ==
    \A w \in DOMAIN consumers :
        /\ consumers[w].ens \in Names /\ ensByHash[consumers[w].ens] # NoWallet
        /\ consumers[w].globalConsumerId \in 0 .. nextGlobalId - 1
        /\ consumers[w].isActive =>
              ensByHash[consumers[w].ens] = w /\ consumerById[consumers[w].globalConsumerId] = w
OwnersKnown ==
    /\ \A w \in DOMAIN owner : w \notin recovered => consumers[w].isActive
    /\ \A v, w \in DOMAIN owner :
          /\ consumers[v].ens = consumers[w].ens => v = w
          /\ consumers[v].globalConsumerId = consumers[w].globalConsumerId => v = w
    /\ \A r \in Runs : run[r].wallet # NoWallet => consumers[run[r].wallet].ens = run[r].tag
Named ==
    /\ \A n \in Names : ensByHash[n] = NoWallet => names[n] = "free"
    /\ \A w \in DOMAIN owner : names[consumers[w].ens] \in {"free", "minted", w}

\* The tables follow the chain.
RowsOk ==
    /\ DOMAIN rows \subseteq DOMAIN owner
    /\ \A w \in DOMAIN rows : /\ IsRow(rows[w]) /\ rows[w].tag = consumers[w].ens
                              /\ rows[w].id = consumers[w].globalConsumerId
    /\ \A r \in Runs : /\ run[r].pc \in Middle => run[r].wallet \notin DOMAIN rows
                       /\ run[r].pc \in Late => run[r].wallet \in DOMAIN rows
CredsOk ==
    /\ \A k \in DOMAIN creds : creds[k] \in DOMAIN rows /\ owner[creds[k]] = k
    /\ \A r \in Runs : run[r].pc = "answer" => r[1] \in DOMAIN creds /\ creds[r[1]] = run[r].wallet
    /\ token = [p \in Persons |-> token[p]]
    /\ \A p \in Persons : token[p] # NoWallet => \E k \in DOMAIN creds : k[1] = p /\ creds[k] = token[p]
ClerkOk ==
    /\ clerk = [pc |-> clerk.pc, wallet |-> clerk.wallet, level |-> clerk.level]
    /\ clerk.pc \in {"mirror", "ok"} =>
          clerk.wallet \in DOMAIN consumers /\ consumers[clerk.wallet].kycLevel = clerk.level
    /\ clerk.pc = "ok" => clerk.wallet \in DOMAIN rows /\ rows[clerk.wallet].level = clerk.level

\* The attempts are what the requests did, unless a receipt or a tracking write was lost.
Traced == faults \cap {"lost", "step"} = {}
AttemptOk(r) ==
    /\ attempts[r].wallet = run[r].wallet
    /\ run[r].pc \in Early \cup Middle => attempts[r].status = "started"
    /\ attempts[r].status = "completed" => run[r].wallet \in DOMAIN rows
    /\ run[r].wallet \in DOMAIN rows => attempts[r].status \in {"started", "completed"}
FunnelOk ==
    /\ attempts = [r \in Runs |-> attempts[r]] /\ \A r \in Runs : IsAttempt(attempts[r])
    /\ Traced => /\ \A r \in Runs : AttemptOk(r)
                 /\ \A w \in DOMAIN owner : \E r \in Runs : run[r].wallet = w

KeysOk == PagesOk /\ RunsOk /\ OneRequest /\ OneWallet
ChainOk == ChainTypes /\ Indexed /\ OwnersKnown /\ Named
TablesOk == RowsOk /\ CredsOk /\ ClerkOk
OnboardInv == KeysOk /\ ChainOk /\ TablesOk /\ FunnelOk

\* A passkey is a person and the number of an attempt to sign up.
LEMMA KeyParts ==
    /\ \A k \in Passkeys : k[1] \in Persons /\ k[2] \in Nat
    /\ \A p \in Persons, n \in Nat \ {0} : n <= MaxTries[p] =>
          <<p, n>> \in Passkeys /\ <<p, n>>[1] = p /\ <<p, n>>[2] = n
  <1>1. \A p \in Persons : MaxTries[p] \in Nat
    BY OnboardAssumption
  <1>2. ASSUME NEW k \in Passkeys PROVE k[1] \in Persons /\ k[2] \in Nat
    <2>1. PICK p \in Persons : k \in {p} \X (1 .. MaxTries[p])
      BY DEF Passkeys
    <2> QED BY <1>1, <2>1
  <1>3. ASSUME NEW p \in Persons, NEW n \in Nat \ {0}, n <= MaxTries[p]
        PROVE  <<p, n>> \in Passkeys /\ <<p, n>>[1] = p /\ <<p, n>>[2] = n
    <2>1. <<p, n>> \in {p} \X (1 .. MaxTries[p])
      BY <1>1, <1>3
    <2> QED BY <2>1 DEF Passkeys
  <1> QED BY <1>2, <1>3

\* A request is a passkey and which of the two copies it is.
LEMMA RunParts ==
    /\ \A r \in Runs : r[1] \in Passkeys /\ r[2] \in {1, 2} /\ r = <<r[1], r[2]>>
    /\ \A k \in Passkeys, i \in {1, 2} : <<k, i>> \in Runs /\ <<k, i>>[1] = k /\ <<k, i>>[2] = i
  BY DEF Runs

\* The stages of a request are distinct.
LEMMA Stages ==
    /\ Early \cap Middle = {} /\ Early \cap Late = {} /\ Middle \cap Late = {}
    /\ \A pc \in LivePcs : pc \notin {"none", "post", "done"} /\ pc \in Early \cup Middle \cup Late
    /\ Early \cup Middle \cup Late \subseteq LivePcs /\ "done" \notin LivePcs /\ "post" \notin LivePcs
    /\ "none" \notin LivePcs
  BY DEF Early, Middle, Late, LivePcs

\* One request becomes x; the others stay.
RunBecomes(r, x) == run' = [run EXCEPT ![r] = x]

\* What the requests are after one of them became x.
LEMMA RunFacts ==
    ASSUME RunsOk, NEW r \in Runs, NEW x, RunBecomes(r, x)
    PROVE  run'[r] = x /\ (\A o \in Runs \ {r} : run'[o] = run[o]) /\ run' = [o \in Runs |-> run'[o]]
  BY DEF RunsOk, RunBecomes

\* A request that goes on keeps its tag and its wallet.
GoesOn(r, pc, x) ==
    /\ IsRun(x) /\ RunBecomes(r, x)
    /\ x.pc = pc /\ x.tag = run[r].tag /\ x.wallet = run[r].wallet

\* A request that advances keeps its tag and its wallet.
LEMMA AdvanceFacts ==
    ASSUME RunsOk, NEW r \in Runs, NEW pc, Advance(r, pc)
    PROVE  \E x : GoesOn(r, pc, x)
  <1> DEFINE y == run[r]
             x == [pc |-> pc, tag |-> y.tag, wallet |-> y.wallet]
  <1>1. IsRun(y)
    BY Zenon DEF RunsOk
  <1>2. run' = [run EXCEPT ![r] = [y EXCEPT !.pc = pc]]
    BY DEF Advance, RunsOk
  <1>3. [y EXCEPT !.pc = pc] = x
    <2> HIDE DEF y
    <2> QED BY <1>1 DEF IsRun
  <1>4. RunBecomes(r, x)
    BY <1>2, <1>3, Zenon DEF RunBecomes
  <1>5. IsRun(x) /\ x.pc = pc /\ x.tag = run[r].tag /\ x.wallet = run[r].wallet
    BY DEF IsRun
  <1> HIDE DEF x
  <1> QED BY <1>4, <1>5, Zenon DEF GoesOn

\* The pages keep count of the passkeys.
PagesStay == PagesOk' /\ \A p \in Persons : page'[p].tries = page[p].tries

\* Showing an error leaves the count of passkeys each person created.
LEMMA ErrorShown ==
    ASSUME PagesOk, NEW r \in Runs, ShowError(r)
    PROVE  PagesStay
  <1>1. CASE page' = page
    BY <1>1, Zenon DEF PagesStay, PagesOk
  <1>2. CASE page' = [page EXCEPT ![Person(r)].at = "form"]
    <2>1. Person(r) \in Persons
      BY RunParts, KeyParts, Zenon DEF Person
    <2> DEFINE q == Person(r)
               y == page[q]
               x == [at |-> "form", tries |-> y.tries]
    <2>2. IsPage(y)
      BY <2>1, Zenon DEF PagesOk
    <2>3. page' = [page EXCEPT ![q] = [y EXCEPT !.at = "form"]]
      BY <1>2, <2>1 DEF PagesOk
    <2>4. [y EXCEPT !.at = "form"] = x
      <3> HIDE DEF y, q
      <3> QED BY <2>2 DEF IsPage
    <2>5. IsPage(x) /\ x.tries = y.tries
      BY <2>2 DEF IsPage
    <2> HIDE DEF x
    <2>6. page' = [p \in Persons |-> page'[p]] /\ page'[q] = x /\ \A p \in Persons \ {q} : page'[p] = page[p]
      BY <2>1, <2>3, <2>4 DEF PagesOk
    <2>7. \A p \in Persons : IsPage(page'[p]) /\ page'[p].tries = page[p].tries
      <3> TAKE p \in Persons
      <3>1. CASE p = q
        BY <2>5, <2>6, <3>1, Zenon
      <3>2. CASE p # q
        BY <2>6, <3>2, Zenon DEF PagesOk
      <3> QED BY <3>1, <3>2
    <2> QED BY <2>6, <2>7, Zenon DEF PagesStay, PagesOk
  <1> QED BY <1>1, <1>2, Zenon DEF ShowError

\* Which passkeys were created, when no page creates one.
LEMMA TriedStays ==
    ASSUME PagesStay
    PROVE  \A k \in Passkeys : Tried(k)' <=> Tried(k)
  BY KeyParts, Zenon DEF PagesStay, Tried

PagesGrow == PagesOk' /\ \A p \in Persons : page'[p].tries >= page[p].tries

\* A passkey that was created stays created.
LEMMA TriedGrows ==
    ASSUME PagesOk, PagesGrow
    PROVE  \A k \in Passkeys : Tried(k) => Tried(k)'
  <1> TAKE k \in Passkeys
  <1>1. k[1] \in Persons /\ k[2] \in Nat
    BY KeyParts, Zenon
  <1>2. page[k[1]].tries \in Nat /\ page'[k[1]].tries \in Nat
    BY <1>1, Zenon DEF PagesGrow, PagesOk, IsPage
  <1>3. page'[k[1]].tries >= page[k[1]].tries
    BY <1>1, Zenon DEF PagesGrow
  <1> QED BY <1>1, <1>2, <1>3 DEF Tried

\* A page that stays has not gone back.
LEMMA StayGrows ==
    ASSUME PagesOk, PagesStay
    PROVE  PagesGrow
  <1>1. \A p \in Persons : page[p].tries \in Nat
    BY Zenon DEF PagesOk, IsPage
  <1>2. \A p \in Persons : page'[p].tries >= page[p].tries
    BY <1>1 DEF PagesStay
  <1> QED BY <1>2, Zenon DEF PagesStay, PagesGrow

\* One request becomes x; a wallet may be deployed for its passkey.
LEMMA MoveKeys ==
    ASSUME KeysOk, NEW r \in Runs, NEW x, RunBecomes(r, x), IsRun(x), PagesGrow, Tried(r[1])',
           x.pc \in LivePcs \cup {"post", "done"}, x.tag \in Names,
           challenges' \subseteq Passkeys, \A k \in challenges' : Tried(k)' /\ ~Owned(k)',
           \A o \in Runs \ {r} : Live(o) => o[1] \notin challenges' /\ (o[1] = r[1] => x.pc \notin LivePcs),
           x.pc \in LivePcs => r[1] \notin challenges',
           \A o \in Runs \ {r} : run[o].pc \in Early => ~Owned(o[1])',
           x.pc \in Early => ~Owned(r[1])',
           \A w \in DOMAIN owner : w \in DOMAIN owner' /\ owner'[w] = owner[w],
           \A w \in DOMAIN owner' : owner'[w] \in Passkeys /\ Tried(owner[w])',
           \A v, w \in DOMAIN owner' : owner'[v] = owner'[w] => v = w,
           x.wallet # NoWallet => x.wallet \in DOMAIN owner' /\ owner'[x.wallet] = r[1],
           x.pc \in Middle \cup Late => x.wallet # NoWallet,
           x.pc \in Early \cup {"post"} => x.wallet = NoWallet,
           \A o \in Runs \ {r} : x.wallet # NoWallet => run[o].wallet # x.wallet
    PROVE  KeysOk'
  <1>1. run'[r] = x /\ (\A o \in Runs \ {r} : run'[o] = run[o]) /\ run' = [o \in Runs |-> run'[o]]
    BY RunFacts, Zenon DEF KeysOk
  <1>2. \A k \in Passkeys : Tried(k) => Tried(k)'
    BY TriedGrows, Zenon DEF KeysOk
  <1>3. x.pc # "none"
    BY Stages
  <1>4. PagesOk'
    BY Zenon DEF PagesGrow
  <1>5. RunsOk'
    <2>1. ASSUME NEW o \in Runs
          PROVE  /\ IsRun(run'[o]) /\ run'[o].pc \in LivePcs \cup {"none", "post", "done"}
                 /\ run'[o].pc # "none" => run'[o].tag \in Names /\ Tried(o[1])'
      <3>1. o[1] \in Passkeys
        BY RunParts, Zenon
      <3>2. CASE o = r
        <4>1. run'[o] = x
          BY <1>1, <3>2, Zenon
        <4>2. Tried(o[1])'
          BY <3>2, Zenon
        <4>3. x.pc \in LivePcs \cup {"none", "post", "done"}
          OBVIOUS
        <4> QED BY <4>1, <4>2, <4>3, Zenon
      <3>3. CASE o # r
        <4>1. run'[o] = run[o]
          BY <1>1, <3>3, Zenon
        <4>2. /\ IsRun(run[o]) /\ run[o].pc \in LivePcs \cup {"none", "post", "done"}
              /\ run[o].pc # "none" => run[o].tag \in Names /\ Tried(o[1])
          BY Zenon DEF KeysOk, RunsOk
        <4> QED BY <1>2, <3>1, <4>1, <4>2, Zenon
      <3> QED BY <3>2, <3>3
    <2> QED BY <1>1, <2>1, Zenon DEF RunsOk
  <1>6. \A o \in Runs : o # r => (Live(o)' <=> Live(o))
    BY <1>1, Zenon DEF Live
  <1>7. Live(r)' <=> x.pc \in LivePcs
    BY <1>1, Zenon DEF Live
  <1>8. OneRequest'
    <2>1. ASSUME NEW o \in Runs, Live(o)'
          PROVE  o[1] \notin challenges' /\ \A q \in Runs : q[1] = o[1] /\ Live(q)' => q = o
      <3>1. CASE o = r
        BY <1>6, <1>7, <2>1, <3>1, Zenon
      <3>2. CASE o # r
        <4>1. Live(o) /\ o[1] \notin challenges' /\ (o[1] = r[1] => ~Live(r)')
          BY <1>6, <1>7, <2>1, <3>2
        <4>2. \A q \in Runs : q[1] = o[1] /\ Live(q) => q = o
          BY <4>1, Zenon DEF KeysOk, OneRequest
        <4> QED BY <1>6, <4>1, <4>2, Zenon
      <3> QED BY <3>1, <3>2
    <2>2. ASSUME NEW o \in Runs, run'[o].pc \in Early PROVE ~Owned(o[1])'
      <3>1. CASE o = r
        <4>1. x.pc \in Early
          BY <1>1, <2>2, <3>1, Zenon
        <4> QED BY <3>1, <4>1, Zenon
      <3>2. CASE o # r
        <4>1. o \in Runs \ {r} /\ run[o].pc \in Early
          BY <1>1, <2>2, <3>2
        <4> QED BY <4>1, Zenon
      <3> QED BY <3>1, <3>2
    <2> QED BY <2>1, <2>2, Zenon DEF OneRequest
  <1>9. OneWallet'
    <2>1. ASSUME NEW o \in Runs
          PROVE  /\ run'[o].wallet # NoWallet => run'[o].wallet \in DOMAIN owner' /\ owner'[run'[o].wallet] = o[1]
                 /\ run'[o].pc \in Middle \cup Late => run'[o].wallet # NoWallet
                 /\ run'[o].pc \in Early \cup {"none", "post"} => run'[o].wallet = NoWallet
      <3>1. CASE o = r
        <4>1. run'[o] = x
          BY <1>1, <3>1, Zenon
        <4>2. x.wallet # NoWallet => x.wallet \in DOMAIN owner' /\ owner'[x.wallet] = o[1]
          BY <3>1, Zenon
        <4>3. x.pc \in Middle \cup Late => x.wallet # NoWallet
          BY Zenon
        <4>4. x.pc \in Early \cup {"none", "post"} => x.wallet = NoWallet
          BY <1>3
        <4> QED BY <4>1, <4>2, <4>3, <4>4, Zenon
      <3>2. CASE o # r
        <4>1. run'[o] = run[o]
          BY <1>1, <3>2, Zenon
        <4>2. /\ run[o].wallet # NoWallet => run[o].wallet \in DOMAIN owner /\ owner[run[o].wallet] = o[1]
              /\ run[o].pc \in Middle \cup Late => run[o].wallet # NoWallet
              /\ run[o].pc \in Early \cup {"none", "post"} => run[o].wallet = NoWallet
          BY Zenon DEF KeysOk, OneWallet
        <4> QED BY <4>1, <4>2, Zenon
      <3> QED BY <3>1, <3>2
    <2>2. \A o, q \in Runs : run[o].wallet = run[q].wallet /\ run[o].wallet # NoWallet => o = q
      BY Zenon DEF KeysOk, OneWallet
    <2>3. ASSUME NEW o \in Runs, NEW q \in Runs, run'[o].wallet = run'[q].wallet, run'[o].wallet # NoWallet
          PROVE  o = q
      <3>1. CASE o = r /\ q = r
        BY <3>1
      <3>2. CASE o = r /\ q # r
        <4>1. x.wallet # NoWallet /\ run[q].wallet = x.wallet /\ q \in Runs \ {r}
          BY <1>1, <2>3, <3>2
        <4> QED BY <4>1, Zenon
      <3>3. CASE o # r /\ q = r
        <4>1. x.wallet # NoWallet /\ run[o].wallet = x.wallet /\ o \in Runs \ {r}
          BY <1>1, <2>3, <3>3
        <4> QED BY <4>1, Zenon
      <3>4. CASE o # r /\ q # r
        <4>1. run'[o] = run[o] /\ run'[q] = run[q]
          BY <1>1, <3>4, Zenon
        <4> QED BY <2>2, <2>3, <4>1, Zenon
      <3> QED BY <3>1, <3>2, <3>3, <3>4
    <2> QED BY <2>1, <2>3, Zenon DEF OneWallet
  <1> QED BY <1>4, <1>5, <1>8, <1>9 DEF KeysOk

\* No wallet deployed: the owners stay what they were.
LEMMA OwnersStill ==
    ASSUME KeysOk, PagesGrow, owner' = owner
    PROVE  /\ \A w \in DOMAIN owner : w \in DOMAIN owner' /\ owner'[w] = owner[w]
           /\ \A w \in DOMAIN owner' : owner'[w] \in Passkeys /\ Tried(owner[w])'
           /\ \A v, w \in DOMAIN owner' : owner'[v] = owner'[w] => v = w
           /\ \A k \in Passkeys : Owned(k)' <=> Owned(k)
  <1>1. \A k \in Passkeys : Tried(k) => Tried(k)'
    BY TriedGrows, Zenon DEF KeysOk
  <1>2. \A w \in DOMAIN owner : owner[w] \in Passkeys /\ Tried(owner[w])
    BY Zenon DEF KeysOk, OneWallet
  <1>3. \A v, w \in DOMAIN owner : owner[v] = owner[w] => v = w
    BY Zenon DEF KeysOk, OneWallet
  <1>4. \A w \in DOMAIN owner' : owner'[w] \in Passkeys /\ Tried(owner[w])'
    <2> TAKE w \in DOMAIN owner'
    <2> PICK k : k = owner[w]
      OBVIOUS
    <2>1. owner'[w] = k /\ k \in Passkeys /\ Tried(k)
      BY <1>2
    <2>2. Tried(k)'
      BY <1>1, <2>1
    <2> QED BY <2>1, <2>2 DEF Tried
  <1>5. \A k \in Passkeys : Owned(k)' <=> Owned(k)
    BY Zenon DEF Owned
  <1> QED BY <1>3, <1>4, <1>5

\* A request goes on or ends.
LEMMA StepKeys ==
    ASSUME KeysOk, NEW r \in Runs, NEW x, GoesOn(r, x.pc, x), PagesGrow, owner' = owner,
           challenges' \subseteq challenges, x.pc \in LivePcs \cup {"done"}, run[r].pc # "none",
           x.pc \in LivePcs => r[1] \notin challenges' /\ \A o \in Runs : o[1] = r[1] /\ Live(o) => o = r,
           x.pc \in Early => ~Owned(r[1]) /\ x.wallet = NoWallet,
           x.pc \in Middle \cup Late => x.wallet # NoWallet
    PROVE  KeysOk'
  <1>1. RunBecomes(r, x) /\ IsRun(x) /\ x.tag = run[r].tag /\ x.wallet = run[r].wallet
    BY Zenon DEF GoesOn
  <1>2. run[r].tag \in Names /\ Tried(r[1]) /\ r[1] \in Passkeys
    BY RunParts, Zenon DEF KeysOk, RunsOk
  <1>3. \A k \in Passkeys : Tried(k) => Tried(k)'
    BY TriedGrows, Zenon DEF KeysOk
  <1>4. /\ \A w \in DOMAIN owner : w \in DOMAIN owner' /\ owner'[w] = owner[w]
        /\ \A w \in DOMAIN owner' : owner'[w] \in Passkeys /\ Tried(owner[w])'
        /\ \A v, w \in DOMAIN owner' : owner'[v] = owner'[w] => v = w
        /\ \A k \in Passkeys : Owned(k)' <=> Owned(k)
    BY OwnersStill
  <1>5. challenges' \subseteq Passkeys /\ \A k \in challenges' : Tried(k)' /\ ~Owned(k)'
    <2>1. challenges \subseteq Passkeys /\ \A k \in challenges : Tried(k) /\ ~Owned(k)
      BY Zenon DEF KeysOk, OneRequest
    <2> QED BY <1>3, <1>4, <2>1
  <1>6. \A o \in Runs \ {r} : Live(o) => o[1] \notin challenges' /\ (o[1] = r[1] => x.pc \notin LivePcs)
    <2>1. \A o \in Runs : Live(o) => o[1] \notin challenges
      BY Zenon DEF KeysOk, OneRequest
    <2> QED BY <2>1
  <1>7. \A o \in Runs \ {r} : run[o].pc \in Early => ~Owned(o[1])'
    <2>1. \A o \in Runs : run[o].pc \in Early => ~Owned(o[1])
      BY Zenon DEF KeysOk, OneRequest
    <2>2. \A o \in Runs : o[1] \in Passkeys
      BY RunParts, Zenon
    <2> QED BY <1>4, <2>1, <2>2
  <1>8. x.wallet # NoWallet => x.wallet \in DOMAIN owner' /\ owner'[x.wallet] = r[1]
    BY <1>1, Zenon DEF KeysOk, OneWallet
  <1>9. \A o \in Runs \ {r} : x.wallet # NoWallet => run[o].wallet # x.wallet
    <2>1. \A o, q \in Runs : run[o].wallet = run[q].wallet /\ run[o].wallet # NoWallet => o = q
      BY Zenon DEF KeysOk, OneWallet
    <2> QED BY <1>1, <2>1
  <1>10. x.pc \in LivePcs \cup {"post", "done"} /\ x.tag \in Names /\ Tried(r[1])'
    BY <1>1, <1>2, <1>3
  <1>11. x.pc \in Early => ~Owned(r[1])'
    BY <1>2, <1>4
  <1>12. x.pc \in Early \cup {"post"} => x.wallet = NoWallet
    BY Stages
  <1>13. x.pc \in LivePcs => r[1] \notin challenges'
    BY Zenon
  <1>14. x.pc \in Middle \cup Late => x.wallet # NoWallet
    BY Zenon
  <1> QED BY <1>1, <1>4, <1>5, <1>6, <1>7, <1>8, <1>9, <1>10, <1>11, <1>12, <1>13, <1>14, MoveKeys, Zenon

\* The next step of a request under way.
LEMMA NextKeys ==
    ASSUME KeysOk, NEW r \in Runs, Live(r), NEW x, GoesOn(r, x.pc, x), PagesStay,
           UNCHANGED <<challenges, owner>>, x.pc \in LivePcs \cup {"done"},
           x.pc \in Early => run[r].pc \in Early,
           x.pc \in Middle \cup Late => run[r].pc \in Middle \cup Late
    PROVE  KeysOk'
  <1>1. run[r].pc # "none" /\ challenges' \subseteq challenges /\ owner' = owner
    BY Stages DEF Live
  <1>2. r[1] \notin challenges' /\ \A o \in Runs : o[1] = r[1] /\ Live(o) => o = r
    BY Zenon DEF KeysOk, OneRequest
  <1>3. x.wallet = run[r].wallet
    BY Zenon DEF GoesOn
  <1>4. x.pc \in Early => ~Owned(r[1]) /\ x.wallet = NoWallet
    BY <1>3, Zenon DEF KeysOk, OneRequest, OneWallet
  <1>5. x.pc \in Middle \cup Late => x.wallet # NoWallet
    BY <1>3, Zenon DEF KeysOk, OneWallet
  <1>6. PagesGrow
    BY StayGrows, Zenon DEF KeysOk
  <1> QED BY <1>1, <1>2, <1>4, <1>5, <1>6, StepKeys, Zenon

SameWallets == \A o \in Runs : /\ run'[o].wallet = run[o].wallet
                               /\ run[o].wallet # NoWallet => run'[o].tag = run[o].tag

\* A request that goes on keeps the wallet and the tag of every request.
LEMMA GoesOnSame ==
    ASSUME RunsOk, NEW r \in Runs, NEW x, RunBecomes(r, x), x.wallet = run[r].wallet,
           run[r].wallet # NoWallet => x.tag = run[r].tag
    PROVE  SameWallets
  <1>1. run'[r] = x /\ \A o \in Runs \ {r} : run'[o] = run[o]
    BY RunFacts, Zenon
  <1>2. ASSUME NEW o \in Runs
        PROVE  run'[o].wallet = run[o].wallet /\ (run[o].wallet # NoWallet => run'[o].tag = run[o].tag)
    <2>1. CASE o = r
      BY <1>1, <2>1, Zenon
    <2>2. CASE o # r
      BY <1>1, <2>2, Zenon
    <2> QED BY <2>1, <2>2
  <1> QED BY <1>2, Zenon DEF SameWallets

RegistryStays == UNCHANGED <<consumers, ensByHash, consumerById, nextGlobalId, owner, recovered>>

\* What a step leaves of the registry's part, if the names are still in order.
LEMMA ChainStays ==
    ASSUME ChainOk, SameWallets, RegistryStays, Named', names' = [n \in Names |-> names'[n]]
    PROVE  ChainOk'
  <1>1. ChainTypes' /\ Indexed'
    BY DEF ChainOk, ChainTypes, Indexed, RegistryStays
  <1>2. \A r \in Runs : run[r].wallet # NoWallet => consumers[run[r].wallet].ens = run[r].tag
    BY Zenon DEF ChainOk, OwnersKnown
  <1>3. \A r \in Runs : run'[r].wallet # NoWallet => consumers[run'[r].wallet].ens = run'[r].tag
    BY <1>2, Zenon DEF SameWallets
  <1>4. OwnersKnown'
    BY <1>3 DEF ChainOk, OwnersKnown, RegistryStays
  <1> QED BY <1>1, <1>4, Zenon DEF ChainOk

\* Neither the registry nor the name service changes.
LEMMA NamesStay ==
    ASSUME ChainOk, SameWallets, RegistryStays, names' = names
    PROVE  ChainOk'
  <1>1. Named'
    BY DEF ChainOk, Named, RegistryStays
  <1>2. names' = [n \in Names |-> names'[n]]
    BY DEF ChainOk, ChainTypes
  <1> QED BY <1>1, <1>2, ChainStays, Zenon

\* The name service changes the entry of a name that the registry has given away.
LEMMA NamesGo ==
    ASSUME ChainOk, SameWallets, RegistryStays, NEW n \in Names, NEW y, names' = [names EXCEPT ![n] = y],
           ensByHash[n] # NoWallet, \A w \in DOMAIN owner : consumers[w].ens = n => y \in {"free", "minted", w}
    PROVE  ChainOk'
  <1>1. names' = [m \in Names |-> names'[m]] /\ names'[n] = y /\ \A m \in Names \ {n} : names'[m] = names[m]
    BY DEF ChainOk, ChainTypes
  <1>2. \A m \in Names : ensByHash'[m] = NoWallet => names'[m] = "free"
    BY <1>1 DEF ChainOk, Named, RegistryStays
  <1>3. ASSUME NEW w \in DOMAIN owner PROVE names'[consumers[w].ens] \in {"free", "minted", w}
    <2>1. consumers[w].ens \in Names
      BY Zenon DEF ChainOk, ChainTypes, Indexed
    <2>2. CASE consumers[w].ens = n
      BY <1>1, <2>2, Zenon
    <2>3. CASE consumers[w].ens # n
      <3>1. names'[consumers[w].ens] = names[consumers[w].ens]
        BY <1>1, <2>1, <2>3
      <3> QED BY <3>1, Zenon DEF ChainOk, Named
    <2> QED BY <2>2, <2>3
  <1>4. Named'
    BY <1>2, <1>3 DEF Named, RegistryStays
  <1> QED BY <1>1, <1>4, ChainStays, Zenon

\* The tables, while the registry stays.
LEMMA TablesStay ==
    ASSUME TablesOk, SameWallets, UNCHANGED <<consumers, owner, rows, creds, token, clerk>>,
           \A r \in Runs : /\ run'[r].pc \in Middle => run[r].wallet \notin DOMAIN rows
                           /\ run'[r].pc \in Late => run[r].wallet \in DOMAIN rows
                           /\ run'[r].pc = "answer" => run[r].pc = "answer"
    PROVE  TablesOk'
  <1>1. \A r \in Runs : /\ run'[r].pc \in Middle => run'[r].wallet \notin DOMAIN rows
                        /\ run'[r].pc \in Late => run'[r].wallet \in DOMAIN rows
    BY Zenon DEF SameWallets
  <1>2. RowsOk'
    BY <1>1 DEF TablesOk, RowsOk
  <1>3. \A r \in Runs : run'[r].pc = "answer" => r[1] \in DOMAIN creds /\ creds[r[1]] = run'[r].wallet
    BY Zenon DEF SameWallets, TablesOk, CredsOk
  <1>4. CredsOk'
    BY <1>3 DEF TablesOk, CredsOk
  <1>5. ClerkOk'
    BY DEF TablesOk, ClerkOk
  <1> QED BY <1>2, <1>4, <1>5, Zenon DEF TablesOk

\* A request goes on without writing a row, a credential or a token.
LEMMA TablesPass ==
    ASSUME KeysOk, TablesOk, NEW r \in Runs, NEW x, RunBecomes(r, x), x.wallet = run[r].wallet,
           run[r].wallet # NoWallet => x.tag = run[r].tag, UNCHANGED <<consumers, owner, rows, creds, token, clerk>>,
           x.pc \in Middle => run[r].wallet \notin DOMAIN rows,
           x.pc \in Late => run[r].wallet \in DOMAIN rows,
           x.pc = "answer" => run[r].pc = "answer"
    PROVE  TablesOk'
  <1>1. run'[r] = x /\ \A o \in Runs \ {r} : run'[o] = run[o]
    BY RunFacts, Zenon DEF KeysOk
  <1>2. SameWallets
    BY GoesOnSame, Zenon DEF KeysOk
  <1>3. \A o \in Runs : /\ run[o].pc \in Middle => run[o].wallet \notin DOMAIN rows
                        /\ run[o].pc \in Late => run[o].wallet \in DOMAIN rows
    BY Zenon DEF TablesOk, RowsOk
  <1>4. ASSUME NEW o \in Runs
        PROVE  /\ run'[o].pc \in Middle => run[o].wallet \notin DOMAIN rows
               /\ run'[o].pc \in Late => run[o].wallet \in DOMAIN rows
               /\ run'[o].pc = "answer" => run[o].pc = "answer"
    <2>1. CASE o = r
      <3>1. run'[o] = x
        BY <1>1, <2>1, Zenon
      <3> QED BY <2>1, <3>1, Zenon
    <2>2. CASE o # r
      <3>1. run'[o] = run[o]
        BY <1>1, <2>2, Zenon
      <3> QED BY <1>3, <3>1, Zenon
    <2> QED BY <2>1, <2>2
  <1> QED BY <1>2, <1>4, TablesStay, Zenon

\* One attempt becomes y.
Logged(r, y) == IsAttempt(y) /\ y.wallet = attempts[r].wallet /\ attempts' = [attempts EXCEPT ![r] = y]

\* recordStep keeps the status of an attempt and its wallet.
LEMMA TrackFacts ==
    ASSUME FunnelOk, NEW r \in Runs, NEW step, Track(r, step)
    PROVE  \E y : Logged(r, y) /\ y.status = attempts[r].status
  <1> DEFINE a == attempts[r]
  <1> PICK s : s = IF a = Blank THEN "none" ELSE step
    OBVIOUS
  <1> DEFINE y == [status |-> a.status, step |-> s, wallet |-> a.wallet]
  <1>1. IsAttempt(a)
    BY Zenon DEF FunnelOk
  <1>2. attempts' = [attempts EXCEPT ![r] = [a EXCEPT !.step = s]]
    BY DEF Track, FunnelOk
  <1>3. [a EXCEPT !.step = s] = y
    <2> HIDE DEF a
    <2> QED BY <1>1 DEF IsAttempt
  <1>4. attempts' = [attempts EXCEPT ![r] = y]
    BY <1>2, <1>3, Zenon
  <1>5. IsAttempt(y) /\ y.wallet = a.wallet /\ y.status = a.status
    BY DEF IsAttempt
  <1> HIDE DEF y
  <1> QED BY <1>4, <1>5, Zenon DEF Logged

\* An attempt takes another status and keeps its wallet.
LEMMA StatusFacts ==
    ASSUME FunnelOk, NEW r \in Runs, NEW s, attempts' = [attempts EXCEPT ![r].status = s]
    PROVE  \E y : Logged(r, y) /\ y.status = s
  <1> DEFINE a == attempts[r]
             y == [status |-> s, step |-> a.step, wallet |-> a.wallet]
  <1>1. IsAttempt(a)
    BY Zenon DEF FunnelOk
  <1>2. attempts' = [attempts EXCEPT ![r] = [a EXCEPT !.status = s]]
    BY DEF FunnelOk
  <1>3. [a EXCEPT !.status = s] = y
    <2> HIDE DEF a
    <2> QED BY <1>1 DEF IsAttempt
  <1>4. attempts' = [attempts EXCEPT ![r] = y]
    BY <1>2, <1>3, Zenon
  <1>5. IsAttempt(y) /\ y.wallet = a.wallet /\ y.status = s
    BY DEF IsAttempt
  <1> HIDE DEF y
  <1> QED BY <1>4, <1>5, Zenon DEF Logged

\* A tracking write that is lost leaves the attempt.
LEMMA NotLogged ==
    ASSUME FunnelOk, NEW r \in Runs, attempts' = attempts
    PROVE  \E y : Logged(r, y) /\ y.status = attempts[r].status
  <1> PICK y : y = attempts[r]
    OBVIOUS
  <1>1. attempts' = [attempts EXCEPT ![r] = y]
    BY DEF FunnelOk
  <1>2. IsAttempt(y)
    BY Zenon DEF FunnelOk
  <1> QED BY <1>1, <1>2, Zenon DEF Logged

\* A request goes on: its attempt still says what it did.
LEMMA FunnelMoves ==
    ASSUME RunsOk, FunnelOk, NEW r \in Runs, NEW x, RunBecomes(r, x), x.wallet = run[r].wallet,
           DOMAIN rows' = DOMAIN rows, owner' = owner, faults \subseteq faults',
           NEW y, Logged(r, y),
           Traced' => /\ x.pc \in Early \cup Middle => y.status = "started"
                      /\ y.status = "completed" => run[r].wallet \in DOMAIN rows
                      /\ run[r].wallet \in DOMAIN rows => y.status \in {"started", "completed"}
    PROVE  FunnelOk'
  <1>1. run'[r] = x /\ \A o \in Runs \ {r} : run'[o] = run[o]
    BY RunFacts, Zenon
  <1>2. attempts' = [attempts EXCEPT ![r] = y] /\ IsAttempt(y) /\ y.wallet = attempts[r].wallet
    BY Zenon DEF Logged
  <1>3. attempts' = [o \in Runs |-> attempts'[o]] /\ attempts'[r] = y /\ \A o \in Runs \ {r} : attempts'[o] = attempts[o]
    BY <1>2 DEF FunnelOk
  <1>4. \A o \in Runs : IsAttempt(attempts'[o])
    <2> TAKE o \in Runs
    <2>1. CASE o = r
      BY <1>2, <1>3, <2>1, Zenon
    <2>2. CASE o # r
      BY <1>3, <2>2, Zenon DEF FunnelOk
    <2> QED BY <2>1, <2>2
  <1>5. ASSUME Traced' PROVE (\A o \in Runs : AttemptOk(o)') /\ \A w \in DOMAIN owner' : \E o \in Runs : run'[o].wallet = w
    <2>1. Traced
      BY <1>5 DEF Traced
    <2>2. (\A o \in Runs : AttemptOk(o)) /\ \A w \in DOMAIN owner : \E o \in Runs : run[o].wallet = w
      BY <2>1, Zenon DEF FunnelOk
    <2>3. ASSUME NEW o \in Runs PROVE AttemptOk(o)'
      <3>1. CASE o = r
        <4>1. run'[o] = x /\ attempts'[o] = y /\ attempts[r].wallet = run[r].wallet
          BY <1>1, <1>3, <2>2, <3>1, Zenon DEF AttemptOk
        <4>2. attempts'[o].wallet = run'[o].wallet
          BY <1>2, <4>1, Zenon
        <4>3. run'[o].wallet = run[r].wallet
          BY <4>1, Zenon
        <4>4. /\ run'[o].pc \in Early \cup Middle => attempts'[o].status = "started"
              /\ attempts'[o].status = "completed" => run[r].wallet \in DOMAIN rows
              /\ run[r].wallet \in DOMAIN rows => attempts'[o].status \in {"started", "completed"}
          BY <1>5, <4>1, Zenon
        <4> QED BY <4>2, <4>3, <4>4, Zenon DEF AttemptOk
      <3>2. CASE o # r
        BY <1>1, <1>3, <2>2, <3>2, Zenon DEF AttemptOk
      <3> QED BY <3>1, <3>2
    <2>4. ASSUME NEW w \in DOMAIN owner' PROVE \E o \in Runs : run'[o].wallet = w
      <3>1. PICK o \in Runs : run[o].wallet = w
        BY <2>2, Zenon
      <3>2. run'[o].wallet = w
        BY <1>1, <3>1
      <3> QED BY <3>2
    <2> QED BY <2>3, <2>4
  <1> QED BY <1>3, <1>4, <1>5, Zenon DEF FunnelOk

-----------------------------------------------------------------------------
(* The steps of a request under way.                                       *)

\* A fault is remembered.
LEMMA FaultGrows == ASSUME NEW kind, Fault(kind) PROVE faults \subseteq faults' /\ kind \in faults'
  BY DEF Fault

\* A page nobody touched has stayed.
LEMMA SamePages == ASSUME PagesOk, page' = page PROVE PagesStay
  BY DEF PagesStay, PagesOk

\* No row and no owner is that of no wallet.
LEMMA NoWalletNoRow == ASSUME ChainOk, TablesOk PROVE NoWallet \notin DOMAIN rows /\ NoWallet \notin DOMAIN owner
  BY RegistryAssumption DEF ChainOk, ChainTypes, TablesOk, RowsOk

\* One await of the handler that writes nothing but the name service and the attempt.
LEMMA Passes ==
    ASSUME OnboardInv, NEW r \in Runs, Live(r), NEW x, GoesOn(r, x.pc, x), PagesStay, challenges' = challenges,
           RegistryStays, UNCHANGED <<rows, creds, token, clerk>>, ChainOk', FunnelOk',
           x.pc \in LivePcs \cup {"done"}, x.pc \in Early => run[r].pc \in Early,
           x.pc \in Middle => run[r].pc \in Middle, x.pc \in Late => run[r].pc \in Late,
           x.pc = "answer" => run[r].pc = "answer"
    PROVE  OnboardInv'
  <1>1. owner' = owner /\ consumers' = consumers
    BY DEF RegistryStays
  <1>2. x.pc \in Middle \cup Late => run[r].pc \in Middle \cup Late
    OBVIOUS
  <1>3. KeysOk /\ TablesOk
    BY Zenon DEF OnboardInv
  <1>4. KeysOk'
    <2>1. UNCHANGED <<challenges, owner>>
      BY <1>1
    <2> QED BY <1>2, <1>3, <2>1, NextKeys, Zenon
  <1>5. /\ run[r].pc \in Middle => run[r].wallet \notin DOMAIN rows
        /\ run[r].pc \in Late => run[r].wallet \in DOMAIN rows
    BY <1>3, Zenon DEF TablesOk, RowsOk
  <1>6. TablesOk'
    <2>1. UNCHANGED <<consumers, owner, rows, creds, token, clerk>>
      BY <1>1
    <2>2. RunBecomes(r, x) /\ x.wallet = run[r].wallet /\ x.tag = run[r].tag
      BY Zenon DEF GoesOn
    <2> QED BY <1>3, <1>5, <2>1, <2>2, TablesPass, Zenon
  <1> QED BY <1>4, <1>6, Zenon DEF OnboardInv

\* A request that is not yet, or no longer, the one that counts.
LEMMA FunnelTracks ==
    ASSUME OnboardInv, NEW r \in Runs, NEW x, GoesOn(r, x.pc, x), NEW y, Logged(r, y), y.status = attempts[r].status,
           x.pc \in Early \cup Middle => run[r].pc \in Early \cup Middle,
           rows' = rows, owner' = owner, faults \subseteq faults'
    PROVE  FunnelOk'
  <1>1. RunBecomes(r, x) /\ x.wallet = run[r].wallet
    BY Zenon DEF GoesOn
  <1>2. RunsOk /\ FunnelOk
    BY Zenon DEF OnboardInv, KeysOk
  <1>3. ASSUME Traced'
        PROVE  /\ x.pc \in Early \cup Middle => y.status = "started"
               /\ y.status = "completed" => run[r].wallet \in DOMAIN rows
               /\ run[r].wallet \in DOMAIN rows => y.status \in {"started", "completed"}
    <2>1. Traced
      BY <1>3 DEF Traced
    <2>2. AttemptOk(r)
      BY <1>2, <2>1, Zenon DEF FunnelOk
    <2> QED BY <2>2, Zenon DEF AttemptOk
  <1>4. DOMAIN rows' = DOMAIN rows
    BY Zenon
  <1> QED BY <1>1, <1>2, <1>3, <1>4, FunnelMoves, Zenon

\* The catch block ends a request before it has written a row.
LEMMA HardFails ==
    ASSUME OnboardInv, NEW r \in Runs, run[r].pc \in Early \cup Middle, HardFailure(r), RegistryStays,
           names' = names, faults \subseteq faults'
    PROVE  OnboardInv'
  <1>1. RunsOk /\ PagesOk /\ FunnelOk /\ ChainOk /\ TablesOk /\ KeysOk
    BY Zenon DEF OnboardInv, KeysOk
  <1>2. PICK x : GoesOn(r, "done", x)
    BY <1>1, AdvanceFacts, Zenon DEF HardFailure
  <1>3. x.pc = "done" /\ RunBecomes(r, x) /\ x.wallet = run[r].wallet /\ x.tag = run[r].tag
    BY <1>2, Zenon DEF GoesOn
  <1>4. PagesStay
    BY <1>1, ErrorShown, Zenon DEF HardFailure
  <1> PICK s : s = IF attempts[r] = Blank THEN "none" ELSE "failed"
    OBVIOUS
  <1>5. attempts' = [attempts EXCEPT ![r].status = s]
    BY DEF HardFailure
  <1>6. PICK y : Logged(r, y) /\ y.status = s
    BY <1>1, <1>5, StatusFacts, Zenon
  <1>7. UNCHANGED <<rows, creds, challenges, token, clerk>>
    BY DEF HardFailure
  <1>8. owner' = owner
    BY DEF RegistryStays
  <1>9. run[r].wallet \notin DOMAIN rows
    <2>1. run[r].pc \in Early => run[r].wallet = NoWallet
      BY <1>1, Zenon DEF KeysOk, OneWallet
    <2>2. run[r].pc \in Middle => run[r].wallet \notin DOMAIN rows
      BY <1>1, Zenon DEF TablesOk, RowsOk
    <2>3. NoWallet \notin DOMAIN rows
      BY <1>1, NoWalletNoRow, Zenon
    <2> QED BY <2>1, <2>2, <2>3
  <1>10. x.pc \notin LivePcs /\ x.pc \notin Early /\ x.pc \notin Middle /\ x.pc \notin Late /\ x.pc # "answer"
    BY <1>3 DEF LivePcs, Early, Middle, Late
  <1>11. FunnelOk'
    <2>1. y.status # "completed" /\ DOMAIN rows' = DOMAIN rows
      BY <1>6, <1>7
    <2> QED BY <1>1, <1>3, <1>6, <1>8, <1>9, <1>10, <2>1, FunnelMoves
  <1>12. SameWallets
    BY <1>1, <1>3, GoesOnSame, Zenon
  <1>13. ChainOk'
    BY <1>1, <1>12, NamesStay, Zenon
  <1>14. Live(r)
    BY Stages DEF Live
  <1>15. GoesOn(r, x.pc, x) /\ x.pc \in LivePcs \cup {"done"} /\ challenges' = challenges /\ UNCHANGED <<rows, creds, token, clerk>>
    BY <1>2, <1>3, <1>7
  <1> QED BY <1>4, <1>10, <1>11, <1>13, <1>14, <1>15, Passes, Zenon

\* resolvePasskeySigner keeps the invariant.
LEMMA ResolveSignerStep == ASSUME OnboardInv, NEW r \in Runs, ResolveSigner(r) PROVE OnboardInv'
  <1>1. run[r].pc = "signer" /\ RegistryStays
    BY DEF ResolveSigner, registryVars, identity, traces, RegistryStays
  <1>2. run[r].pc \in Early
    BY <1>1 DEF Early
  <1>3. CASE /\ Advance(r, "deploy") /\ Track(r, "signer")
             /\ UNCHANGED <<page, challenges, rows, creds, remote, token, clerk, faults>>
    <2>1. RunsOk /\ PagesOk /\ FunnelOk /\ ChainOk
      BY Zenon DEF OnboardInv, KeysOk
    <2>2. PICK x : GoesOn(r, "deploy", x)
      BY <1>3, <2>1, AdvanceFacts, Zenon
    <2>3. x.pc = "deploy" /\ RunBecomes(r, x) /\ x.wallet = run[r].wallet /\ x.tag = run[r].tag
      BY <2>2, Zenon DEF GoesOn
    <2>4. PICK y : Logged(r, y) /\ y.status = attempts[r].status
      BY <1>3, <2>1, TrackFacts, Zenon
    <2>5. /\ challenges' = challenges /\ UNCHANGED <<rows, creds, token, clerk>> /\ names' = names
          /\ page' = page /\ rows' = rows /\ faults \subseteq faults'
      BY <1>3 DEF remote
    <2>6. owner' = owner
      BY <1>1 DEF RegistryStays
    <2>7. x.pc \in LivePcs \cup {"done"} /\ x.pc \notin Middle /\ x.pc \notin Late /\ x.pc # "answer"
      BY <2>3 DEF LivePcs, Early, Middle, Late
    <2>8. GoesOn(r, x.pc, x) /\ (x.pc \in Early \cup Middle => run[r].pc \in Early \cup Middle)
      BY <1>2, <2>2, <2>3
    <2>9. FunnelOk'
      BY <2>4, <2>5, <2>6, <2>8, FunnelTracks, Zenon
    <2>10. ChainOk'
      BY <1>1, <2>1, <2>3, <2>5, GoesOnSame, NamesStay, Zenon
    <2>11. PagesStay /\ Live(r)
      BY <1>2, <2>1, <2>5, SamePages, Stages DEF Live
    <2> QED BY <1>1, <1>2, <2>5, <2>7, <2>8, <2>9, <2>10, <2>11, Passes, Zenon
  <1>4. CASE Fault("throw") /\ HardFailure(r)
    <2>1. faults \subseteq faults' /\ names' = names
      BY <1>4, FaultGrows DEF HardFailure, remote
    <2>2. run[r].pc \in Early \cup Middle
      BY <1>2
    <2> QED BY <1>1, <1>4, <2>1, <2>2, HardFails, Zenon
  <1> QED BY <1>3, <1>4 DEF ResolveSigner

\* A registerConsumer that reverts keeps the invariant.
LEMMA DeployRevertsStep == ASSUME OnboardInv, NEW r \in Runs, DeployReverts(r) PROVE OnboardInv'
  <1>1. run[r].pc = "deploy" /\ RegistryStays /\ HardFailure(r) /\ faults' = faults
    BY DEF DeployReverts, registryVars, identity, traces, RegistryStays
  <1>2. run[r].pc \in Early \cup Middle
    BY <1>1 DEF Early
  <1>3. faults \subseteq faults' /\ names' = names
    BY <1>1 DEF HardFailure, remote
  <1> QED BY <1>1, <1>2, <1>3, HardFails, Zenon

\* The steps whose failure is only logged.
LEMMA MiddleStep ==
    ASSUME OnboardInv, NEW r \in Runs, run[r].pc \in Middle, NEW pc \in Middle, Advance(r, pc),
           UNCHANGED <<page, challenges, rows, creds, token, clerk>>, RegistryStays, faults \subseteq faults',
           attempts' = attempts \/ \E step \in {"idos", "ens", "pimlico"} : Track(r, step),
           SameWallets => ChainOk'
    PROVE  OnboardInv'
  <1>1. RunsOk /\ PagesOk /\ FunnelOk
    BY Zenon DEF OnboardInv, KeysOk
  <1>2. PICK x : GoesOn(r, pc, x)
    BY <1>1, AdvanceFacts, Zenon
  <1>3. x.pc = pc /\ RunBecomes(r, x) /\ x.wallet = run[r].wallet /\ x.tag = run[r].tag
    BY <1>2, Zenon DEF GoesOn
  <1>4. PICK y : Logged(r, y) /\ y.status = attempts[r].status
    BY <1>1, TrackFacts, NotLogged, Zenon
  <1>5. challenges' = challenges /\ UNCHANGED <<rows, creds, token, clerk>> /\ rows' = rows /\ page' = page
    OBVIOUS
  <1>6. owner' = owner
    BY DEF RegistryStays
  <1>7. x.pc \in LivePcs \cup {"done"} /\ x.pc \notin Early /\ x.pc \notin Late /\ x.pc # "answer"
    BY <1>3 DEF LivePcs, Early, Middle, Late
  <1>8. GoesOn(r, x.pc, x) /\ (x.pc \in Early \cup Middle => run[r].pc \in Early \cup Middle)
    BY <1>2, <1>3
  <1>9. FunnelOk'
    BY <1>4, <1>5, <1>6, <1>8, FunnelTracks, Zenon
  <1>10. ChainOk'
    BY <1>1, <1>3, GoesOnSame, Zenon
  <1>11. PagesStay /\ Live(r)
    BY <1>1, <1>5, SamePages, Stages DEF Live
  <1> QED BY <1>5, <1>7, <1>8, <1>9, <1>10, <1>11, Passes, Zenon

\* The idOS credential, issued or not, keeps the invariant.
LEMMA IssueStep == ASSUME OnboardInv, NEW r \in Runs, IssueCredential(r) PROVE OnboardInv'
  <1>1. run[r].pc = "idos" /\ Track(r, "idos") /\ RegistryStays
    BY DEF IssueCredential, registryVars, identity, traces, RegistryStays
  <1>2. UNCHANGED <<page, challenges, rows, creds, token, clerk>> /\ names' = names
    BY DEF IssueCredential, remote
  <1>3. faults \subseteq faults' /\ \E pc \in {"mint", "mint_bare"} : Advance(r, pc)
    BY FaultGrows DEF IssueCredential
  <1>4. run[r].pc \in Middle /\ {"mint", "mint_bare"} \subseteq Middle
    BY <1>1 DEF Middle
  <1>5. PICK pc \in Middle : Advance(r, pc)
    BY <1>3, <1>4, Zenon
  <1>6. SameWallets => ChainOk'
    BY <1>1, <1>2, NamesStay, Zenon DEF OnboardInv
  <1>7. \E step \in {"idos", "ens", "pimlico"} : Track(r, step)
    BY <1>1
  <1> QED BY <1>1, <1>2, <1>3, <1>4, <1>5, <1>6, <1>7, MiddleStep, Zenon

\* The wallet of a request is the one that has its tag.
LEMMA TagHeld ==
    ASSUME OnboardInv, NEW r \in Runs, run[r].pc \in Middle
    PROVE  /\ Tag(r) \in Names /\ run[r].wallet \in DOMAIN owner /\ ensByHash[Tag(r)] # NoWallet
           /\ \A w \in DOMAIN owner : consumers[w].ens = Tag(r) => w = run[r].wallet
  <1>1. run[r].wallet # NoWallet /\ run[r].wallet \in DOMAIN owner
    BY Zenon DEF OnboardInv, KeysOk, OneWallet
  <1>2. consumers[run[r].wallet].ens = run[r].tag
    BY <1>1, Zenon DEF OnboardInv, ChainOk, OwnersKnown
  <1>3. run[r].wallet \in DOMAIN consumers
    BY <1>1, Zenon DEF OnboardInv, ChainOk, ChainTypes
  <1>4. consumers[run[r].wallet].ens \in Names /\ ensByHash[consumers[run[r].wallet].ens] # NoWallet
    BY <1>3, Zenon DEF OnboardInv, ChainOk, Indexed
  <1>5. \A v, w \in DOMAIN owner : consumers[v].ens = consumers[w].ens => v = w
    BY Zenon DEF OnboardInv, ChainOk, OwnersKnown
  <1> QED BY <1>1, <1>2, <1>4, <1>5, Zenon DEF Tag

\* Minting the name keeps the invariant: the tag is the wallet's in the registry.
LEMMA MintStep == ASSUME OnboardInv, NEW r \in Runs, MintName(r) PROVE OnboardInv'
  <1>1. run[r].pc \in {"mint", "mint_bare"} /\ RegistryStays
    BY DEF MintName, registryVars, identity, traces, RegistryStays
  <1>2. UNCHANGED <<page, challenges, rows, creds, token, clerk>> /\ attempts' = attempts
    BY DEF MintName, tables
  <1>3. faults \subseteq faults'
    BY FaultGrows DEF MintName
  <1>4. run[r].pc \in Middle /\ {"point", "point_bare"} \subseteq Middle
    BY <1>1 DEF Middle
  <1>5. PICK pc \in Middle : Advance(r, pc)
    BY <1>4, Zenon DEF MintName
  <1>6. ASSUME SameWallets PROVE ChainOk'
    <2>1. ChainOk
      BY Zenon DEF OnboardInv
    <2>2. CASE names' = names
      BY <1>1, <1>6, <2>1, <2>2, NamesStay, Zenon
    <2>3. CASE names' = [names EXCEPT ![Tag(r)] = IF @ = "free" THEN "minted" ELSE @]
      <3> PICK n : n = Tag(r)
        OBVIOUS
      <3> PICK y : y = IF names[n] = "free" THEN "minted" ELSE names[n]
        OBVIOUS
      <3>1. names' = [names EXCEPT ![n] = y]
        BY <2>3
      <3>2. n \in Names /\ ensByHash[n] # NoWallet
        BY <1>4, TagHeld, Zenon
      <3>3. \A w \in DOMAIN owner : consumers[w].ens = n => y \in {"free", "minted", w}
        <4>1. \A w \in DOMAIN owner : names[consumers[w].ens] \in {"free", "minted", w}
          BY <2>1, Zenon DEF ChainOk, Named
        <4>2. \A w \in DOMAIN owner : consumers[w].ens = n => names[n] \in {"free", "minted", w}
          BY <4>1, Zenon
        <4> QED BY <4>2
      <3> QED BY <1>1, <1>6, <2>1, <3>1, <3>2, <3>3, NamesGo, Zenon
    <2> QED BY <2>2, <2>3 DEF MintName
  <1> QED BY <1>1, <1>2, <1>3, <1>4, <1>5, <1>6, MiddleStep, Zenon

\* Pointing the name at the wallet keeps the invariant, for the same reason.
LEMMA PointStep == ASSUME OnboardInv, NEW r \in Runs, PointName(r) PROVE OnboardInv'
  <1>1. run[r].pc \in {"point", "point_bare"} /\ RegistryStays
    BY DEF PointName, registryVars, identity, traces, RegistryStays
  <1>2. UNCHANGED <<page, challenges, rows, creds, token, clerk>> /\ Track(r, "ens")
    BY DEF PointName
  <1>3. faults \subseteq faults'
    BY FaultGrows DEF PointName
  <1>4. run[r].pc \in Middle /\ {"sponsor", "sponsor_bare"} \subseteq Middle
    BY <1>1 DEF Middle
  <1>5. PICK pc \in Middle : Advance(r, pc)
    BY <1>4, Zenon DEF PointName
  <1>6. ASSUME SameWallets PROVE ChainOk'
    <2>1. ChainOk
      BY Zenon DEF OnboardInv
    <2>2. CASE names' = names
      BY <1>1, <1>6, <2>1, <2>2, NamesStay, Zenon
    <2>3. CASE names' = [names EXCEPT ![Tag(r)] = run[r].wallet]
      <3> PICK n : n = Tag(r)
        OBVIOUS
      <3> PICK y : y = run[r].wallet
        OBVIOUS
      <3>1. names' = [names EXCEPT ![n] = y]
        BY <2>3
      <3>2. n \in Names /\ ensByHash[n] # NoWallet
        BY <1>4, TagHeld, Zenon
      <3>3. \A w \in DOMAIN owner : consumers[w].ens = n => y \in {"free", "minted", w}
        <4>1. \A w \in DOMAIN owner : consumers[w].ens = n => w = y
          BY <1>4, TagHeld, Zenon
        <4> QED BY <4>1
      <3> QED BY <1>1, <1>6, <2>1, <3>1, <3>2, <3>3, NamesGo, Zenon
    <2> QED BY <2>2, <2>3 DEF PointName
  <1>7. \E step \in {"idos", "ens", "pimlico"} : Track(r, step)
    BY <1>2
  <1> QED BY <1>1, <1>2, <1>3, <1>4, <1>5, <1>6, <1>7, MiddleStep, Zenon

\* The paymaster's list is outside the invariant.
LEMMA SponsorStep == ASSUME OnboardInv, NEW r \in Runs, Sponsor(r) PROVE OnboardInv'
  <1>1. run[r].pc \in {"sponsor", "sponsor_bare"} /\ RegistryStays
    BY DEF Sponsor, registryVars, identity, traces, RegistryStays
  <1>2. UNCHANGED <<page, challenges, rows, creds, token, clerk>> /\ Track(r, "pimlico") /\ names' = names
    BY DEF Sponsor
  <1>3. faults \subseteq faults'
    BY FaultGrows DEF Sponsor
  <1>4. run[r].pc \in Middle /\ {"db", "db_bare"} \subseteq Middle
    BY <1>1 DEF Middle
  <1>5. PICK pc \in Middle : Advance(r, pc)
    BY <1>4, Zenon DEF Sponsor
  <1>6. SameWallets => ChainOk'
    BY <1>1, <1>2, NamesStay, Zenon DEF OnboardInv
  <1>7. \E step \in {"idos", "ens", "pimlico"} : Track(r, step)
    BY <1>2
  <1> QED BY <1>1, <1>2, <1>3, <1>4, <1>5, <1>6, <1>7, MiddleStep, Zenon

\* The row of a request's wallet is written.
LEMMA RowTables ==
    ASSUME OnboardInv, NEW r \in Runs, run[r].pc \in Middle, NEW x, GoesOn(r, "finish", x), NEW row, IsRow(row),
           row.tag = run[r].tag, row.id = consumers[run[r].wallet].globalConsumerId,
           rows' = Put(rows, run[r].wallet, row), UNCHANGED <<consumers, owner, creds, token, clerk>>
    PROVE  TablesOk'
  <1> PICK w : w = run[r].wallet
    OBVIOUS
  <1>1. TablesOk /\ KeysOk /\ ChainOk
    BY Zenon DEF OnboardInv
  <1>2. DOMAIN rows' = DOMAIN rows \cup {w} /\ rows'[w] = row /\ \A v \in DOMAIN rows \ {w} : rows'[v] = rows[v]
    <2>1. rows' = Put(rows, w, row)
      BY Zenon
    <2> QED BY <2>1 DEF Put
  <1>3. w # NoWallet /\ w \in DOMAIN owner /\ consumers[w].ens = run[r].tag /\ w \notin DOMAIN rows
    <2>1. w # NoWallet
      BY <1>1, Zenon DEF KeysOk, OneWallet
    <2>2. w \in DOMAIN owner
      BY <1>1, <2>1, Zenon DEF KeysOk, OneWallet
    <2>3. consumers[w].ens = run[r].tag
      BY <1>1, <2>1, Zenon DEF ChainOk, OwnersKnown
    <2> QED BY <1>1, <2>1, <2>2, <2>3, Zenon DEF TablesOk, RowsOk
  <1>4. run'[r] = x /\ (\A o \in Runs \ {r} : run'[o] = run[o]) /\ x.pc = "finish" /\ x.wallet = w
    BY <1>1, RunFacts, Zenon DEF GoesOn, KeysOk
  <1>5. RowsOk'
    <2>1. DOMAIN rows' \subseteq DOMAIN owner'
      BY <1>1, <1>2, <1>3 DEF TablesOk, RowsOk
    <2>2. ASSUME NEW v \in DOMAIN rows'
          PROVE  IsRow(rows'[v]) /\ rows'[v].tag = consumers'[v].ens /\ rows'[v].id = consumers'[v].globalConsumerId
      <3>1. CASE v = w
        BY <1>2, <1>3, <3>1, Zenon
      <3>2. CASE v # w
        <4>1. v \in DOMAIN rows /\ rows'[v] = rows[v]
          BY <1>2, <3>2
        <4> QED BY <1>1, <4>1, Zenon DEF TablesOk, RowsOk
      <3> QED BY <3>1, <3>2
    <2>3. ASSUME NEW o \in Runs
          PROVE  /\ run'[o].pc \in Middle => run'[o].wallet \notin DOMAIN rows'
                 /\ run'[o].pc \in Late => run'[o].wallet \in DOMAIN rows'
      <3>1. CASE o = r
        <4>1. run'[o].pc = "finish" /\ run'[o].wallet = w
          BY <1>4, <3>1, Zenon
        <4> QED BY <1>2, <4>1 DEF Middle
      <3>2. CASE o # r
        <4>1. run'[o] = run[o]
          BY <1>4, <3>2, Zenon
        <4>2. run[o].wallet # w
          BY <1>1, <1>3, <3>2, Zenon DEF KeysOk, OneWallet
        <4>3. /\ run[o].pc \in Middle => run[o].wallet \notin DOMAIN rows
              /\ run[o].pc \in Late => run[o].wallet \in DOMAIN rows
          BY <1>1, Zenon DEF TablesOk, RowsOk
        <4> QED BY <1>2, <4>1, <4>2, <4>3
      <3> QED BY <3>1, <3>2
    <2> QED BY <2>1, <2>2, <2>3, Zenon DEF RowsOk
  <1>6. CredsOk'
    <2>1. \A k \in DOMAIN creds : creds[k] \in DOMAIN rows' /\ owner[creds[k]] = k
      <3>1. \A k \in DOMAIN creds : creds[k] \in DOMAIN rows /\ owner[creds[k]] = k
        BY <1>1, Zenon DEF TablesOk, CredsOk
      <3> QED BY <1>2, <3>1
    <2>2. ASSUME NEW o \in Runs, run'[o].pc = "answer" PROVE o[1] \in DOMAIN creds /\ creds[o[1]] = run'[o].wallet
      <3>1. o # r
        BY <1>4, <2>2
      <3>2. run'[o] = run[o]
        BY <1>4, <3>1, Zenon
      <3>3. \A q \in Runs : run[q].pc = "answer" => q[1] \in DOMAIN creds /\ creds[q[1]] = run[q].wallet
        BY <1>1, Zenon DEF TablesOk, CredsOk
      <3> QED BY <2>2, <3>2, <3>3, Zenon
    <2> QED BY <1>1, <2>1, <2>2 DEF TablesOk, CredsOk
  <1>7. ClerkOk'
    <2>1. clerk.pc = "ok" => clerk.wallet \in DOMAIN rows /\ rows[clerk.wallet].level = clerk.level
      BY <1>1, Zenon DEF TablesOk, ClerkOk
    <2>2. clerk.pc = "ok" => clerk.wallet \in DOMAIN rows' /\ rows'[clerk.wallet].level = clerk.level
      BY <1>2, <1>3, <2>1
    <2> QED BY <1>1, <2>2 DEF TablesOk, ClerkOk
  <1> QED BY <1>5, <1>6, <1>7, Zenon DEF TablesOk

\* An attempt whose row was just written.
LEMMA RowFunnel ==
    ASSUME OnboardInv, NEW r \in Runs, run[r].pc \in Middle, NEW x, GoesOn(r, "finish", x), NEW y, Logged(r, y),
           y.status = attempts[r].status, DOMAIN rows' = DOMAIN rows \cup {run[r].wallet}, UNCHANGED <<owner, faults>>
    PROVE  FunnelOk'
  <1> PICK w : w = run[r].wallet
    OBVIOUS
  <1>1. FunnelOk /\ KeysOk
    BY Zenon DEF OnboardInv
  <1>2. run'[r] = x /\ (\A o \in Runs \ {r} : run'[o] = run[o]) /\ x.pc = "finish" /\ x.wallet = w
    BY <1>1, RunFacts, Zenon DEF GoesOn, KeysOk
  <1>3. attempts' = [attempts EXCEPT ![r] = y] /\ IsAttempt(y) /\ y.wallet = attempts[r].wallet
    BY Zenon DEF Logged
  <1>4. attempts' = [o \in Runs |-> attempts'[o]] /\ attempts'[r] = y /\ \A o \in Runs \ {r} : attempts'[o] = attempts[o]
    BY <1>1, <1>3 DEF FunnelOk
  <1>5. \A o \in Runs : IsAttempt(attempts'[o])
    <2> TAKE o \in Runs
    <2>1. CASE o = r
      BY <1>3, <1>4, <2>1, Zenon
    <2>2. CASE o # r
      BY <1>1, <1>4, <2>2, Zenon DEF FunnelOk
    <2> QED BY <2>1, <2>2
  <1>6. ASSUME Traced' PROVE (\A o \in Runs : AttemptOk(o)') /\ \A v \in DOMAIN owner' : \E o \in Runs : run'[o].wallet = v
    <2>1. Traced
      BY <1>6 DEF Traced
    <2>2. (\A o \in Runs : AttemptOk(o)) /\ \A v \in DOMAIN owner : \E o \in Runs : run[o].wallet = v
      BY <1>1, <2>1, Zenon DEF FunnelOk
    <2>3. ASSUME NEW o \in Runs PROVE AttemptOk(o)'
      <3>1. CASE o = r
        <4>1. run'[o] = x /\ attempts'[o] = y /\ attempts[r].wallet = w /\ attempts[r].status = "started"
          BY <1>2, <1>4, <2>2, <3>1 DEF AttemptOk
        <4>2. run'[o].pc \notin Early \cup Middle /\ run'[o].wallet = w
          BY <1>2, <4>1 DEF Early, Middle
        <4>3. attempts'[o].status = "started" /\ attempts'[o].wallet = w
          BY <1>3, <4>1, Zenon
        <4> QED BY <4>2, <4>3 DEF AttemptOk
      <3>2. CASE o # r
        <4>1. run'[o] = run[o] /\ attempts'[o] = attempts[o]
          BY <1>2, <1>4, <3>2, Zenon
        <4>2. w # NoWallet
          BY <1>1, Zenon DEF KeysOk, OneWallet
        <4>3. run[o].wallet # w
          BY <1>1, <3>2, <4>2, Zenon DEF KeysOk, OneWallet
        <4>4. run'[o].wallet \in DOMAIN rows' <=> run[o].wallet \in DOMAIN rows
          BY <4>1, <4>3
        <4> QED BY <2>2, <4>1, <4>4, Zenon DEF AttemptOk
      <3> QED BY <3>1, <3>2
    <2>4. ASSUME NEW v \in DOMAIN owner' PROVE \E o \in Runs : run'[o].wallet = v
      <3>1. PICK o \in Runs : run[o].wallet = v
        BY <2>2, Zenon
      <3>2. run'[o].wallet = v
        BY <1>2, <3>1
      <3> QED BY <3>2
    <2> QED BY <2>3, <2>4
  <1> QED BY <1>4, <1>5, <1>6, Zenon DEF FunnelOk

\* Writing the consumers row keeps the invariant: the row has what the registry has.
LEMMA WriteRowStep == ASSUME OnboardInv, NEW r \in Runs, WriteRow(r) PROVE OnboardInv'
  <1>1. run[r].pc \in {"db", "db_bare"} /\ RegistryStays
    BY DEF WriteRow, registryVars, identity, traces, RegistryStays
  <1>2. run[r].pc \in Middle
    BY <1>1 DEF Middle
  <1>3. CASE Fault("db") /\ HardFailure(r)
    <2>1. faults \subseteq faults' /\ names' = names
      BY <1>3, FaultGrows DEF HardFailure, remote
    <2>2. run[r].pc \in Early \cup Middle
      BY <1>2
    <2> QED BY <1>1, <1>3, <2>1, <2>2, HardFails, Zenon
  <1>4. ASSUME rows' = Put(rows, run[r].wallet, [tag |-> Tag(r), id |-> consumers[run[r].wallet].globalConsumerId,
                                                 level |-> 0, idos |-> run[r].pc = "db"]),
               Advance(r, "finish"), Track(r, "db"),
               UNCHANGED <<page, challenges, creds, remote, token, clerk, faults>>
        PROVE  OnboardInv'
    <2> PICK tag, id, b : tag = run[r].tag /\ id = consumers[run[r].wallet].globalConsumerId /\ b = (run[r].pc = "db")
      OBVIOUS
    <2> DEFINE row == [tag |-> tag, id |-> id, level |-> 0, idos |-> b]
    <2>1. rows' = Put(rows, run[r].wallet, row)
      BY <1>4 DEF Tag
    <2>2. IsRow(row) /\ row.tag = run[r].tag /\ row.id = consumers[run[r].wallet].globalConsumerId
      BY DEF IsRow
    <2> HIDE DEF row
    <2>3. RunsOk /\ PagesOk /\ FunnelOk /\ ChainOk /\ KeysOk
      BY Zenon DEF OnboardInv, KeysOk
    <2>4. PICK x : GoesOn(r, "finish", x)
      BY <1>4, <2>3, AdvanceFacts, Zenon
    <2>5. x.pc = "finish" /\ RunBecomes(r, x) /\ x.wallet = run[r].wallet /\ x.tag = run[r].tag
      BY <2>4, Zenon DEF GoesOn
    <2>6. PICK y : Logged(r, y) /\ y.status = attempts[r].status
      BY <1>4, <2>3, TrackFacts, Zenon
    <2>7. /\ UNCHANGED <<consumers, owner, creds, token, clerk>> /\ UNCHANGED <<owner, faults>>
          /\ UNCHANGED <<challenges, owner>> /\ names' = names
      BY <1>1, <1>4 DEF RegistryStays, remote
    <2>8. TablesOk'
      BY <1>2, <2>1, <2>2, <2>4, <2>7, RowTables, Zenon
    <2>9. DOMAIN rows' = DOMAIN rows \cup {run[r].wallet}
      BY <2>1 DEF Put
    <2>10. FunnelOk'
      BY <1>2, <2>4, <2>6, <2>7, <2>9, RowFunnel, Zenon
    <2>11. ChainOk'
      BY <1>1, <2>3, <2>5, <2>7, GoesOnSame, NamesStay, Zenon
    <2>12. PagesStay /\ Live(r) /\ x.pc \in LivePcs \cup {"done"} /\ x.pc \notin Early
      BY <1>2, <1>4, <2>3, <2>5, SamePages, Stages DEF Live, Early, Late
    <2>13. GoesOn(r, x.pc, x) /\ run[r].pc \in Middle \cup Late
      BY <1>2, <2>4, <2>5
    <2>14. KeysOk'
      BY <2>3, <2>7, <2>12, <2>13, NextKeys, Zenon
    <2> QED BY <2>8, <2>10, <2>11, <2>14, Zenon DEF OnboardInv
  <1> QED BY <1>3, <1>4, Zenon DEF WriteRow

\* The last steps, once the row is written.
LEMMA FinishStep == ASSUME OnboardInv, NEW r \in Runs, FinishAttempt(r) PROVE OnboardInv'
  <1>1. run[r].pc = "finish" /\ RegistryStays /\ Advance(r, "credential")
    BY DEF FinishAttempt, registryVars, identity, traces, RegistryStays
  <1>2. /\ UNCHANGED <<rows, creds, token, clerk>> /\ challenges' = challenges /\ page' = page /\ names' = names
        /\ rows' = rows
    BY DEF FinishAttempt, remote
  <1>3. RunsOk /\ PagesOk /\ FunnelOk /\ ChainOk /\ KeysOk /\ TablesOk
    BY Zenon DEF OnboardInv, KeysOk
  <1>4. PICK x : GoesOn(r, "credential", x)
    BY <1>1, <1>3, AdvanceFacts, Zenon
  <1>5. x.pc = "credential" /\ RunBecomes(r, x) /\ x.wallet = run[r].wallet /\ x.tag = run[r].tag
    BY <1>4, Zenon DEF GoesOn
  <1>6. run[r].pc \in Late /\ Live(r) /\ x.pc \in LivePcs \cup {"done"} /\ x.pc \notin Early /\ x.pc \notin Middle
    BY <1>1, <1>5 DEF Live, LivePcs, Early, Middle, Late
  <1>7. x.pc # "answer" /\ GoesOn(r, x.pc, x)
    BY <1>4, <1>5
  <1>8. run[r].wallet \in DOMAIN rows
    BY <1>3, <1>6, Zenon DEF TablesOk, RowsOk
  <1>9. owner' = owner /\ DOMAIN rows' = DOMAIN rows
    BY <1>1, <1>2 DEF RegistryStays
  <1>10. FunnelOk'
    <2>1. CASE attempts' = attempts
      <3>1. faults \subseteq faults'
        BY FaultGrows DEF FinishAttempt
      <3>2. PICK y : Logged(r, y) /\ y.status = attempts[r].status
        BY <1>3, <2>1, NotLogged, Zenon
      <3>3. x.pc \in Early \cup Middle => run[r].pc \in Early \cup Middle
        BY <1>6
      <3> QED BY <1>2, <1>7, <1>9, <3>1, <3>2, <3>3, FunnelTracks, Zenon
    <2>2. CASE attempts' = [attempts EXCEPT ![r].status = IF attempts[r] = Blank THEN "none" ELSE "completed"] /\ faults' = faults
      <3> PICK s : s = IF attempts[r] = Blank THEN "none" ELSE "completed"
        OBVIOUS
      <3>1. attempts' = [attempts EXCEPT ![r].status = s]
        BY <2>2
      <3>2. PICK y : Logged(r, y) /\ y.status = s
        BY <1>3, <3>1, StatusFacts, Zenon
      <3>3. ASSUME Traced' PROVE y.status = "completed"
        <4>1. Traced
          BY <2>2, <3>3 DEF Traced
        <4>2. AttemptOk(r)
          BY <1>3, <4>1, Zenon DEF FunnelOk
        <4>3. attempts[r].status \in {"started", "completed"}
          BY <1>8, <4>2, Zenon DEF AttemptOk
        <4>4. attempts[r] # Blank
          BY <4>3 DEF Blank
        <4> QED BY <3>2, <4>4
      <3>4. faults \subseteq faults' /\ x.pc \notin Early \cup Middle
        BY <1>6, <2>2
      <3>5. Traced' => /\ x.pc \in Early \cup Middle => y.status = "started"
                       /\ y.status = "completed" => run[r].wallet \in DOMAIN rows
                       /\ run[r].wallet \in DOMAIN rows => y.status \in {"started", "completed"}
        BY <1>8, <3>3, <3>4
      <3> QED BY <1>3, <1>5, <1>9, <3>2, <3>4, <3>5, FunnelMoves, Zenon
    <2> QED BY <2>1, <2>2 DEF FinishAttempt
  <1>11. ChainOk'
    BY <1>1, <1>2, <1>3, <1>5, GoesOnSame, NamesStay, Zenon
  <1>12. PagesStay
    BY <1>2, <1>3, SamePages, Zenon
  <1> QED BY <1>1, <1>2, <1>6, <1>7, <1>10, <1>11, <1>12, Passes, Zenon

\* Storing the passkey keeps the invariant: it was stored for no other wallet.
LEMMA StoreStep == ASSUME OnboardInv, NEW r \in Runs, StoreCredential(r) PROVE OnboardInv'
  <1>1. run[r].pc = "credential" /\ RegistryStays
    BY DEF StoreCredential, registryVars, identity, traces, RegistryStays
  <1>2. challenges' = challenges /\ rows' = rows /\ attempts' = attempts /\ names' = names /\ UNCHANGED <<rows, token, clerk>>
    BY DEF StoreCredential, remote
  <1>3. RunsOk /\ PagesOk /\ FunnelOk /\ ChainOk /\ KeysOk /\ TablesOk
    BY Zenon DEF OnboardInv, KeysOk
  <1>4. run[r].pc \in Late /\ Live(r) /\ faults \subseteq faults'
    BY <1>1, FaultGrows DEF Live, LivePcs, Late, StoreCredential
  <1>5. PICK pc \in {"answer", "done"} : /\ Advance(r, pc)
                                         /\ pc = "answer" => creds' = Put(creds, r[1], run[r].wallet) /\ page' = page
                                         /\ pc = "done" => creds' = creds /\ ShowError(r)
    BY DEF StoreCredential
  <1>6. PICK x : GoesOn(r, pc, x)
    BY <1>3, <1>5, AdvanceFacts, Zenon
  <1>7. x.pc = pc /\ RunBecomes(r, x) /\ x.wallet = run[r].wallet /\ x.tag = run[r].tag /\ GoesOn(r, x.pc, x)
    BY <1>6, Zenon DEF GoesOn
  <1>8. x.pc \in LivePcs \cup {"done"} /\ x.pc \notin Early /\ x.pc \notin Middle
    BY <1>5, <1>7 DEF LivePcs, Early, Middle, Late
  <1>9. PagesStay
    BY <1>3, <1>5, SamePages, ErrorShown
  <1>10. owner' = owner /\ consumers' = consumers
    BY <1>1 DEF RegistryStays
  <1>11. FunnelOk'
    <2>1. PICK y : Logged(r, y) /\ y.status = attempts[r].status
      BY <1>2, <1>3, NotLogged, Zenon
    <2>2. x.pc \in Early \cup Middle => run[r].pc \in Early \cup Middle
      BY <1>8
    <2> QED BY <1>2, <1>4, <1>7, <1>10, <2>1, <2>2, FunnelTracks, Zenon
  <1>12. ChainOk'
    BY <1>1, <1>2, <1>3, <1>7, GoesOnSame, NamesStay, Zenon
  <1>13. CASE pc = "done"
    <2>1. x.pc \notin Late /\ x.pc # "answer" /\ UNCHANGED <<rows, creds, token, clerk>>
      BY <1>2, <1>5, <1>7, <1>13 DEF Late
    <2> QED BY <1>1, <1>2, <1>4, <1>7, <1>8, <1>9, <1>11, <1>12, <2>1, Passes, Zenon
  <1>14. CASE pc = "answer"
    <2> PICK w : w = run[r].wallet
      OBVIOUS
    <2> PICK k : k = r[1]
      OBVIOUS
    <2>1. creds' = Put(creds, k, w)
      BY <1>5, <1>14
    <2>2. DOMAIN creds' = DOMAIN creds \cup {k} /\ creds'[k] = w /\ \A j \in DOMAIN creds \ {k} : creds'[j] = creds[j]
      BY <2>1 DEF Put
    <2>3. w \in DOMAIN rows /\ w # NoWallet /\ w \in DOMAIN owner /\ owner[w] = k
      <3>1. w \in DOMAIN rows
        BY <1>3, <1>4, Zenon DEF TablesOk, RowsOk
      <3>2. w # NoWallet
        BY <1>3, <3>1, NoWalletNoRow, Zenon
      <3>3. w \in DOMAIN owner /\ owner[w] = k
        BY <1>3, <3>2, Zenon DEF KeysOk, OneWallet
      <3> QED BY <3>1, <3>2, <3>3
    <2>4. run'[r] = x /\ \A o \in Runs \ {r} : run'[o] = run[o]
      BY <1>3, <1>7, RunFacts, Zenon
    <2>5. RowsOk'
      <3>1. ASSUME NEW o \in Runs
            PROVE  /\ run'[o].pc \in Middle => run'[o].wallet \notin DOMAIN rows
                   /\ run'[o].pc \in Late => run'[o].wallet \in DOMAIN rows
        <4>1. CASE o = r
          <5>1. run'[o].pc \notin Middle /\ run'[o].wallet = w
            BY <1>7, <1>8, <2>4, <4>1
          <5> QED BY <2>3, <5>1, Zenon
        <4>2. CASE o # r
          <5>1. run'[o] = run[o]
            BY <2>4, <4>2, Zenon
          <5> QED BY <1>3, <5>1, Zenon DEF TablesOk, RowsOk
        <4> QED BY <4>1, <4>2
      <3> QED BY <1>2, <1>3, <1>10, <3>1 DEF TablesOk, RowsOk
    <2>6. \A j \in DOMAIN creds : creds[j] \in DOMAIN rows /\ owner[creds[j]] = j
      BY <1>3, Zenon DEF TablesOk, CredsOk
    <2>7. \A j \in DOMAIN creds : j \in DOMAIN creds' /\ creds'[j] = creds[j]
      <3> TAKE j \in DOMAIN creds
      <3>1. CASE j = k
        <4>1. creds[j] \in DOMAIN owner /\ owner[creds[j]] = owner[w]
          BY <1>3, <2>3, <2>6, <3>1 DEF TablesOk, RowsOk
        <4>2. creds[j] = w
          BY <1>3, <2>3, <4>1, Zenon DEF KeysOk, OneWallet
        <4> QED BY <2>2, <3>1, <4>2
      <3>2. CASE j # k
        BY <2>2, <3>2
      <3> QED BY <3>1, <3>2
    <2>8. \A j \in DOMAIN creds' : creds'[j] \in DOMAIN rows /\ owner[creds'[j]] = j
      <3> TAKE j \in DOMAIN creds'
      <3>1. CASE j = k
        BY <2>2, <2>3, <3>1, Zenon
      <3>2. CASE j # k
        <4>1. j \in DOMAIN creds /\ creds'[j] = creds[j]
          BY <2>2, <3>2
        <4> QED BY <2>6, <4>1, Zenon
      <3> QED BY <3>1, <3>2
    <2>9. ASSUME NEW o \in Runs, run'[o].pc = "answer" PROVE o[1] \in DOMAIN creds' /\ creds'[o[1]] = run'[o].wallet
      <3>1. CASE o = r
        BY <1>7, <2>2, <2>4, <3>1
      <3>2. CASE o # r
        <4>1. run'[o] = run[o] /\ run[o].pc = "answer"
          BY <2>4, <2>9, <3>2
        <4>2. o[1] \in DOMAIN creds /\ creds[o[1]] = run[o].wallet
          BY <1>3, <4>1, Zenon DEF TablesOk, CredsOk
        <4> QED BY <2>7, <4>1, <4>2, Zenon
      <3> QED BY <3>1, <3>2
    <2>10. ASSUME NEW p \in Persons, token[p] # NoWallet PROVE \E j \in DOMAIN creds' : j[1] = p /\ creds'[j] = token[p]
      <3>1. PICK j \in DOMAIN creds : j[1] = p /\ creds[j] = token[p]
        BY <1>3, <2>10, Zenon DEF TablesOk, CredsOk
      <3> QED BY <2>7, <3>1, Zenon
    <2>11. token' = token /\ token = [p \in Persons |-> token[p]]
      <3>1. token = [p \in Persons |-> token[p]]
        BY <1>3, Zenon DEF TablesOk, CredsOk
      <3> QED BY <1>2, <3>1
    <2>12. CredsOk'
      <3>1. \A j \in DOMAIN creds' : creds'[j] \in DOMAIN rows' /\ owner'[creds'[j]] = j
        BY <1>2, <1>10, <2>8
      <3>2. \A p \in Persons : token'[p] # NoWallet => \E j \in DOMAIN creds' : j[1] = p /\ creds'[j] = token'[p]
        BY <2>10, <2>11
      <3>3. token' = [p \in Persons |-> token'[p]]
        BY <2>11
      <3> QED BY <2>9, <3>1, <3>2, <3>3, Zenon DEF CredsOk
    <2>13. ClerkOk'
      BY <1>2, <1>3, <1>10 DEF TablesOk, ClerkOk
    <2>14. UNCHANGED <<challenges, owner>> /\ (x.pc \in Middle \cup Late => run[r].pc \in Middle \cup Late)
      BY <1>2, <1>4, <1>10
    <2>15. KeysOk'
      BY <1>3, <1>4, <1>7, <1>8, <1>9, <2>14, NextKeys, Zenon
    <2> QED BY <1>11, <1>12, <2>5, <2>12, <2>13, <2>15, Zenon DEF OnboardInv, TablesOk
  <1> QED BY <1>5, <1>13, <1>14

\* A token names the wallet of one of the person's passkeys.
LEMMA TokenGiven ==
    ASSUME CredsOk, NEW p \in Persons, NEW w, token' = [token EXCEPT ![p] = w], NEW j \in DOMAIN creds, j[1] = p, creds[j] = w
    PROVE  /\ token' = [q \in Persons |-> token'[q]]
           /\ \A q \in Persons : token'[q] # NoWallet => \E k \in DOMAIN creds : k[1] = q /\ creds[k] = token'[q]
  <1>1. token' = [q \in Persons |-> token'[q]] /\ token'[p] = w /\ \A q \in Persons \ {p} : token'[q] = token[q]
    BY DEF CredsOk
  <1>2. ASSUME NEW q \in Persons, token'[q] # NoWallet PROVE \E k \in DOMAIN creds : k[1] = q /\ creds[k] = token'[q]
    <2>1. CASE q = p
      BY <1>1, <2>1, Zenon
    <2>2. CASE q # p
      BY <1>1, <1>2, <2>2, Zenon DEF CredsOk
    <2> QED BY <2>1, <2>2
  <1> QED BY <1>1, <1>2, Zenon

\* The page moves on without creating a passkey.
LEMMA GoesHome ==
    ASSUME PagesOk, NEW p \in Persons, page' = [page EXCEPT ![p].at = "home"]
    PROVE  PagesStay
  <1> DEFINE y == page[p]
             x == [at |-> "home", tries |-> y.tries]
  <1>1. IsPage(y)
    BY Zenon DEF PagesOk
  <1>2. page' = [page EXCEPT ![p] = [y EXCEPT !.at = "home"]]
    BY DEF PagesOk
  <1>3. [y EXCEPT !.at = "home"] = x
    <2> HIDE DEF y
    <2> QED BY <1>1 DEF IsPage
  <1>4. IsPage(x) /\ x.tries = y.tries
    BY <1>1 DEF IsPage
  <1> HIDE DEF x
  <1>5. page' = [q \in Persons |-> page'[q]] /\ page'[p] = x /\ \A q \in Persons \ {p} : page'[q] = page[q]
    BY <1>2, <1>3 DEF PagesOk
  <1>6. \A q \in Persons : IsPage(page'[q]) /\ page'[q].tries = page[q].tries
    <2> TAKE q \in Persons
    <2>1. CASE q = p
      BY <1>4, <1>5, <2>1, Zenon
    <2>2. CASE q # p
      BY <1>5, <2>2, Zenon DEF PagesOk
    <2> QED BY <2>1, <2>2
  <1> QED BY <1>5, <1>6, Zenon DEF PagesStay, PagesOk

\* The answer, with its token or lost, keeps the invariant.
LEMMA AnswerStep == ASSUME OnboardInv, NEW r \in Runs, Answer(r) PROVE OnboardInv'
  <1>1. run[r].pc = "answer" /\ RegistryStays /\ Advance(r, "done")
    BY DEF Answer, registryVars, identity, traces, RegistryStays
  <1>2. /\ challenges' = challenges /\ rows' = rows /\ attempts' = attempts /\ names' = names /\ creds' = creds /\ clerk' = clerk
        /\ faults \subseteq faults'
    BY FaultGrows DEF Answer, remote, tables
  <1>3. RunsOk /\ PagesOk /\ FunnelOk /\ ChainOk /\ KeysOk /\ TablesOk
    BY Zenon DEF OnboardInv, KeysOk
  <1>4. run[r].pc \in Late /\ Live(r)
    BY <1>1 DEF Live, LivePcs, Late
  <1>5. PICK x : GoesOn(r, "done", x)
    BY <1>1, <1>3, AdvanceFacts, Zenon
  <1>6. x.pc = "done" /\ RunBecomes(r, x) /\ x.wallet = run[r].wallet /\ x.tag = run[r].tag /\ GoesOn(r, x.pc, x)
    BY <1>5, Zenon DEF GoesOn
  <1>7. x.pc \in LivePcs \cup {"done"} /\ x.pc \notin Early /\ x.pc \notin Middle /\ x.pc \notin Late
    BY <1>6 DEF LivePcs, Early, Middle, Late
  <1>8. Person(r) \in Persons /\ r[1] \in Passkeys
    BY RunParts, KeyParts, Zenon DEF Person
  <1>9. PagesStay
    <2>1. CASE page' = page
      BY <1>3, <2>1, SamePages, Zenon
    <2>2. CASE ShowError(r)
      BY <1>3, <2>2, ErrorShown, Zenon
    <2>3. CASE page' = [page EXCEPT ![Person(r)].at = "home"]
      BY <1>3, <1>8, <2>3, GoesHome, Zenon
    <2> QED BY <2>1, <2>2, <2>3 DEF Answer
  <1>10. owner' = owner /\ consumers' = consumers
    BY <1>1 DEF RegistryStays
  <1>11. FunnelOk'
    <2>1. PICK y : Logged(r, y) /\ y.status = attempts[r].status
      BY <1>2, <1>3, NotLogged, Zenon
    <2>2. x.pc \in Early \cup Middle => run[r].pc \in Early \cup Middle
      BY <1>7
    <2> QED BY <1>2, <1>6, <1>10, <2>1, <2>2, FunnelTracks, Zenon
  <1>12. ChainOk'
    BY <1>1, <1>2, <1>3, <1>6, GoesOnSame, NamesStay, Zenon
  <1>13. CASE token' = token
    <2>1. x.pc # "answer" /\ UNCHANGED <<rows, creds, token, clerk>>
      BY <1>2, <1>6, <1>13
    <2> QED BY <1>1, <1>2, <1>4, <1>6, <1>7, <1>9, <1>11, <1>12, <2>1, Passes, Zenon
  <1>14. CASE token' = [token EXCEPT ![Person(r)] = run[r].wallet]
    <2>1. run'[r] = x /\ \A o \in Runs \ {r} : run'[o] = run[o]
      BY <1>3, <1>6, RunFacts, Zenon
    <2>2. RowsOk'
      <3>1. ASSUME NEW o \in Runs
            PROVE  /\ run'[o].pc \in Middle => run'[o].wallet \notin DOMAIN rows
                   /\ run'[o].pc \in Late => run'[o].wallet \in DOMAIN rows
        <4>1. CASE o = r
          BY <1>7, <2>1, <4>1, Zenon
        <4>2. CASE o # r
          <5>1. run'[o] = run[o]
            BY <2>1, <4>2, Zenon
          <5> QED BY <1>3, <5>1, Zenon DEF TablesOk, RowsOk
        <4> QED BY <4>1, <4>2
      <3> QED BY <1>2, <1>3, <1>10, <3>1 DEF TablesOk, RowsOk
    <2>3. CredsOk'
      <3>1. r[1] \in DOMAIN creds /\ creds[r[1]] = run[r].wallet /\ r[1][1] = Person(r)
        BY <1>1, <1>3, Zenon DEF TablesOk, CredsOk, Person
      <3>2. /\ token' = [q \in Persons |-> token'[q]]
            /\ \A q \in Persons : token'[q] # NoWallet => \E k \in DOMAIN creds : k[1] = q /\ creds[k] = token'[q]
        BY <1>3, <1>8, <1>14, <3>1, TokenGiven, Zenon DEF TablesOk
      <3>3. \A k \in DOMAIN creds' : creds'[k] \in DOMAIN rows' /\ owner'[creds'[k]] = k
        BY <1>2, <1>3, <1>10 DEF TablesOk, CredsOk
      <3>4. \A o \in Runs : run'[o].pc = "answer" => o[1] \in DOMAIN creds /\ creds[o[1]] = run'[o].wallet
        <4> TAKE o \in Runs
        <4>1. CASE o = r
          BY <1>6, <2>1, <4>1
        <4>2. CASE o # r
          <5>1. run'[o] = run[o]
            BY <2>1, <4>2, Zenon
          <5> QED BY <1>3, <5>1, Zenon DEF TablesOk, CredsOk
        <4> QED BY <4>1, <4>2
      <3> QED BY <1>2, <3>2, <3>3, <3>4 DEF CredsOk
    <2>4. ClerkOk'
      BY <1>2, <1>3, <1>10 DEF TablesOk, ClerkOk
    <2>5. UNCHANGED <<challenges, owner>> /\ (x.pc \in Middle \cup Late => run[r].pc \in Middle \cup Late)
      BY <1>2, <1>7, <1>10
    <2>6. KeysOk'
      BY <1>3, <1>4, <1>6, <1>7, <1>9, <2>5, NextKeys, Zenon
    <2> QED BY <1>11, <1>12, <2>2, <2>3, <2>4, <2>6, Zenon DEF OnboardInv, TablesOk
  <1> QED BY <1>13, <1>14 DEF Answer

-----------------------------------------------------------------------------
(* The arrival of a request.                                               *)

\* A request that arrives, or is turned away, changes neither chain nor tables.
LEMMA Arrives ==
    ASSUME OnboardInv, NEW r \in Runs, NEW x, RunBecomes(r, x), x.wallet = NoWallet, run[r].pc \in {"none", "post"},
           x.pc \notin Middle, x.pc \notin Late, RegistryStays, UNCHANGED <<rows, creds, token, clerk>>, names' = names
    PROVE  ChainOk' /\ TablesOk' /\ x.wallet = run[r].wallet
  <1>1. RunsOk /\ ChainOk /\ KeysOk /\ TablesOk
    BY Zenon DEF OnboardInv, KeysOk
  <1>2. run[r].wallet = NoWallet
    <2>1. run[r].pc \in Early \cup {"none", "post"}
      OBVIOUS
    <2> QED BY <1>1, <2>1, Zenon DEF KeysOk, OneWallet
  <1>3. x.wallet = run[r].wallet /\ (run[r].wallet # NoWallet => x.tag = run[r].tag)
    BY <1>2
  <1>4. ChainOk'
    BY <1>1, <1>3, GoesOnSame, NamesStay, Zenon
  <1>5. UNCHANGED <<consumers, owner, rows, creds, token, clerk>>
    BY DEF RegistryStays
  <1>6. x.pc # "answer"
    BY DEF Late
  <1>7. TablesOk'
    BY <1>1, <1>3, <1>5, <1>6, TablesPass, Zenon
  <1> QED BY <1>3, <1>4, <1>7

\* A request that is not in the handler has nothing to track.
LEMMA ArrivesFunnel ==
    ASSUME OnboardInv, NEW r \in Runs, NEW x, RunBecomes(r, x), x.wallet = run[r].wallet,
           x.pc \notin Early \cup Middle, owner' = owner, rows' = rows, attempts' = attempts, faults \subseteq faults'
    PROVE  FunnelOk'
  <1>1. RunsOk /\ FunnelOk
    BY Zenon DEF OnboardInv, KeysOk
  <1>2. PICK y : Logged(r, y) /\ y.status = attempts[r].status
    BY <1>1, NotLogged, Zenon
  <1>3. DOMAIN rows' = DOMAIN rows
    BY Zenon
  <1>4. ASSUME Traced'
        PROVE  /\ y.status = "completed" => run[r].wallet \in DOMAIN rows
               /\ run[r].wallet \in DOMAIN rows => y.status \in {"started", "completed"}
    <2>1. Traced
      BY <1>4 DEF Traced
    <2>2. AttemptOk(r)
      BY <1>1, <2>1, Zenon DEF FunnelOk
    <2> QED BY <1>2, <2>2, Zenon DEF AttemptOk
  <1>5. Traced' => /\ x.pc \in Early \cup Middle => y.status = "started"
                   /\ y.status = "completed" => run[r].wallet \in DOMAIN rows
                   /\ run[r].wallet \in DOMAIN rows => y.status \in {"started", "completed"}
    BY <1>4, Zenon
  <1> QED BY <1>1, <1>2, <1>3, <1>5, FunnelMoves, Zenon

\* A ceremony whose challenge is used up ends the request and changes nothing else.
LEMMA RefuseStep == ASSUME OnboardInv, NEW r \in Runs, RefuseCeremony(r) PROVE OnboardInv'
  <1>1. run[r].pc = "post" /\ RegistryStays /\ Advance(r, "done") /\ ShowError(r)
    BY DEF RefuseCeremony, registryVars, identity, traces, RegistryStays
  <1>2. /\ challenges' = challenges /\ rows' = rows /\ attempts' = attempts /\ names' = names
        /\ UNCHANGED <<rows, creds, token, clerk>> /\ faults \subseteq faults'
    BY DEF RefuseCeremony, remote, tables
  <1>3. RunsOk /\ PagesOk /\ KeysOk
    BY Zenon DEF OnboardInv, KeysOk
  <1>4. PICK x : GoesOn(r, "done", x)
    BY <1>1, <1>3, AdvanceFacts, Zenon
  <1>5. x.pc = "done" /\ RunBecomes(r, x) /\ x.wallet = run[r].wallet /\ GoesOn(r, x.pc, x)
    BY <1>4, Zenon DEF GoesOn
  <1>6. x.pc \notin LivePcs /\ x.pc \notin Early /\ x.pc \notin Middle /\ x.pc \notin Late /\ x.pc \notin Early \cup Middle
    BY <1>5 DEF LivePcs, Early, Middle, Late
  <1>7. run[r].pc \in {"none", "post"} /\ run[r].pc # "none"
    BY <1>1
  <1>8. x.wallet = NoWallet
    <2>1. run[r].pc \in Early \cup {"none", "post"}
      BY <1>7
    <2> QED BY <1>3, <1>5, <2>1, Zenon DEF KeysOk, OneWallet
  <1>9. ChainOk' /\ TablesOk'
    BY <1>1, <1>2, <1>5, <1>6, <1>7, <1>8, Arrives, Zenon
  <1>10. owner' = owner
    BY <1>1 DEF RegistryStays
  <1>11. FunnelOk'
    BY <1>2, <1>5, <1>6, <1>10, ArrivesFunnel, Zenon
  <1>12. PagesGrow
    BY <1>1, <1>3, ErrorShown, StayGrows, Zenon
  <1>13. x.pc \in LivePcs \cup {"done"} /\ x.pc \notin Middle \cup Late /\ challenges' \subseteq challenges
    BY <1>2, <1>5, <1>6
  <1>14. KeysOk'
    BY <1>3, <1>5, <1>6, <1>7, <1>10, <1>12, <1>13, StepKeys, Zenon
  <1> QED BY <1>9, <1>11, <1>14, Zenon DEF OnboardInv

\* Using up the challenge lets one of the two copies in.
LEMMA ReceiveStep == ASSUME OnboardInv, NEW r \in Runs, Receive(r) PROVE OnboardInv'
  <1>1. /\ run[r].pc = "post" /\ RegistryStays /\ Advance(r, "signer") /\ r[1] \in challenges
        /\ challenges' = challenges \ {r[1]}
    BY DEF Receive, VerifyCeremony, registryVars, identity, traces, RegistryStays
  <1>2. rows' = rows /\ names' = names /\ UNCHANGED <<rows, creds, token, clerk>> /\ page' = page
    BY DEF Receive, remote
  <1>3. RunsOk /\ PagesOk /\ KeysOk /\ FunnelOk /\ ChainOk /\ TablesOk
    BY Zenon DEF OnboardInv, KeysOk
  <1>4. PICK x : GoesOn(r, "signer", x)
    BY <1>1, <1>3, AdvanceFacts, Zenon
  <1>5. x.pc = "signer" /\ RunBecomes(r, x) /\ x.wallet = run[r].wallet /\ GoesOn(r, x.pc, x)
    BY <1>4, Zenon DEF GoesOn
  <1>6. x.pc \in LivePcs \cup {"done"} /\ x.pc \notin Middle /\ x.pc \notin Late /\ x.pc \notin Middle \cup Late
    BY <1>5 DEF LivePcs, Early, Middle, Late
  <1>7. run[r].pc \in {"none", "post"} /\ run[r].pc # "none"
    BY <1>1
  <1>8. x.wallet = NoWallet
    <2>1. run[r].pc \in Early \cup {"none", "post"}
      BY <1>7
    <2> QED BY <1>3, <1>5, <2>1, Zenon DEF KeysOk, OneWallet
  <1>9. ChainOk' /\ TablesOk'
    BY <1>1, <1>2, <1>5, <1>6, <1>7, <1>8, Arrives, Zenon
  <1>10. owner' = owner /\ DOMAIN rows' = DOMAIN rows
    BY <1>1, <1>2 DEF RegistryStays
  <1>11. run[r].wallet \notin DOMAIN rows
    BY <1>3, <1>5, <1>8, NoWalletNoRow
  <1>12. FunnelOk'
    <2>1. CASE attempts' = [attempts EXCEPT ![r].status = "started"] /\ faults' = faults
      <3>1. PICK y : Logged(r, y) /\ y.status = "started"
        BY <1>3, <2>1, StatusFacts, Zenon
      <3>2. y.status # "completed" /\ faults \subseteq faults'
        BY <2>1, <3>1
      <3>3. Traced' => /\ x.pc \in Early \cup Middle => y.status = "started"
                       /\ y.status = "completed" => run[r].wallet \in DOMAIN rows
                       /\ run[r].wallet \in DOMAIN rows => y.status \in {"started", "completed"}
        BY <1>11, <3>1, <3>2
      <3> QED BY <1>3, <1>5, <1>10, <3>1, <3>2, <3>3, FunnelMoves, Zenon
    <2>2. CASE Fault("step") /\ attempts' = attempts
      <3>1. PICK y : Logged(r, y)
        BY <1>3, <2>2, NotLogged, Zenon
      <3>2. faults \subseteq faults' /\ ~Traced'
        BY <2>2, FaultGrows DEF Traced
      <3> QED BY <1>3, <1>5, <1>10, <3>1, <3>2, FunnelMoves, Zenon
    <2> QED BY <2>1, <2>2 DEF Receive
  <1>13. PagesGrow
    BY <1>2, <1>3, SamePages, StayGrows, Zenon
  <1>14. challenges' \subseteq challenges /\ r[1] \notin challenges'
    BY <1>1
  <1>15. ~Owned(r[1]) /\ \A o \in Runs : o[1] = r[1] /\ Live(o) => o = r
    BY <1>1, <1>3, Zenon DEF KeysOk, OneRequest
  <1>16. KeysOk'
    BY <1>3, <1>5, <1>6, <1>7, <1>8, <1>10, <1>13, <1>14, <1>15, StepKeys, Zenon
  <1> QED BY <1>9, <1>12, <1>16, Zenon DEF OnboardInv

\* The copy of a request waits beside it.
LEMMA RedeliverStep == ASSUME OnboardInv, NEW q \in Runs, Redeliver(q) PROVE OnboardInv'
  <1> PICK r : r = <<q[1], 2>>
    OBVIOUS
  <1> PICK x : x = run[q]
    OBVIOUS
  <1>1. run[q].pc = "post" /\ run[r].pc = "none" /\ RegistryStays /\ RunBecomes(r, x)
    BY DEF Redeliver, registryVars, identity, traces, RegistryStays, RunBecomes
  <1>2. /\ challenges' = challenges /\ rows' = rows /\ attempts' = attempts /\ names' = names /\ page' = page
        /\ UNCHANGED <<rows, creds, token, clerk>> /\ faults \subseteq faults'
    BY FaultGrows DEF Redeliver, remote, tables
  <1>3. RunsOk /\ PagesOk /\ KeysOk
    BY Zenon DEF OnboardInv, KeysOk
  <1>4. r \in Runs /\ r[1] = q[1] /\ r[1] \in Passkeys
    BY RunParts
  <1>5. x.pc = "post" /\ IsRun(x) /\ x.tag \in Names /\ Tried(r[1])
    <2>1. IsRun(run[q]) /\ run[q].tag \in Names /\ Tried(q[1])
      BY <1>1, <1>3 DEF RunsOk
    <2> QED BY <1>1, <1>4, <2>1, Zenon
  <1>6. /\ x.pc \notin LivePcs /\ x.pc \notin Early /\ x.pc \notin Middle /\ x.pc \notin Late
        /\ x.pc \notin Early \cup Middle /\ x.pc \notin Middle \cup Late
    BY <1>5 DEF LivePcs, Early, Middle, Late
  <1>7. run[r].pc \in {"none", "post"}
    BY <1>1
  <1>8. x.wallet = NoWallet
    <2>1. run[q].pc \in Early \cup {"none", "post"}
      BY <1>1
    <2> QED BY <1>3, <2>1, Zenon DEF KeysOk, OneWallet
  <1>9. ChainOk' /\ TablesOk' /\ x.wallet = run[r].wallet
    BY <1>1, <1>2, <1>4, <1>6, <1>7, <1>8, Arrives, Zenon
  <1>10. owner' = owner
    BY <1>1 DEF RegistryStays
  <1>11. FunnelOk'
    BY <1>1, <1>2, <1>4, <1>6, <1>9, <1>10, ArrivesFunnel, Zenon
  <1>12. PagesGrow
    BY <1>2, <1>3, SamePages, StayGrows, Zenon
  <1>13. /\ \A w \in DOMAIN owner : w \in DOMAIN owner' /\ owner'[w] = owner[w]
         /\ \A w \in DOMAIN owner' : owner'[w] \in Passkeys /\ Tried(owner[w])'
         /\ \A v, w \in DOMAIN owner' : owner'[v] = owner'[w] => v = w
         /\ \A k \in Passkeys : Owned(k)' <=> Owned(k)
    BY <1>3, <1>10, <1>12, OwnersStill
  <1>14. \A k \in Passkeys : Tried(k) => Tried(k)'
    BY <1>3, <1>12, TriedGrows, Zenon
  <1>15. Tried(r[1])' /\ x.pc \in LivePcs \cup {"post", "done"}
    BY <1>4, <1>5, <1>14
  <1>16. challenges' \subseteq Passkeys /\ \A k \in challenges' : Tried(k)' /\ ~Owned(k)'
    <2>1. challenges \subseteq Passkeys /\ \A k \in challenges : Tried(k) /\ ~Owned(k)
      BY <1>3, Zenon DEF KeysOk, OneRequest
    <2> QED BY <1>2, <1>13, <1>14, <2>1
  <1>17. \A o \in Runs \ {r} : Live(o) => o[1] \notin challenges' /\ (o[1] = r[1] => x.pc \notin LivePcs)
    <2>1. \A o \in Runs : Live(o) => o[1] \notin challenges
      BY <1>3, Zenon DEF KeysOk, OneRequest
    <2> QED BY <1>2, <1>6, <2>1
  <1>18. \A o \in Runs \ {r} : run[o].pc \in Early => ~Owned(o[1])'
    <2>1. \A o \in Runs : run[o].pc \in Early => ~Owned(o[1])
      BY <1>3, Zenon DEF KeysOk, OneRequest
    <2>2. \A o \in Runs : o[1] \in Passkeys
      BY RunParts, Zenon
    <2> QED BY <1>13, <2>1, <2>2
  <1>19. KeysOk'
    BY <1>1, <1>3, <1>4, <1>5, <1>6, <1>8, <1>12, <1>13, <1>15, <1>16, <1>17, <1>18, MoveKeys, Zenon
  <1> QED BY <1>9, <1>11, <1>19, Zenon DEF OnboardInv

\* Pressing the button makes a passkey that no request and no wallet has.
LEMMA CreateStep == ASSUME OnboardInv, NEW p \in Persons, NEW tag \in Names, CreateWallet(p, tag) PROVE OnboardInv'
  <1> PICK n : n = page[p].tries + 1
    OBVIOUS
  <1> PICK k : k = <<p, n>>
    OBVIOUS
  <1> PICK r : r = <<k, 1>>
    OBVIOUS
  <1> DEFINE x == [pc |-> "post", tag |-> tag, wallet |-> NoWallet]
             g == [at |-> "waiting", tries |-> n]
  <1>1. RunsOk /\ PagesOk /\ KeysOk /\ FunnelOk
    BY Zenon DEF OnboardInv, KeysOk
  <1>2. n <= MaxTries[p] /\ RegistryStays /\ challenges' = challenges \cup {k} /\ page' = [page EXCEPT ![p] = g]
    BY DEF CreateWallet, registryVars, identity, traces, RegistryStays
  <1>3. run' = [run EXCEPT ![r] = x]
    BY DEF CreateWallet
  <1>4. /\ rows' = rows /\ attempts' = attempts /\ names' = names /\ UNCHANGED <<rows, creds, token, clerk>>
        /\ faults \subseteq faults'
    BY DEF CreateWallet, remote, tables
  <1>5. page[p].tries \in Nat /\ n \in Nat \ {0}
    <2>1. page[p].tries \in Nat
      BY <1>1, Zenon DEF PagesOk, IsPage
    <2> QED BY <2>1
  <1>6. k \in Passkeys /\ k[1] = p /\ k[2] = n
    BY <1>2, <1>5, KeyParts
  <1>7. r \in Runs /\ r[1] = k
    BY <1>6, RunParts, Zenon
  <1>8. ~Tried(k)
    BY <1>5, <1>6 DEF Tried
  <1>9. IsRun(x) /\ x.pc = "post" /\ x.tag = tag /\ x.wallet = NoWallet
    BY DEF IsRun
  <1>10. IsPage(g) /\ g.tries = n
    BY <1>5 DEF IsPage
  <1> HIDE DEF x, g
  <1>11. RunBecomes(r, x)
    BY <1>3, Zenon DEF RunBecomes
  <1>12. PagesGrow /\ page'[p].tries = n
    <2>1. page' = [o \in Persons |-> page'[o]] /\ page'[p] = g /\ \A o \in Persons \ {p} : page'[o] = page[o]
      BY <1>1, <1>2 DEF PagesOk
    <2>2. ASSUME NEW o \in Persons PROVE IsPage(page'[o]) /\ page'[o].tries >= page[o].tries
      <3>1. CASE o = p
        BY <1>5, <1>10, <2>1, <3>1
      <3>2. CASE o # p
        <4>1. page'[o] = page[o]
          BY <2>1, <3>2, Zenon
        <4>2. IsPage(page[o]) /\ page[o].tries \in Nat
          BY <1>1, Zenon DEF PagesOk, IsPage
        <4>3. page[o].tries >= page[o].tries
          BY <4>2
        <4> QED BY <4>1, <4>2, <4>3, Zenon
      <3> QED BY <3>1, <3>2
    <2> QED BY <1>10, <2>1, <2>2, Zenon DEF PagesGrow, PagesOk
  <1>13. Tried(k)'
    BY <1>5, <1>6, <1>12 DEF Tried
  <1>14. \A c \in Passkeys : Tried(c) => Tried(c)'
    BY <1>1, <1>12, TriedGrows, Zenon
  <1>15. owner' = owner
    BY <1>2 DEF RegistryStays
  <1>16. /\ \A w \in DOMAIN owner : w \in DOMAIN owner' /\ owner'[w] = owner[w]
         /\ \A w \in DOMAIN owner' : owner'[w] \in Passkeys /\ Tried(owner[w])'
         /\ \A v, w \in DOMAIN owner' : owner'[v] = owner'[w] => v = w
         /\ \A c \in Passkeys : Owned(c)' <=> Owned(c)
    BY <1>1, <1>12, <1>15, OwnersStill
  <1>17. ~Owned(k)
    <2>1. \A w \in DOMAIN owner : Tried(owner[w])
      BY <1>1, Zenon DEF KeysOk, OneWallet
    <2> QED BY <1>8, <2>1, Zenon DEF Owned
  <1>18. \A o \in Runs : o[1] = k => run[o].pc = "none"
    BY <1>1, <1>8, Zenon DEF RunsOk
  <1>19. run[r].pc \in {"none", "post"}
    BY <1>7, <1>18
  <1>20. /\ x.pc \notin LivePcs /\ x.pc \notin Early /\ x.pc \notin Middle /\ x.pc \notin Late
         /\ x.pc \notin Early \cup Middle /\ x.pc \notin Middle \cup Late /\ x.pc \in LivePcs \cup {"post", "done"}
    BY <1>9 DEF LivePcs, Early, Middle, Late
  <1>21. ChainOk' /\ TablesOk' /\ x.wallet = run[r].wallet
    BY <1>2, <1>4, <1>7, <1>9, <1>11, <1>19, <1>20, Arrives, Zenon
  <1>22. FunnelOk'
    BY <1>4, <1>7, <1>11, <1>15, <1>20, <1>21, ArrivesFunnel, Zenon
  <1>23. challenges' \subseteq Passkeys /\ \A c \in challenges' : Tried(c)' /\ ~Owned(c)'
    <2>1. challenges \subseteq Passkeys /\ \A c \in challenges : Tried(c) /\ ~Owned(c)
      BY <1>1, Zenon DEF KeysOk, OneRequest
    <2> QED BY <1>2, <1>6, <1>13, <1>14, <1>16, <1>17, <2>1
  <1>24. \A o \in Runs \ {r} : Live(o) => o[1] \notin challenges' /\ (o[1] = r[1] => x.pc \notin LivePcs)
    <2>1. \A o \in Runs : Live(o) => o[1] \notin challenges
      BY <1>1, Zenon DEF KeysOk, OneRequest
    <2>2. \A o \in Runs : Live(o) => o[1] # k
      BY <1>18, Stages DEF Live
    <2> QED BY <1>2, <1>20, <2>1, <2>2
  <1>25. \A o \in Runs \ {r} : run[o].pc \in Early => ~Owned(o[1])'
    <2>1. \A o \in Runs : run[o].pc \in Early => ~Owned(o[1])
      BY <1>1, Zenon DEF KeysOk, OneRequest
    <2>2. \A o \in Runs : o[1] \in Passkeys
      BY RunParts, Zenon
    <2> QED BY <1>16, <2>1, <2>2
  <1>26. Tried(r[1])' /\ x.tag \in Names
    BY <1>7, <1>9, <1>13
  <1>27. KeysOk'
    BY <1>1, <1>7, <1>9, <1>11, <1>12, <1>16, <1>20, <1>23, <1>24, <1>25, <1>26, MoveKeys, Zenon
  <1> QED BY <1>21, <1>22, <1>27, Zenon DEF OnboardInv

-----------------------------------------------------------------------------
(* The deployment of a wallet.                                             *)

\* Every request with a wallet has the new one and its tag, or what it had.
WalletsTagged(w, tag) ==
    \A o \in Runs : run'[o].wallet # NoWallet =>
        \/ run'[o].wallet = w /\ run'[o].tag = tag
        \/ run'[o].wallet = run[o].wallet /\ run'[o].tag = run[o].tag

\* registerConsumer gives a new wallet a free name and the next number.
LEMMA NewConsumer ==
    ASSUME OnboardInv, NEW w \in Wallets, NEW tag \in Names, NEW country, NEW k,
           RegisterConsumer(w, tag, country, 0), owner' = Put(owner, w, k), recovered' = recovered, names' = names,
           WalletsTagged(w, tag)
    PROVE  /\ ChainOk' /\ w \notin DOMAIN consumers /\ DOMAIN owner' = DOMAIN owner \cup {w} /\ owner'[w] = k
           /\ (\A v \in DOMAIN owner : v # w /\ owner'[v] = owner[v])
           /\ \A v \in DOMAIN consumers : consumers'[v] = consumers[v]
  <1> DEFINE d == [saveWallet |-> NoWallet, usdWallet |-> NoWallet, ens |-> tag, countryCode |-> country,
                   kycLevel |-> 0, isActive |-> TRUE, globalConsumerId |-> nextGlobalId]
  <1>1. ChainTypes /\ Indexed /\ OwnersKnown /\ Named
    BY Zenon DEF OnboardInv, ChainOk
  <1>2. tag # NoName /\ w # NoWallet
    BY RegistryAssumption
  <1>3. /\ w \notin DOMAIN consumers /\ ensByHash[tag] = NoWallet /\ nextGlobalId' = nextGlobalId + 1
        /\ ensByHash' = [ensByHash EXCEPT ![tag] = w] /\ consumerById' = [consumerById EXCEPT ![nextGlobalId] = w]
        /\ consumers' = Recorded(w, d)
    BY <1>2 DEF RegisterConsumer
  <1>4. IsConsumer(d) /\ d.ens = tag /\ d.isActive /\ d.globalConsumerId = nextGlobalId
    BY DEF IsConsumer
  <1> HIDE DEF d
  <1>5. /\ DOMAIN consumers' = DOMAIN consumers \cup {w} /\ consumers'[w] = d
        /\ \A v \in DOMAIN consumers : consumers'[v] = consumers[v]
    BY <1>3 DEF Recorded
  <1>6. /\ DOMAIN owner' = DOMAIN owner \cup {w} /\ owner'[w] = k
        /\ \A v \in DOMAIN owner : v # w /\ owner'[v] = owner[v]
    BY <1>1, <1>3 DEF Put, ChainTypes
  <1>7. IsFiniteSet(DOMAIN owner) /\ Cardinality(DOMAIN owner) \in Nat /\ Cardinality(DOMAIN owner) <= Cardinality(Wallets)
        /\ Cardinality(Wallets) \in Nat
    <2>1. DOMAIN owner \subseteq Wallets /\ IsFiniteSet(Wallets)
      BY <1>1, RegistryAssumption DEF ChainTypes
    <2> QED BY <2>1, FS_Subset, FS_CardinalityType
  <1>8. nextGlobalId \in Nat /\ nextGlobalId \in Ids /\ nextGlobalId' = Cardinality(DOMAIN owner')
    <2>1. Cardinality(DOMAIN owner \cup {w}) = Cardinality(DOMAIN owner) + 1
      BY <1>6, <1>7, FS_AddElement
    <2> QED BY <1>1, <1>3, <1>6, <1>7, <2>1 DEF ChainTypes, Ids
  <1>9. ensByHash'[tag] = w /\ \A m \in Names \ {tag} : ensByHash'[m] = ensByHash[m]
    BY <1>1, <1>3 DEF ChainTypes
  <1>10. consumerById'[nextGlobalId] = w /\ \A i \in Ids \ {nextGlobalId} : consumerById'[i] = consumerById[i]
    BY <1>1, <1>3, <1>8 DEF ChainTypes
  <1>11. ASSUME NEW v \in DOMAIN consumers
         PROVE  /\ consumers[v].ens \in Names \ {tag} /\ consumers[v].globalConsumerId \in 0 .. nextGlobalId - 1
                /\ consumers[v].globalConsumerId \in Ids \ {nextGlobalId}
    <2>1. consumers[v].ens \in Names /\ ensByHash[consumers[v].ens] # NoWallet /\ consumers[v].globalConsumerId \in 0 .. nextGlobalId - 1
      BY <1>1, Zenon DEF Indexed
    <2>2. consumers[v].ens # tag
      BY <1>3, <2>1, Zenon
    <2> PICK e : e = consumers[v].ens
      OBVIOUS
    <2> PICK i : i = consumers[v].globalConsumerId
      OBVIOUS
    <2>3. i \in 0 .. nextGlobalId - 1 => i \in Ids \ {nextGlobalId}
      BY <1>7, <1>8 DEF Ids
    <2>4. e \in Names \ {tag}
      BY <2>1, <2>2
    <2> QED BY <2>1, <2>3, <2>4, Zenon
  <1>12. ChainTypes'
    <2>1. \A v \in DOMAIN consumers' : IsConsumer(consumers'[v])
      <3>1. \A v \in DOMAIN consumers : IsConsumer(consumers[v])
        BY <1>1, Zenon DEF ChainTypes
      <3> QED BY <1>4, <1>5, <3>1
    <2>2. DOMAIN owner' \subseteq DOMAIN consumers' /\ DOMAIN consumers' \subseteq Wallets
      BY <1>1, <1>5, <1>6 DEF ChainTypes
    <2>3. ensByHash' \in [Names -> Wallets \cup {NoWallet}] /\ consumerById' \in [Ids -> Wallets \cup {NoWallet}]
      BY <1>1, <1>3 DEF ChainTypes
    <2>4. names' = [m \in Names |-> names'[m]]
      BY <1>1 DEF ChainTypes
    <2> QED BY <1>8, <2>1, <2>2, <2>3, <2>4, Zenon DEF ChainTypes
  <1>13. Indexed'
    <2>1. ASSUME NEW v \in DOMAIN consumers'
          PROVE  /\ consumers'[v].ens \in Names /\ ensByHash'[consumers'[v].ens] # NoWallet
                 /\ consumers'[v].globalConsumerId \in 0 .. nextGlobalId' - 1
                 /\ consumers'[v].isActive =>
                       ensByHash'[consumers'[v].ens] = v /\ consumerById'[consumers'[v].globalConsumerId] = v
      <3>1. CASE v = w
        <4>1. consumers'[v] = d /\ nextGlobalId \in 0 .. nextGlobalId' - 1
          BY <1>3, <1>5, <1>8, <3>1
        <4> QED BY <1>2, <1>4, <1>9, <1>10, <3>1, <4>1
      <3>2. CASE v # w
        <4>1. v \in DOMAIN consumers /\ consumers'[v] = consumers[v]
          BY <1>5, <3>2
        <4> PICK e : e = consumers[v].ens
          OBVIOUS
        <4> PICK i : i = consumers[v].globalConsumerId
          OBVIOUS
        <4>2. e \in Names \ {tag} /\ i \in 0 .. nextGlobalId - 1 /\ i \in Ids \ {nextGlobalId}
          BY <1>11, <4>1
        <4>3. ensByHash[e] # NoWallet /\ (consumers[v].isActive => ensByHash[e] = v /\ consumerById[i] = v)
          BY <1>1, <4>1, Zenon DEF Indexed
        <4>4. ensByHash'[e] = ensByHash[e] /\ consumerById'[i] = consumerById[i] /\ i \in 0 .. nextGlobalId' - 1
          BY <1>3, <1>8, <1>9, <1>10, <4>2
        <4>5. consumers'[v].ens = e /\ consumers'[v].globalConsumerId = i /\ consumers'[v].isActive = consumers[v].isActive
          BY <4>1, Zenon
        <4>6. e \in Names
          BY <4>2
        <4> QED BY <4>3, <4>4, <4>5, <4>6, Zenon
      <3> QED BY <3>1, <3>2
    <2> QED BY <2>1, Zenon DEF Indexed
  <1>14. OwnersKnown'
    <2>1. \A v \in DOMAIN owner' : v \notin recovered' => consumers'[v].isActive
      <3>1. \A v \in DOMAIN owner : v \in DOMAIN consumers /\ (v \notin recovered => consumers[v].isActive)
        BY <1>1 DEF OwnersKnown, ChainTypes
      <3> QED BY <1>4, <1>5, <1>6, <3>1
    <2>2. ASSUME NEW u \in DOMAIN owner', NEW v \in DOMAIN owner'
          PROVE  /\ consumers'[u].ens = consumers'[v].ens => u = v
                 /\ consumers'[u].globalConsumerId = consumers'[v].globalConsumerId => u = v
      <3>1. \A z \in DOMAIN owner : z \in DOMAIN consumers
        BY <1>1 DEF ChainTypes
      <3>2. \A z \in DOMAIN owner : /\ consumers'[z] = consumers[z] /\ consumers[z].ens # tag
                                    /\ consumers[z].globalConsumerId # nextGlobalId
        BY <1>5, <1>11, <3>1
      <3>3. CASE u \in DOMAIN owner /\ v \in DOMAIN owner
        <4>1. consumers'[u] = consumers[u] /\ consumers'[v] = consumers[v]
          BY <3>2, <3>3
        <4> QED BY <1>1, <3>3, <4>1, Zenon DEF OwnersKnown
      <3>4. CASE u = w /\ v = w
        BY <3>4
      <3>5. CASE u = w /\ v \in DOMAIN owner
        BY <1>4, <1>5, <3>2, <3>5
      <3>6. CASE u \in DOMAIN owner /\ v = w
        BY <1>4, <1>5, <3>2, <3>6
      <3> QED BY <1>6, <3>3, <3>4, <3>5, <3>6
    <2>3. ASSUME NEW o \in Runs, run'[o].wallet # NoWallet PROVE consumers'[run'[o].wallet].ens = run'[o].tag
      <3>1. CASE run'[o].wallet = w /\ run'[o].tag = tag
        BY <1>4, <1>5, <3>1, Zenon
      <3>2. CASE run'[o].wallet = run[o].wallet /\ run'[o].tag = run[o].tag
        <4>1. run[o].wallet \in DOMAIN owner
          BY <2>3, <3>2, Zenon DEF OnboardInv, KeysOk, OneWallet
        <4>2. run[o].wallet \in DOMAIN consumers /\ consumers[run[o].wallet].ens = run[o].tag
          BY <1>1, <2>3, <3>2, <4>1 DEF ChainTypes, OwnersKnown
        <4> QED BY <1>5, <3>2, <4>2, Zenon
      <3> QED BY <2>3, <3>1, <3>2, Zenon DEF WalletsTagged
    <2> QED BY <2>1, <2>2, <2>3, Zenon DEF OwnersKnown
  <1>15. Named'
    <2>1. ASSUME NEW m \in Names, ensByHash'[m] = NoWallet PROVE names[m] = "free"
      <3>1. m # tag
        BY <1>2, <1>9, <2>1
      <3> QED BY <1>1, <1>9, <2>1, <3>1 DEF Named
    <2>2. ASSUME NEW v \in DOMAIN owner' PROVE names[consumers'[v].ens] \in {"free", "minted", v}
      <3>1. CASE v = w
        <4>1. consumers'[v].ens = tag /\ names[tag] = "free"
          BY <1>1, <1>3, <1>4, <1>5, <3>1, Zenon DEF Named
        <4> QED BY <4>1
      <3>2. CASE v # w
        <4>1. v \in DOMAIN owner /\ consumers'[v] = consumers[v]
          BY <1>1, <1>5, <1>6, <3>2 DEF ChainTypes
        <4> QED BY <1>1, <4>1, Zenon DEF Named
      <3> QED BY <3>1, <3>2
    <2> QED BY <2>1, <2>2 DEF Named
  <1> QED BY <1>3, <1>5, <1>6, <1>12, <1>13, <1>14, <1>15 DEF ChainOk

\* A request's wallet is deployed: the request goes on with it, or its receipt is lost.
NewWallet(r, w, x) ==
    /\ RunBecomes(r, x) /\ IsRun(x) /\ x.tag = run[r].tag /\ owner' = Put(owner, w, r[1]) /\ recovered' = recovered
    /\ (x.pc = "idos" /\ x.wallet = w) \/ (x.pc = "done" /\ x.wallet = NoWallet)

WalletLogged(r, w, x, y) ==
    /\ IsAttempt(y) /\ attempts' = [attempts EXCEPT ![r] = y]
    /\ Traced' => x.pc = "idos" /\ y.wallet = w /\ y.status = "started"

\* ... and it is the first wallet of that passkey.
LEMMA NewWalletKeys ==
    ASSUME OnboardInv, NEW r \in Runs, run[r].pc = "deploy", NEW w \in Wallets, w \notin DOMAIN consumers,
           NEW x, NewWallet(r, w, x), PagesStay, challenges' = challenges
    PROVE  KeysOk'
  <1>1. KeysOk /\ ChainOk /\ RunsOk /\ PagesOk
    BY Zenon DEF OnboardInv, KeysOk
  <1> PICK k : k = r[1]
    OBVIOUS
  <1>2. w \notin DOMAIN owner /\ w # NoWallet
    BY <1>1, RegistryAssumption DEF ChainOk, ChainTypes
  <1>3. /\ DOMAIN owner' = DOMAIN owner \cup {w} /\ owner'[w] = k
        /\ \A v \in DOMAIN owner : v # w /\ owner'[v] = owner[v]
    BY <1>2 DEF NewWallet, Put
  <1>4. run[r].pc \in Early /\ run[r].pc # "none" /\ Live(r) /\ k \in Passkeys
    BY RunParts DEF Early, Live, LivePcs
  <1>5. run[r].tag \in Names /\ Tried(k)
    BY <1>1, <1>4, Zenon DEF RunsOk
  <1>6. PagesGrow
    BY <1>1, StayGrows, Zenon
  <1>7. \A c \in Passkeys : Tried(c) => Tried(c)'
    BY <1>1, <1>6, TriedGrows, Zenon
  <1>8. ~Owned(k) /\ k \notin challenges /\ \A o \in Runs : o[1] = k /\ Live(o) => o = r
    BY <1>1, <1>4, Zenon DEF KeysOk, OneRequest
  <1>9. \A c \in Passkeys : c # k => (Owned(c)' <=> Owned(c))
    <2>1. \A c \in Passkeys : c # k => ((\E v \in DOMAIN owner' : owner'[v] = c) <=> \E v \in DOMAIN owner : owner[v] = c)
      BY <1>3
    <2> QED BY <2>1, Zenon DEF Owned
  <1>10. challenges' \subseteq Passkeys /\ \A c \in challenges' : Tried(c)' /\ ~Owned(c)'
    <2>1. challenges \subseteq Passkeys /\ \A c \in challenges : Tried(c) /\ ~Owned(c)
      BY <1>1, Zenon DEF KeysOk, OneRequest
    <2> QED BY <1>7, <1>8, <1>9, <2>1
  <1>11. \A o \in Runs \ {r} : Live(o) => o[1] \notin challenges' /\ (o[1] = r[1] => x.pc \notin LivePcs)
    <2>1. \A o \in Runs : Live(o) => o[1] \notin challenges
      BY <1>1, Zenon DEF KeysOk, OneRequest
    <2> QED BY <1>8, <2>1
  <1>12. \A o \in Runs \ {r} : run[o].pc \in Early => ~Owned(o[1])'
    <2>1. \A o \in Runs : run[o].pc \in Early => ~Owned(o[1]) /\ Live(o)
      BY <1>1, Stages DEF KeysOk, OneRequest, Live
    <2>2. \A o \in Runs : o[1] \in Passkeys
      BY RunParts, Zenon
    <2> QED BY <1>8, <1>9, <2>1, <2>2
  <1>13. \A v \in DOMAIN owner' : owner'[v] \in Passkeys /\ Tried(owner[v])'
    <2> TAKE v \in DOMAIN owner'
    <2> PICK c : c = owner'[v]
      OBVIOUS
    <2>1. c \in Passkeys /\ Tried(c)
      <3>1. CASE v = w
        BY <1>3, <1>4, <1>5, <3>1, Zenon
      <3>2. CASE v # w
        <4>1. v \in DOMAIN owner /\ c = owner[v]
          BY <1>3, <3>2
        <4>2. \A z \in DOMAIN owner : owner[z] \in Passkeys /\ Tried(owner[z])
          BY <1>1, Zenon DEF KeysOk, OneWallet
        <4> QED BY <4>1, <4>2
      <3> QED BY <3>1, <3>2
    <2>2. Tried(c)'
      BY <1>7, <2>1
    <2> QED BY <2>1, <2>2 DEF Tried
  <1>14. ASSUME NEW u \in DOMAIN owner', NEW v \in DOMAIN owner', owner'[u] = owner'[v] PROVE u = v
    <2>1. \A z \in DOMAIN owner : owner'[z] = owner[z] /\ owner[z] # k
      BY <1>3, <1>8, Zenon DEF Owned
    <2>2. CASE u \in DOMAIN owner /\ v \in DOMAIN owner
      <3>1. owner[u] = owner[v]
        BY <1>14, <2>1, <2>2
      <3> QED BY <1>1, <2>2, <3>1, Zenon DEF KeysOk, OneWallet
    <2>3. CASE u = w \/ v = w
      BY <1>3, <1>14, <2>1, <2>3
    <2> QED BY <1>3, <2>2, <2>3
  <1>15. /\ RunBecomes(r, x) /\ IsRun(x) /\ x.tag \in Names
         /\ (x.pc = "idos" /\ x.wallet = w) \/ (x.pc = "done" /\ x.wallet = NoWallet)
    BY <1>5, Zenon DEF NewWallet
  <1>16. /\ x.wallet # NoWallet => x.wallet \in DOMAIN owner' /\ owner'[x.wallet] = r[1]
         /\ x.pc \in LivePcs \cup {"post", "done"} /\ x.pc \notin Early /\ x.pc \notin Early \cup {"post"}
         /\ x.pc \in Middle \cup Late => x.wallet # NoWallet
    BY <1>2, <1>3, <1>15 DEF LivePcs, Early, Middle, Late
  <1>17. \A o \in Runs \ {r} : x.wallet # NoWallet => run[o].wallet # x.wallet
    <2>1. \A o \in Runs : run[o].wallet # NoWallet => run[o].wallet \in DOMAIN owner
      BY <1>1, Zenon DEF KeysOk, OneWallet
    <2> QED BY <1>2, <1>15, <2>1
  <1>18. Tried(r[1])' /\ (x.pc \in LivePcs => r[1] \notin challenges')
    BY <1>4, <1>5, <1>7, <1>8
  <1>19. \A v \in DOMAIN owner : v \in DOMAIN owner' /\ owner'[v] = owner[v]
    BY <1>3
  <1> QED BY <1>1, <1>6, <1>10, <1>11, <1>12, <1>13, <1>14, <1>15, <1>16, <1>17, <1>18, <1>19, MoveKeys, Zenon

\* ... has no row yet,
LEMMA NewWalletTables ==
    ASSUME OnboardInv, NEW r \in Runs, run[r].pc = "deploy", NEW w \in Wallets, w \notin DOMAIN consumers,
           NEW x, NewWallet(r, w, x), DOMAIN owner' = DOMAIN owner \cup {w},
           \A v \in DOMAIN owner : v # w /\ owner'[v] = owner[v],
           \A v \in DOMAIN consumers : consumers'[v] = consumers[v], DOMAIN consumers \subseteq DOMAIN consumers',
           UNCHANGED <<rows, creds, token, clerk>>
    PROVE  TablesOk'
  <1>1. TablesOk /\ ChainOk /\ RunsOk
    BY Zenon DEF OnboardInv, KeysOk
  <1>2. run'[r] = x /\ \A o \in Runs \ {r} : run'[o] = run[o]
    BY <1>1, RunFacts, Zenon DEF NewWallet
  <1>3. DOMAIN rows \subseteq DOMAIN owner /\ DOMAIN owner \subseteq DOMAIN consumers /\ w \notin DOMAIN rows
    BY <1>1 DEF TablesOk, RowsOk, ChainOk, ChainTypes
  <1>4. (x.pc = "idos" /\ x.wallet = w) \/ (x.pc = "done" /\ x.wallet = NoWallet)
    BY Zenon DEF NewWallet
  <1>5. RowsOk'
    <2>1. \A v \in DOMAIN rows : IsRow(rows[v]) /\ rows[v].tag = consumers'[v].ens /\ rows[v].id = consumers'[v].globalConsumerId
      <3> TAKE v \in DOMAIN rows
      <3>1. consumers'[v] = consumers[v]
        BY <1>3
      <3> QED BY <1>1, <3>1, Zenon DEF TablesOk, RowsOk
    <2>2. ASSUME NEW o \in Runs
          PROVE  /\ run'[o].pc \in Middle => run'[o].wallet \notin DOMAIN rows
                 /\ run'[o].pc \in Late => run'[o].wallet \in DOMAIN rows
      <3>1. CASE o = r
        BY <1>2, <1>3, <1>4, <3>1 DEF Middle, Late
      <3>2. CASE o # r
        <4>1. run'[o] = run[o]
          BY <1>2, <3>2, Zenon
        <4> QED BY <1>1, <4>1, Zenon DEF TablesOk, RowsOk
      <3> QED BY <3>1, <3>2
    <2>3. rows' = rows
      OBVIOUS
    <2> QED BY <1>3, <2>1, <2>2, <2>3 DEF RowsOk
  <1>6. CredsOk'
    <2>1. \A k \in DOMAIN creds : creds[k] \in DOMAIN rows /\ owner'[creds[k]] = k
      <3>1. \A k \in DOMAIN creds : creds[k] \in DOMAIN rows /\ owner[creds[k]] = k
        BY <1>1, Zenon DEF TablesOk, CredsOk
      <3> QED BY <1>3, <3>1
    <2>2. ASSUME NEW o \in Runs, run'[o].pc = "answer" PROVE o[1] \in DOMAIN creds /\ creds[o[1]] = run'[o].wallet
      <3>1. o # r
        BY <1>2, <1>4, <2>2
      <3>2. run'[o] = run[o]
        BY <1>2, <3>1, Zenon
      <3>3. \A q \in Runs : run[q].pc = "answer" => q[1] \in DOMAIN creds /\ creds[q[1]] = run[q].wallet
        BY <1>1, Zenon DEF TablesOk, CredsOk
      <3> QED BY <2>2, <3>2, <3>3, Zenon
    <2> QED BY <1>1, <2>1, <2>2 DEF TablesOk, CredsOk
  <1>7. ClerkOk'
    <2>1. clerk.pc \in {"mirror", "ok"} => clerk.wallet \in DOMAIN consumers /\ consumers[clerk.wallet].kycLevel = clerk.level
      BY <1>1, Zenon DEF TablesOk, ClerkOk
    <2>2. clerk.pc \in {"mirror", "ok"} => clerk.wallet \in DOMAIN consumers' /\ consumers'[clerk.wallet].kycLevel = clerk.level
      BY <2>1
    <2> QED BY <1>1, <2>2 DEF TablesOk, ClerkOk
  <1> QED BY <1>5, <1>6, <1>7, Zenon DEF TablesOk

\* ... and is the wallet of the attempt, unless the receipt was lost.
LEMMA NewWalletFunnel ==
    ASSUME OnboardInv, NEW r \in Runs, run[r].pc = "deploy", NEW w \in Wallets, w \notin DOMAIN consumers,
           NEW x, NewWallet(r, w, x), DOMAIN owner' = DOMAIN owner \cup {w}, rows' = rows, faults \subseteq faults',
           NEW y, WalletLogged(r, w, x, y)
    PROVE  FunnelOk'
  <1>1. TablesOk /\ ChainOk /\ RunsOk /\ FunnelOk /\ KeysOk
    BY Zenon DEF OnboardInv, KeysOk
  <1>2. run'[r] = x /\ \A o \in Runs \ {r} : run'[o] = run[o]
    BY <1>1, RunFacts, Zenon DEF NewWallet
  <1>3. attempts' = [o \in Runs |-> attempts'[o]] /\ attempts'[r] = y /\ \A o \in Runs \ {r} : attempts'[o] = attempts[o]
    BY <1>1 DEF FunnelOk, WalletLogged
  <1>4. \A o \in Runs : IsAttempt(attempts'[o])
    <2> TAKE o \in Runs
    <2>1. CASE o = r
      BY <1>3, <2>1, Zenon DEF WalletLogged
    <2>2. CASE o # r
      BY <1>1, <1>3, <2>2, Zenon DEF FunnelOk
    <2> QED BY <2>1, <2>2
  <1>5. ASSUME Traced' PROVE (\A o \in Runs : AttemptOk(o)') /\ \A v \in DOMAIN owner' : \E o \in Runs : run'[o].wallet = v
    <2>1. Traced
      BY <1>5 DEF Traced
    <2>2. (\A o \in Runs : AttemptOk(o)) /\ \A v \in DOMAIN owner : \E o \in Runs : run[o].wallet = v
      BY <1>1, <2>1, Zenon DEF FunnelOk
    <2>3. x.pc = "idos" /\ x.wallet = w /\ y.wallet = w /\ y.status = "started"
      BY <1>5 DEF NewWallet, WalletLogged
    <2>4. w \notin DOMAIN rows
      BY <1>1 DEF TablesOk, RowsOk, ChainOk, ChainTypes
    <2>5. ASSUME NEW o \in Runs PROVE AttemptOk(o)'
      <3>1. CASE o = r
        <4>1. /\ attempts'[o].wallet = w /\ run'[o].wallet = w /\ attempts'[o].status = "started"
              /\ run'[o].wallet \notin DOMAIN rows'
          BY <1>2, <1>3, <2>3, <2>4, <3>1
        <4> QED BY <4>1 DEF AttemptOk
      <3>2. CASE o # r
        BY <1>2, <1>3, <2>2, <3>2, Zenon DEF AttemptOk
      <3> QED BY <3>1, <3>2
    <2>6. ASSUME NEW v \in DOMAIN owner' PROVE \E o \in Runs : run'[o].wallet = v
      <3>1. CASE v = w
        BY <1>2, <2>3, <3>1
      <3>2. CASE v \in DOMAIN owner
        <4>1. PICK o \in Runs : run[o].wallet = v
          BY <2>2, <3>2, Zenon
        <4>2. run[r].wallet = NoWallet /\ v # NoWallet
          <5>1. run[r].pc \in Early \cup {"none", "post"}
            BY DEF Early
          <5>2. v # NoWallet
            BY <1>1, <3>2, NoWalletNoRow
          <5> QED BY <1>1, <5>1, <5>2, Zenon DEF KeysOk, OneWallet
        <4>3. o # r
          BY <4>1, <4>2
        <4> QED BY <1>2, <4>1, <4>3
      <3> QED BY <3>1, <3>2
    <2> QED BY <2>5, <2>6
  <1> QED BY <1>3, <1>4, <1>5, Zenon DEF FunnelOk

\* A request with another wallet.
LEMMA SetWallet == ASSUME NEW q, IsRun(q), NEW w PROVE [q EXCEPT !.wallet = w] = [pc |-> q.pc, tag |-> q.tag, wallet |-> w]
  BY DEF IsRun

\* An attempt with another wallet.
LEMMA SetLogged ==
    ASSUME NEW a, IsAttempt(a), NEW w
    PROVE  [a EXCEPT !.wallet = w] = [status |-> a.status, step |-> a.step, wallet |-> w]
  BY DEF IsAttempt

\* The deployment keeps the invariant, when its receipt or its tracking write is lost too.
LEMMA DeployStep == ASSUME OnboardInv, NEW r \in Runs, Deploy(r) PROVE OnboardInv'
  <1> PICK w : w = CHOOSE z \in Wallets \ DOMAIN consumers : TRUE
    OBVIOUS
  <1>1. w \in Wallets /\ w \notin DOMAIN consumers
    BY DEF Deploy
  <1>2. run[r].pc = "deploy" /\ RegisterConsumer(w, Tag(r), CountryOf[Person(r)], 0) /\ owner' = Put(owner, w, r[1]) /\ recovered' = recovered
    BY DEF Deploy
  <1>3. RunsOk /\ PagesOk /\ KeysOk /\ FunnelOk
    BY Zenon DEF OnboardInv, KeysOk
  <1>4. IsRun(run[r]) /\ run[r].tag \in Names
    BY <1>2, <1>3 DEF RunsOk
  <1>5. /\ rows' = rows /\ UNCHANGED <<rows, creds, token, clerk>> /\ challenges' = challenges /\ names' = names
        /\ faults \subseteq faults'
    BY FaultGrows DEF Deploy, HardFailure, remote
  <1>6. \E x, y : NewWallet(r, w, x) /\ PagesStay /\ WalletLogged(r, w, x, y)
    <2>1. CASE Fault("lost") /\ HardFailure(r)
      <3>1. PICK x : GoesOn(r, "done", x)
        BY <1>3, <2>1, AdvanceFacts, Zenon DEF HardFailure
      <3>2. x.wallet = NoWallet
        <4>1. run[r].pc \in Early \cup {"none", "post"}
          BY <1>2 DEF Early
        <4> QED BY <1>3, <3>1, <4>1, Zenon DEF KeysOk, OneWallet, GoesOn
      <3>3. NewWallet(r, w, x)
        BY <1>2, <3>1, <3>2, Zenon DEF NewWallet, GoesOn
      <3>4. PagesStay
        BY <1>3, <2>1, ErrorShown, Zenon DEF HardFailure
      <3> PICK s : s = IF attempts[r] = Blank THEN "none" ELSE "failed"
        OBVIOUS
      <3>5. attempts' = [attempts EXCEPT ![r].status = s]
        BY <2>1 DEF HardFailure
      <3>6. PICK y : Logged(r, y)
        BY <1>3, <3>5, StatusFacts, Zenon
      <3>7. ~Traced'
        BY <2>1, FaultGrows DEF Traced
      <3> QED BY <3>3, <3>4, <3>6, <3>7, Zenon DEF Logged, WalletLogged
    <2>2. CASE /\ run' = [run EXCEPT ![r].pc = "idos", ![r].wallet = w]
               /\ attempts' = [attempts EXCEPT ![r] =
                                 IF @ = Blank THEN @ ELSE [@ EXCEPT !.step = "deploy", !.wallet = w]]
               /\ UNCHANGED <<page, challenges, rows, creds, remote, token, clerk, faults>>
      <3> PICK q : q = run[r]
        OBVIOUS
      <3> DEFINE a == attempts[r]
                 x1 == [pc |-> "idos", tag |-> q.tag, wallet |-> q.wallet]
                 x == [pc |-> "idos", tag |-> q.tag, wallet |-> w]
                 b1 == [status |-> a.status, step |-> "deploy", wallet |-> a.wallet]
                 b == [status |-> a.status, step |-> "deploy", wallet |-> w]
                 f == [run EXCEPT ![r].pc = "idos"]
      <3>1. IsRun(x) /\ x.pc = "idos" /\ x.tag = q.tag /\ x.wallet = w
        BY DEF IsRun
      <3>2. IsAttempt(b) /\ b.wallet = w /\ b.status = a.status
        BY DEF IsAttempt
      <3>3. f = [run EXCEPT ![r] = x1]
        <4>1. f = [run EXCEPT ![r] = [q EXCEPT !.pc = "idos"]]
          BY Zenon
        <4>2. [q EXCEPT !.pc = "idos"] = x1
          <5>1. IsRun(q)
            BY <1>4
          <5> QED BY <5>1 DEF IsRun
        <4> QED BY <4>1, <4>2, Zenon
      <3>4. [x1 EXCEPT !.wallet = w] = x
        <4>1. IsRun(x1) /\ x1.pc = "idos" /\ x1.tag = q.tag
          BY DEF IsRun
        <4> HIDE DEF x1
        <4>2. [x1 EXCEPT !.wallet = w] = [pc |-> x1.pc, tag |-> x1.tag, wallet |-> w]
          BY <4>1, SetWallet, Zenon
        <4> QED BY <4>1, <4>2
      <3>5. [a EXCEPT !.step = "deploy"] = b1 /\ [b1 EXCEPT !.wallet = w] = b /\ IsAttempt(a)
        <4>1. IsAttempt(a)
          BY <1>3, Zenon DEF FunnelOk
        <4>2. [a EXCEPT !.step = "deploy"] = b1
          BY <4>1 DEF IsAttempt
        <4>3. [b1 EXCEPT !.wallet = w] = b
          <5>1. IsAttempt(b1) /\ b1.status = a.status /\ b1.step = "deploy"
            BY DEF IsAttempt
          <5> HIDE DEF b1
          <5>2. [b1 EXCEPT !.wallet = w] = [status |-> b1.status, step |-> b1.step, wallet |-> w]
            BY <5>1, SetLogged, Zenon
          <5> QED BY <5>1, <5>2
        <4> QED BY <4>1, <4>2, <4>3, Zenon
      <3>6. run' = [f EXCEPT ![r] = [f[r] EXCEPT !.wallet = w]]
        BY <2>2, Zenon
      <3>7. run = [o \in Runs |-> run[o]]
        BY <1>3, Zenon DEF RunsOk
      <3>8. RunBecomes(r, x)
        <4> HIDE DEF f, x1, x
        <4>1. f[r] = x1
          BY <3>3, <3>7
        <4>2. run' = [f EXCEPT ![r] = x]
          BY <3>4, <3>6, <4>1, Zenon
        <4> QED BY <3>3, <3>7, <4>2 DEF RunBecomes
      <3> HIDE DEF f, x1, x, b
      <3> PICK y : y = IF a = Blank THEN a ELSE b
        OBVIOUS
      <3>9. IsAttempt(y) /\ attempts' = [attempts EXCEPT ![r] = y]
        <4>1. [[a EXCEPT !.step = "deploy"] EXCEPT !.wallet = w] = b
          BY <3>5, Zenon
        <4>2. attempts' = [attempts EXCEPT ![r] = IF attempts[r] = Blank THEN attempts[r]
                                            ELSE [[attempts[r] EXCEPT !.step = "deploy"] EXCEPT !.wallet = w]]
          BY <2>2, Zenon
        <4>3. (IF attempts[r] = Blank THEN attempts[r] ELSE [[attempts[r] EXCEPT !.step = "deploy"] EXCEPT !.wallet = w]) = y
          <5>1. CASE a = Blank
            BY <5>1, Zenon
          <5>2. CASE a # Blank
            <6> DEFINE e == [[a EXCEPT !.step = "deploy"] EXCEPT !.wallet = w]
            <6> HIDE DEF e
            <6>1. y = b /\ (IF a = Blank THEN a ELSE e) = e
              BY <5>2, Zenon
            <6>2. e = b
              BY <4>1, Zenon DEF e
            <6>3. (IF a = Blank THEN a ELSE e) = y
              BY <6>1, <6>2, Zenon
            <6> QED BY <6>3, Zenon DEF e
          <5> QED BY <5>1, <5>2
        <4>4. attempts' = [attempts EXCEPT ![r] = y]
          BY <4>2, <4>3, Zenon
        <4> QED BY <3>2, <3>5, <4>4, Zenon
      <3>10. ASSUME Traced' PROVE a.status = "started"
        <4>1. Traced /\ run[r].pc \in Early \cup Middle
          BY <1>2, <2>2, <3>10 DEF Traced, Early
        <4> QED BY <1>3, <4>1, Zenon DEF FunnelOk, AttemptOk
      <3>11. Traced' => y = b
        BY <3>10 DEF Blank
      <3>12. PagesStay
        BY <1>3, <2>2, SamePages
      <3>13. NewWallet(r, w, x)
        BY <1>2, <3>1, <3>8, Zenon DEF NewWallet
      <3>14. WalletLogged(r, w, x, y)
        BY <3>1, <3>2, <3>9, <3>10, <3>11, Zenon DEF WalletLogged
      <3> QED BY <3>12, <3>13, <3>14, Zenon
    <2> QED BY <2>1, <2>2 DEF Deploy
  <1>7. PICK x, y : NewWallet(r, w, x) /\ PagesStay /\ WalletLogged(r, w, x, y)
    BY <1>6, Zenon
  <1>9. run'[r] = x /\ (\A o \in Runs \ {r} : run'[o] = run[o]) /\ x.tag = Tag(r) /\ (x.wallet # NoWallet => x.wallet = w)
    BY <1>3, <1>7, RunFacts, Zenon DEF NewWallet, Tag
  <1> PICK tag, country, k : tag = Tag(r) /\ country = CountryOf[Person(r)] /\ k = r[1]
    OBVIOUS
  <1>10. WalletsTagged(w, tag)
    <2> SUFFICES ASSUME NEW o \in Runs, run'[o].wallet # NoWallet
                 PROVE  \/ run'[o].wallet = w /\ run'[o].tag = tag
                        \/ run'[o].wallet = run[o].wallet /\ run'[o].tag = run[o].tag
      BY Zenon DEF WalletsTagged
    <2>1. CASE o = r
      BY <1>9, <2>1, Zenon
    <2>2. CASE o # r
      BY <1>9, <2>2, Zenon
    <2> QED BY <2>1, <2>2
  <1>11. tag \in Names /\ RegisterConsumer(w, tag, country, 0) /\ owner' = Put(owner, w, k)
    BY <1>2, <1>4, Zenon DEF Tag
  <1>12. /\ ChainOk' /\ DOMAIN owner' = DOMAIN owner \cup {w}
         /\ (\A v \in DOMAIN owner : v # w /\ owner'[v] = owner[v])
         /\ \A v \in DOMAIN consumers : consumers'[v] = consumers[v]
    <2>1. names' = names /\ recovered' = recovered
      BY <1>2, <1>5
    <2> QED BY <1>1, <1>10, <1>11, <2>1, NewConsumer, Zenon
  <1>13. DOMAIN consumers \subseteq DOMAIN consumers'
    BY <1>2 DEF RegisterConsumer, Recorded
  <1>14. KeysOk'
    BY <1>1, <1>2, <1>5, <1>7, NewWalletKeys, Zenon
  <1>15. TablesOk'
    BY <1>1, <1>2, <1>5, <1>7, <1>12, <1>13, NewWalletTables, Zenon
  <1>16. FunnelOk'
    <2>1. rows' = rows /\ faults \subseteq faults' /\ NewWallet(r, w, x) /\ WalletLogged(r, w, x, y)
      BY <1>5, <1>7
    <2>2. run[r].pc = "deploy" /\ DOMAIN owner' = DOMAIN owner \cup {w}
      BY <1>2, <1>12
    <2> QED BY <1>1, <2>1, <2>2, NewWalletFunnel
  <1> QED BY <1>12, <1>14, <1>15, <1>16, Zenon DEF OnboardInv

-----------------------------------------------------------------------------
(* The restart, sign-in, recovery and the operator.                        *)

\* Nothing of the pages, the requests or the owners changes.
LEMMA KeysStill == ASSUME KeysOk, UNCHANGED <<page, challenges, run, owner>> PROVE KeysOk'
  <1>1. PagesOk'
    BY DEF KeysOk, PagesOk
  <1>2. \A k : Tried(k)' <=> Tried(k)
    BY DEF Tried
  <1>3. RunsOk'
    BY <1>2 DEF KeysOk, RunsOk
  <1>4. OneRequest'
    BY <1>2 DEF KeysOk, OneRequest, Live, Owned
  <1>5. OneWallet'
    <2>1. \A w \in DOMAIN owner' : owner'[w] \in Passkeys /\ Tried(owner[w])'
      BY DEF KeysOk, OneWallet, Tried
    <2>2. owner' = owner /\ run' = run
      OBVIOUS
    <2> QED BY <2>1, <2>2 DEF KeysOk, OneWallet
  <1> QED BY <1>1, <1>3, <1>4, <1>5 DEF KeysOk

\* Requests that did not change have their wallets.
LEMMA SameRuns == ASSUME run' = run PROVE SameWallets
  BY DEF SameWallets

\* Nothing the report is made of changes.
LEMMA FunnelStill ==
    ASSUME FunnelOk, UNCHANGED <<run, attempts, owner>>, DOMAIN rows' = DOMAIN rows, Traced' => Traced
    PROVE  FunnelOk'
  <1>1. \A r \in Runs : AttemptOk(r) => AttemptOk(r)'
    BY DEF AttemptOk
  <1>2. Traced' => (\A r \in Runs : AttemptOk(r)') /\ \A w \in DOMAIN owner : \E r \in Runs : run[r].wallet = w
    BY <1>1, Zenon DEF FunnelOk
  <1>3. attempts = [r \in Runs |-> attempts[r]] /\ \A r \in Runs : IsAttempt(attempts[r])
    BY Zenon DEF FunnelOk
  <1>4. attempts' = attempts /\ run' = run /\ owner' = owner
    OBVIOUS
  <1> QED BY <1>2, <1>3, <1>4 DEF FunnelOk

\* A restart ends the requests in the handler wherever they are.
LEMMA RestartStep == ASSUME OnboardInv, Restart PROVE OnboardInv'
  <1>1. RunsOk /\ PagesOk /\ KeysOk /\ FunnelOk /\ ChainOk /\ TablesOk
    BY Zenon DEF OnboardInv, KeysOk
  <1>2. /\ run' = [r \in Runs |-> IF run[r].pc = "none" THEN run[r] ELSE [run[r] EXCEPT !.pc = "done"]]
        /\ page' = [p \in Persons |-> IF page[p].at = "waiting" THEN [page[p] EXCEPT !.at = "form"] ELSE page[p]]
        /\ challenges' = {} /\ clerk' = [clerk EXCEPT !.pc = "idle"] /\ faults \subseteq faults'
    BY FaultGrows DEF Restart
  <1>3. rows' = rows /\ attempts' = attempts /\ names' = names /\ UNCHANGED <<rows, creds, token>> /\ RegistryStays
    BY DEF Restart, remote, tables, registryVars, identity, traces, RegistryStays
  <1>4. owner' = owner /\ consumers' = consumers
    BY <1>3 DEF RegistryStays
  <1>5. ASSUME NEW r \in Runs
        PROVE  /\ IsRun(run'[r]) /\ run'[r].tag = run[r].tag /\ run'[r].wallet = run[r].wallet
               /\ run'[r].pc \in {"none", "done"} /\ (run'[r].pc = "none" <=> run[r].pc = "none")
    <2> PICK q : q = run[r]
      OBVIOUS
    <2> DEFINE x == [pc |-> "done", tag |-> q.tag, wallet |-> q.wallet]
    <2>1. IsRun(q)
      BY <1>1, Zenon DEF RunsOk
    <2>2. [q EXCEPT !.pc = "done"] = x
      BY <2>1 DEF IsRun
    <2>3. IsRun(x) /\ x.pc = "done" /\ x.tag = q.tag /\ x.wallet = q.wallet
      BY DEF IsRun
    <2> HIDE DEF x
    <2>4. run'[r] = IF q.pc = "none" THEN q ELSE x
      BY <1>2, <2>2, Zenon
    <2> QED BY <2>1, <2>3, <2>4
  <1>6. PagesStay
    <2>1. ASSUME NEW p \in Persons PROVE IsPage(page'[p]) /\ page'[p].tries = page[p].tries
      <3> PICK y : y = page[p]
        OBVIOUS
      <3> DEFINE x == [at |-> "form", tries |-> y.tries]
      <3>1. IsPage(y)
        BY <1>1, Zenon DEF PagesOk
      <3>2. [y EXCEPT !.at = "form"] = x
        BY <3>1 DEF IsPage
      <3>3. IsPage(x) /\ x.tries = y.tries
        BY <3>1 DEF IsPage
      <3> HIDE DEF x
      <3>4. page'[p] = IF y.at = "waiting" THEN x ELSE y
        BY <1>2, <3>2, Zenon
      <3> QED BY <3>1, <3>3, <3>4
    <2>2. page' = [p \in Persons |-> page'[p]]
      BY <1>2
    <2> QED BY <2>1, <2>2, Zenon DEF PagesStay, PagesOk
  <1>7. \A k \in Passkeys : (Tried(k)' <=> Tried(k)) /\ (Owned(k)' <=> Owned(k))
    <2>1. \A k \in Passkeys : Tried(k)' <=> Tried(k)
      BY <1>6, TriedStays, Zenon
    <2> QED BY <1>4, <2>1, Zenon DEF Owned
  <1>8. RunsOk'
    <2>1. ASSUME NEW r \in Runs
          PROVE  /\ IsRun(run'[r]) /\ run'[r].pc \in LivePcs \cup {"none", "post", "done"}
                 /\ run'[r].pc # "none" => run'[r].tag \in Names /\ Tried(r[1])'
      <3>1. run[r].pc # "none" => run[r].tag \in Names /\ Tried(r[1])
        BY <1>1, Zenon DEF RunsOk
      <3>2. r[1] \in Passkeys
        BY RunParts, Zenon
      <3> QED BY <1>5, <1>7, <3>1, <3>2
    <2>2. run' = [r \in Runs |-> run'[r]]
      BY <1>2
    <2> QED BY <2>1, <2>2, Zenon DEF RunsOk
  <1>9. \A r \in Runs : /\ ~Live(r)' /\ run'[r].pc \notin Early /\ run'[r].pc \notin Middle /\ run'[r].pc \notin Late
                        /\ run'[r].pc # "answer" /\ run'[r].pc \notin Middle \cup Late
    <2> TAKE r \in Runs
    <2>1. run'[r].pc \in {"none", "done"}
      BY <1>5
    <2> QED BY <2>1 DEF Live, LivePcs, Early, Middle, Late
  <1>10. OneRequest'
    BY <1>2, <1>9 DEF OneRequest
  <1>11. OneWallet'
    <2>1. PagesGrow
      BY <1>1, <1>6, StayGrows, Zenon
    <2>2. /\ \A w \in DOMAIN owner' : owner'[w] \in Passkeys /\ Tried(owner[w])'
          /\ \A v, w \in DOMAIN owner' : owner'[v] = owner'[w] => v = w
      BY <1>1, <1>4, <2>1, OwnersStill
    <2>3. ASSUME NEW r \in Runs
          PROVE  /\ run'[r].wallet # NoWallet => run'[r].wallet \in DOMAIN owner' /\ owner'[run'[r].wallet] = r[1]
                 /\ run'[r].pc \in Middle \cup Late => run'[r].wallet # NoWallet
                 /\ run'[r].pc \in Early \cup {"none", "post"} => run'[r].wallet = NoWallet
      <3>1. /\ run[r].wallet # NoWallet => run[r].wallet \in DOMAIN owner /\ owner[run[r].wallet] = r[1]
            /\ run[r].pc \in Early \cup {"none", "post"} => run[r].wallet = NoWallet
        BY <1>1, Zenon DEF KeysOk, OneWallet
      <3>2. run'[r].wallet = run[r].wallet
        BY <1>5
      <3>3. run'[r].pc \in Early \cup {"none", "post"} => run[r].pc \in Early \cup {"none", "post"}
        BY <1>5, <1>9
      <3> QED BY <1>4, <1>9, <3>1, <3>2, <3>3
    <2>4. ASSUME NEW r \in Runs, NEW o \in Runs, run'[r].wallet = run'[o].wallet, run'[r].wallet # NoWallet PROVE r = o
      <3>1. run[r].wallet = run[o].wallet /\ run[r].wallet # NoWallet
        BY <1>5, <2>4
      <3> QED BY <1>1, <3>1, Zenon DEF KeysOk, OneWallet
    <2> QED BY <2>2, <2>3, <2>4, Zenon DEF OneWallet
  <1>12. SameWallets
    BY <1>5, Zenon DEF SameWallets
  <1>13. ChainOk'
    BY <1>1, <1>3, <1>12, NamesStay, Zenon
  <1>14. RowsOk'
    BY <1>1, <1>3, <1>4, <1>9 DEF TablesOk, RowsOk
  <1>15. CredsOk'
    BY <1>1, <1>3, <1>4, <1>9 DEF TablesOk, CredsOk
  <1>16. ClerkOk'
    <2> PICK c : c = clerk
      OBVIOUS
    <2>1. c = [pc |-> c.pc, wallet |-> c.wallet, level |-> c.level]
      BY <1>1, Zenon DEF TablesOk, ClerkOk
    <2>2. [c EXCEPT !.pc = "idle"] = [pc |-> "idle", wallet |-> c.wallet, level |-> c.level]
      BY <2>1
    <2>3. clerk' = [pc |-> "idle", wallet |-> c.wallet, level |-> c.level]
      BY <1>2, <2>2, Zenon
    <2> QED BY <2>3 DEF ClerkOk
  <1>17. FunnelOk'
    <2>1. Traced' => Traced
      BY <1>2 DEF Traced
    <2>2. ASSUME NEW r \in Runs, AttemptOk(r) PROVE AttemptOk(r)'
      <3>1. run'[r].wallet = run[r].wallet /\ run'[r].pc \notin Early \cup Middle
        BY <1>5, <1>9
      <3> QED BY <1>3, <2>2, <3>1 DEF AttemptOk
    <2>3. ASSUME Traced' PROVE (\A r \in Runs : AttemptOk(r)') /\ \A w \in DOMAIN owner' : \E r \in Runs : run'[r].wallet = w
      <3>1. (\A r \in Runs : AttemptOk(r)) /\ \A w \in DOMAIN owner : \E r \in Runs : run[r].wallet = w
        BY <1>1, <2>1, <2>3, Zenon DEF FunnelOk
      <3>2. \A w \in DOMAIN owner' : \E r \in Runs : run'[r].wallet = w
        BY <1>4, <1>5, <3>1
      <3> QED BY <2>2, <3>1, <3>2
    <2>4. attempts' = [r \in Runs |-> attempts'[r]] /\ \A r \in Runs : IsAttempt(attempts'[r])
      BY <1>1, <1>3 DEF FunnelOk
    <2> QED BY <2>3, <2>4, Zenon DEF FunnelOk
  <1>18. KeysOk' /\ TablesOk'
    BY <1>6, <1>8, <1>10, <1>11, <1>14, <1>15, <1>16, Zenon DEF KeysOk, TablesOk, PagesStay
  <1> QED BY <1>13, <1>17, <1>18, Zenon DEF OnboardInv

\* Sign-in gives a person the wallet of one of its stored passkeys.
LEMMA LoginStep == ASSUME OnboardInv, NEW p \in Persons, NEW k, Login(p, k) PROVE OnboardInv'
  <1>1. KeysOk /\ FunnelOk /\ ChainOk /\ TablesOk
    BY Zenon DEF OnboardInv
  <1>2. k \in DOMAIN creds /\ k[1] = p /\ token' = [token EXCEPT ![p] = creds[k]]
    BY DEF Login
  <1>3. /\ UNCHANGED <<page, challenges, run, owner>> /\ UNCHANGED <<run, attempts, owner>> /\ names' = names
        /\ DOMAIN rows' = DOMAIN rows /\ run' = run /\ RegistryStays /\ UNCHANGED <<rows, creds, clerk, faults>>
    BY DEF Login, signUp, tables, traces, remote, registryVars, identity, RegistryStays
  <1>4. KeysOk'
    BY <1>1, <1>3, KeysStill, Zenon
  <1>5. ChainOk'
    BY <1>1, <1>3, SameRuns, NamesStay, Zenon
  <1>6. Traced' => Traced
    BY <1>3 DEF Traced
  <1>7. FunnelOk'
    BY <1>1, <1>3, <1>6, FunnelStill, Zenon
  <1>8. owner' = owner /\ consumers' = consumers
    BY <1>3 DEF RegistryStays
  <1>9. /\ token' = [q \in Persons |-> token'[q]]
        /\ \A q \in Persons : token'[q] # NoWallet => \E j \in DOMAIN creds : j[1] = q /\ creds[j] = token'[q]
    <2> PICK w : w = creds[k]
      OBVIOUS
    <2>1. token' = [token EXCEPT ![p] = w] /\ CredsOk
      BY <1>1, <1>2 DEF TablesOk
    <2> QED BY <1>2, <2>1, TokenGiven, Zenon
  <1>10. RowsOk'
    BY <1>1, <1>3, <1>8 DEF TablesOk, RowsOk
  <1>11. CredsOk'
    BY <1>1, <1>3, <1>8, <1>9 DEF TablesOk, CredsOk
  <1>12. ClerkOk'
    BY <1>1, <1>3, <1>8 DEF TablesOk, ClerkOk
  <1> QED BY <1>4, <1>5, <1>7, <1>10, <1>11, <1>12, Zenon DEF OnboardInv, TablesOk

\* A consumer's record changes, but not what it is found by.
LEMMA RecordChanges ==
    ASSUME OnboardInv, NEW v \in DOMAIN consumers, NEW x, IsConsumer(x), consumers' = [consumers EXCEPT ![v] = x],
           x.ens = consumers[v].ens, x.globalConsumerId = consumers[v].globalConsumerId, x.isActive = consumers[v].isActive,
           UNCHANGED <<ensByHash, consumerById, nextGlobalId, owner, recovered, names, run, rows>>
    PROVE  /\ ChainOk' /\ RowsOk' /\ DOMAIN consumers' = DOMAIN consumers /\ consumers'[v] = x
           /\ \A w \in DOMAIN consumers \ {v} : consumers'[w] = consumers[w]
  <1>1. ChainTypes /\ Indexed /\ OwnersKnown /\ Named /\ RowsOk /\ KeysOk
    BY Zenon DEF OnboardInv, ChainOk, TablesOk
  <1>2. DOMAIN consumers' = DOMAIN consumers /\ consumers'[v] = x /\ \A w \in DOMAIN consumers \ {v} : consumers'[w] = consumers[w]
    OBVIOUS
  <1>3. \A w \in DOMAIN consumers : /\ consumers'[w].ens = consumers[w].ens /\ consumers'[w].isActive = consumers[w].isActive
                                    /\ consumers'[w].globalConsumerId = consumers[w].globalConsumerId
    <2> TAKE w \in DOMAIN consumers
    <2>1. CASE w = v
      BY <1>2, <2>1, Zenon
    <2>2. CASE w # v
      BY <1>2, <2>2
    <2> QED BY <2>1, <2>2
  <1>4. ChainTypes'
    <2>1. \A w \in DOMAIN consumers' : IsConsumer(consumers'[w])
      <3>1. \A w \in DOMAIN consumers : IsConsumer(consumers[w])
        BY <1>1, Zenon DEF ChainTypes
      <3> TAKE w \in DOMAIN consumers'
      <3>2. CASE w = v
        BY <1>2, <3>2, Zenon
      <3>3. CASE w # v
        <4>1. w \in DOMAIN consumers /\ consumers'[w] = consumers[w]
          BY <1>2, <3>3
        <4> QED BY <3>1, <4>1, Zenon
      <3> QED BY <3>2, <3>3
    <2>2. DOMAIN owner' \subseteq DOMAIN consumers' /\ DOMAIN consumers' \subseteq Wallets
      BY <1>1, <1>2 DEF ChainTypes
    <2> QED BY <1>1, <2>1, <2>2 DEF ChainTypes
  <1>5. Indexed'
    <2>1. \A w \in DOMAIN consumers :
            /\ consumers[w].ens \in Names /\ ensByHash[consumers[w].ens] # NoWallet
            /\ consumers[w].globalConsumerId \in 0 .. nextGlobalId - 1
            /\ consumers[w].isActive =>
                  ensByHash[consumers[w].ens] = w /\ consumerById[consumers[w].globalConsumerId] = w
      BY <1>1, Zenon DEF Indexed
    <2>2. ensByHash' = ensByHash /\ consumerById' = consumerById /\ nextGlobalId' = nextGlobalId
      OBVIOUS
    <2>3. ASSUME NEW w \in DOMAIN consumers
          PROVE  /\ consumers'[w].ens \in Names /\ ensByHash[consumers'[w].ens] # NoWallet
                 /\ consumers'[w].globalConsumerId \in 0 .. nextGlobalId - 1
                 /\ consumers'[w].isActive =>
                       ensByHash[consumers'[w].ens] = w /\ consumerById[consumers'[w].globalConsumerId] = w
      <3>1. /\ consumers'[w].ens = consumers[w].ens /\ consumers'[w].isActive = consumers[w].isActive
            /\ consumers'[w].globalConsumerId = consumers[w].globalConsumerId
        BY <1>3
      <3> QED BY <2>1, <3>1, Zenon
    <2> QED BY <1>2, <2>2, <2>3 DEF Indexed
  <1>6. \A w \in DOMAIN owner : w \in DOMAIN consumers
    BY <1>1 DEF ChainTypes
  <1>7. OwnersKnown'
    <2>1. \A w \in DOMAIN owner' : w \notin recovered' => consumers'[w].isActive
      BY <1>1, <1>3, <1>6 DEF OwnersKnown
    <2>2. ASSUME NEW u \in DOMAIN owner', NEW w \in DOMAIN owner'
          PROVE  /\ consumers'[u].ens = consumers'[w].ens => u = w
                 /\ consumers'[u].globalConsumerId = consumers'[w].globalConsumerId => u = w
      <3>1. /\ consumers'[u].ens = consumers[u].ens /\ consumers'[u].globalConsumerId = consumers[u].globalConsumerId
            /\ consumers'[w].ens = consumers[w].ens /\ consumers'[w].globalConsumerId = consumers[w].globalConsumerId
        BY <1>3, <1>6
      <3>2. u \in DOMAIN owner /\ w \in DOMAIN owner
        OBVIOUS
      <3> QED BY <1>1, <3>1, <3>2, Zenon DEF OwnersKnown
    <2>3. ASSUME NEW o \in Runs, run'[o].wallet # NoWallet PROVE consumers'[run'[o].wallet].ens = run'[o].tag
      <3>1. run[o].wallet \in DOMAIN consumers /\ consumers[run[o].wallet].ens = run[o].tag
        <4>1. run[o].wallet # NoWallet
          BY <2>3
        <4>2. run[o].wallet \in DOMAIN owner
          BY <1>1, <4>1, Zenon DEF KeysOk, OneWallet
        <4> QED BY <1>1, <1>6, <4>1, <4>2, Zenon DEF OwnersKnown
      <3> PICK w : w = run[o].wallet
        OBVIOUS
      <3>2. consumers'[w].ens = consumers[w].ens
        BY <1>3, <3>1
      <3> QED BY <3>1, <3>2
    <2> QED BY <2>1, <2>2, <2>3, Zenon DEF OwnersKnown
  <1>8. Named'
    <2>1. \A w \in DOMAIN owner : names[consumers'[w].ens] \in {"free", "minted", w}
      <3> TAKE w \in DOMAIN owner
      <3>1. consumers'[w].ens = consumers[w].ens
        BY <1>3, <1>6
      <3> QED BY <1>1, <3>1, Zenon DEF Named
    <2> QED BY <1>1, <2>1 DEF Named
  <1>9. RowsOk'
    <2>1. DOMAIN rows \subseteq DOMAIN consumers
      BY <1>1, <1>6 DEF RowsOk
    <2>2. \A w \in DOMAIN rows : IsRow(rows[w]) /\ rows[w].tag = consumers'[w].ens /\ rows[w].id = consumers'[w].globalConsumerId
      <3> TAKE w \in DOMAIN rows
      <3>1. consumers'[w].ens = consumers[w].ens /\ consumers'[w].globalConsumerId = consumers[w].globalConsumerId
        BY <1>3, <2>1
      <3> QED BY <1>1, <3>1, Zenon DEF RowsOk
    <2> QED BY <1>1, <2>2 DEF RowsOk
  <1> QED BY <1>2, <1>4, <1>5, <1>7, <1>8, <1>9 DEF ChainOk

\* recoverWallet hands both indexes to the new wallet and keeps the old record.
LEMMA RecoveredChain ==
    ASSUME OnboardInv, NEW old \in DOMAIN consumers, NEW w \in Wallets, RecoverWallet(old, consumers[old].ens, w),
           recovered' = recovered \cup {old}, UNCHANGED <<owner, names, run>>
    PROVE  /\ ChainOk' /\ DOMAIN consumers' = DOMAIN consumers \cup {w} /\ w \notin DOMAIN consumers
           /\ \A v \in DOMAIN consumers : /\ consumers'[v].ens = consumers[v].ens /\ consumers'[v].kycLevel = consumers[v].kycLevel
                                          /\ consumers'[v].globalConsumerId = consumers[v].globalConsumerId
  <1> PICK d : d = consumers[old]
    OBVIOUS
  <1> PICK tag, id, no : tag = d.ens /\ id = d.globalConsumerId /\ no = FALSE
    OBVIOUS
  <1> DEFINE e == [saveWallet |-> d.saveWallet, usdWallet |-> d.usdWallet, ens |-> d.ens, countryCode |-> d.countryCode,
                   kycLevel |-> d.kycLevel, isActive |-> no, globalConsumerId |-> d.globalConsumerId]
  <1>1. ChainTypes /\ Indexed /\ OwnersKnown /\ Named /\ KeysOk
    BY Zenon DEF OnboardInv, ChainOk
  <1>2. /\ w \notin DOMAIN consumers /\ d.isActive /\ nextGlobalId' = nextGlobalId
        /\ ensByHash' = [ensByHash EXCEPT ![tag] = w] /\ consumerById' = [consumerById EXCEPT ![id] = w]
        /\ consumers' = [x \in DOMAIN consumers \cup {w} |->
                            IF x = w THEN d ELSE IF x = old THEN [d EXCEPT !.isActive = no] ELSE consumers[x]]
    BY DEF RecoverWallet, Active
  <1>3. IsConsumer(d)
    BY <1>1, Zenon DEF ChainTypes
  <1>4. [d EXCEPT !.isActive = no] = e
    BY <1>3 DEF IsConsumer
  <1>5. /\ IsConsumer(e) /\ e.ens = tag /\ e.globalConsumerId = id /\ e.isActive = no /\ e.kycLevel = d.kycLevel
    BY DEF IsConsumer
  <1> HIDE DEF e
  <1>6. /\ DOMAIN consumers' = DOMAIN consumers \cup {w} /\ consumers'[w] = d /\ consumers'[old] = e /\ old # w
        /\ \A v \in DOMAIN consumers \ {old} : consumers'[v] = consumers[v] /\ v # w
    BY <1>2, <1>4
  <1>7. \A v \in DOMAIN consumers : /\ consumers'[v].ens = consumers[v].ens /\ consumers'[v].kycLevel = consumers[v].kycLevel
                                    /\ consumers'[v].globalConsumerId = consumers[v].globalConsumerId
    <2> TAKE v \in DOMAIN consumers
    <2>1. CASE v = old
      BY <1>5, <1>6, <2>1
    <2>2. CASE v # old
      <3>1. consumers'[v] = consumers[v]
        BY <1>6, <2>2
      <3> QED BY <3>1
    <2> QED BY <2>1, <2>2
  <1>8. w # NoWallet /\ \A v \in DOMAIN owner : v \in DOMAIN consumers
    BY <1>1, RegistryAssumption DEF ChainTypes
  <1>9. /\ tag \in Names /\ ensByHash[tag] = old /\ consumerById[id] = old /\ id \in 0 .. nextGlobalId - 1
    BY <1>1, <1>2, Zenon DEF Indexed
  <1>10. nextGlobalId \in Nat /\ Cardinality(Wallets) \in Nat /\ nextGlobalId <= Cardinality(Wallets)
    <2>1. DOMAIN owner \subseteq Wallets /\ IsFiniteSet(Wallets)
      BY <1>1, RegistryAssumption DEF ChainTypes
    <2> QED BY <1>1, <2>1, FS_Subset, FS_CardinalityType DEF ChainTypes
  <1>11. 0 .. nextGlobalId - 1 \subseteq Ids
    BY <1>10 DEF Ids
  <1>12. ensByHash'[tag] = w /\ \A m \in Names \ {tag} : ensByHash'[m] = ensByHash[m]
    BY <1>1, <1>2, <1>9 DEF ChainTypes
  <1>13. consumerById'[id] = w /\ \A i \in Ids \ {id} : consumerById'[i] = consumerById[i]
    BY <1>1, <1>2, <1>9, <1>11 DEF ChainTypes
  <1>14. ChainTypes'
    <2>1. \A v \in DOMAIN consumers' : IsConsumer(consumers'[v])
      <3>1. \A v \in DOMAIN consumers : IsConsumer(consumers[v])
        BY <1>1, Zenon DEF ChainTypes
      <3>2. \A v \in DOMAIN consumers' : v = w \/ v = old \/ (v \in DOMAIN consumers \ {old})
        BY <1>6
      <3> QED BY <1>3, <1>5, <1>6, <3>1, <3>2
    <2>2. DOMAIN owner' \subseteq DOMAIN consumers' /\ DOMAIN consumers' \subseteq Wallets
      BY <1>1, <1>6 DEF ChainTypes
    <2>3. ensByHash' \in [Names -> Wallets \cup {NoWallet}] /\ consumerById' \in [Ids -> Wallets \cup {NoWallet}]
      BY <1>1, <1>2 DEF ChainTypes
    <2>4. nextGlobalId' = Cardinality(DOMAIN owner') /\ names' = [m \in Names |-> names'[m]]
      BY <1>1, <1>2 DEF ChainTypes
    <2> QED BY <2>1, <2>2, <2>3, <2>4, Zenon DEF ChainTypes
  <1>15. Indexed'
    <2>1. ASSUME NEW v \in DOMAIN consumers'
          PROVE  /\ consumers'[v].ens \in Names /\ ensByHash'[consumers'[v].ens] # NoWallet
                 /\ consumers'[v].globalConsumerId \in 0 .. nextGlobalId - 1
                 /\ consumers'[v].isActive =>
                       ensByHash'[consumers'[v].ens] = v /\ consumerById'[consumers'[v].globalConsumerId] = v
      <3>1. CASE v = w
        <4>1. consumers'[v] = d
          BY <1>6, <3>1, Zenon
        <4> QED BY <1>8, <1>9, <1>12, <1>13, <3>1, <4>1
      <3>2. CASE v = old
        <4>1. consumers'[v] = e
          BY <1>6, <3>2, Zenon
        <4> QED BY <1>5, <1>8, <1>9, <1>12, <4>1
      <3>3. CASE v # w /\ v # old
        <4>1. v \in DOMAIN consumers /\ consumers'[v] = consumers[v]
          BY <1>6, <3>3
        <4> PICK n, i, b : n = consumers[v].ens /\ i = consumers[v].globalConsumerId /\ b = consumers[v].isActive
          OBVIOUS
        <4>2. /\ n \in Names /\ ensByHash[n] # NoWallet /\ i \in 0 .. nextGlobalId - 1
              /\ b => ensByHash[n] = v /\ consumerById[i] = v
          BY <1>1, <4>1, Zenon DEF Indexed
        <4>3. ensByHash'[n] # NoWallet
          BY <1>8, <1>12, <4>2
        <4>4. ASSUME b PROVE ensByHash'[n] = v /\ consumerById'[i] = v
          <5>1. n # tag /\ i # id
            BY <1>9, <3>3, <4>2, <4>4
          <5>2. i \in Ids \ {id} /\ n \in Names \ {tag}
            BY <1>11, <4>2, <5>1
          <5> QED BY <1>12, <1>13, <4>2, <4>4, <5>2
        <4> QED BY <4>1, <4>2, <4>3, <4>4, Zenon
      <3> QED BY <3>1, <3>2, <3>3
    <2> QED BY <1>2, <2>1 DEF Indexed
  <1>16. OwnersKnown'
    <2>1. \A v \in DOMAIN owner' : v \notin recovered' => consumers'[v].isActive
      <3>1. \A v \in DOMAIN owner : v \notin recovered => consumers[v].isActive
        BY <1>1, Zenon DEF OwnersKnown
      <3> QED BY <1>6, <1>8, <3>1
    <2>2. ASSUME NEW u \in DOMAIN owner', NEW v \in DOMAIN owner'
          PROVE  /\ consumers'[u].ens = consumers'[v].ens => u = v
                 /\ consumers'[u].globalConsumerId = consumers'[v].globalConsumerId => u = v
      <3>1. /\ consumers'[u].ens = consumers[u].ens /\ consumers'[u].globalConsumerId = consumers[u].globalConsumerId
            /\ consumers'[v].ens = consumers[v].ens /\ consumers'[v].globalConsumerId = consumers[v].globalConsumerId
        BY <1>7, <1>8
      <3>2. u \in DOMAIN owner /\ v \in DOMAIN owner
        OBVIOUS
      <3> QED BY <1>1, <3>1, <3>2, Zenon DEF OwnersKnown
    <2>3. ASSUME NEW o \in Runs, run'[o].wallet # NoWallet PROVE consumers'[run'[o].wallet].ens = run'[o].tag
      <3> PICK v : v = run[o].wallet
        OBVIOUS
      <3>1. v \in DOMAIN consumers /\ consumers[v].ens = run[o].tag
        <4>1. v # NoWallet
          BY <2>3
        <4>2. v \in DOMAIN owner
          BY <1>1, <4>1, Zenon DEF KeysOk, OneWallet
        <4> QED BY <1>1, <1>8, <4>1, <4>2, Zenon DEF OwnersKnown
      <3>2. consumers'[v].ens = consumers[v].ens
        BY <1>7, <3>1
      <3> QED BY <3>1, <3>2
    <2> QED BY <2>1, <2>2, <2>3, Zenon DEF OwnersKnown
  <1>17. Named'
    <2>1. \A v \in DOMAIN owner : names[consumers'[v].ens] \in {"free", "minted", v}
      <3> TAKE v \in DOMAIN owner
      <3>1. consumers'[v].ens = consumers[v].ens
        BY <1>7, <1>8
      <3> QED BY <1>1, <3>1, Zenon DEF Named
    <2>2. \A m \in Names : ensByHash'[m] = NoWallet => ensByHash[m] = NoWallet
      BY <1>8, <1>12
    <2> QED BY <1>1, <2>1, <2>2 DEF Named
  <1> QED BY <1>2, <1>6, <1>7, <1>14, <1>15, <1>16, <1>17 DEF ChainOk

\* A recovery keeps the invariant: the row stays that of the old wallet.
LEMMA RecoverStep == ASSUME OnboardInv, NEW old, Recover(old) PROVE OnboardInv'
  <1> PICK w : w = CHOOSE z \in Wallets \ DOMAIN consumers : TRUE
    OBVIOUS
  <1>1. w \in Wallets /\ old \in DOMAIN rows /\ RecoverWallet(old, rows[old].tag, w) /\ recovered' = recovered \cup {old}
    BY DEF Recover
  <1>2. KeysOk /\ FunnelOk /\ ChainOk /\ TablesOk
    BY Zenon DEF OnboardInv
  <1>3. /\ UNCHANGED <<page, challenges, run, owner>> /\ UNCHANGED <<run, attempts, owner>> /\ UNCHANGED <<owner, names, run>>
        /\ DOMAIN rows' = DOMAIN rows /\ UNCHANGED <<rows, creds, token, clerk, faults>>
    BY DEF Recover, signUp, tables, remote
  <1>4. rows[old].tag = consumers[old].ens /\ DOMAIN rows \subseteq DOMAIN consumers
    BY <1>1, <1>2 DEF TablesOk, RowsOk, ChainOk, ChainTypes
  <1>5. old \in DOMAIN consumers /\ RecoverWallet(old, consumers[old].ens, w)
    BY <1>1, <1>4
  <1>6. /\ ChainOk' /\ DOMAIN consumers' = DOMAIN consumers \cup {w} /\ w \notin DOMAIN consumers
        /\ \A v \in DOMAIN consumers : /\ consumers'[v].ens = consumers[v].ens /\ consumers'[v].kycLevel = consumers[v].kycLevel
                                       /\ consumers'[v].globalConsumerId = consumers[v].globalConsumerId
    BY <1>1, <1>3, <1>5, RecoveredChain, Zenon
  <1>7. KeysOk'
    BY <1>2, <1>3, KeysStill, Zenon
  <1>8. FunnelOk'
    <2>1. Traced' => Traced
      BY <1>3 DEF Traced
    <2> QED BY <1>2, <1>3, <2>1, FunnelStill, Zenon
  <1>9. RowsOk'
    <2>1. \A v \in DOMAIN rows : IsRow(rows[v]) /\ rows[v].tag = consumers'[v].ens /\ rows[v].id = consumers'[v].globalConsumerId
      <3> TAKE v \in DOMAIN rows
      <3>1. consumers'[v].ens = consumers[v].ens /\ consumers'[v].globalConsumerId = consumers[v].globalConsumerId
        BY <1>4, <1>6
      <3> QED BY <1>2, <3>1, Zenon DEF TablesOk, RowsOk
    <2> QED BY <1>2, <1>3, <2>1 DEF TablesOk, RowsOk
  <1>10. CredsOk'
    BY <1>2, <1>3 DEF TablesOk, CredsOk
  <1>11. ClerkOk'
    <2>1. clerk.pc \in {"mirror", "ok"} => clerk.wallet \in DOMAIN consumers /\ consumers[clerk.wallet].kycLevel = clerk.level
      BY <1>2, Zenon DEF TablesOk, ClerkOk
    <2>2. clerk.pc \in {"mirror", "ok"} => clerk.wallet \in DOMAIN consumers' /\ consumers'[clerk.wallet].kycLevel = clerk.level
      BY <1>6, <2>1
    <2> QED BY <1>2, <1>3, <2>2 DEF TablesOk, ClerkOk
  <1> QED BY <1>6, <1>7, <1>8, <1>9, <1>10, <1>11, Zenon DEF OnboardInv, TablesOk

\* The operator's request touches the registry and the rows, not what they are found by.
LEMMA ClerkMoves ==
    ASSUME OnboardInv, UNCHANGED <<page, challenges, run, owner, attempts, creds, token>>, DOMAIN rows' = DOMAIN rows,
           Traced' => Traced, ChainOk', RowsOk', ClerkOk'
    PROVE  OnboardInv'
  <1>1. KeysOk /\ FunnelOk /\ TablesOk
    BY Zenon DEF OnboardInv
  <1>2. KeysOk'
    BY <1>1, KeysStill
  <1>3. FunnelOk'
    BY <1>1, FunnelStill
  <1>4. CredsOk'
    BY <1>1 DEF TablesOk, CredsOk
  <1> QED BY <1>2, <1>3, <1>4, Zenon DEF OnboardInv, TablesOk

\* Rows and registry both stay.
LEMMA RowsStill == ASSUME RowsOk, UNCHANGED <<consumers, owner, rows, run>> PROVE RowsOk'
  BY DEF RowsOk

\* A clerk that has not come to the registry promises nothing.
LEMMA ClerkFresh ==
    ASSUME NEW pc, NEW w, NEW level, pc \notin {"mirror", "ok"}, clerk' = [pc |-> pc, wallet |-> w, level |-> level]
    PROVE  ClerkOk'
  <1>1. clerk'.pc = pc
    OBVIOUS
  <1>2. clerk'.pc \notin {"mirror", "ok"} /\ clerk'.pc # "ok"
    BY <1>1
  <1>3. clerk' = [pc |-> clerk'.pc, wallet |-> clerk'.wallet, level |-> clerk'.level]
    OBVIOUS
  <1> QED BY <1>2, <1>3, Zenon DEF ClerkOk

\* A request of the operator at another point.
LEMMA ClerkFields ==
    ASSUME NEW c, c = [pc |-> c.pc, wallet |-> c.wallet, level |-> c.level], NEW pc
    PROVE  [c EXCEPT !.pc = pc] = [pc |-> pc, wallet |-> c.wallet, level |-> c.level]
  OBVIOUS

\* The operator's request starts with a lookup.
LEMMA StartKycStep == ASSUME OnboardInv, NEW w \in Wallets, NEW level, StartKyc(w, level) PROVE OnboardInv'
  <1>1. ChainOk /\ RowsOk
    BY Zenon DEF OnboardInv, TablesOk
  <1>2. /\ UNCHANGED <<page, challenges, run, owner, attempts, creds, token>> /\ DOMAIN rows' = DOMAIN rows /\ (Traced' => Traced)
        /\ UNCHANGED <<consumers, owner, rows, run>> /\ RegistryStays /\ names' = names /\ run' = run
        /\ clerk' = [pc |-> "chain", wallet |-> w, level |-> level]
    BY DEF StartKyc, signUp, tables, traces, remote, registryVars, identity, RegistryStays, Traced
  <1>3. ChainOk'
    BY <1>1, <1>2, SameRuns, NamesStay, Zenon
  <1>4. RowsOk'
    BY <1>1, <1>2, RowsStill, Zenon
  <1>5. ClerkOk'
    <2>1. "chain" \notin {"mirror", "ok"}
      OBVIOUS
    <2> QED BY <1>2, <2>1, ClerkFresh, Zenon
  <1> QED BY <1>2, <1>3, <1>4, <1>5, ClerkMoves, Zenon

\* A record with another level is found by what it was found by.
LEMMA SetLevel ==
    ASSUME NEW d, IsConsumer(d), NEW level, NEW e, e = [d EXCEPT !.kycLevel = level]
    PROVE  /\ IsConsumer(e) /\ e.kycLevel = level
           /\ e.ens = d.ens /\ e.globalConsumerId = d.globalConsumerId /\ e.isActive = d.isActive
  <1>1. e = [saveWallet |-> d.saveWallet, usdWallet |-> d.usdWallet, ens |-> d.ens, countryCode |-> d.countryCode,
             kycLevel |-> level, isActive |-> d.isActive, globalConsumerId |-> d.globalConsumerId]
    BY DEF IsConsumer
  <1> QED BY <1>1 DEF IsConsumer

\* updateKycLevel keeps the invariant, and a revert does.
LEMMA SetKycStep == ASSUME OnboardInv, SetKycOnChain PROVE OnboardInv'
  <1> PICK c : c = clerk
    OBVIOUS
  <1> PICK v, level : v = c.wallet /\ level = c.level
    OBVIOUS
  <1>1. ChainOk /\ TablesOk /\ RowsOk
    BY Zenon DEF OnboardInv, TablesOk
  <1>2. c = [pc |-> c.pc, wallet |-> v, level |-> level]
    BY <1>1, Zenon DEF TablesOk, ClerkOk
  <1>3. /\ UNCHANGED <<page, challenges, run, owner, attempts, creds, token>> /\ DOMAIN rows' = DOMAIN rows /\ (Traced' => Traced)
        /\ UNCHANGED <<owner, recovered, names, run, rows>>
    BY DEF SetKycOnChain, signUp, tables, traces, remote, Traced
  <1>4. CASE Active(v)
    <2>1. UpdateKycLevel(v, level) /\ clerk' = [c EXCEPT !.pc = "mirror"]
      BY <1>4 DEF SetKycOnChain
    <2>2. clerk' = [pc |-> "mirror", wallet |-> v, level |-> level]
      BY <1>2, <2>1, ClerkFields
    <2> PICK d : d = consumers[v]
      OBVIOUS
    <2> PICK x : x = [d EXCEPT !.kycLevel = level]
      OBVIOUS
    <2>3. v \in DOMAIN consumers /\ consumers' = [consumers EXCEPT ![v] = x]
      BY <1>4, <2>1 DEF UpdateKycLevel, Active
    <2>4. IsConsumer(d)
      BY <1>1, <2>3, Zenon DEF ChainOk, ChainTypes
    <2>5. /\ IsConsumer(x) /\ x.kycLevel = level
          /\ x.ens = d.ens /\ x.globalConsumerId = d.globalConsumerId /\ x.isActive = d.isActive
      BY <2>4, SetLevel
    <2>6. UNCHANGED <<ensByHash, consumerById, nextGlobalId, owner, recovered, names, run, rows>>
      BY <1>3, <2>1 DEF UpdateKycLevel
    <2>7. ChainOk' /\ RowsOk' /\ DOMAIN consumers' = DOMAIN consumers /\ consumers'[v] = x
      BY <2>3, <2>5, <2>6, RecordChanges
    <2>8. ClerkOk'
      <3>1. clerk'.pc = "mirror" /\ clerk'.wallet = v /\ clerk'.level = level /\ "mirror" # "ok"
        BY <2>2
      <3>2. clerk'.wallet \in DOMAIN consumers' /\ consumers'[clerk'.wallet].kycLevel = clerk'.level
        BY <2>3, <2>5, <2>7, <3>1
      <3>3. clerk' = [pc |-> clerk'.pc, wallet |-> clerk'.wallet, level |-> clerk'.level]
        BY <2>2
      <3> QED BY <3>1, <3>2, <3>3, Zenon DEF ClerkOk
    <2> QED BY <1>3, <2>7, <2>8, ClerkMoves, Zenon
  <1>5. CASE ~Active(v)
    <2>1. clerk' = [c EXCEPT !.pc = "idle"] /\ consumers' = consumers /\ RegistryStays
      BY <1>5 DEF SetKycOnChain, traces, registryVars, identity, RegistryStays
    <2>2. clerk' = [pc |-> "idle", wallet |-> v, level |-> level]
      BY <1>2, <2>1, ClerkFields
    <2>3. ClerkOk'
      <3>1. "idle" \notin {"mirror", "ok"}
        OBVIOUS
      <3> QED BY <2>2, <3>1, ClerkFresh, Zenon
    <2>4. ChainOk' /\ RowsOk'
      BY <1>1, <1>3, <2>1, SameRuns, NamesStay, RowsStill
    <2> QED BY <1>3, <2>3, <2>4, ClerkMoves, Zenon
  <1> QED BY <1>4, <1>5

\* A row with another level.
LEMMA SetRowLevel ==
    ASSUME NEW d, IsRow(d), NEW z, NEW e, e = [d EXCEPT !.level = z]
    PROVE  IsRow(e) /\ e.level = z /\ e.tag = d.tag /\ e.id = d.id
  <1>1. e = [tag |-> d.tag, id |-> d.id, level |-> z, idos |-> d.idos]
    BY DEF IsRow
  <1> QED BY <1>1 DEF IsRow

\* Mirroring the level keeps the invariant: "ok" only when both places have it.
LEMMA MirrorKycStep == ASSUME OnboardInv, MirrorKyc PROVE OnboardInv'
  <1> PICK c : c = clerk
    OBVIOUS
  <1> PICK w, level : w = c.wallet /\ level = c.level
    OBVIOUS
  <1> PICK tier : tier = (level \in Tiers[consumers[w].countryCode])
    OBVIOUS
  <1> PICK z : z = IF tier THEN level ELSE -1
    OBVIOUS
  <1> PICK pc : pc = IF w \in DOMAIN rows /\ tier THEN "ok" ELSE "idle"
    OBVIOUS
  <1>1. ChainOk /\ TablesOk /\ RowsOk /\ ClerkOk
    BY Zenon DEF OnboardInv, TablesOk
  <1>2. c = [pc |-> c.pc, wallet |-> w, level |-> level] /\ c.pc = "mirror"
    <2>1. c.pc = "mirror"
      BY DEF MirrorKyc
    <2> QED BY <1>1, <2>1, Zenon DEF ClerkOk
  <1>3. w \in DOMAIN consumers /\ consumers[w].kycLevel = level
    BY <1>1, <1>2 DEF ClerkOk
  <1>4. /\ UNCHANGED <<page, challenges, run, owner, attempts, creds, token, consumers>> /\ (Traced' => Traced)
        /\ RegistryStays /\ names' = names /\ run' = run
    BY DEF MirrorKyc, signUp, traces, remote, Traced, registryVars, identity, RegistryStays
  <1>5. /\ rows' = (IF w \in DOMAIN rows THEN [rows EXCEPT ![w].level = z] ELSE rows) /\ clerk' = [c EXCEPT !.pc = pc]
    BY DEF MirrorKyc
  <1>6. clerk' = [pc |-> pc, wallet |-> w, level |-> level]
    BY <1>2, <1>5, ClerkFields
  <1>7. ChainOk'
    BY <1>1, <1>4, SameRuns, NamesStay, Zenon
  <1>8. CASE w \in DOMAIN rows
    <2> PICK d : d = rows[w]
      OBVIOUS
    <2> PICK y : y = [d EXCEPT !.level = z]
      OBVIOUS
    <2>1. rows' = [rows EXCEPT ![w] = y]
      BY <1>5, <1>8
    <2>2. IsRow(d)
      BY <1>1, <1>8, Zenon DEF RowsOk
    <2>3. IsRow(y) /\ y.level = z /\ y.tag = d.tag /\ y.id = d.id
      BY <2>2, SetRowLevel
    <2>4. DOMAIN rows' = DOMAIN rows /\ rows'[w] = y /\ \A v \in DOMAIN rows \ {w} : rows'[v] = rows[v]
      BY <1>8, <2>1
    <2>5. \A v \in DOMAIN rows : IsRow(rows'[v]) /\ rows'[v].tag = rows[v].tag /\ rows'[v].id = rows[v].id
      <3> TAKE v \in DOMAIN rows
      <3>1. CASE v = w
        BY <2>3, <2>4, <3>1, Zenon
      <3>2. CASE v # w
        <4>1. rows'[v] = rows[v]
          BY <2>4, <3>2
        <4>2. IsRow(rows[v])
          BY <1>1, Zenon DEF RowsOk
        <4> QED BY <4>1, <4>2, Zenon
      <3> QED BY <3>1, <3>2
    <2>6. \A v \in DOMAIN rows : IsRow(rows'[v]) /\ rows'[v].tag = consumers[v].ens /\ rows'[v].id = consumers[v].globalConsumerId
      <3> TAKE v \in DOMAIN rows
      <3>1. rows[v].tag = consumers[v].ens /\ rows[v].id = consumers[v].globalConsumerId
        BY <1>1 DEF RowsOk
      <3> QED BY <2>5, <3>1, Zenon
    <2>7. RowsOk'
      BY <1>1, <1>4, <2>4, <2>6 DEF RowsOk
    <2>8. ClerkOk'
      <3>1. clerk'.pc = pc /\ clerk'.wallet = w /\ clerk'.level = level
        BY <1>6
      <3>2. w \in DOMAIN consumers' /\ consumers'[w].kycLevel = level /\ w \in DOMAIN rows'
        BY <1>3, <1>4, <1>8, <2>4
      <3>3. pc = "ok" => rows'[w].level = level
        <4>1. pc = "ok" => tier
          OBVIOUS
        <4> QED BY <2>3, <2>4, <4>1
      <3>4. clerk' = [pc |-> clerk'.pc, wallet |-> clerk'.wallet, level |-> clerk'.level]
        BY <1>6
      <3> QED BY <3>1, <3>2, <3>3, <3>4, Zenon DEF ClerkOk
    <2> QED BY <1>4, <1>7, <2>4, <2>7, <2>8, ClerkMoves
  <1>9. CASE w \notin DOMAIN rows
    <2>1. rows' = rows /\ pc = "idle"
      BY <1>5, <1>9
    <2>2. RowsOk'
      BY <1>1, <1>4, <2>1, RowsStill
    <2>3. ClerkOk'
      <3>1. pc \notin {"mirror", "ok"}
        BY <2>1
      <3> QED BY <1>6, <3>1, ClerkFresh, Zenon
    <2> QED BY <1>4, <1>7, <2>1, <2>2, <2>3, ClerkMoves
  <1> QED BY <1>8, <1>9

\* An attempt with another status.
LEMMA SetStatus ==
    ASSUME NEW d, IsAttempt(d), NEW e, e = [d EXCEPT !.status = "completed"]
    PROVE  IsAttempt(e) /\ e.status = "completed" /\ e.wallet = d.wallet
  BY DEF IsAttempt

\* The report completes an attempt only if its wallet has a row.
LEMMA HealStep == ASSUME OnboardInv, HealAttempts PROVE OnboardInv'
  <1>1. ChainOk /\ TablesOk /\ KeysOk /\ FunnelOk /\ RowsOk /\ OneWallet
    BY Zenon DEF OnboardInv, TablesOk, KeysOk
  <1>2. /\ UNCHANGED <<page, challenges, run, owner, rows, creds, token, clerk, consumers, faults>>
        /\ RegistryStays /\ names' = names /\ run' = run
    BY DEF HealAttempts, signUp, traces, remote, registryVars, identity, RegistryStays
  <1> DEFINE Healed(r) == attempts[r].status = "started" /\ attempts[r].wallet \in DOMAIN rows
  <1>3. /\ attempts' = [r \in Runs |-> attempts'[r]]
        /\ \A r \in Runs : attempts'[r] = IF Healed(r) THEN [attempts[r] EXCEPT !.status = "completed"] ELSE attempts[r]
    BY DEF HealAttempts
  <1>4. \A r \in Runs : IsAttempt(attempts[r])
    BY <1>1, Zenon DEF FunnelOk
  <1>5. ASSUME NEW r \in Runs
        PROVE  /\ IsAttempt(attempts'[r]) /\ attempts'[r].wallet = attempts[r].wallet
               /\ Healed(r) => attempts'[r].status = "completed"
               /\ ~Healed(r) => attempts'[r] = attempts[r]
    <2> PICK d : d = attempts[r]
      OBVIOUS
    <2>1. CASE Healed(r)
      <3>1. attempts'[r] = [d EXCEPT !.status = "completed"]
        BY <1>3, <2>1
      <3>2. IsAttempt(d)
        BY <1>4
      <3> QED BY <2>1, <3>1, <3>2, SetStatus
    <2>2. CASE ~Healed(r)
      <3>1. attempts'[r] = attempts[r]
        BY <1>3, <2>2
      <3> QED BY <1>4, <2>2, <3>1
    <2> QED BY <2>1, <2>2
  <1>6. FunnelOk'
    <2>1. Traced' => Traced
      BY <1>2 DEF Traced
    <2>2. ASSUME NEW r \in Runs, AttemptOk(r) PROVE AttemptOk(r)'
      <3>1. CASE Healed(r)
        <4>1. run[r].wallet \in DOMAIN rows
          BY <2>2, <3>1 DEF AttemptOk
        <4>2. run[r].pc \notin Middle
          BY <1>1, <4>1 DEF RowsOk
        <4>3. run[r].wallet # NoWallet
          BY <1>1, <4>1, NoWalletNoRow, Zenon
        <4>4. run[r].pc \notin Early
          BY <1>1, <4>3 DEF OneWallet
        <4>5. attempts'[r].status = "completed" /\ attempts'[r].wallet = attempts[r].wallet
          BY <1>5, <3>1
        <4> QED BY <1>2, <2>2, <4>1, <4>2, <4>4, <4>5 DEF AttemptOk
      <3>2. CASE ~Healed(r)
        <4>1. attempts'[r] = attempts[r]
          BY <1>5, <3>2
        <4> QED BY <1>2, <2>2, <4>1 DEF AttemptOk
      <3> QED BY <3>1, <3>2
    <2>3. ASSUME Traced' PROVE (\A r \in Runs : AttemptOk(r)') /\ \A w \in DOMAIN owner' : \E r \in Runs : run'[r].wallet = w
      <3>1. (\A r \in Runs : AttemptOk(r)) /\ \A w \in DOMAIN owner : \E r \in Runs : run[r].wallet = w
        BY <1>1, <2>1, <2>3, Zenon DEF FunnelOk
      <3>2. \A w \in DOMAIN owner' : \E r \in Runs : run'[r].wallet = w
        BY <1>2, <3>1
      <3> QED BY <2>2, <3>1, <3>2
    <2>4. \A r \in Runs : IsAttempt(attempts'[r])
      BY <1>5
    <2> QED BY <1>3, <2>3, <2>4, Zenon DEF FunnelOk
  <1>7. ChainOk'
    BY <1>1, <1>2, SameRuns, NamesStay, Zenon
  <1>8. KeysOk'
    BY <1>1, <1>2, KeysStill
  <1>9. RowsOk' /\ CredsOk' /\ ClerkOk'
    BY <1>1, <1>2 DEF TablesOk, RowsOk, CredsOk, ClerkOk
  <1> QED BY <1>6, <1>7, <1>8, <1>9, Zenon DEF OnboardInv, TablesOk

\* A step outside sign-up, the tables and the registry's indexes.
LEMMA NothingMoves ==
    ASSUME OnboardInv, UNCHANGED <<identity, signUp, tables, remote, token, clerk, traces>>, Traced' => Traced
    PROVE  OnboardInv'
  <1>1. ChainOk /\ RowsOk /\ ClerkOk
    BY Zenon DEF OnboardInv, TablesOk
  <1>2. /\ UNCHANGED <<page, challenges, run, owner, attempts, creds, token, rows, clerk, consumers>>
        /\ RegistryStays /\ names' = names /\ run' = run
    BY DEF signUp, tables, traces, remote, identity, RegistryStays
  <1>3. ChainOk'
    BY <1>1, <1>2, SameRuns, NamesStay, Zenon
  <1>4. RowsOk' /\ ClerkOk'
    BY <1>1, <1>2 DEF RowsOk, ClerkOk
  <1> QED BY <1>2, <1>3, <1>4, ClerkMoves

\* That a fault may come again loses no trace of what the report counts.
LEMMA FaultsAgainStep == ASSUME OnboardInv, FaultsAgain PROVE OnboardInv'
  <1>1. UNCHANGED <<identity, signUp, tables, remote, token, clerk, traces>>
    BY DEF FaultsAgain, registryVars
  <1>2. Traced' => Traced
    BY DEF FaultsAgain, Traced
  <1> QED BY <1>1, <1>2, NothingMoves

\* A linked wallet is no part of what a consumer is found by.
LEMMA LinkStep ==
    ASSUME OnboardInv, UNCHANGED onboardVars, NEW v, Active(v), NEW x, consumers' = [consumers EXCEPT ![v] = x],
           IsConsumer(x), x.ens = consumers[v].ens, x.globalConsumerId = consumers[v].globalConsumerId,
           x.isActive = consumers[v].isActive, x.kycLevel = consumers[v].kycLevel,
           UNCHANGED <<ensByHash, consumerById, nextGlobalId>>
    PROVE  OnboardInv'
  <1>1. /\ UNCHANGED <<page, challenges, run, owner, attempts, creds, token, rows, clerk>> /\ (Traced' => Traced)
        /\ UNCHANGED <<ensByHash, consumerById, nextGlobalId, owner, recovered, names, run, rows>>
    BY DEF onboardVars, signUp, tables, traces, remote, Traced
  <1>2. v \in DOMAIN consumers
    BY DEF Active
  <1>3. /\ ChainOk' /\ RowsOk' /\ DOMAIN consumers' = DOMAIN consumers /\ consumers'[v] = x
        /\ \A w \in DOMAIN consumers \ {v} : consumers'[w] = consumers[w]
    BY <1>1, <1>2, RecordChanges
  <1>4. \A w \in DOMAIN consumers : consumers'[w].kycLevel = consumers[w].kycLevel
    <2> TAKE w \in DOMAIN consumers
    <2>1. CASE w = v
      BY <1>3, <2>1, Zenon
    <2>2. CASE w # v
      BY <1>3, <2>2
    <2> QED BY <2>1, <2>2
  <1>5. ClerkOk'
    <2>1. ClerkOk
      BY Zenon DEF OnboardInv, TablesOk
    <2>2. clerk.pc \in {"mirror", "ok"} => clerk.wallet \in DOMAIN consumers' /\ consumers'[clerk.wallet].kycLevel = clerk.level
      BY <1>3, <1>4, <2>1 DEF ClerkOk
    <2> QED BY <1>1, <2>1, <2>2 DEF ClerkOk
  <1> QED BY <1>1, <1>3, <1>5, ClerkMoves

\* A record with a linked wallet.
LEMMA SetLinked ==
    ASSUME NEW d, IsConsumer(d), NEW e, NEW linked, e = [d EXCEPT !.saveWallet = linked] \/ e = [d EXCEPT !.usdWallet = linked]
    PROVE  /\ IsConsumer(e) /\ e.ens = d.ens /\ e.globalConsumerId = d.globalConsumerId
           /\ e.isActive = d.isActive /\ e.kycLevel = d.kycLevel
  <1>1. CASE e = [d EXCEPT !.saveWallet = linked]
    <2>1. e = [saveWallet |-> linked, usdWallet |-> d.usdWallet, ens |-> d.ens, countryCode |-> d.countryCode,
               kycLevel |-> d.kycLevel, isActive |-> d.isActive, globalConsumerId |-> d.globalConsumerId]
      BY <1>1 DEF IsConsumer
    <2> QED BY <2>1 DEF IsConsumer
  <1>2. CASE e = [d EXCEPT !.usdWallet = linked]
    <2>1. e = [saveWallet |-> d.saveWallet, usdWallet |-> linked, ens |-> d.ens, countryCode |-> d.countryCode,
               kycLevel |-> d.kycLevel, isActive |-> d.isActive, globalConsumerId |-> d.globalConsumerId]
      BY <1>2 DEF IsConsumer
    <2> QED BY <2>1 DEF IsConsumer
  <1> QED BY <1>1, <1>2

\* The cap, linked wallets, remittances and the clock keep the invariant.
LEMMA BesideStep == ASSUME OnboardInv, RegistryBeside PROVE OnboardInv'
  <1>1. UNCHANGED onboardVars
    BY DEF RegistryBeside
  <1>2. ASSUME UNCHANGED identity PROVE OnboardInv'
    <2>1. UNCHANGED <<signUp, tables, remote, token, clerk, traces>> /\ (Traced' => Traced)
      BY <1>1 DEF onboardVars, Traced
    <2> QED BY <1>2, <2>1, NothingMoves
  <1>3. ASSUME NEW v, NEW linked, SetSaveWallet(v, linked) \/ SetUsdWallet(v, linked) PROVE OnboardInv'
    <2> PICK d : d = consumers[v]
      OBVIOUS
    <2>1. /\ Active(v) /\ UNCHANGED <<ensByHash, consumerById, nextGlobalId>>
          /\ consumers' = [consumers EXCEPT ![v] = [d EXCEPT !.saveWallet = linked]]
                \/ consumers' = [consumers EXCEPT ![v] = [d EXCEPT !.usdWallet = linked]]
      BY <1>3 DEF SetSaveWallet, SetUsdWallet
    <2>2. PICK x : /\ consumers' = [consumers EXCEPT ![v] = x]
                   /\ x = [d EXCEPT !.saveWallet = linked] \/ x = [d EXCEPT !.usdWallet = linked]
      BY <2>1
    <2>3. IsConsumer(d)
      BY <2>1, Zenon DEF OnboardInv, ChainOk, ChainTypes, Active
    <2>4. /\ IsConsumer(x) /\ x.ens = d.ens /\ x.globalConsumerId = d.globalConsumerId
          /\ x.isActive = d.isActive /\ x.kycLevel = d.kycLevel
      BY <2>2, <2>3, SetLinked
    <2> QED BY <1>1, <2>1, <2>2, <2>4, LinkStep
  <1>4. \/ \E n \in Caps : SetMaxConsumers(n)
        \/ \E v, linked \in Wallets : SetSaveWallet(v, linked) \/ SetUsdWallet(v, linked)
        \/ Spending
    BY Zenon DEF RegistryBeside
  <1>5. (\E n \in Caps : SetMaxConsumers(n)) => UNCHANGED identity
    BY DEF SetMaxConsumers
  <1>6. Spending => UNCHANGED identity
    BY DEF Spending, RecordRemittance, NextDay
  <1> QED BY <1>2, <1>3, <1>4, <1>5, <1>6, Zenon

\* Before anybody has signed up.
LEMMA OnboardStart == RegistryInit /\ OnboardInit => OnboardInv
  <1> SUFFICES ASSUME RegistryInit, OnboardInit PROVE OnboardInv
    OBVIOUS
  <1>1. /\ page = [p \in Persons |-> [at |-> "form", tries |-> 0]] /\ challenges = {}
        /\ run = [r \in Runs |-> [pc |-> "none", tag |-> NoTag, wallet |-> NoWallet]]
        /\ attempts = [r \in Runs |-> Blank] /\ names = [n \in Names |-> "free"]
        /\ DOMAIN rows = {} /\ DOMAIN creds = {} /\ token = [p \in Persons |-> NoWallet]
        /\ clerk = [pc |-> "idle", wallet |-> NoWallet, level |-> 0] /\ DOMAIN owner = {}
    BY DEF OnboardInit
  <1>2. /\ DOMAIN consumers = {} /\ ensByHash = [n \in Names |-> NoWallet] /\ consumerById = [j \in Ids |-> NoWallet]
        /\ nextGlobalId = 0
    BY DEF RegistryInit
  <1>3. \A r \in Runs : run[r].pc = "none" /\ run[r].tag = NoTag /\ run[r].wallet = NoWallet /\ IsRun(run[r])
    BY <1>1 DEF IsRun
  <1>4. /\ "none" \notin LivePcs /\ "none" \notin Early /\ "none" \notin Middle /\ "none" \notin Late /\ "none" # "answer"
    BY DEF LivePcs, Early, Middle, Late
  <1>5. KeysOk
    <2>1. PagesOk
      BY <1>1 DEF PagesOk, IsPage
    <2>2. RunsOk
      BY <1>1, <1>3 DEF RunsOk
    <2>3. OneRequest
      BY <1>1, <1>3, <1>4 DEF OneRequest, Live
    <2>4. OneWallet
      BY <1>1, <1>3, <1>4 DEF OneWallet
    <2> QED BY <2>1, <2>2, <2>3, <2>4 DEF KeysOk
  <1>6. ChainOk
    <2>1. ChainTypes
      <3>1. nextGlobalId = Cardinality(DOMAIN owner)
        BY <1>1, <1>2, FS_EmptySet
      <3> QED BY <1>1, <1>2, <3>1 DEF ChainTypes
    <2>2. Indexed /\ OwnersKnown
      BY <1>1, <1>2, <1>3 DEF Indexed, OwnersKnown
    <2>3. Named
      BY <1>1 DEF Named
    <2> QED BY <2>1, <2>2, <2>3 DEF ChainOk
  <1>7. TablesOk
    <2>1. RowsOk
      BY <1>1, <1>3, <1>4 DEF RowsOk
    <2>2. CredsOk
      BY <1>1, <1>3, <1>4 DEF CredsOk
    <2>3. ClerkOk
      BY <1>1 DEF ClerkOk
    <2> QED BY <2>1, <2>2, <2>3 DEF TablesOk
  <1>8. FunnelOk
    <2>1. \A r \in Runs : /\ attempts[r].status = "none" /\ attempts[r].wallet = NoWallet /\ IsAttempt(attempts[r])
      BY <1>1 DEF Blank, IsAttempt
    <2>2. \A r \in Runs : AttemptOk(r)
      BY <1>1, <1>3, <1>4, <2>1 DEF AttemptOk
    <2> QED BY <1>1, <2>1, <2>2 DEF FunnelOk
  <1> QED BY <1>5, <1>6, <1>7, <1>8 DEF OnboardInv

\* Every step keeps the invariant.
LEMMA OnboardStep == OnboardInv /\ [OnboardNext]_<<registryVars, onboardVars>> => OnboardInv'
  <1> SUFFICES ASSUME OnboardInv, [OnboardNext]_<<registryVars, onboardVars>> PROVE OnboardInv'
    OBVIOUS
  <1>1. CASE SignUp
    <2>1. ASSUME NEW r \in Runs,
                 \/ Redeliver(r) \/ Receive(r) \/ RefuseCeremony(r) \/ ResolveSigner(r)
                 \/ Deploy(r) \/ DeployReverts(r) \/ IssueCredential(r) \/ MintName(r) \/ PointName(r)
                 \/ Sponsor(r) \/ WriteRow(r) \/ FinishAttempt(r) \/ StoreCredential(r) \/ Answer(r)
          PROVE  OnboardInv'
      BY <2>1, RedeliverStep, ReceiveStep, RefuseStep, ResolveSignerStep, DeployStep, DeployRevertsStep, IssueStep,
         MintStep, PointStep, SponsorStep, WriteRowStep, FinishStep, StoreStep, AnswerStep, Zenon
    <2>2. ASSUME NEW p \in Persons, NEW tag \in Names, CreateWallet(p, tag) PROVE OnboardInv'
      BY <2>2, CreateStep, Zenon
    <2> QED BY <1>1, <2>1, <2>2, RestartStep, HealStep, Zenon DEF SignUp
  <1>2. CASE Accounts
    <2>1. ASSUME NEW p \in Persons, NEW k \in Passkeys, Login(p, k) PROVE OnboardInv'
      BY <2>1, LoginStep, Zenon
    <2>2. ASSUME NEW w \in Wallets, NEW level \in Levels, StartKyc(w, level) PROVE OnboardInv'
      BY <2>2, StartKycStep, Zenon
    <2> QED BY <1>2, <2>1, <2>2, RecoverStep, SetKycStep, MirrorKycStep, Zenon DEF Accounts
  <1>3. CASE UNCHANGED <<registryVars, onboardVars>>
    <2>1. UNCHANGED <<identity, signUp, tables, remote, token, clerk, traces>> /\ (Traced' => Traced)
      BY <1>3 DEF registryVars, onboardVars, Traced
    <2> QED BY <2>1, NothingMoves
  <1> QED BY <1>1, <1>2, <1>3, BesideStep, FaultsAgainStep, Zenon DEF OnboardNext

\* The accounts of whoever has a row are found again.
LEMMA RowsResolve ==
    ASSUME OnboardInv, NEW w \in DOMAIN rows
    PROVE  /\ w \in DOMAIN owner /\ consumers[w].ens = rows[w].tag
           /\ names[rows[w].tag] \in {"free", "minted", w}
           /\ w \notin recovered => /\ ResolveTag(rows[w].tag) = w
                                    /\ ResolveAccountNumber(rows[w].id) = w
  <1>1. RowsOk /\ OwnersKnown /\ Indexed /\ Named /\ ChainTypes
    BY Zenon DEF OnboardInv, TablesOk, ChainOk
  <1> PICK tag, id : tag = rows[w].tag /\ id = rows[w].id
    OBVIOUS
  <1>2. /\ DOMAIN rows \subseteq DOMAIN owner /\ DOMAIN owner \subseteq DOMAIN consumers
        /\ tag = consumers[w].ens /\ id = consumers[w].globalConsumerId
    BY <1>1 DEF RowsOk, ChainTypes
  <1>3. names[tag] \in {"free", "minted", w}
    BY <1>1, <1>2 DEF Named
  <1>4. {v \in DOMAIN rows : rows[v].id = id} = {w}
    <2>1. ASSUME NEW v \in DOMAIN rows, rows[v].id = id PROVE v = w
      <3>1. v \in DOMAIN owner /\ w \in DOMAIN owner /\ consumers[v].globalConsumerId = rows[v].id
        BY <1>1, <1>2 DEF RowsOk
      <3> QED BY <1>1, <1>2, <2>1, <3>1 DEF OwnersKnown
    <2> QED BY <2>1
  <1>5. ResolveAccountNumber(id) = w
    <2>1. (CHOOSE v \in {w} : TRUE) = w
      OBVIOUS
    <2> QED BY <1>4, <2>1 DEF ResolveAccountNumber
  <1>6. w \notin recovered => ResolveTag(tag) = w
    <2>1. w \notin recovered => consumers[w].isActive
      BY <1>1, <1>2 DEF OwnersKnown
    <2>2. consumers[w].isActive => ensByHash[consumers[w].ens] = w
      BY <1>1, <1>2, Zenon DEF Indexed
    <2> QED BY <1>2, <2>1, <2>2 DEF ResolveTag
  <1> QED BY <1>2, <1>3, <1>5, <1>6

\* The funnel reconciles, by what each attempt records.
LEMMA FunnelAdds == OnboardInv => FunnelReconciles
  <1> SUFFICES ASSUME OnboardInv, Traced
               PROVE  /\ DOMAIN rows = {attempts[r].wallet : r \in {s \in Runs : Counted(s)}}
                      /\ DOMAIN owner \ DOMAIN rows =
                            {attempts[r].wallet : r \in {s \in Runs : ~Counted(s)}} \ {NoWallet}
    BY DEF FunnelReconciles, Traced
  <1>1. FunnelOk /\ RowsOk /\ OneWallet /\ ChainOk /\ TablesOk
    BY Zenon DEF OnboardInv, TablesOk, KeysOk
  <1>2. (\A r \in Runs : AttemptOk(r)) /\ \A w \in DOMAIN owner : \E r \in Runs : run[r].wallet = w
    BY <1>1, Zenon DEF FunnelOk
  <1>3. \A r \in Runs : Counted(r) <=> attempts[r].wallet \in DOMAIN rows
    BY <1>2 DEF Counted, AttemptOk
  <1>4. \A r \in Runs : attempts[r].wallet = run[r].wallet
    BY <1>2 DEF AttemptOk
  <1>5. \A w \in DOMAIN owner : \E r \in Runs : attempts[r].wallet = w
    BY <1>2, <1>4
  <1>6. \A r \in Runs : attempts[r].wallet # NoWallet => attempts[r].wallet \in DOMAIN owner
    BY <1>1, <1>4 DEF OneWallet
  <1>7. NoWallet \notin DOMAIN owner /\ DOMAIN rows \subseteq DOMAIN owner
    BY <1>1, NoWalletNoRow DEF RowsOk
  <1>8. DOMAIN rows = {attempts[r].wallet : r \in {s \in Runs : Counted(s)}}
    BY <1>3, <1>5, <1>7
  <1>9. DOMAIN owner \ DOMAIN rows = {attempts[r].wallet : r \in {s \in Runs : ~Counted(s)}} \ {NoWallet}
    BY <1>3, <1>5, <1>6, <1>7
  <1> QED BY <1>8, <1>9

\* What a person ends up with follows from the invariant.
LEMMA OnboardGood == OnboardInv => AccountsWhole
  <1> SUFFICES ASSUME OnboardInv PROVE AccountsWhole
    OBVIOUS
  <1>1. OneWallet /\ CredsOk /\ ClerkOk
    BY Zenon DEF OnboardInv, TablesOk, KeysOk
  <1>2. \A v, w \in DOMAIN owner : owner[v] = owner[w] => v = w
    BY <1>1, Zenon DEF OneWallet
  <1>3. /\ \A k \in DOMAIN creds : creds[k] \in DOMAIN rows /\ owner[creds[k]] = k
        /\ \A p \in Persons : token[p] # NoWallet => \E k \in DOMAIN creds : k[1] = p /\ creds[k] = token[p]
    BY <1>1, Zenon DEF CredsOk
  <1>4. \A w \in DOMAIN rows :
          /\ w \in DOMAIN owner /\ consumers[w].ens = rows[w].tag
          /\ names[rows[w].tag] \in {"free", "minted", w}
          /\ w \notin recovered => /\ ResolveTag(rows[w].tag) = w
                                   /\ ResolveAccountNumber(rows[w].id) = w
    BY RowsResolve
  <1>5. clerk.pc = "ok" => /\ rows[clerk.wallet].level = clerk.level
                           /\ consumers[clerk.wallet].kycLevel = clerk.level
    BY <1>1 DEF ClerkOk
  <1> QED BY <1>2, <1>3, <1>4, <1>5, FunnelAdds, Zenon DEF AccountsWhole

\* How far each request has come decides what may exist for it: a passkey's challenge lets
\* one request in, which deploys one wallet; name, row, credential and token follow in that
\* order; and each attempt says what its request did, unless a receipt or a tracking write
\* was lost (registrationService, Consumer.sol, walletResolve).
THEOREM OnboardInvariant == OnboardSpec => []OnboardInv
  BY OnboardStart, OnboardStep, PTL DEF OnboardSpec

\* Wherever registrations break off, are delivered twice or are tried again, and whatever
\* recoveries, level changes and other calls of the registry come between: passkey, wallet,
\* row, name and token of a person fit together, a row's tag and number pay its wallet until
\* it is recovered, and the sign-up funnel of the report reconciles.
THEOREM AccountsTheorem == OnboardSpec => []AccountsWhole
  BY OnboardInvariant, OnboardGood, PTL
=============================================================================
