-------------------------- MODULE ShareMath_proofs --------------------------
(***************************************************************************)
(* Facts about the conversions of ShareMath and about its Total, for every *)
(* finite set of holders and all natural amounts.                          *)
(***************************************************************************)
EXTENDS ShareMath, FiniteSetTheorems, TLAPS

(***************************************************************************)
(*                              Sums                                       *)
(***************************************************************************)

\* The units of f, as pairs of a holder and the number of one of its units.
LEMMA UnitsMember ==
    ASSUME NEW S, NEW f \in [S -> Nat]
    PROVE  Units(f) = {p \in S \X Nat : 1 <= p[2] /\ p[2] <= f[p[1]]}
  BY DEF Units

\* A holder's own units are as many as it holds.
LEMMA UnitsOfOne ==
    ASSUME NEW x, NEW n \in Nat
    PROVE  IsFiniteSet({x} \X (1..n)) /\ Cardinality({x} \X (1..n)) = n
  <1>1. IsFiniteSet(1..n) /\ Cardinality(1..n) = n
    BY FS_Interval
  <1>2. IsFiniteSet({x}) /\ Cardinality({x}) = 1
    BY FS_Singleton
  <1>3. QED
    BY <1>1, <1>2, FS_Product, SMTT(60)

\* The size of a disjoint union.
LEMMA DisjointUnion ==
    ASSUME NEW S, NEW T, IsFiniteSet(S), IsFiniteSet(T), S \cap T = {}
    PROVE  Cardinality(S \cup T) = Cardinality(S) + Cardinality(T)
  <1>1. Cardinality(S) \in Nat /\ Cardinality(T) \in Nat
    BY FS_CardinalityType
  <1>2. Cardinality(S \cup T) = Cardinality(S) + Cardinality(T) - Cardinality(S \cap T)
    BY FS_Union
  <1>3. Cardinality(S \cap T) = 0
    BY FS_EmptySet
  <1>4. QED
    BY <1>1, <1>2, <1>3

\* Finitely many holders hold finitely many units.
LEMMA UnitsFinite ==
    ASSUME NEW S, IsFiniteSet(S), NEW f \in [S -> Nat]
    PROVE  IsFiniteSet(Units(f))
  <1> DEFINE own(x) == {x} \X (1..f[x])
             G == {own(x) : x \in S}
             g == [x \in S |-> own(x)]
  <1>1. g \in Surjection(S, G)
    BY DEF Surjection
  <1>2. IsFiniteSet(G)
    <2> HIDE DEF G, g
    <2> QED BY <1>1, FS_Surjection
  <1>3. \A T \in G : IsFiniteSet(T)
    <2>1. \A x \in S : f[x] \in Nat /\ IsFiniteSet(own(x))
      BY UnitsOfOne
    <2>2. QED BY <2>1
  <1>4. Units(f) = UNION G
    BY DEF Units
  <1>5. QED
    <2> HIDE DEF G
    <2> QED BY <1>2, <1>3, <1>4, FS_UNION

\* The sum is a natural number.
LEMMA TotalType ==
    ASSUME NEW S, IsFiniteSet(S), NEW f \in [S -> Nat]
    PROVE  Total(f) \in Nat
  BY UnitsFinite, FS_CardinalityType DEF Total

\* Changing what one holder has changes the sum by the difference.
LEMMA TotalExcept ==
    ASSUME NEW S, IsFiniteSet(S), NEW f \in [S -> Nat], NEW x \in S, NEW v \in Nat
    PROVE  Total([f EXCEPT ![x] = v]) = Total(f) - f[x] + v
  <1> DEFINE h == [f EXCEPT ![x] = v]
             rest == {p \in Units(f) : p[1] # x}
             mine == {x} \X (1..f[x])
             now == {x} \X (1..v)
  <1>1. h \in [S -> Nat] /\ h[x] = v /\ \A y \in S : y # x => h[y] = f[y]
    OBVIOUS
  <1>2. Units(f) = rest \cup mine /\ rest \cap mine = {}
    BY UnitsMember
  <1>3. Units(h) = rest \cup now /\ rest \cap now = {}
    <2> HIDE DEF h
    <2> QED BY <1>1, UnitsMember
  <1>4. IsFiniteSet(mine) /\ Cardinality(mine) = f[x]
    BY UnitsOfOne
  <1>5. IsFiniteSet(now) /\ Cardinality(now) = v
    BY UnitsOfOne
  <1>6. IsFiniteSet(rest) /\ Cardinality(rest) \in Nat
    BY UnitsFinite, FS_Subset, FS_CardinalityType
  <1>0. f[x] \in Nat
    OBVIOUS
  <1> HIDE DEF h, rest, mine, now
  <1>7. Cardinality(Units(f)) = Cardinality(rest) + f[x]
    BY <1>2, <1>4, <1>6, DisjointUnion
  <1>8. Cardinality(Units(h)) = Cardinality(rest) + v
    BY <1>3, <1>5, <1>6, DisjointUnion
  <1>9. QED
    BY <1>0, <1>6, <1>7, <1>8 DEF Total, h

\* The same for two functions that differ in one place.
LEMMA TotalChange ==
    ASSUME NEW S, IsFiniteSet(S), NEW f \in [S -> Nat], NEW g \in [S -> Nat], NEW x \in S,
           \A y \in S : y # x => g[y] = f[y]
    PROVE  /\ Total(f) \in Nat /\ Total(g) \in Nat /\ f[x] \in Nat /\ g[x] \in Nat
           /\ Total(g) = Total(f) - f[x] + g[x]
  <1>1. PICK v \in Nat : v = g[x]
    OBVIOUS
  <1>2. g = [f EXCEPT ![x] = v]
    BY <1>1
  <1>3. Total([f EXCEPT ![x] = v]) = Total(f) - f[x] + v
    BY TotalExcept
  <1>4. QED
    BY <1>1, <1>2, <1>3, TotalType

\* Nobody holds more than the sum.
LEMMA TotalMember ==
    ASSUME NEW S, IsFiniteSet(S), NEW f \in [S -> Nat], NEW x \in S
    PROVE  f[x] <= Total(f)
  <1> DEFINE mine == {x} \X (1..f[x])
  <1>1. mine \in SUBSET Units(f)
    BY UnitsMember
  <1>2. f[x] \in Nat /\ Cardinality(mine) = f[x]
    BY UnitsOfOne
  <1>3. IsFiniteSet(Units(f))
    BY UnitsFinite
  <1> HIDE DEF mine
  <1>4. Cardinality(mine) <= Cardinality(Units(f))
    BY <1>1, <1>3, FS_Subset
  <1>5. QED
    BY <1>2, <1>4 DEF Total

\* The sum of nothing is nothing.
LEMMA TotalZero ==
    ASSUME NEW S
    PROVE  Total([x \in S |-> 0]) = 0
  <1>1. Units([x \in S |-> 0]) = {}
    BY DEF Units
  <1>2. QED
    BY <1>1, FS_EmptySet DEF Total

\* What two separate groups of holders have is added up.
LEMMA TotalSplit ==
    ASSUME NEW S, IsFiniteSet(S), NEW f \in [S -> Nat],
           NEW A \in SUBSET S, NEW B \in SUBSET S, A \cap B = {}
    PROVE  Total([x \in A \cup B |-> f[x]]) = Total([x \in A |-> f[x]]) + Total([x \in B |-> f[x]])
  <1> DEFINE g == [x \in A |-> f[x]]
             h == [x \in B |-> f[x]]
             k == [x \in A \cup B |-> f[x]]
  <1>1. g \in [A -> Nat] /\ h \in [B -> Nat] /\ k \in [A \cup B -> Nat]
    OBVIOUS
  <1>2. IsFiniteSet(A) /\ IsFiniteSet(B)
    BY FS_Subset
  <1>3. /\ \A x \in A : g[x] = f[x] /\ k[x] = f[x]
        /\ \A x \in B : h[x] = f[x] /\ k[x] = f[x]
    OBVIOUS
  <1> HIDE DEF g, h, k
  <1>4. IsFiniteSet(Units(g)) /\ IsFiniteSet(Units(h))
    BY <1>1, <1>2, UnitsFinite
  <1>5. Units(k) = Units(g) \cup Units(h) /\ Units(g) \cap Units(h) = {}
    <2>1. /\ Units(g) = {p \in A \X Nat : 1 <= p[2] /\ p[2] <= g[p[1]]}
          /\ Units(h) = {p \in B \X Nat : 1 <= p[2] /\ p[2] <= h[p[1]]}
          /\ Units(k) = {p \in (A \cup B) \X Nat : 1 <= p[2] /\ p[2] <= k[p[1]]}
      BY <1>1, UnitsMember
    <2>2. QED
      BY <1>3, <2>1
  <1>6. Total(k) = Total(g) + Total(h)
    BY <1>4, <1>5, DisjointUnion DEF Total
  <1>7. QED
    BY <1>6 DEF g, h, k

\* A group has no more than everybody, and a larger holding makes a larger sum.
LEMMA TotalPart ==
    ASSUME NEW S, IsFiniteSet(S), NEW f \in [S -> Nat], NEW b \in [S -> Nat],
           NEW A \in SUBSET S, \A x \in A : b[x] <= f[x]
    PROVE  /\ Total([x \in A |-> b[x]]) \in Nat
           /\ Total([x \in A |-> b[x]]) <= Total(f)
  <1> DEFINE g == [x \in A |-> b[x]]
  <1>1. g \in [A -> Nat] /\ \A x \in A : g[x] = b[x]
    OBVIOUS
  <1>2. IsFiniteSet(A)
    BY FS_Subset
  <1> HIDE DEF g
  <1>3. Units(g) \in SUBSET Units(f)
    <2>1. /\ Units(g) = {p \in A \X Nat : 1 <= p[2] /\ p[2] <= g[p[1]]}
          /\ Units(f) = {p \in S \X Nat : 1 <= p[2] /\ p[2] <= f[p[1]]}
      BY <1>1, UnitsMember
    <2>2. ASSUME NEW p \in Units(g)
          PROVE  p \in Units(f)
      <3>1. p \in A \X Nat /\ 1 <= p[2] /\ p[2] <= b[p[1]]
        BY <1>1, <2>1
      <3>2. p[1] \in A /\ p[2] \in Nat /\ b[p[1]] \in Nat /\ f[p[1]] \in Nat
        BY <3>1
      <3>3. p[2] <= f[p[1]]
        BY <3>1, <3>2
      <3>4. QED
        BY <2>1, <3>1, <3>3
    <2>3. QED
      BY <2>2
  <1>4. IsFiniteSet(Units(f))
    BY UnitsFinite
  <1>5. Cardinality(Units(g)) <= Cardinality(Units(f))
    BY <1>3, <1>4, FS_Subset
  <1>6. Total(g) \in Nat
    BY <1>1, <1>2, TotalType
  <1>7. QED
    BY <1>5, <1>6 DEF Total, g

\* Counting a group only is counting everybody with nothing for the others.
LEMMA TotalSupport ==
    ASSUME NEW S, NEW f \in [S -> Nat], NEW A \in SUBSET S
    PROVE  Total([x \in S |-> IF x \in A THEN f[x] ELSE 0]) = Total([x \in A |-> f[x]])
  <1> DEFINE g == [x \in S |-> IF x \in A THEN f[x] ELSE 0]
             h == [x \in A |-> f[x]]
  <1>1. g \in [S -> Nat] /\ h \in [A -> Nat]
    OBVIOUS
  <1>2. /\ \A x \in A : g[x] = f[x] /\ h[x] = f[x]
        /\ \A x \in S : x \notin A => g[x] = 0
    OBVIOUS
  <1> HIDE DEF g, h
  <1>3. Units(g) = Units(h)
    <2>1. /\ Units(g) = {p \in S \X Nat : 1 <= p[2] /\ p[2] <= g[p[1]]}
          /\ Units(h) = {p \in A \X Nat : 1 <= p[2] /\ p[2] <= h[p[1]]}
      BY <1>1, UnitsMember
    <2>2. ASSUME NEW p \in S \X Nat, 1 <= p[2], p[2] <= g[p[1]]
          PROVE  p[1] \in A
      <3>1. p[1] \in S /\ p[2] \in Nat
        OBVIOUS
      <3>2. g[p[1]] # 0
        BY <2>2, <3>1
      <3>3. QED
        BY <1>2, <3>1, <3>2
    <2>3. QED
      BY <1>2, <2>1, <2>2
  <1>4. QED
    BY <1>3 DEF Total, g, h

\* What each of a group can be traced back to a holder of its own who has at least as
\* much comes to no more than what those holders have.
LEMMA TotalInjected ==
    ASSUME NEW S, NEW T, IsFiniteSet(T), NEW f \in [S -> Nat], NEW g \in [T -> Nat],
           NEW b \in [S -> T], \A x, y \in S : b[x] = b[y] => x = y,
           \A x \in S : f[x] <= g[b[x]]
    PROVE  Total(f) <= Total(g)
  <1>1. PICK U, W : U = Units(f) /\ W = Units(g)
    OBVIOUS
  <1>2. /\ U = {p \in S \X Nat : 1 <= p[2] /\ p[2] <= f[p[1]]}
        /\ W = {p \in T \X Nat : 1 <= p[2] /\ p[2] <= g[p[1]]}
    BY <1>1, UnitsMember
  <1>3. PICK h : h = [p \in U |-> <<b[p[1]], p[2]>>]
    OBVIOUS
  <1>4. ASSUME NEW p \in U PROVE h[p] = <<b[p[1]], p[2]>> /\ h[p] \in W
    <2>1. p[1] \in S /\ p[2] \in Nat /\ 1 <= p[2] /\ p[2] <= f[p[1]]
      BY <1>2
    <2>2. b[p[1]] \in T /\ f[p[1]] \in Nat /\ g[b[p[1]]] \in Nat /\ f[p[1]] <= g[b[p[1]]]
      BY <2>1
    <2>3. p[2] <= g[b[p[1]]]
      BY <2>1, <2>2
    <2>4. <<b[p[1]], p[2]>> \in W
      BY <1>2, <2>1, <2>2, <2>3
    <2> QED BY <1>3, <2>4
  <1>5. ASSUME NEW p \in U, NEW q \in U, h[p] = h[q] PROVE p = q
    <2>1. b[p[1]] = b[q[1]] /\ p[2] = q[2]
      BY <1>4, <1>5
    <2>2. p[1] \in S /\ q[1] \in S /\ p = <<p[1], p[2]>> /\ q = <<q[1], q[2]>>
      BY <1>2
    <2>3. p[1] = q[1]
      BY <2>1, <2>2
    <2> QED BY <2>1, <2>2, <2>3
  <1>6. h \in Injection(U, W)
    <2>1. h \in [U -> W] /\ DOMAIN h = U
      BY <1>3, <1>4
    <2> QED BY <1>5, <2>1, Zenon DEF Injection, IsInjective
  <1>7. IsFiniteSet(W)
    BY <1>1, UnitsFinite
  <1>8. Cardinality(U) <= Cardinality(W)
    BY <1>6, <1>7, FS_Injection, Zenon
  <1> QED BY <1>1, <1>8 DEF Total

\* The sum of equal amounts.
LEMMA TotalEqual ==
    ASSUME NEW A, IsFiniteSet(A), NEW k \in Nat
    PROVE  Total([x \in A |-> k]) = k * Cardinality(A)
  <1> DEFINE g == [x \in A |-> k]
  <1>1. g \in [A -> Nat] /\ \A x \in A : g[x] = k
    OBVIOUS
  <1> HIDE DEF g
  <1>2. Units(g) = {p \in A \X Nat : 1 <= p[2] /\ p[2] <= g[p[1]]}
    BY <1>1, UnitsMember
  <1>3. Units(g) = A \X (1..k)
    BY <1>1, <1>2
  <1>4. IsFiniteSet(1..k) /\ Cardinality(1..k) = k
    BY FS_Interval
  <1>5. Cardinality(A \X (1..k)) = Cardinality(A) * Cardinality(1..k) /\ Cardinality(A) \in Nat
    BY <1>4, FS_Product, FS_CardinalityType
  <1>6. PICK c \in Nat : c = Cardinality(A)
    BY <1>5
  <1>7. Total(g) = c * k /\ c * k = k * c
    BY <1>3, <1>4, <1>5, <1>6 DEF Total
  <1>8. QED
    BY <1>6, <1>7 DEF g

(***************************************************************************)
(*                        Rounded quotients                                *)
(***************************************************************************)

\* What Solidity's a / b is: the quotient rounded down.
LEMMA Quotient ==
    ASSUME NEW a \in Nat, NEW b \in Nat, b > 0
    PROVE  /\ a \div b \in Nat
           /\ b * (a \div b) <= a
           /\ a < b * (a \div b) + b
           /\ a % b \in 0..(b - 1)
           /\ a = b * (a \div b) + (a % b)
  OBVIOUS

\* Multiplying both sides of an inequality, and dividing them again.
LEMMA Multiply ==
    ASSUME NEW a \in Nat, NEW b \in Nat, NEW k \in Nat, a <= b
    PROVE  k * a <= k * b
  OBVIOUS

\* A positive factor common to both sides of an inequality cancels.
LEMMA CancelFactor ==
    ASSUME NEW a \in Int, NEW b \in Int, NEW k \in Nat, k > 0, k * a <= k * b
    PROVE  a <= b
  OBVIOUS

\* It cancels in a strict inequality too.
LEMMA CancelStrict ==
    ASSUME NEW a \in Int, NEW b \in Int, NEW k \in Nat, k * a < k * b
    PROVE  a < b
  OBVIOUS

\* The rounded quotient is the largest number whose multiple fits.
LEMMA QuotientLargest ==
    ASSUME NEW a \in Nat, NEW b \in Nat, b > 0, NEW q \in Nat, b * q <= a
    PROVE  q <= a \div b
  <1>1. b * q < b * (a \div b + 1) /\ a \div b \in Nat
    BY Quotient
  <1>2. q < a \div b + 1
    BY <1>1, CancelStrict
  <1>3. QED
    BY <1>1, <1>2

(***************************************************************************)
(*                   Conversions of the share ledger                       *)
(***************************************************************************)

\* A balance is the largest amount whose worth in shares is covered.
LEMMA AssetsDownBounds ==
    ASSUME NEW ts \in Nat, NEW ta \in Nat, NEW s \in Nat
    PROVE  /\ AssetsDown(ts, ta, s) \in Nat
           /\ ts * AssetsDown(ts, ta, s) <= s * ta
           /\ ts > 0 => s * ta < ts * AssetsDown(ts, ta, s) + ts
  <1>1. s * ta \in Nat
    OBVIOUS
  <1>2. CASE ts = 0
    BY <1>1, <1>2 DEF AssetsDown
  <1>3. CASE ts > 0
    BY <1>1, <1>3, Quotient DEF AssetsDown
  <1>4. QED
    BY <1>2, <1>3

\* Minting rounds down.
LEMMA SharesDownBounds ==
    ASSUME NEW ts \in Nat, NEW ta \in Nat, NEW a \in Nat
    PROVE  /\ SharesDown(ts, ta, a) \in Nat
           /\ ts > 0 /\ ta > 0 => ta * SharesDown(ts, ta, a) <= a * ts
  <1>1. a * ts \in Nat
    OBVIOUS
  <1>2. CASE ts = 0 \/ ta = 0
    BY <1>2 DEF SharesDown
  <1>3. CASE ts > 0 /\ ta > 0
    BY <1>1, <1>3, Quotient DEF SharesDown
  <1>4. QED
    BY <1>2, <1>3

\* Burning and moving round up, by less than one share.
LEMMA SharesUpBounds ==
    ASSUME NEW ts \in Nat, NEW ta \in Nat, NEW a \in Nat
    PROVE  /\ SharesUp(ts, ta, a) \in Nat
           /\ ts > 0 /\ ta > 0 => /\ a * ts <= ta * SharesUp(ts, ta, a)
                                  /\ ta * SharesUp(ts, ta, a) < a * ts + ta
  <1>1. a * ts \in Nat
    OBVIOUS
  <1>2. CASE ts = 0 \/ ta = 0
    BY <1>2 DEF SharesUp
  <1>3. CASE ts > 0 /\ ta > 0
    <2> DEFINE q == (a * ts) \div ta
               r == (a * ts) % ta
    <2>1. q \in Nat /\ r \in 0..(ta - 1) /\ a * ts = ta * q + r
      BY <1>1, <1>3, Quotient
    <2>2. SharesUp(ts, ta, a) = q + (IF r # 0 THEN 1 ELSE 0)
      BY <1>3 DEF SharesUp
    <2> HIDE DEF q, r
    <2>3. ta * (q + 1) = ta * q + ta
      BY <2>1
    <2>4. QED
      BY <1>1, <1>3, <2>1, <2>2, <2>3
  <1>4. QED
    BY <1>2, <1>3

\* The shares an affordable amount is worth are held by its payer: the caps of
\* _debitAssets and transfer never bind.
LEMMA AffordableShares ==
    ASSUME NEW ts \in Nat, NEW ta \in Nat, NEW s \in Nat, NEW a \in Nat,
           ts > 0, ta > 0, a <= AssetsDown(ts, ta, s)
    PROVE  SharesUp(ts, ta, a) <= s
  <1> DEFINE b == AssetsDown(ts, ta, s)
             n == SharesUp(ts, ta, a)
  <1>1. b \in Nat /\ ts * b <= s * ta
    BY AssetsDownBounds
  <1>2. n \in Nat /\ ta * n < a * ts + ta
    BY SharesUpBounds
  <1> HIDE DEF b, n
  <1>3. ts * a <= ts * b
    BY <1>1, Multiply DEF b
  <1>4. ta * n < ta * (s + 1)
    BY <1>1, <1>2, <1>3
  <1>5. n < s + 1
    BY <1>2, <1>4, CancelStrict
  <1>6. QED
    BY <1>2, <1>5 DEF n

\* What a debit burns and a transfer moves is held by the payer.
LEMMA BurnBounds ==
    ASSUME NEW ts \in Nat, NEW ta \in Nat, NEW s \in Nat, NEW a \in Nat
    PROVE  /\ BurnShares(ts, ta, s, a) \in 0..s
           /\ MoveShares(ts, ta, s, a) \in 0..s
  <1>1. SharesUp(ts, ta, a) \in Nat
    BY SharesUpBounds
  <1>2. QED
    BY <1>1 DEF BurnShares, MoveShares

\* A balance is at most the recorded assets while nobody holds more than exists.
LEMMA BalanceBound ==
    ASSUME NEW ts \in Nat, NEW ta \in Nat, NEW s \in Nat, s <= ts
    PROVE  AssetsDown(ts, ta, s) \in Nat /\ AssetsDown(ts, ta, s) <= ta
  <1> DEFINE b == AssetsDown(ts, ta, s)
  <1>1. b \in Nat /\ ts * b <= s * ta
    BY AssetsDownBounds
  <1>2. CASE ts = 0
    BY <1>2 DEF AssetsDown
  <1>3. CASE ts > 0
    <2> HIDE DEF b
    <2>1. ta * s <= ta * ts
      BY Multiply
    <2>2. ts * b <= ts * ta
      BY <1>1, <2>1
    <2>3. b <= ta
      BY <1>1, <1>3, <2>2, CancelFactor
    <2>4. QED
      BY <1>1, <2>3 DEF b
  <1>4. QED
    BY <1>2, <1>3

\* What a credit does to the sum of the shares.
LEMMA CreditSum ==
    ASSUME NEW S, IsFiniteSet(S), NEW f \in [S -> Nat], NEW ts \in Nat, NEW ta \in Nat,
           ts = Total(f), NEW u \in S, NEW a \in Nat, NEW m, m = SharesDown(ts, ta, a)
    PROVE  /\ m \in Nat
           /\ [f EXCEPT ![u] = f[u] + m] \in [S -> Nat]
           /\ ts + m = Total([f EXCEPT ![u] = f[u] + m])
  <1>1. m \in Nat
    BY SharesDownBounds
  <1>2. PICK v \in Nat : v = f[u] + m
    BY <1>1
  <1>3. Total([f EXCEPT ![u] = v]) = Total(f) - f[u] + v
    BY TotalExcept
  <1>4. f[u] \in Nat
    OBVIOUS
  <1>5. QED
    BY <1>1, <1>2, <1>3, <1>4

\* What a debit does to it: the payer holds what is burned, full exits included.
LEMMA DebitSum ==
    ASSUME NEW S, IsFiniteSet(S), NEW f \in [S -> Nat], NEW ts \in Nat, NEW ta \in Nat,
           ts = Total(f), NEW u \in S, NEW a \in Nat, AssetsDown(ts, ta, f[u]) >= a,
           NEW m, m = BurnShares(ts, ta, f[u], a)
    PROVE  /\ m \in Nat /\ ts - m \in Nat /\ ta - a \in Nat
           /\ [f EXCEPT ![u] = f[u] - m] \in [S -> Nat]
           /\ ts - m = Total([f EXCEPT ![u] = f[u] - m])
  <1>1. f[u] \in Nat /\ f[u] <= ts
    BY TotalMember
  <1>2. m \in 0..f[u]
    BY <1>1, BurnBounds
  <1>3. AssetsDown(ts, ta, f[u]) \in Nat /\ AssetsDown(ts, ta, f[u]) <= ta
    BY <1>1, BalanceBound
  <1>4. PICK v \in Nat : v = f[u] - m
    BY <1>1, <1>2
  <1>5. Total([f EXCEPT ![u] = v]) = Total(f) - f[u] + v
    BY TotalExcept
  <1>6. QED
    BY <1>1, <1>2, <1>3, <1>4, <1>5

\* The holdings after m shares have moved.
AfterMove(f, from, to, m) == [[f EXCEPT ![from] = @ - m] EXCEPT ![to] = @ + m]

\* What a transfer does to it: nothing, a transfer to oneself included.
LEMMA MoveSum ==
    ASSUME NEW S, IsFiniteSet(S), NEW f \in [S -> Nat],
           NEW from \in S, NEW to \in S, NEW m \in Nat, m <= f[from]
    PROVE  /\ AfterMove(f, from, to, m) \in [S -> Nat]
           /\ Total(AfterMove(f, from, to, m)) = Total(f)
  <1>1. f[from] \in Nat /\ m \in 0..f[from]
    OBVIOUS
  <1>2. PICK v \in Nat : v = f[from] - m
    BY <1>1
  <1>3. PICK mid \in [S -> Nat] : mid = [f EXCEPT ![from] = v]
    OBVIOUS
  <1>4. Total(mid) = Total(f) - f[from] + v
    <2>1. Total([f EXCEPT ![from] = v]) = Total(f) - f[from] + v
      BY TotalExcept
    <2>2. QED
      BY <1>3, <2>1
  <1>5. PICK w \in Nat : w = mid[to] + m
    BY <1>1, <1>3
  <1>6. Total([mid EXCEPT ![to] = w]) = Total(mid) - mid[to] + w
    BY TotalExcept
  <1>7. Total(f) \in Nat /\ mid[to] \in Nat
    BY TotalType
  <1>8. Total([mid EXCEPT ![to] = w]) = Total(f)
    BY <1>1, <1>2, <1>4, <1>5, <1>6, <1>7
  <1>9. AfterMove(f, from, to, m) = [mid EXCEPT ![to] = w]
    BY <1>2, <1>3, <1>5 DEF AfterMove
  <1>10. [mid EXCEPT ![to] = w] \in [S -> Nat]
    OBVIOUS
  <1>11. QED
    BY <1>8, <1>9, <1>10

\* A price that does not fall lowers no balance.
LEMMA PriceUp ==
    ASSUME NEW ts \in Nat, NEW ta \in Nat, NEW ts2 \in Nat, NEW ta2 \in Nat,
           NEW s \in Nat, ts > 0, ts2 > 0, ta * ts2 <= ta2 * ts
    PROVE  AssetsDown(ts, ta, s) <= AssetsDown(ts2, ta2, s)
  <1> DEFINE b == AssetsDown(ts, ta, s)
  <1>1. b \in Nat /\ ts * b <= s * ta
    BY AssetsDownBounds
  <1>2. AssetsDown(ts2, ta2, s) = (s * ta2) \div ts2
    BY DEF AssetsDown
  <1> HIDE DEF b
  <1>3. ts2 * (ts * b) <= ts2 * (s * ta)
    BY <1>1, Multiply
  <1>4. s * (ta * ts2) <= s * (ta2 * ts)
    BY Multiply
  <1>5. ts * (ts2 * b) <= ts * (s * ta2)
    BY <1>1, <1>3, <1>4
  <1>6. ts2 * b <= s * ta2
    BY <1>1, <1>5, CancelFactor
  <1>7. QED
    BY <1>1, <1>2, <1>6, QuotientLargest DEF b

(***************************************************************************)
(*                     Sums of rounded balances                            *)
(***************************************************************************)

\* A number below k and a multiple of k determine each other.
LEMMA MixedRadix ==
    ASSUME NEW k \in Nat, NEW i \in 0..(k - 1), NEW j \in Nat,
           NEW i2 \in 0..(k - 1), NEW j2 \in Nat, i + k * j = i2 + k * j2
    PROVE  i = i2 /\ j = j2
  <1>1. k * j < k * (j2 + 1) /\ k * j2 < k * (j + 1)
    OBVIOUS
  <1>2. j < j2 + 1 /\ j2 < j + 1
    BY <1>1, CancelStrict
  <1>3. j = j2
    BY <1>2
  <1>4. QED
    BY <1>3

\* Holder by holder, ts times b fits into ta times f: so does the sum.  The units
\* of the one are numbered and packed into the units of the other.
LEMMA TotalBound ==
    ASSUME NEW S, IsFiniteSet(S), NEW f \in [S -> Nat], NEW b \in [S -> Nat],
           NEW ts \in Nat, NEW ta \in Nat,
           \A x \in S : ts * b[x] <= ta * f[x]
    PROVE  ts * Total(b) <= ta * Total(f)
  <1> DEFINE A == (1..ts) \X Units(b)
             B == (1..ta) \X Units(f)
             num(p) == (p[1] - 1) + ts * (p[2][2] - 1)
             m == [p \in A |-> <<(num(p) % ta) + 1, <<p[2][1], (num(p) \div ta) + 1>>>>]
  <1>1. /\ IsFiniteSet(A) /\ Cardinality(A) = ts * Total(b)
        /\ IsFiniteSet(B) /\ Cardinality(B) = ta * Total(f)
    <2>1. IsFiniteSet(Units(b)) /\ IsFiniteSet(Units(f))
      BY UnitsFinite
    <2>2. /\ IsFiniteSet(1..ts) /\ Cardinality(1..ts) = ts
          /\ IsFiniteSet(1..ta) /\ Cardinality(1..ta) = ta
      BY FS_Interval
    <2>3. QED
      BY <2>1, <2>2, FS_Product, ZenonT(90) DEF Total
  <1>2. ASSUME NEW p \in A
        PROVE  /\ p[1] \in 1..ts /\ p[2][1] \in S /\ p[2][2] \in 1..b[p[2][1]]
               /\ p = <<p[1], <<p[2][1], p[2][2]>>>>
               /\ num(p) \in Nat /\ num(p) < ts * b[p[2][1]]
    <2>1. /\ p[1] \in 1..ts /\ p[2][1] \in S /\ p[2][2] \in 1..b[p[2][1]]
          /\ p = <<p[1], <<p[2][1], p[2][2]>>>>
      BY UnitsMember
    <2> DEFINE j == p[2][2]
               t == b[p[2][1]]
    <2>2. j \in 1..t /\ t \in Nat
      BY <2>1
    <2> HIDE DEF j, t
    <2>3. ts * (j - 1) \in Nat /\ ts * (j - 1) + ts = ts * j
      BY <2>2
    <2>4. ts * j <= ts * t
      BY <2>2, Multiply
    <2>5. ts * t \in Nat
      BY <2>2
    <2>6. QED
      BY <2>1, <2>2, <2>3, <2>4, <2>5 DEF j, t
  <1>3. CASE ta = 0
    <2>1. ts = 0 \/ \A x \in S : b[x] = 0
      BY <1>3, SMTT(60)
    <2>2. A = {}
      BY <1>2, <2>1
    <2>3. Cardinality(A) = 0
      BY <2>2, FS_EmptySet
    <2>4. QED
      BY <1>1, <1>3, <2>3, TotalType
  <1>4. CASE ta > 0
    <2>1. ASSUME NEW p \in A
          PROVE  /\ num(p) % ta \in 0..(ta - 1)
                 /\ num(p) \div ta \in Nat
                 /\ num(p) = ta * (num(p) \div ta) + (num(p) % ta)
                 /\ num(p) \div ta < f[p[2][1]]
      <3> DEFINE n == num(p)
                 d == n \div ta
      <3>1. n \in Nat /\ n < ts * b[p[2][1]] /\ p[2][1] \in S
        BY <1>2
      <3> HIDE DEF n
      <3>2. /\ n % ta \in 0..(ta - 1) /\ d \in Nat
            /\ ta * d <= n /\ n = ta * d + (n % ta)
        BY <1>4, <3>1, Quotient
      <3> HIDE DEF d
      <3>3. ta * d < ta * f[p[2][1]]
        BY <3>1, <3>2
      <3>4. d < f[p[2][1]]
        BY <3>1, <3>2, <3>3, CancelStrict
      <3>5. QED
        BY <3>2, <3>4 DEF d, n
    <2>2. ASSUME NEW p \in A
          PROVE  m[p] \in B
      <3>1. <<p[2][1], num(p) \div ta + 1>> \in Units(f)
        BY <1>2, <2>1, UnitsMember
      <3>2. (num(p) % ta) + 1 \in 1..ta
        BY <2>1, <1>4
      <3>3. QED
        BY <3>1, <3>2
    <2>3. ASSUME NEW p \in A, NEW q \in A, m[p] = m[q]
          PROVE  p = q
      <3>1. /\ p[2][1] = q[2][1]
            /\ num(p) % ta = num(q) % ta
            /\ num(p) \div ta = num(q) \div ta
        <4>1. /\ num(p) % ta \in Int /\ num(q) % ta \in Int
              /\ num(p) \div ta \in Int /\ num(q) \div ta \in Int
          BY <2>1
        <4>2. /\ (num(p) % ta) + 1 = (num(q) % ta) + 1
              /\ num(p) \div ta + 1 = num(q) \div ta + 1
              /\ p[2][1] = q[2][1]
          BY <2>3
        <4>3. \A c, d \in Int : c + 1 = d + 1 => c = d
          OBVIOUS
        <4> HIDE DEF num, m, A, B
        <4>4. QED
          BY <4>1, <4>2, <4>3
      <3>2. num(p) = num(q)
        BY <2>1, <3>1
      <3>3. p[1] - 1 = q[1] - 1 /\ p[2][2] - 1 = q[2][2] - 1
        <4> DEFINE i == p[1] - 1
                   j == p[2][2] - 1
                   i2 == q[1] - 1
                   j2 == q[2][2] - 1
        <4>1. /\ i \in 0..(ts - 1) /\ i2 \in 0..(ts - 1)
              /\ j \in Nat /\ j2 \in Nat
          BY <1>2
        <4>2. i + ts * j = i2 + ts * j2
          BY <3>2
        <4> HIDE DEF i, j, i2, j2
        <4>3. i = i2 /\ j = j2
          BY <4>1, <4>2, MixedRadix
        <4>4. QED
          BY <4>3 DEF i, j, i2, j2
      <3>4. QED
        BY <1>2, <3>1, <3>3
    <2>4. m \in Injection(A, B)
      <3> HIDE DEF A, B
      <3>1. m \in [A -> B]
        BY <2>2
      <3>2. QED
        BY <2>3, <3>1 DEF Injection, IsInjective
    <2>5. Cardinality(A) <= Cardinality(B)
      <3> HIDE DEF A, B, m
      <3>1. QED BY <1>1, <2>4, FS_Injection
    <2>6. QED
      BY <1>1, <2>5
  <1>5. QED
    BY <1>3, <1>4
=============================================================================
