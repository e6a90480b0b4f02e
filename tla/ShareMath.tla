------------------------------ MODULE ShareMath ------------------------------
(***************************************************************************)
(* The arithmetic of the Vault's share ledger: conversions between asset   *)
(* units and shares (ERC-4626 style), and the sum of a function over a     *)
(* finite set.  ts and ta stand for totalShares[cur] and totalAssets[cur]. *)
(***************************************************************************)
EXTENDS Integers, FiniteSets

\* Vault._convertToShares with roundUp = TRUE: one more when mulmod is not 0.
SharesUp(ts, ta, assets) ==
    IF ts = 0 \/ ta = 0
    THEN assets
    ELSE (assets * ts) \div ta + (IF (assets * ts) % ta # 0 THEN 1 ELSE 0)

\* Vault._convertToShares with roundUp = FALSE: 1:1 while the pool is empty.
SharesDown(ts, ta, assets) ==
    IF ts = 0 \/ ta = 0 THEN assets ELSE (assets * ts) \div ta

\* Vault._convertToAssets with roundUp = FALSE: 0 before any share exists.
AssetsDown(ts, ta, amount) ==
    IF ts = 0 THEN 0 ELSE (amount * ta) \div ts

\* Mutant: the full-exit test compares with <=, so that a partial exit burns all.
BurnSharesFullExit(ts, ta, userShares, assets) ==
    IF assets <= AssetsDown(ts, ta, userShares) THEN userShares ELSE SharesUp(ts, ta, assets)

\* The shares _debitAssets burns from a holder of userShares for `assets`.
BurnShares(ts, ta, userShares, assets) ==
    LET wanted == IF assets = AssetsDown(ts, ta, userShares)
                  THEN userShares
                  ELSE SharesUp(ts, ta, assets)
    IN  IF wanted > userShares THEN userShares ELSE wanted

\* Mutant: a transfer rounds in the payer's favour.
MoveSharesDown(ts, ta, fromShares, amount) ==
    LET wanted == SharesDown(ts, ta, amount)
    IN  IF wanted > fromShares THEN fromShares ELSE wanted

\* The shares transfer() moves from a holder of fromShares for `amount`.
MoveShares(ts, ta, fromShares, amount) ==
    LET wanted == SharesUp(ts, ta, amount)
    IN  IF wanted > fromShares THEN fromShares ELSE wanted

-----------------------------------------------------------------------------
(* The sum of a function into Nat, as the number of units it hands out:    *)
(* a definition without recursion, which the proofs can reason about.      *)
Units(f) == UNION {{x} \X (1..f[x]) : x \in DOMAIN f}
Total(f) == Cardinality(Units(f))
=============================================================================
