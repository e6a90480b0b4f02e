-------------------------- MODULE MCPlatformEscrow --------------------------
(* Two rows per behaviour: two claims, two sales, or one of each, of        *)
(* different size, so that a second payout of one takes the other's money.  *)
EXTENDS PlatformEscrow, TLC

CONSTANTS c1, c2, s1, s2

MCAmount == c1 :> 1 @@ c2 :> 2
MCPrice  == s1 :> 2 @@ s2 :> 1
=============================================================================
