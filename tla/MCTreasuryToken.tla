--------------------------- MODULE MCTreasuryToken ---------------------------
(* Two consumers in different countries and a merchant; up to two units of   *)
(* supply, so that part of a balance can be frozen.                          *)
EXTENDS TreasuryToken, TLC

CONSTANTS alice, bob, shop, ZA, ZW

Country == (alice :> ZA) @@ (bob :> ZW) @@ (shop :> ZA)
=============================================================================
