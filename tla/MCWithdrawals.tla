--------------------------- MODULE MCWithdrawals ----------------------------
(* Two withdrawals that differ or ask for exactly the same (and then share *)
(* their challenge); intents of 4 and 3 units, a fee of 25% rounded up.    *)
EXTENDS Withdrawals

CONSTANT n1

MCGross == [n \in Intents |-> IF n = n1 THEN 4 ELSE 3]
=============================================================================
