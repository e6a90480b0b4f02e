---------------------------- MODULE MCShareLedger ----------------------------
(* Three holders, amounts up to three and up to eight units of assets: enough *)
(* for prices above and below one, fractions, full exits and dust.            *)
EXTENDS ShareLedger
=============================================================================
