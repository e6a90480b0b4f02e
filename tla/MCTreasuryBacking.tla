------------------------- MODULE MCTreasuryBacking --------------------------
(* One question at a time: a deposit, a USDC purchase, a change voucher and *)
(* conversions, by handlers that overlap ("backing"), or by one at a time   *)
(* while purchases are held in escrow ("holding"); or the app's pages for   *)
(* buying, for sending, for converting and for receiving.                   *)
EXTENDS TreasuryBacking, WalletPages

CONSTANTS d1, v1
VARIABLE scenario

MCAmount == [x \in Refs \cup UsdcRefs \cup Vouchers |->
                IF x = d1 THEN 4 ELSE IF x = v1 THEN 3 ELSE 2]

\* Two charges of a shop across the border, whose prices at the two rates are near and
\* far from each other, and a code without a merchant.
MCCharges ==
    {[id |-> "airtime", amount |-> 7, cur |-> "ZWG", mid |-> "abroad", wants |-> "any", lo |-> 1, hi |-> 8],
     [id |-> "solar", amount |-> 12, cur |-> "ZWG", mid |-> "abroad", wants |-> "ZAR", lo |-> 1, hi |-> 8],
     [id |-> "tip", amount |-> 2, cur |-> "ZAR", mid |-> NoMerchant, wants |-> "any", lo |-> 0, hi |-> 0]}
MCSettle == [m \in {"abroad"} |-> "ZAR"]
MCFunds == [c \in {"ZAR", "ZWG", "USDC"} |-> CASE c = "ZAR" -> 12 [] c = "ZWG" -> 8 [] OTHER -> 2]

MCInit == Init /\ PagesInit
    /\ scenario \in {"backing", "holding", "buying", "sending", "converting", "receiving"}
    /\ (scenario # "buying" => fx = 2)

MCNext ==
    /\ UNCHANGED scenario
    /\ \/ scenario = "backing" /\ Next /\ fiat'["escrow"] = 0 /\ UNCHANGED pageVars
       \/ scenario = "holding" /\ Next /\ ~overlap' /\ UNCHANGED pageVars
       \/ scenario = "buying" /\ Buying /\ UNCHANGED vars
       \/ scenario = "sending" /\ Sending /\ UNCHANGED vars
       \/ scenario = "converting" /\ Converting /\ UNCHANGED vars
       \/ scenario = "receiving" /\ Receiving /\ UNCHANGED vars

MCSpec == MCInit /\ [][MCNext]_<<scenario, vars, pageVars>>
=============================================================================
