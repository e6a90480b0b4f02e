----------------------------- MODULE MCPayments -----------------------------
(***************************************************************************)
(* Two scenarios, chosen in the initial state.  "contract": one session    *)
(* key used freely, registered twice, over two days, its signatures        *)
(* relayed by anyone.  "relay": an account open on two devices, each with  *)
(* a purchase, a transfer or a send to a phone number to make.             *)
(***************************************************************************)
EXTENDS PaymentRelay

CONSTANTS key1, d1, d2

VARIABLE scenario

\* A tight and a loose pair of caps.
MCCaps == {<<1, 2>>, <<2, 3>>}
MCSessionCap == <<2, 3>>

Purchase(shop, cross) == [kind |-> "sale", payee |-> shop, shop |-> shop, cross |-> cross]
Send == [kind |-> "send", payee |-> "phone", shop |-> "none", cross |-> FALSE]
Nothing == [kind |-> "none", payee |-> "none", shop |-> "none", cross |-> FALSE]
Transfer == [kind |-> "p2p", payee |-> "bob", shop |-> "none", cross |-> FALSE]
\* Two purchases and a send share amount and destination; one is cross-border.
MCPayments == {Purchase("a", FALSE), Purchase("b", TRUE), Send, Transfer, Nothing}
\* What the two devices pay, up to their order.
Errands == {<<Purchase("a", FALSE), Purchase("b", TRUE)>>, <<Purchase("a", FALSE), Send>>,
            <<Purchase("b", TRUE), Nothing>>, <<Send, Nothing>>,
            <<Transfer, Nothing>>}

MCInit ==
    /\ Init /\ RelayInit
    /\ scenario \in {"contract", "relay"}
    /\ scenario = "relay" => /\ <<want[d1], want[d2]>> \in Errands
                             /\ want[d2] = Send => ~feature
    /\ scenario = "contract" => want = [d \in Devices |-> Nothing] /\ ~feature
    \* The rate matters to a cross-border purchase only.
    /\ (\A d \in Devices : ~want[d].cross) => price = Min(Prices)

Contract ==
    /\ \/ \E life \in Lifetimes, cap \in Caps : AddSessionKey(key1, life, cap)
       \/ RemoveSessionKey(key1)
       \/ \E a \in Amounts : Sign(key1, a)
       \/ \E s \in signed : ExecuteTransfer(s)
       \/ Tick
    /\ UNCHANGED <<safeNonce, moduleOn, paid, tables, memory, world, price, keyRows, stored,
                   app, crossed, hurt, faults>>

MCNext ==
    /\ UNCHANGED scenario
    /\ \/ scenario = "contract" /\ Contract
       \/ scenario = "relay" /\ RelayNext

MCSpec == MCInit /\ [][MCNext]_<<rvars, scenario>> /\ RelayFairness
=============================================================================
