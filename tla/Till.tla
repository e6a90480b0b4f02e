-------------------------------- MODULE Till --------------------------------
(***************************************************************************)
(* The merchant app's point of sale (PointOfSale.tsx): the store that is   *)
(* selected, the list of products the page has, the cart, the QR code the  *)
(* customer scans, and the dialog that issues change vouchers.  A request  *)
(* of the page is served by the server and answered later, in any order,   *)
(* or not at all.  Every product may be given as change; what a voucher    *)
(* moves in the Vault is in TreasuryBacking.                               *)
(***************************************************************************)
EXTENDS Catalogue, Sequences

CONSTANTS Stores, StoreCurrency, SavedStore, MaxCalls, MaxQty,
          MaxTurns,   \* bound on the times the change dialog is opened
          MaxVouchers

VARIABLES till,   \* [open, store, list, listed, cart, charging, change]; listed is the store the list
                  \* is for, change what the dialog may name as its product (0 for none); and aged, as
                  \* history: what was rung up before the list was replaced under the cart
          calls,  \* requests of the page: <<kind, store, answer>>, not answered yet
          dialog,   \* the change dialog: [open, mode, call, qr, turn]; qr is a voucher or 0
          vouchers, \* change_vouchers: [store, cur, amount, mode], and the product's row and the
                    \* turn of the dialog it was issued for, as history
          outlived  \* history: a request outlived the dialog that made it

dialogVars == <<dialog, vouchers, outlived>>
tillVars == <<till, calls, dialogVars>>

NoStore == "none"
ASSUME TillAssumption == MaxQty \in Nat /\ SavedStore \in Stores /\ NoStore \notin Stores
Unserved == <<>>
ClosedTill == [open |-> FALSE, store |-> NoStore, list |-> <<>>, listed |-> NoStore, cart |-> <<>>, charging |-> FALSE,
               change |-> {0}, aged |-> {}]
NoCall == [kind |-> "none"]
ShutDialog == [open |-> FALSE, mode |-> "qr", call |-> NoCall, qr |-> 0, turn |-> 0]
TillInit == /\ till = ClosedTill /\ calls = {}
            /\ dialog = ShutDialog /\ vouchers = <<>> /\ outlived = FALSE

Call(kind, store) == [kind |-> kind, store |-> store, served |-> FALSE, answer |-> Unserved]

\* load: the stores and the products.
OpenTill ==
    /\ ~till.open
    /\ till' = [till EXCEPT !.open = TRUE] /\ calls' = {Call("load", NoStore)}

\* The page runs load again when the member's role becomes known or changes.
RoleFlips ==
    /\ till.open /\ Cardinality(calls) < MaxCalls /\ Call("reload", NoStore) \notin calls
    /\ calls' = calls \cup {Call("reload", NoStore)} /\ UNCHANGED till

\* GET /me/products, as it is when the server reads it.
ServeProducts ==
    /\ \E c \in calls : ~c.served /\
          calls' = (calls \ {c}) \cup {[c EXCEPT !.served = TRUE, !.answer = products]}
    /\ UNCHANGED till

\* Active products in the currency of a store.
OnSaleAt(answer, s) == [r \in {q \in DOMAIN answer : answer[q].active = "yes"
                                    /\ answer[q].cur = StoreCurrency[s]} |-> answer[r]]

Offered(list) == IF DOMAIN list = {} THEN {0} ELSE DOMAIN list

\* The store that is selected already, or the saved one if the merchant still has it,
\* else the head office or the first.  Selecting it makes the page ask for the products
\* again; otherwise the new list meets the cart as it is, and the dialog keeps its choice.
LoadAnswered ==
    LET s == IF till.store = NoStore THEN SavedStore ELSE till.store IN
    \E c \in calls :
        LET list == OnSaleAt(c.answer, s)
            kept == (till.change \cup DOMAIN list) \ {0} IN
        /\ c.served /\ c.kind \in {"load", "reload"}
        /\ till' = [till EXCEPT !.store = s, !.list = list, !.listed = s, !.aged = DOMAIN till.cart,
                               !.change = IF kept = {} THEN {0} ELSE kept]
        /\ calls' = (calls \ {c}) \cup IF till.store = NoStore THEN {Call("list", s)} ELSE {}

PickStore(s) ==
    /\ till.store \notin {NoStore, s} /\ ~dialog.open /\ Cardinality(calls) < MaxCalls
    /\ Call("list", s) \notin calls
    /\ till' = [till EXCEPT !.store = s] /\ calls' = calls \cup {Call("list", s)}

\* Mutant: the cart survives a new list.
ListAnsweredKeepsCart ==
    /\ \E c \in calls :
          /\ c.served /\ c.kind = "list"
          /\ till' = [till EXCEPT !.list = OnSaleAt(c.answer, c.store), !.listed = c.store]
          /\ calls' = calls \ {c}

\* The answer fills the list for the store it was asked for, whichever is selected.
ListAnswered ==
    /\ \E c \in calls :
          /\ c.served /\ c.kind = "list"
          /\ till' = [till EXCEPT !.list = OnSaleAt(c.answer, c.store), !.listed = c.store, !.cart = <<>>,
                                 !.aged = {}, !.change = Offered(OnSaleAt(c.answer, c.store))]
          /\ calls' = calls \ {c}

CallLost == \E c \in calls : CatFault("page") /\ calls' = calls \ {c} /\ UNCHANGED till

-----------------------------------------------------------------------------
Rung(r) == IF r \in DOMAIN till.cart THEN till.cart[r] ELSE 0
UnitPrice(r) == till.list[r].price
\* A product with a unit price is rung up by quantity, another by amount.
LineTotal(r) == IF UnitPrice(r) > 0 THEN Rung(r) * UnitPrice(r) ELSE Rung(r)
Lines == {r \in DOMAIN till.list : LineTotal(r) > 0}

Least(a, b) == IF a < b THEN a ELSE b
MaxQuantity(r) == IF UnitPrice(r) <= 0 \/ till.list[r].max = 0 THEN MaxQty ELSE till.list[r].max \div UnitPrice(r)
Put(r, v) ==
    /\ till.open /\ r \in DOMAIN till.list /\ ~till.charging
    /\ till' = [till EXCEPT !.cart = With(@, r, v), !.aged = @ \ {r}] /\ UNCHANGED calls

\* The buttons of a product, whether or not it has a price of its own: without one
\* the quantity is the amount, and no limit applies.
SetQty(r, q) == Put(r, Least(q, MaxQuantity(r)) * IF UnitPrice(r) > 0 THEN 1 ELSE ToMinorUnits(1))

\* The amount of a product called cash out; only whole quantities are typed here.
SetAmountForProduct(r, q) ==
    LET amount == ToMinorUnits(q)
        capped == IF till.list[r].max = 0 THEN amount ELSE Least(amount, till.list[r].max)
    IN  IF UnitPrice(r) > 0 THEN capped % UnitPrice(r) = 0 /\ Put(r, Least(capped \div UnitPrice(r), MaxQuantity(r)))
        ELSE Put(r, capped)

Charge ==
    /\ till.store # NoStore /\ Lines # {} /\ ~till.charging
    /\ till' = [till EXCEPT !.charging = TRUE] /\ UNCHANGED calls

CancelCharge == till.charging /\ till' = [till EXCEPT !.charging = FALSE] /\ UNCHANGED calls
ChargeDone == till.charging /\ till' = [till EXCEPT !.charging = FALSE, !.cart = <<>>, !.aged = {}] /\ UNCHANGED calls

\* The QR code is computed from what the page holds now.
Qr == [cur |-> StoreCurrency[till.store],
       items |-> [r \in Lines |-> [total |-> LineTotal(r), cur |-> till.list[r].cur]]]

Browsing ==
    \/ OpenTill \/ RoleFlips \/ ServeProducts \/ LoadAnswered \/ ListAnswered
    \/ \E s \in Stores : PickStore(s)
Selling ==
    \/ Browsing
    \/ \E r \in DOMAIN till.list, q \in 0..MaxQty : (SetQty(r, q) \/ SetAmountForProduct(r, q))
    \/ Charge \/ CancelCharge \/ ChargeDone

-----------------------------------------------------------------------------
(* The change dialog.  It covers the page, so that store and cart stay as  *)
(* they are while it is open; a list under way may still arrive.           *)

OpenChange ==
    /\ till.store # NoStore /\ DOMAIN till.list # {} /\ ~till.charging /\ ~dialog.open /\ dialog.turn < MaxTurns
    /\ dialog' = [ShutDialog EXCEPT !.open = TRUE, !.call = dialog.call, !.turn = dialog.turn + 1]
    /\ outlived' = (outlived \/ dialog.call # NoCall)
    /\ UNCHANGED vouchers

\* One of the two ways of giving change; a code is no longer shown.
SetMode(mode) ==
    /\ dialog.open /\ dialog' = [dialog EXCEPT !.mode = mode, !.qr = 0]
    /\ UNCHANGED <<vouchers, outlived>>
CloseChange == dialog.open /\ dialog' = [dialog EXCEPT !.open = FALSE] /\ UNCHANGED <<vouchers, outlived>>

\* issueChangeQr and sendChangeTag, one at a time.  The product is one of the list,
\* the first unless the cashier picks another, and none if the list was empty; a load
\* leaves the choice, though its list may be without it.
PressChange(kind, n) ==
    /\ dialog.open /\ dialog.mode = kind /\ dialog.call = NoCall
    /\ kind = "qr" => dialog.qr = 0
    /\ \E p \in till.change :
          dialog' = [dialog EXCEPT !.call = [kind |-> kind, product |-> p, store |-> till.store, amount |-> ToMinorUnits(n),
                                             turn |-> dialog.turn, state |-> "sent", id |-> 0]]
    /\ UNCHANGED <<vouchers, outlived>>

\* validateProduct: against the table, not against what the page showed.  A product
\* with one price for all three takes that amount only; 0 is no limit.
ValidateProduct(p, amount, cur) ==
    p = 0 \/ /\ p \in DOMAIN products /\ products[p].active = "yes" /\ products[p].cur = cur
             /\ products[p].min > 0 => amount >= products[p].min
             /\ products[p].max > 0 => amount <= products[p].max

\* prepareChangeVoucher and sendChangeVoucherToTag.  The second may also be refused
\* for its recipient.
ServeChange ==
    LET call == dialog.call
        cur  == StoreCurrency[call.store]
        row  == IF call.product = 0 THEN BlankRow(cur) ELSE products[call.product]
    IN  /\ call # NoCall /\ call.state = "sent"
        /\ \/ /\ ValidateProduct(call.product, call.amount, cur) /\ Len(vouchers) < MaxVouchers
              /\ vouchers' = Append(vouchers, [store |-> call.store, cur |-> cur, amount |-> call.amount,
                                               mode |-> call.kind, priced |-> row, turn |-> call.turn])
              /\ dialog' = [dialog EXCEPT !.call.state = "done", !.call.id = Len(vouchers) + 1]
           \/ /\ ~ValidateProduct(call.product, call.amount, cur) \/ call.kind = "tag"
              /\ dialog' = [dialog EXCEPT !.call.state = "refused"] /\ UNCHANGED vouchers
    /\ UNCHANGED outlived

\* The answer goes to whatever dialog is open by then: a code is shown there, a sent
\* voucher closes and clears it.
ChangeAnswered ==
    /\ dialog.call # NoCall /\ dialog.call.state # "sent"
    /\ dialog' = IF dialog.call.state = "refused" THEN [dialog EXCEPT !.call = NoCall]
               ELSE IF dialog.call.kind = "qr" THEN [dialog EXCEPT !.call = NoCall, !.qr = dialog.call.id]
               ELSE [dialog EXCEPT !.call = NoCall, !.qr = 0, !.open = FALSE]
    /\ UNCHANGED <<vouchers, outlived>>

ChangeLost ==
    /\ dialog.call # NoCall /\ CatFault("page")
    /\ dialog' = [dialog EXCEPT !.call = NoCall] /\ UNCHANGED <<vouchers, outlived>>

Changing ==
    \/ OpenChange \/ CloseChange \/ ServeChange \/ ChangeAnswered
    \/ \E kind \in {"qr", "tag"} : SetMode(kind) \/ \E n \in 1..MaxQty : PressChange(kind, n)

-----------------------------------------------------------------------------
(* The whole of it: the supplier, the syncs, edits by hand and the till.   *)

\* What fails once may fail again.
CatFaultsAgain ==
    /\ catFaults' \in SUBSET catFaults
    /\ UNCHANGED <<feed, published, catTables, sync, form, edits, mixed, marks, tillVars>>

\* A product with a range of prices is created on the same form.
CreateRanged ==
    \E lo, hi \in Majors, cur \in Corridors : CreateProduct([NoBody EXCEPT !.fixed = "no", !.min = lo, !.max = hi], cur)

Stocking == Supplying \/ Editing \/ CreateRanged \/ \E s \in Syncs : Syncing(s)

AtTill ==
    \/ Selling /\ UNCHANGED <<dialogVars, catFaults>>
    \/ CallLost /\ UNCHANGED dialogVars
    \/ Changing /\ UNCHANGED <<till, calls, catFaults>>
    \/ ChangeLost /\ UNCHANGED <<till, calls>>

ShopInit == CatInit /\ TillInit
ShopNext ==
    \/ Stocking /\ UNCHANGED tillVars
    \/ AtTill /\ UNCHANGED <<feed, published, catTables, sync, form, edits, mixed, marks>>
    \/ CatFaultsAgain
ShopSpec == ShopInit /\ [][ShopNext]_<<catVars, tillVars>>

-----------------------------------------------------------------------------
\* However answers are delayed and whatever the supplier, the Products page and the
\* teller change meanwhile, a QR code never asks for more than the limit of a priced
\* product on the list that prices it, unless a second load replaced that list after
\* the product was rung up (PointOfSale.load keeps the cart); it never mixes products
\* of two currencies, and charges in their currency unless the list of another store
\* arrived last.  However old the list, a change voucher is in the currency and within
\* the limits its product had when it was issued; and a voucher's code is on screen in
\* the dialog that asked for it, at the store that is selected, unless a request
\* outlived its dialog.
QrFits ==
    /\ till.charging =>
        /\ \A r \in Lines \ till.aged : till.list[r].max > 0 /\ UnitPrice(r) > 0 => LineTotal(r) <= till.list[r].max
        /\ \A q, r \in Lines : Qr.items[q].cur = Qr.items[r].cur
        /\ till.listed = till.store => \A r \in Lines : Qr.items[r].cur = Qr.cur
    /\ \A i \in DOMAIN vouchers :
          /\ vouchers[i].priced.cur = vouchers[i].cur
          /\ vouchers[i].priced.max > 0 => vouchers[i].amount <= vouchers[i].priced.max
    /\ dialog.open /\ dialog.qr # 0 =>
          /\ vouchers[dialog.qr].mode = "qr"
          /\ ~outlived => vouchers[dialog.qr].turn = dialog.turn /\ vouchers[dialog.qr].store = till.store
=============================================================================
