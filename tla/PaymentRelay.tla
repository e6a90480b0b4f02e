---------------------------- MODULE PaymentRelay ----------------------------
(***************************************************************************)
(* How a payment gets from a consumer's device onto the chain: the client  *)
(* (pay.ts, session.ts), the prepare/submit routes of consumer.routes,     *)
(* sessionService and safeRelayService, over the session module of         *)
(* SessionModule.  One account, opened on several devices; each device has *)
(* one payment to make and its user tries until it is told that it went    *)
(* through.  A payment is authorised either by the passkey, over a Safe    *)
(* transaction at the Safe's nonce, or by a session key that the passkey   *)
(* registered before.  What the server prepared waits in memory, the Safe  *)
(* transactions keyed by their hash.  Every `await` is a step; the server  *)
(* may crash, a relay may throw or lose its answer, a write may fail.      *)
(***************************************************************************)
EXTENDS SessionModule, SequencesExt

CONSTANTS
    Devices,     \* browsers signed in to the account
    Payments,    \* records [kind, payee, shop, cross]: what a device may want to pay
    Prices,      \* what a cross-border charge may come to in the pay currency
    Tolerance,   \* accepted gap between the quote shown and the one at prepare
    Life,        \* SESSION_TTL_SEC in ticks
    SessionCap,  \* defaultSessionCaps
    NoKey,
    Faults,      \* subset of {"throw", "lost", "db", "crash", "expire", "refuse", "price", "revoke", "time"}
    MaxTries,    \* bound on the number of times a user presses the button
    MaxFaults    \* bound on the number of faults, each kind at most once

ASSUME RelayAssumption ==
    /\ Payments \subseteq [kind : {"p2p", "sale", "send", "none"}, payee : STRING,
                           shop : STRING, cross : BOOLEAN]
    /\ \A p \in Payments : p.kind = "send" => ~p.cross
    /\ Prices \subseteq Nat \ {0} /\ Tolerance \in Nat
    /\ Life \in Lifetimes /\ SessionCap \in Caps /\ NoKey \notin Keys
    /\ MaxFaults \in Nat /\ MaxTries \in Nat

VARIABLES
    want,        \* the payment each device is to make
    feature,     \* feature.session_keys
    price,       \* the current cost of the cross-border charge
    safeNonce,   \* the Safe's nonce
    moduleOn,    \* the session module is enabled on the Safe
    keyRows,     \* session_keys in order of created_at: [key, live]
    pending,     \* pendingTransfers: entries [tx, nonce, ctx], one per hash
    pendingIds,  \* pendingSessionTransfers: devices whose prepared entry is held
    tries,       \* how often each user has pressed the button
    stored,      \* the session key in each device's localStorage
    app,         \* what each device, and the handler it waits for, is doing
    paid,        \* history: payments on the chain, in order
    sales,       \* merchant_sales: [tx, pay]
    claims,      \* pending_claims: [tx, pay]
    spends,      \* consumer_spend_events: indexes of paid
    crossed,     \* history: devices whose prepared entry another one replaced
    hurt,        \* history: devices whose last payment was cut short, with the number of times
    faults

chain == <<vars, safeNonce, moduleOn, paid>>
tables == <<sales, claims, spends>>
memory == <<pending, pendingIds>>
world == <<want, feature, tries>>
rvars == <<chain, tables, memory, world, price, keyRows, stored, app, crossed, hurt, faults>>

Idle == [pc |-> "idle", key |-> NoKey, tx |-> <<>>, nonce |-> 0, amount |-> 0,
         deadline |-> 0, shown |-> 0, ctx |-> <<>>]

RelayInit ==
    /\ want \in [Devices -> Payments] /\ feature \in BOOLEAN
    /\ moduleOn \in {FALSE, feature}
    /\ price \in Prices /\ safeNonce = 0
    /\ keyRows = <<>> /\ tries = [d \in Devices |-> 0] /\ stored = [d \in Devices |-> NoKey]
    /\ pending = {} /\ pendingIds = {}
    /\ app = [d \in Devices |-> Idle]
    /\ paid = <<>> /\ sales = {} /\ claims = {} /\ spends = {}
    /\ crossed = {} /\ hurt = [d \in Devices |-> 0] /\ faults = {}

Fault(kind) ==
    /\ kind \in Faults \ faults /\ Cardinality(faults) < MaxFaults
    /\ faults' = faults \cup {kind}
At(d, pc) == app[d].pc = pc
Goto(d, pc) == app' = [app EXCEPT ![d].pc = pc]
\* The client shows an error; the user is back at the button.
Fail(d) == app' = [app EXCEPT ![d] = Idle]

\* quoteMerchantCheckout: the charge at the current rate, rounded up.
Quote(p) == IF p.cross THEN price ELSE 1
\* Purchases are held by the platform escrow, as sends to a phone number are.
Destination(p) == IF p.kind = "p2p" THEN p.payee ELSE "escrow"
UsesSession(d) == feature /\ want[d].kind # "send"

Tx(op, arg, amount) == [op |-> op, arg |-> arg, amount |-> amount]
Entries(tx, n) == {e \in pending : e.tx = tx /\ e.nonce = n}
\* An entry no device can name any more makes no difference.
Named(e) == \E d \in Devices : app[d].tx = e.tx /\ app[d].nonce = e.nonce
\* Mutant: an entry that is there stays.
PutKeepsFirst(tx, n, ctx) ==
    pending' = IF Entries(tx, n) # {} THEN pending
               ELSE pending \cup {[tx |-> tx, nonce |-> n, ctx |-> ctx]}

Put(tx, n, ctx) == pending' = {e \in pending \ Entries(tx, n) : Named(e)}
                              \cup {[tx |-> tx, nonce |-> n, ctx |-> ctx]}

\* getActiveSession: the latest row that is neither revoked nor expired, if the
\* chain still has the key active with large enough caps.
ActiveKey ==
    LET rows == SelectSeq(keyRows, LAMBDA r : r.live /\ now < sessions[r.key].expiry)
        k == Last(rows).key
    IN  IF rows # <<>> /\ sessions[k].active /\ sessions[k].maxPerTx >= SessionCap[1]
        THEN k ELSE NoKey

-----------------------------------------------------------------------------
(* The client's executeTransfer and ensurePaymentSession.                  *)

\* Wallet.createRandom: a key nobody has used; which one does not matter.
FreshKeys == {k \in Keys : gen[k] = 0 /\ \A e \in Devices : k \notin {app[e].key, stored[e]}}

\* getStoredSession: an expired key is removed.
StoredKey(d) ==
    IF stored[d] # NoKey /\ sessions[stored[d]].active /\ now >= sessions[stored[d]].expiry
    THEN NoKey ELSE stored[d]

\* The user confirms what the page shows.  A local session key is kept whenever
\* some session of the account is active; otherwise a fresh one is made.
Confirm(d) ==
    LET start == UsesSession(d) /\ (ActiveKey = NoKey \/ StoredKey(d) = NoKey) IN
    /\ At(d, "idle")
    /\ want[d].kind # "none" /\ tries[d] < MaxTries
    /\ start => FreshKeys # {}
    /\ tries' = [tries EXCEPT ![d] = @ + 1]
    /\ stored' = IF start THEN [stored EXCEPT ![d] = NoKey] ELSE stored
    /\ app' = [app EXCEPT ![d] =
          [Idle EXCEPT !.shown = Quote(want[d]),
                       !.pc = IF start THEN "startPrepare" ELSE "prepare",
                       !.key = IF start THEN CHOOSE k \in FreshKeys : TRUE ELSE NoKey]]
    /\ UNCHANGED <<chain, tables, memory, want, feature, price, keyRows, crossed, hurt, faults>>

-----------------------------------------------------------------------------
(* session/start: buildSessionStartPrepare and completeSessionStart.       *)

\* buildSessionStartPrepare: the module first, where the Safe does not have it yet.
SetupTx(d) == IF moduleOn THEN Tx("add", app[d].key, 0) ELSE Tx("enable", NoKey, 0)

StartPrepare(d) ==
    LET tx == SetupTx(d) IN
    /\ At(d, "startPrepare")
    /\ Put(tx, safeNonce, <<>>)
    /\ app' = [app EXCEPT ![d].pc = "startSign", ![d].tx = tx, ![d].nonce = safeNonce]
    /\ UNCHANGED <<chain, tables, pendingIds, world, price, keyRows, stored, crossed, hurt, faults>>

Held(d) == Entries(app[d].tx, app[d].nonce) # {}

\* The passkey signs, the request arrives: the entry is looked up; for a key,
\* the account's rows are revoked before the transaction is sent.
StartSubmit(d) ==
    /\ At(d, "startSign")
    /\ IF ~Held(d) THEN Fail(d) /\ UNCHANGED keyRows
       ELSE /\ Goto(d, "startRelay")
            /\ keyRows' = IF app[d].tx.op = "add"
                          THEN [i \in DOMAIN keyRows |-> [keyRows[i] EXCEPT !.live = FALSE]]
                          ELSE keyRows
    /\ UNCHANGED <<chain, tables, memory, world, price, stored, crossed, hurt, faults>>

\* execTransaction: the signature covers the nonce, and with no gas set aside a
\* failing inner call reverts the whole transaction.
SafeAccepts(tx, n) ==
    /\ n = safeNonce
    /\ CASE tx.op = "enable" -> ~moduleOn
         [] tx.op = "pay"    -> funds >= tx.amount
         [] OTHER            -> TRUE

ExecSetup(tx) ==
    /\ safeNonce' = safeNonce + 1
    /\ UNCHANGED paid
    /\ \/ tx.op = "enable" /\ moduleOn' = TRUE /\ UNCHANGED vars
       \/ tx.op = "add" /\ AddSessionKey(tx.arg, Life, SessionCap) /\ UNCHANGED moduleOn
       \/ tx.op = "remove" /\ RemoveSessionKey(tx.arg) /\ UNCHANGED moduleOn

Drop(d) == pending' = pending \ Entries(app[d].tx, app[d].nonce)

StartRelay(d) ==
    /\ At(d, "startRelay")
    /\ \/ ~SafeAccepts(app[d].tx, app[d].nonce) /\ Fail(d) /\ UNCHANGED <<chain, pending, faults>>
       \/ /\ SafeAccepts(app[d].tx, app[d].nonce)
          /\ ExecSetup(app[d].tx)
          /\ \/ Fault("lost") /\ Fail(d) /\ UNCHANGED pending
             \/ /\ UNCHANGED faults
                /\ \/ app[d].tx.op = "enable" /\ Goto(d, "startPrepare") /\ Drop(d)
                   \/ app[d].tx.op = "add" /\ Goto(d, "startInsert") /\ UNCHANGED pending
                   \/ app[d].tx.op = "remove" /\ Goto(d, "revokeMark") /\ UNCHANGED pending
    /\ UNCHANGED <<tables, pendingIds, world, price, keyRows, stored, crossed, hurt>>

\* Mutant: the client does not save the key.
StartInsertUnsaved(d) ==
    LET k == app[d].key IN
    /\ At(d, "startInsert")
    /\ keyRows' = Append(SelectSeq(keyRows, LAMBDA r : r.key # k), [key |-> k, live |-> TRUE])
    /\ Drop(d) /\ Goto(d, "prepare")
    /\ UNCHANGED <<chain, tables, pendingIds, world, price, stored, crossed, hurt, faults>>

\* The row is inserted, or refreshed and moved to the end; the client saves the key.
StartInsert(d) ==
    LET k == app[d].key IN
    /\ At(d, "startInsert")
    /\ \/ /\ keyRows' = Append(SelectSeq(keyRows, LAMBDA r : r.key # k), [key |-> k, live |-> TRUE])
          /\ Drop(d)
          /\ stored' = [stored EXCEPT ![d] = k]
          /\ Goto(d, "prepare") /\ UNCHANGED faults
       \/ Fault("db") /\ Fail(d) /\ UNCHANGED <<keyRows, stored, pending>>
    /\ UNCHANGED <<chain, tables, pendingIds, world, price, crossed, hurt>>

\* session/revoke for a key this device holds: prepared, then signed and relayed
\* as above.  No page of the client calls it.
RevokePrepare(d) ==
    LET tx == Tx("remove", stored[d], 0) IN
    /\ At(d, "idle") /\ feature /\ stored[d] # NoKey /\ Fault("revoke")
    /\ Put(tx, safeNonce, <<>>)
    /\ app' = [app EXCEPT ![d].pc = "startSign", ![d].tx = tx, ![d].nonce = safeNonce]
    /\ UNCHANGED <<chain, tables, pendingIds, world, price, keyRows, stored, crossed, hurt>>

\* The row is marked after the transaction.
RevokeMark(d) ==
    LET k == app[d].tx.arg IN
    /\ At(d, "revokeMark")
    /\ keyRows' = [i \in DOMAIN keyRows |->
                      IF keyRows[i].key = k THEN [keyRows[i] EXCEPT !.live = FALSE] ELSE keyRows[i]]
    /\ Drop(d) /\ Fail(d)
    /\ UNCHANGED <<chain, tables, pendingIds, world, price, stored, crossed, hurt, faults>>

-----------------------------------------------------------------------------
(* transfer/prepare and transfer/escrow/prepare.                           *)

\* resolveMerchantCheckout: QUOTE_STALE when the two are further apart.
QuoteHolds(d) ==
    LET a == app[d].shown
        b == Quote(want[d])
    IN  IF a > b THEN a - b <= Tolerance ELSE b - a <= Tolerance

Allowed(d) ==
    /\ QuoteHolds(d)
    /\ funds >= Quote(want[d])
    /\ feature /\ ActiveKey # NoKey =>
          Quote(want[d]) <= SessionCap[1] /\ Quote(want[d]) <= sessions[ActiveKey].maxPerTx

\* The Safe transaction of a payment, held under its hash.
PayTx(d) == Tx("pay", Destination(want[d]), Quote(want[d]))
HoldSafeTx(d) ==
    LET tx == PayTx(d) IN
    /\ app' = [app EXCEPT ![d].pc = "signPasskey", ![d].tx = tx, ![d].nonce = safeNonce,
                          ![d].amount = tx.amount]
    /\ Put(tx, safeNonce, want[d])
    /\ crossed' = crossed \cup {e \in Devices \ {d} : app[e].tx = tx /\ app[e].nonce = safeNonce}
    /\ UNCHANGED pendingIds

\* The digest for the active session's key and nonce, held under a fresh id.
HoldDigest(d) ==
    /\ app' = [app EXCEPT ![d].pc = "signSession", ![d].key = ActiveKey,
                          ![d].amount = Quote(want[d]),
                          ![d].nonce = sessions[ActiveKey].nonce,
                          ![d].deadline = now + Patience]
    /\ pendingIds' = pendingIds \cup {d}
    /\ UNCHANGED <<pending, crossed>>

Prepare(d) ==
    /\ At(d, "prepare") /\ want[d].kind # "send"
    /\ \/ ~Allowed(d) /\ Fail(d) /\ UNCHANGED <<memory, crossed>>
       \/ Allowed(d) /\ feature /\ ActiveKey # NoKey /\ HoldDigest(d)
       \/ Allowed(d) /\ (~feature \/ ActiveKey = NoKey) /\ HoldSafeTx(d)
    /\ UNCHANGED <<chain, tables, world, price, keyRows, stored, hurt, faults>>

\* A send to a phone number never uses the session.
PrepareEscrow(d) ==
    /\ At(d, "prepare") /\ want[d].kind = "send"
    /\ \/ funds < Quote(want[d]) /\ Fail(d) /\ UNCHANGED <<memory, crossed>>
       \/ funds >= Quote(want[d]) /\ HoldSafeTx(d)
    /\ UNCHANGED <<chain, tables, world, price, keyRows, stored, hurt, faults>>

\* A check of the account refuses (KYC limits, registration, recipient), or the
\* user dismisses the passkey prompt.
Refuse(d) ==
    /\ app[d].pc \in {"prepare", "startSign", "signPasskey"} /\ Fault("refuse") /\ Fail(d)
    /\ UNCHANGED <<chain, tables, memory, world, price, keyRows, stored, crossed, hurt>>

-----------------------------------------------------------------------------
(* signAndSubmitTransfer and transfer/submit, transfer/escrow/submit.      *)

Signed(d) == [key |-> app[d].key, amount |-> app[d].amount, nonce |-> app[d].nonce,
              deadline |-> app[d].deadline]

\* The stored key must be the one the server named; the entry must be held.
SignSession(d) ==
    /\ At(d, "signSession")
    /\ IF StoredKey(d) # app[d].key \/ d \notin pendingIds
       THEN Fail(d) ELSE Goto(d, "relaySession")
    /\ UNCHANGED <<chain, tables, memory, world, price, keyRows, stored, crossed, hurt, faults>>

\* The context recorded is the one of the entry the hash now leads to.
Accept(d, e) == app' = [app EXCEPT ![d].pc = "relaySafe", ![d].ctx = e.ctx]

SignPasskey(d) ==
    /\ At(d, "signPasskey") /\ want[d].kind # "send"
    /\ \/ ~Held(d) /\ Fail(d)
       \/ \E e \in Entries(app[d].tx, app[d].nonce) : Accept(d, e)
    /\ UNCHANGED <<chain, tables, memory, world, price, keyRows, stored, crossed, hurt, faults>>

\* escrow/submit wants an entry with a phone number.
SignEscrow(d) ==
    /\ At(d, "signPasskey") /\ want[d].kind = "send"
    /\ \/ ~Held(d) /\ Fail(d)
       \/ \E e \in Entries(app[d].tx, app[d].nonce) :
             IF e.ctx.kind = "send" THEN Accept(d, e) ELSE Fail(d)
    /\ UNCHANGED <<chain, tables, memory, world, price, keyRows, stored, crossed, hurt, faults>>

Payment(d) == [dev |-> d, pay |-> want[d], amount |-> app[d].amount, shown |-> app[d].shown]
Hurt(d) == hurt' = [hurt EXCEPT ![d] = @ + 1]

\* The transaction is mined; its answer may be lost on the way back.
Mined(d) ==
    /\ paid' = Append(paid, Payment(d))
    /\ \/ Goto(d, "record") /\ UNCHANGED <<hurt, faults>>
       \/ Fault("lost") /\ Fail(d) /\ Hurt(d)

RelaySafe(d) ==
    LET tx == app[d].tx IN
    /\ At(d, "relaySafe")
    /\ \/ ~SafeAccepts(tx, app[d].nonce) /\ Fail(d) /\ UNCHANGED <<chain, hurt, faults>>
       \/ /\ SafeAccepts(tx, app[d].nonce)
          /\ funds' = funds - tx.amount
          /\ safeNonce' = safeNonce + 1
          /\ Mined(d)
          /\ UNCHANGED <<now, sessions, signed, gen, spent, log, moduleOn>>
    /\ UNCHANGED <<tables, memory, world, price, keyRows, stored, crossed>>

RelaySession(d) ==
    /\ At(d, "relaySession")
    /\ \/ ~(Admits(app[d].key, Signed(d)) /\ app[d].amount <= funds)
          /\ Fail(d) /\ UNCHANGED <<chain, hurt, faults>>
       \/ ExecuteTransfer(Signed(d)) /\ Mined(d) /\ UNCHANGED <<safeNonce, moduleOn>>
    /\ UNCHANGED <<tables, memory, world, price, keyRows, stored, crossed>>

\* The relay throws before anything is sent.
RelayThrows(d) ==
    /\ app[d].pc \in {"startRelay", "relaySafe", "relaySession"}
    /\ Fault("throw") /\ Fail(d)
    /\ UNCHANGED <<chain, tables, memory, world, price, keyRows, stored, crossed, hurt>>

\* The index of the device's last payment: the txHash its handler holds.
TxOf(d) == CHOOSE i \in DOMAIN paid : paid[i].dev = d
              /\ \A j \in DOMAIN paid : paid[j].dev = d => j <= i
\* Entries of session payments carry the device's own context.
Context(d) == IF app[d].ctx = <<>> THEN want[d] ELSE app[d].ctx

Forget(d) == IF app[d].ctx = <<>> THEN pendingIds' = pendingIds \ {d} /\ UNCHANGED pending
                                  ELSE Drop(d) /\ UNCHANGED pendingIds

\* Mutant: a failed insert fails the request.
RecordRethrows(d) ==
    /\ At(d, "record") /\ want[d].kind # "send"
    /\ \/ /\ Forget(d) /\ Goto(d, "spend") /\ UNCHANGED faults
          /\ sales' = IF Context(d).kind # "sale" THEN sales
                      ELSE sales \cup {[tx |-> TxOf(d), pay |-> Context(d)]}
       \/ Fault("db") /\ Fail(d) /\ UNCHANGED <<memory, sales>>
    /\ UNCHANGED <<chain, claims, spends, world, price, keyRows, stored, crossed, hurt>>

\* The entry is removed; recordMerchantSale swallows its errors.  No claim is
\* made, whatever the entry says.
Record(d) ==
    /\ At(d, "record") /\ want[d].kind # "send"
    /\ Forget(d) /\ Goto(d, "spend")
    /\ \/ /\ sales' = IF Context(d).kind # "sale" THEN sales
                      ELSE sales \cup {[tx |-> TxOf(d), pay |-> Context(d)]}
          /\ UNCHANGED faults
       \/ Fault("db") /\ UNCHANGED sales
    /\ UNCHANGED <<chain, claims, spends, world, price, keyRows, stored, crossed, hurt>>

\* createClaim comes before the entry is removed, and its errors are not swallowed.
RecordClaim(d) ==
    /\ At(d, "record") /\ want[d].kind = "send"
    /\ \/ /\ claims' = claims \cup {[tx |-> TxOf(d), pay |-> Context(d)]}
          /\ Forget(d) /\ Goto(d, "spend") /\ UNCHANGED <<faults, hurt>>
       \/ Fault("db") /\ Fail(d) /\ Hurt(d) /\ UNCHANGED <<claims, memory>>
    /\ UNCHANGED <<chain, sales, spends, world, price, keyRows, stored, crossed>>

\* recordSpendEvent, which swallows its errors too, and the answer.
RecordSpend(d) ==
    /\ At(d, "spend")
    /\ app' = [app EXCEPT ![d] = [Idle EXCEPT !.pc = "paid"]]
    /\ \/ spends' = spends \cup {TxOf(d)} /\ UNCHANGED faults
       \/ Fault("db") /\ UNCHANGED spends
    /\ UNCHANGED <<chain, sales, claims, memory, world, price, keyRows, stored, crossed, hurt>>

-----------------------------------------------------------------------------
(* The environment.                                                        *)

\* Five minutes pass: an entry has expired (the sweep drops it later).
Expire ==
    /\ Fault("expire")
    /\ \/ \E e \in pending : pending' = pending \ {e} /\ UNCHANGED pendingIds
       \/ \E d \in pendingIds : pendingIds' = pendingIds \ {d} /\ UNCHANGED pending
    /\ UNCHANGED <<chain, tables, world, price, keyRows, stored, app, crossed, hurt>>

PriceMoves ==
    /\ Fault("price") /\ price' \in Prices \ {price}
    /\ UNCHANGED <<chain, tables, memory, world, keyRows, stored, app, crossed, hurt>>

InServer == {"startRelay", "startInsert", "revokeMark", "relaySafe", "relaySession", "record", "spend"}

\* The process restarts: its maps are empty, its handlers gone.
Crash ==
    /\ Fault("crash")
    /\ pending' = {} /\ pendingIds' = {}
    /\ app' = [d \in Devices |-> IF app[d].pc \in InServer THEN Idle ELSE app[d]]
    /\ hurt' = [d \in Devices |-> IF app[d].pc \in {"record", "spend"} THEN hurt[d] + 1 ELSE hurt[d]]
    /\ UNCHANGED <<chain, tables, world, price, keyRows, stored, crossed>>

\* Long enough for sessions and signatures to expire.
TimePasses ==
    /\ Tick /\ Fault("time")
    /\ UNCHANGED <<safeNonce, moduleOn, paid, tables, memory, world, price, keyRows, stored,
                   app, crossed, hurt>>

Step(d) ==
    \/ Confirm(d)
    \/ StartPrepare(d) \/ StartSubmit(d) \/ StartRelay(d) \/ StartInsert(d) \/ RevokeMark(d)
    \/ Prepare(d) \/ PrepareEscrow(d) \/ SignSession(d) \/ SignPasskey(d) \/ SignEscrow(d)
    \/ RelaySafe(d) \/ RelaySession(d) \/ Record(d) \/ RecordClaim(d) \/ RecordSpend(d)

RelayNext ==
    \/ \E d \in Devices : Step(d) \/ Refuse(d) \/ RelayThrows(d) \/ RevokePrepare(d)
    \/ Expire \/ PriceMoves \/ Crash \/ TimePasses

RelaySpec == Init /\ RelayInit /\ [][RelayNext]_rvars

\* A user who wants to pay keeps trying; the server and the chain keep answering.
RelayFairness == \A d \in Devices : WF_rvars(Step(d))

-----------------------------------------------------------------------------
PaidBy(d) == {i \in DOMAIN paid : paid[i].dev = d}
Gap(a, b) == IF a > b THEN a - b ELSE b - a

\* However often a user tries again, from whichever device, a payment is made
\* once: a second one needs an answer that was lost after the transaction was
\* mined (or, for a send to a phone number, a claim that could not be written).
\* And what is paid differs from what the page showed by no more than the
\* tolerance of resolveMerchantCheckout, though the rate moves in between.
PaidOnceAsShown ==
    /\ \A d \in Devices : Cardinality(PaidBy(d)) <= 1 + hurt[d]
    /\ \A i \in DOMAIN paid : Gap(paid[i].amount, paid[i].shown) <= Tolerance

\* The books follow the chain: a row of merchant_sales or pending_claims stands
\* for one payment into escrow, none for two; and it names the purchase the
\* user of that device confirmed, unless another device of the account prepared
\* a Safe transaction with the same hash in the meantime (the entry is keyed by
\* the hash, so the later context replaces the earlier one).  A device that was
\* told its payment went through, with no write failing, left exactly its rows.
BooksMatchChain ==
    /\ \A r \in sales \cup claims :
          /\ r.tx \in DOMAIN paid /\ Destination(paid[r.tx].pay) = "escrow"
          /\ paid[r.tx].dev \in crossed \/ paid[r.tx].pay = r.pay
    /\ \A r, q \in sales \cup claims : r.tx = q.tx => r = q
    /\ \A d \in Devices : (At(d, "paid") /\ d \notin crossed /\ "db" \notin faults) =>
          LET row == [tx |-> TxOf(d), pay |-> want[d]] IN
          /\ TxOf(d) \in spends
          /\ want[d].kind = "sale" => row \in sales
          /\ want[d].kind = "send" => row \in claims

\* A payment is made once, at the price shown, and the books follow it.
PaidAsConfirmed == PaidOnceAsShown /\ BooksMatchChain

\* An amount above the session's cap cannot be paid while the session lasts: the
\* answer announces a new session, the client starts none while one is active.
OverCap(d) == UsesSession(d) /\ Quote(want[d]) > SessionCap[1]

\* A user whose other devices are silent pays within one try more than there are
\* faults: no lost answer, expired entry, failed write, refused check, revocation,
\* expiry or restart leaves the account unable to pay.
EventuallyPaid ==
    \A d \in Devices :
        (want[d].kind # "none" /\ \A e \in Devices \ {d} : want[e].kind = "none")
            => <>(At(d, "paid") \/ funds < Quote(want[d]) \/ OverCap(d))
=============================================================================
