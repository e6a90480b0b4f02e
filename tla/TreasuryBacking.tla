-------------------------- MODULE TreasuryBacking ---------------------------
(***************************************************************************)
(* How claims enter one fiat currency and USD, and what backs them:        *)
(* cashInService (deposits), changeVoucherService (a merchant's change     *)
(* paid into a consumer's wallet), conversionService (fiat <-> USD), the   *)
(* helpers of treasuryService they share and the operator's USDC purchase. *)
(* Treasury tokens in the Vault back the fiat claims, USDC the USD claims. *)
(* Every `await` that a transaction or a stale read hangs on is a step.    *)
(***************************************************************************)
EXTENDS ShareMath, FiniteSetsExt

CONSTANTS
    Refs,          \* deposit references: bank deposits and top-up vouchers
    UsdcRefs,      \* references of simulated USDC purchases
    Vouchers,      \* change vouchers
    Amount,        \* Amount[x]: units of a reference or a voucher
    FiatSteps,     \* fiat amounts offered for conversion to USD
    UsdSteps,      \* USD amounts offered for conversion to fiat
    FiatPerUsd,    \* the FX rate
    SpreadBps,     \* revenue.fx_spread_bps
    MaxConversions, \* bound on the number of conversions
    Held,          \* units of a purchase or a send, one of which is held at a time
    Workers, Faults, MaxFaults

ASSUME BackingAssumption ==
    /\ Amount \in [Refs \cup UsdcRefs \cup Vouchers -> Nat \ {0}]
    /\ FiatSteps \subseteq Nat \ {0} /\ UsdSteps \subseteq Nat \ {0}
    /\ FiatPerUsd \in Nat \ {0} /\ SpreadBps \in 0..9999
    /\ MaxConversions \in Nat /\ Held \in Nat \ {0} /\ MaxFaults \in Nat
    /\ Faults \subseteq {"throw", "lost", "crash", "skip"}

VARIABLES
    fiat,      \* fiat claims: of the consumer, of the merchant and in escrow
    usd,       \* the consumer's USD claim
    tt,        \* treasury tokens the Vault holds
    usdc,      \* USDC the Vault holds
    refs,      \* deposit_references that exist
    minted, credited,  \* per reference
    row,       \* change_vouchers.status
    expired,   \* vouchers past expires_at
    paid,      \* per voucher: units credited to the consumer
    conversions, \* conversions started
    worker, faults,
    overlap,   \* history: two handlers were in flight at the same time
    unread     \* history: the most that one sum of the claims left out

money == <<fiat, usd, tt, usdc>>
book == <<refs, minted, credited, row, expired, paid, conversions>>
vars == <<money, book, worker, faults, overlap, unread>>

\* The wallets the sums count, and where money is meanwhile: on the escrow account,
\* and between the two transactions that pay it out.
Counted == {"consumer", "merchant"}
Accounts == Counted \cup {"escrow", "release"}
Claims(accounts) == Total([a \in accounts |-> fiat[a]])

\* Both conversions round down after the spread.
UsdFor(a) == (a * (10000 - SpreadBps)) \div (FiatPerUsd * 10000)
FiatFor(u) == (u * FiatPerUsd * (10000 - SpreadBps)) \div 10000

Idle == [pc |-> "idle"]
\* amt: units moved; short: units to credit with backing; need: units to mint;
\* seen: the treasury tokens read by unallocatedTreasuryBacking.
Job(pc, kind, id, amt) ==
    [pc |-> pc, kind |-> kind, id |-> id, amt |-> amt, short |-> 0, need |-> 0, seen |-> 0]

Init ==
    /\ fiat = [a \in Accounts |-> 0] /\ usd = 0 /\ tt = 0 /\ usdc = 0
    /\ refs = {}
    /\ minted = [x \in Refs \cup UsdcRefs |-> 0] /\ credited = [x \in Refs |-> 0]
    /\ row = [v \in Vouchers |-> "none"] /\ expired = {} /\ paid = [v \in Vouchers |-> 0]
    /\ conversions = 0
    /\ worker = [w \in Workers |-> Idle] /\ faults = 0 /\ overlap = FALSE /\ unread = 0

Fault(kind) == kind \in Faults /\ faults < MaxFaults /\ faults' = faults + 1
Become(w, job) == worker' = [worker EXCEPT ![w] = job]
Goto(w, pc) == worker' = [worker EXCEPT ![w].pc = pc]
At(w, pc) == worker[w].pc = pc

\* A transaction: it is mined, with effect Do, when `ok` holds, and the handler
\* goes on to `next`; it reverts, is never sent, or its receipt is lost, and
\* the handler ends with an error.
Chain(w, ok, Do, next, Same) ==
    \/ ok /\ Do /\ Become(w, next) /\ UNCHANGED faults
    \/ ok /\ Do /\ Become(w, Idle) /\ Fault("lost")
    \/ ~ok /\ Same /\ Become(w, Idle) /\ UNCHANGED faults
    \/ Same /\ Become(w, Idle) /\ Fault("throw")
Then(w, pc) == [worker[w] EXCEPT !.pc = pc]

-----------------------------------------------------------------------------
(* cashIn and the USDC purchase.                                           *)

\* Mutant: the INSERT has no unique index to run into.
CashInAgain(w, ref) ==
    /\ worker[w] = Idle
    /\ refs' = refs \cup {ref}
    /\ Become(w, Job("mint", "deposit", ref, Amount[ref]))
    /\ UNCHANGED <<money, minted, credited, row, expired, paid, conversions, faults>>

\* The INSERT of the reference is the uniqueness gate.
CashIn(w, ref) ==
    /\ worker[w] = Idle /\ ref \notin refs
    /\ refs' = refs \cup {ref}
    /\ Become(w, Job("mint", "deposit", ref, Amount[ref]))
    /\ UNCHANGED <<money, minted, credited, row, expired, paid, conversions, faults>>

\* mintTreasuryToken into the Vault.
MintDeposit(w) ==
    /\ At(w, "mint")
    /\ Chain(w, TRUE,
             /\ tt' = tt + worker[w].amt
             /\ minted' = [minted EXCEPT ![worker[w].id] = @ + worker[w].amt],
             Then(w, "credit"), UNCHANGED <<tt, minted>>)
    /\ UNCHANGED <<fiat, usd, usdc, refs, credited, row, expired, paid, conversions>>

\* The transaction hashes recorded afterwards are left out.
CreditDeposit(w) ==
    /\ At(w, "credit")
    /\ Chain(w, TRUE,
             /\ fiat' = [fiat EXCEPT !["consumer"] = @ + worker[w].amt]
             /\ credited' = [credited EXCEPT ![worker[w].id] = @ + worker[w].amt],
             Idle, UNCHANGED <<fiat, credited>>)
    /\ UNCHANGED <<usd, tt, usdc, refs, minted, row, expired, paid, conversions>>

BuyUsdc(w, ref) ==
    /\ worker[w] = Idle /\ ref \notin refs
    /\ refs' = refs \cup {ref}
    /\ Become(w, Job("mintUsdc", "usdc", ref, Amount[ref]))
    /\ UNCHANGED <<money, minted, credited, row, expired, paid, conversions, faults>>

\* mintUsdcToVault; its recordPlatformReserve is an action of Vault.tla.
MintUsdc(w) ==
    /\ At(w, "mintUsdc")
    /\ Chain(w, TRUE,
             /\ usdc' = usdc + worker[w].amt
             /\ minted' = [minted EXCEPT ![worker[w].id] = @ + worker[w].amt],
             Idle, UNCHANGED <<usdc, minted>>)
    /\ UNCHANGED <<fiat, usd, tt, refs, credited, row, expired, paid, conversions>>

-----------------------------------------------------------------------------
(* creditFiatWithTreasuryBacking: unallocated treasury tokens first, a     *)
(* mint for the rest.  `short` is credited to Target.                      *)
Target(w) == IF worker[w].kind = "toFiat" THEN "consumer" ELSE "merchant"

\* unallocatedTreasuryBacking reads the tokens the Vault holds ...
ReadBacking(w) ==
    /\ At(w, "backing")
    /\ Become(w, [worker[w] EXCEPT !.pc = "claims", !.seen = tt])
    /\ UNCHANGED <<money, book, faults>>

\* Mutant: all tokens in the Vault count as unallocated.
ReadClaimsIgnored(w) ==
    /\ At(w, "claims")
    /\ LET need == Max({0, worker[w].short - worker[w].seen}) IN
       Become(w, [worker[w] EXCEPT !.need = need,
                                   !.pc = IF need > 0 THEN "mintShort" ELSE "creditShort"])
    /\ UNCHANGED <<money, book, faults, unread>>

\* sumAllUserFiatClaimsOnChain: a wallet that cannot be read is skipped.
ReadClaims(w) ==
    /\ At(w, "claims")
    /\ \E read \in SUBSET Counted :
          /\ IF read = Counted THEN UNCHANGED faults ELSE Fault("skip")
          /\ unread' = Max({unread, Claims(Accounts \ read)})
          /\ LET free == Max({0, worker[w].seen - Claims(read)})
                 need == Max({0, worker[w].short - free}) IN
             Become(w, [worker[w] EXCEPT !.need = need,
                                         !.pc = IF need > 0 THEN "mintShort" ELSE "creditShort"])
    /\ UNCHANGED <<money, book>>

MintShort(w) ==
    /\ At(w, "mintShort")
    /\ Chain(w, TRUE, tt' = tt + worker[w].need, Then(w, "creditShort"), UNCHANGED tt)
    /\ UNCHANGED <<fiat, usd, usdc, book>>

\* A conversion ends here (its history row is left out); a change voucher goes on.
CreditShort(w) ==
    /\ At(w, "creditShort")
    /\ Chain(w, TRUE, fiat' = [fiat EXCEPT ![Target(w)] = @ + worker[w].short],
             IF worker[w].kind = "toFiat" THEN Idle ELSE Then(w, "debitMerchant"),
             UNCHANGED fiat)
    /\ UNCHANGED <<usd, tt, usdc, book>>

-----------------------------------------------------------------------------
(* Change vouchers.                                                        *)

\* prepareChangeVoucher.
IssueVoucher(v) ==
    /\ row[v] = "none"
    /\ row' = [row EXCEPT ![v] = "pending"]
    /\ UNCHANGED <<money, refs, minted, credited, expired, paid, conversions, worker, faults>>

VoucherExpires(v) ==
    /\ row[v] = "pending" /\ v \notin expired
    /\ expired' = expired \cup {v}
    /\ UNCHANGED <<money, refs, minted, credited, row, paid, conversions, worker, faults>>

\* redeemChangeVoucher: the SELECT, whose row lock ends with the statement.
Redeem(w, v) ==
    /\ worker[w] = Idle /\ row[v] = "pending"
    /\ Become(w, Job(IF v \in expired THEN "lapse" ELSE "float", "voucher", v, Amount[v]))
    /\ UNCHANGED <<money, book, faults>>

SetExpired(w) ==
    /\ At(w, "lapse")
    /\ row' = [row EXCEPT ![worker[w].id] = "expired"]
    /\ Become(w, Idle)
    /\ UNCHANGED <<money, refs, minted, credited, expired, paid, conversions, faults>>

\* sendChangeVoucherToTag pays first and inserts the row as claimed.
SendToTag(w, v) ==
    /\ worker[w] = Idle /\ row[v] = "none"
    /\ \A x \in Workers : worker[x] # Idle => worker[x].id # v
    /\ Become(w, Job("float", "voucher", v, Amount[v]))
    /\ UNCHANGED <<money, book, faults>>

\* executeTransfer reads the merchant's balance and tops it up when short.
ReadFloat(w) ==
    /\ At(w, "float")
    /\ IF fiat["merchant"] < worker[w].amt
       THEN Become(w, [worker[w] EXCEPT !.pc = "backing",
                                        !.short = worker[w].amt - fiat["merchant"]])
       ELSE Goto(w, "debitMerchant")
    /\ UNCHANGED <<money, book, faults>>

DebitMerchant(w) ==
    /\ At(w, "debitMerchant")
    /\ Chain(w, fiat["merchant"] >= worker[w].amt,
             fiat' = [fiat EXCEPT !["merchant"] = @ - worker[w].amt],
             Then(w, "creditConsumer"), UNCHANGED fiat)
    /\ UNCHANGED <<usd, tt, usdc, book>>

CreditConsumer(w) ==
    /\ At(w, "creditConsumer")
    /\ Chain(w, TRUE,
             /\ fiat' = [fiat EXCEPT !["consumer"] = @ + worker[w].amt]
             /\ paid' = [paid EXCEPT ![worker[w].id] = @ + worker[w].amt],
             Then(w, "setClaimed"), UNCHANGED <<fiat, paid>>)
    /\ UNCHANGED <<usd, tt, usdc, refs, minted, credited, row, expired, conversions>>

\* The UPDATE (or INSERT) of the voucher row.
SetClaimed(w) ==
    /\ At(w, "setClaimed")
    /\ row' = [row EXCEPT ![worker[w].id] = "claimed"]
    /\ IF worker[w].need > 0 THEN Goto(w, "mintRef") ELSE Become(w, Idle)
    /\ UNCHANGED <<money, refs, minted, credited, expired, paid, conversions, faults>>

\* recordChangeVoucherMintRef; a second INSERT for the voucher throws.
RecordMintRef(w) ==
    /\ At(w, "mintRef")
    /\ refs' = refs \cup {worker[w].id}
    /\ Become(w, Idle)
    /\ UNCHANGED <<money, minted, credited, row, expired, paid, conversions, faults>>

-----------------------------------------------------------------------------
(* Conversions.                                                            *)
StartConversion == conversions < MaxConversions /\ conversions' = conversions + 1

\* convertFiatToUsd reads the balance ...
ConvertFiatToUsd(w, a) ==
    /\ worker[w] = Idle /\ StartConversion
    /\ fiat["consumer"] >= a /\ UsdFor(a) > 0
    /\ Become(w, Job("reserve", "toUsd", "none", a))
    /\ UNCHANGED <<money, refs, minted, credited, row, expired, paid, faults>>

\* ... and compares the amount with all the USDC in the Vault.
CheckReserve(w) ==
    /\ At(w, "reserve")
    /\ IF usdc >= UsdFor(worker[w].amt) THEN Goto(w, "debitFiat") ELSE Become(w, Idle)
    /\ UNCHANGED <<money, book, faults>>

DebitFiat(w) ==
    /\ At(w, "debitFiat")
    /\ Chain(w, fiat["consumer"] >= worker[w].amt,
             fiat' = [fiat EXCEPT !["consumer"] = @ - worker[w].amt],
             Then(w, "creditUsd"), UNCHANGED fiat)
    /\ UNCHANGED <<usd, tt, usdc, book>>

CreditUsd(w) ==
    /\ At(w, "creditUsd")
    /\ Chain(w, TRUE, usd' = usd + UsdFor(worker[w].amt), Idle, UNCHANGED usd)
    /\ UNCHANGED <<fiat, tt, usdc, book>>

ConvertUsdToFiat(w, u) ==
    /\ worker[w] = Idle /\ StartConversion
    /\ usd >= u /\ FiatFor(u) > 0
    /\ Become(w, [Job("debitUsd", "toFiat", "none", u) EXCEPT !.short = FiatFor(u)])
    /\ UNCHANGED <<money, refs, minted, credited, row, expired, paid, faults>>

DebitUsd(w) ==
    /\ At(w, "debitUsd")
    /\ Chain(w, usd >= worker[w].amt, usd' = usd - worker[w].amt,
             Then(w, "backing"), UNCHANGED usd)
    /\ UNCHANGED <<fiat, tt, usdc, book>>

-----------------------------------------------------------------------------
\* A read of the chain or a query throws: the handler ends where it stands.
QueryFails(w) ==
    /\ worker[w].pc \in {"backing", "claims", "float", "reserve", "lapse", "setClaimed", "mintRef"}
    /\ Fault("throw")
    /\ Become(w, Idle)
    /\ UNCHANGED <<money, book>>

Crash ==
    /\ Fault("crash")
    /\ worker' = [w \in Workers |-> Idle]
    /\ UNCHANGED <<money, book>>

\* Purchases and escrow sends (EscrowClaims, SaleFulfilment): money goes to the escrow
\* account, and is released to the merchant or returned by a debit and a credit.
Transfer(from, to) ==
    /\ fiat[from] >= Held /\ fiat' = [fiat EXCEPT ![from] = @ - Held, ![to] = @ + Held]
    /\ UNCHANGED <<usd, tt, usdc, book, worker, faults>>

PayIntoEscrow == Claims({"escrow", "release"}) = 0 /\ Transfer("consumer", "escrow")
DebitEscrow == Transfer("escrow", "release")
ReleaseEscrow == \E to \in Counted : Transfer("release", to)

Step(w) ==
    \/ MintDeposit(w) \/ CreditDeposit(w) \/ MintUsdc(w)
    \/ ReadBacking(w) \/ MintShort(w) \/ CreditShort(w)
    \/ SetExpired(w) \/ ReadFloat(w) \/ DebitMerchant(w) \/ CreditConsumer(w)
    \/ SetClaimed(w) \/ RecordMintRef(w)
    \/ CheckReserve(w) \/ DebitFiat(w) \/ CreditUsd(w) \/ DebitUsd(w)

Serve ==
    \/ \E w \in Workers :
          \/ Step(w) \/ QueryFails(w)
          \/ \E r \in Refs : CashIn(w, r)
          \/ \E r \in UsdcRefs : BuyUsdc(w, r)
          \/ \E v \in Vouchers : Redeem(w, v) \/ SendToTag(w, v)
          \/ \E a \in FiatSteps : ConvertFiatToUsd(w, a)
          \/ \E u \in UsdSteps : ConvertUsdToFiat(w, u)
    \/ \E v \in Vouchers : IssueVoucher(v) \/ VoucherExpires(v)
    \/ PayIntoEscrow \/ DebitEscrow \/ ReleaseEscrow
    \/ Crash

Next ==
    /\ (Serve /\ UNCHANGED unread) \/ \E w \in Workers : ReadClaims(w)
    /\ overlap' = (overlap \/ \E w, v \in Workers :
                                w # v /\ worker'[w] # Idle /\ worker'[v] # Idle)

Spec == Init /\ [][Next]_vars

-----------------------------------------------------------------------------
Pcs == {"mint", "credit", "mintUsdc", "backing", "claims", "mintShort", "creditShort",
        "lapse", "float", "debitMerchant", "creditConsumer", "setClaimed", "mintRef",
        "reserve", "debitFiat", "creditUsd", "debitUsd"}

\* Every variable holds a value of its type; no claim is overdrawn.
TypeOK ==
    /\ fiat \in [Accounts -> Nat] /\ usd \in Nat /\ tt \in Nat /\ usdc \in Nat
    /\ refs \subseteq Refs \cup UsdcRefs \cup Vouchers
    /\ minted \in [Refs \cup UsdcRefs -> Nat] /\ credited \in [Refs -> Nat]
    /\ row \in [Vouchers -> {"none", "pending", "claimed", "expired"}]
    /\ expired \subseteq Vouchers /\ paid \in [Vouchers -> Nat]
    /\ conversions \in 0..MaxConversions /\ faults \in 0..MaxFaults /\ overlap \in BOOLEAN /\ unread \in Nat
    /\ worker \in [Workers -> {Idle} \cup
          [pc : Pcs, kind : {"deposit", "usdc", "voucher", "toUsd", "toFiat"},
           id : Refs \cup UsdcRefs \cup Vouchers \cup {"none"},
           amt : Nat, short : Nat, need : Nat, seen : Nat]]

\* "We never mint twice for the same voucher/deposit, even under a
\* double-submit" (cashIn): a reference mints and credits its amount at most
\* once, and credits only what it minted, whatever fails.  A change voucher shown as
\* claimed has been paid into the consumer's wallet; and as long as handlers did not
\* overlap and nothing failed it is paid once, redeemed or sent to a tag, before or
\* after it expires (redeemChangeVoucher, sendChangeVoucherToTag).
RefPaidOnce ==
    /\ TypeOK
    /\ \A x \in Refs \cup UsdcRefs : minted[x] <= Amount[x]
    /\ \A x \in Refs : credited[x] <= minted[x]
    /\ \A v \in Vouchers : /\ row[v] = "claimed" => paid[v] >= Amount[v]
                           /\ (~overlap /\ faults = 0) => paid[v] <= Amount[v]

\* As long as handlers did not overlap, the treasury tokens in the Vault cover
\* every claim, what is in escrow included, but for what a sum of the claims once left
\* out: through deposits, change, purchases and conversions in both directions, with
\* any of their transactions failing or the server restarting.
FiatBacked == ~overlap => tt + unread >= Claims(Accounts)

\* "Used to gate ZAR->USD conversions so we never credit more USD claims than
\* there is reserve to honour" (treasuryService.ts).
UsdBacked == usd <= usdc
=============================================================================
