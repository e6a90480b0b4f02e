--------------------------- MODULE PlatformEscrow ---------------------------
(***************************************************************************)
(* The platform's escrow account, on which escrow sends (EscrowClaims) and *)
(* purchases (SaleFulfilment) keep their money together: one balance of    *)
(* the Vault, one server process, and so one pool of handlers in flight.   *)
(* A payout made twice for a claim is paid with the money of a sale.       *)
(***************************************************************************)
EXTENDS Integers, FiniteSets, ShareMath

CONSTANTS
    Claims, Amount, Sales, Price,
    Workloads,    \* the sets of claims and sales whose payer has the money
    Workers, Faults, MaxFaults, MaxRetries

ASSUME EscrowAssumption ==
    /\ IsFiniteSet(Claims) /\ Amount \in [Claims -> Nat \ {0}]
    /\ IsFiniteSet(Sales) /\ Price \in [Sales -> Nat \ {0}]
    /\ Claims \cap Sales = {} /\ Workloads \subseteq SUBSET (Claims \cup Sales)
    /\ IsFiniteSet(Workers) /\ Faults \subseteq {"throw", "lost", "crash"}
    /\ MaxFaults \in Nat /\ MaxRetries \in Nat

VARIABLES
    escrow, worker, faults,
    sender, recipient, row, expired,                       \* EscrowClaims
    consumer, merchant, status, fulfilment, queue, retries, \* SaleFulfilment
    funded,     \* the workload of this behaviour
    disturbed   \* history: rows that two handlers held at once or a fault hit

claimVars == <<sender, recipient, row, expired>>
saleVars  == <<consumer, merchant, status, fulfilment, queue, retries>>
vars      == <<escrow, worker, faults, claimVars, saleVars, funded, disturbed>>

C == INSTANCE EscrowClaims
S == INSTANCE SaleFulfilment

Idle == [pc |-> "idle"]

Init ==
    /\ escrow = 0 /\ faults = 0 /\ disturbed = {}
    /\ worker = [w \in Workers |-> Idle]
    /\ funded \in Workloads
    /\ C!Init([c \in Claims |-> IF c \in funded THEN Amount[c] ELSE 0])
    /\ S!Init([s \in Sales |-> IF s \in funded THEN Price[s] ELSE 0])

\* A restart of the server drops the handlers in flight and the queue.
Crash ==
    /\ "crash" \in Faults /\ faults < MaxFaults /\ faults' = faults + 1
    /\ worker' = [w \in Workers |-> Idle]
    /\ queue' = {}
    /\ UNCHANGED <<escrow, claimVars, consumer, merchant, status, fulfilment, retries>>

-----------------------------------------------------------------------------
\* History.  A row that a handler holds while another holds or has selected it.
InHand(w)  == C!InHand(w) \cup S!InHand(w)
Overlapped == UNION {InHand(w) \cap UNION {InHand(v) \cup C!Selected(v) : v \in Workers \ {w}} :
                        w \in Workers}

\* The rows in hand, or waiting in the queue, that a fault drops.
Hit == IF faults' = faults THEN {}
       ELSE (UNION {InHand(w) : w \in {v \in Workers : worker'[v] # worker[v]}})
               \cup (queue \ queue')

Record ==
    /\ disturbed' = disturbed \cup Overlapped' \cup Hit
    /\ UNCHANGED funded

-----------------------------------------------------------------------------
\* A handler takes its next step, or a request starts one.
Step(w) ==
    /\ \/ C!Step(w) /\ UNCHANGED saleVars
       \/ S!Step(w) /\ UNCHANGED claimVars
    /\ Record

Call(w) ==
    /\ \/ C!Call(w) /\ UNCHANGED saleVars
       \/ S!Call(w) /\ UNCHANGED claimVars
    /\ Record

Sweep(w) == C!Sweep(w) /\ UNCHANGED saleVars /\ Record

Environment ==
    /\ \/ \E c \in Claims : C!Expire(c) /\ UNCHANGED saleVars
       \/ Crash
    /\ Record

Next == (\E w \in Workers : Step(w) \/ Call(w)) \/ Environment

(* The event loop keeps running every handler it started and every queued  *)
(* callback, and the sweep is a cron job that keeps being called; it is    *)
(* served however many requests come in, since the server does not limit   *)
(* its handlers as Workers does.                                           *)
FairSpec ==
    /\ Init /\ [][Next]_vars
    /\ \A w \in Workers : WF_vars(Step(w))
    /\ SF_vars(\E w \in Workers : Sweep(w))

-----------------------------------------------------------------------------
\* "Debit escrow first so a partial failure can't create value" (redeemClaim) and
\* the same order in releaseEscrow: whatever fails and whatever overlaps, no
\* account is overdrawn and all of them never hold more than was paid in.
InFlight == Total([w \in Workers |-> C!InFlight(w) + S!InFlight(w)])
NoValueCreated ==
    /\ C!TypeOK /\ S!TypeOK /\ escrow \in Nat
    /\ escrow + Total(sender) + Total(recipient) + Total(consumer) + Total(merchant) + InFlight
          <= Total([c \in Claims \cap funded |-> Amount[c]])
             + Total([s \in Sales \cap funded |-> Price[s]])

\* A settled row keeps its status: a redeem and a sweep, or a run and a retry, that
\* overlap cannot rewrite each other's outcome.
SettledIsFinal ==
    [][/\ \A c \in Claims : C!Settled(c) => row'[c] = row[c]
       /\ \A s \in Sales : S!Settled(s) => status'[s] = status[s]]_vars

(* GET /admin/escrow: the balance held, the totals of the two tables, and  *)
(* each transfer into escrow with the row that claims it.                  *)
Amt(x) == IF x \in Claims THEN Amount[x] ELSE Price[x]
Value(X) == Total([x \in X |-> Amt(x)])

Held == escrow
Inbound == {c \in Claims \cap funded : sender[c] # Amount[c] \/ row[c] # "none"}
              \cup {s \in Sales \cap funded : consumer[s] # Price[s] \/ status[s] # "none"}

\* What the page's queries return: rows of the two tables, transfers of the index.
\* Any may be missing: past the limits of 200 and 100, a sale settled for 30 days or
\* without a merchant, a transfer the indexer has not reached, a query that failed.
Pages == [claims : SUBSET {c \in Claims : row[c] # "none"},
          sales : SUBSET {s \in Sales : status[s] # "none"},
          transfers : SUBSET Inbound]
WhatsappOutstanding(p) == Total([c \in {d \in p.claims : row[d] = "pending"} |-> Amount[c]])
PurchasesPending(p) == {s \in p.sales : status[s] = "pending_fulfilment"}
Kind(p, x) ==
    CASE x \in p.claims -> "whatsapp"
      [] x \in p.sales -> "purchase"
      [] OTHER -> "unallocated"

\* The transfers a page shows without a row; those it has neither as a transfer nor by
\* a row; and the settled rows it leaves out.
Unallocated(p) == {x \in p.transfers : Kind(p, x) = "unallocated"}
Unseen(p) == Inbound \ (p.transfers \cup p.claims \cup p.sales)
LeftOut(p) == {c \in Claims \ p.claims : C!Settled(c)} \cup {s \in Sales \ p.sales : S!Settled(s)}

\* Nothing creates value; and as long as no row was held twice and no fault hit one,
\* the account holds what every pending claim and every unreleased sale is owed.
\* Whenever no handler is at work, the operators' page then reconciles, whichever rows
\* and transfers its queries leave out: its two tables with the transfers it shows as
\* unallocated and those it misses come to what is held and the settled rows it left
\* out.  So its tables never claim more than is held, and a hold it calls unallocated
\* is a lost receipt or a row the page cut.
EscrowCovers == NoValueCreated /\ (disturbed = {} =>
    /\ escrow >= C!Owed + S!Owed
    /\ (\A w \in Workers : InHand(w) = {}) => \A p \in Pages :
          WhatsappOutstanding(p) + Total([s \in PurchasesPending(p) |-> Price[s]])
             + Value(Unallocated(p)) + Value(Unseen(p))
          = Held + Value(LeftOut(p)))

\* A claim or sale that its table shows as settled has been paid to the party the
\* status names, under every fault, overlap and retry; and a row that was not
\* disturbed is worth its amount to its two parties together, never more: redeem,
\* sweep, release, refund and retry pay it once.
PaidOnce ==
    /\ C!SettledIsPaid /\ S!SettledIsPaid
    /\ \A c \in Claims \ disturbed : sender[c] + recipient[c] <= Amount[c]
    /\ \A s \in Sales \ disturbed : consumer[s] + merchant[s] <= Price[s]

\* A recorded sale is released or refunded in the end, and an expired claim is
\* settled, unless the row itself was disturbed or the account ran short (which,
\* by EscrowCovers, takes the disturbance of another row).
Settles ==
    /\ \A s \in Sales :
          (status[s] = "pending_fulfilment")
             ~> (S!Settled(s) \/ s \in disturbed \/ escrow < Price[s])
    /\ \A c \in Claims :
          (row[c] = "pending" /\ expired[c])
             ~> (C!Settled(c) \/ c \in disturbed \/ escrow < Amount[c])

\* "Safe to call repeatedly (idempotent - only acts on still-pending, expired
\* rows)" (admin.routes.ts, claims/reclaim-expired): sweeps return an amount once.
SweepsPayOnce == \A c \in Claims : sender[c] <= Amount[c]
=============================================================================
