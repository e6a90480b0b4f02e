--------------------------- MODULE SaleFulfilment ---------------------------
(***************************************************************************)
(* Purchases: consumer.routes.ts pays the platform escrow account and      *)
(* records a merchant_sales row, fulfilmentService.ts calls the product's  *)
(* fulfilment API and then releases the escrow to the merchant or back to  *)
(* the consumer in the background.  As in EscrowClaims every `await` is a  *)
(* step, and the work queue (setImmediate) lives in memory only.  The      *)
(* escrow account and the handlers are shared with EscrowClaims, and       *)
(* PlatformEscrow composes the two.                                        *)
(***************************************************************************)
EXTENDS Integers, FiniteSets, ShareMath

CONSTANTS
    Sales,        \* purchases, each with its own consumer and merchant
    Price,        \* Price[s]: units paid
    Workers,      \* handlers that may be in flight at the same time
    Faults,       \* subset of {"throw", "lost", "crash"}
    MaxFaults,    \* bound on the number of faults
    MaxRetries    \* bound on the calls of the retry endpoint

VARIABLES
    escrow,     \* unified balance of the escrow account
    consumer,   \* unified balance of each sale's consumer
    merchant,   \* unified balance of each sale's merchant
    status,     \* merchant_sales.status, "none" before the INSERT
    fulfilment, \* merchant_sales.fulfilment_status
    queue,      \* sales handed to setImmediate and not started
    worker,     \* the handler each worker runs
    faults, retries

vars == <<escrow, consumer, merchant, status, fulfilment, queue, worker, faults, retries>>
balances == <<escrow, consumer, merchant>>
table == <<status, fulfilment>>

Idle == [pc |-> "idle"]
Job(pc, s) == [pc |-> pc, sale |-> s]
\* A job that knows the answer of the API, and so whom to pay.
Release(pc, s, ok) == [pc |-> pc, sale |-> s, ok |-> ok]

\* The consumers start with some funds; the table and the queue are empty.
Init(funds) ==
    /\ consumer = funds
    /\ merchant = [s \in Sales |-> 0]
    /\ status = [s \in Sales |-> "none"]
    /\ fulfilment = [s \in Sales |-> "none"]
    /\ queue = {}
    /\ retries = 0

Fault(kind) == kind \in Faults /\ faults < MaxFaults /\ faults' = faults + 1
Become(w, job) == worker' = [worker EXCEPT ![w] = job]
Goto(w, pc) == worker' = [worker EXCEPT ![w].pc = pc]

-----------------------------------------------------------------------------
(* transfer/submit of a purchase, and recordMerchantSale.                  *)
Purchase(w, s) ==
    /\ worker[w] = Idle /\ consumer[s] >= Price[s] /\ status[s] = "none"
    /\ escrow' = escrow + Price[s]
    /\ consumer' = [consumer EXCEPT ![s] = @ - Price[s]]
    /\ \/ Become(w, Job("record", s)) /\ UNCHANGED faults
       \/ Fault("lost") /\ UNCHANGED worker
    /\ UNCHANGED <<merchant, table, queue, retries>>

\* Mutant: the sale is recorded and not enqueued.
RecordOnly(w) ==
    /\ worker[w].pc = "record"
    /\ status' = [status EXCEPT ![worker[w].sale] = "pending_fulfilment"]
    /\ fulfilment' = [fulfilment EXCEPT ![worker[w].sale] = "pending"]
    /\ Become(w, Idle)
    /\ UNCHANGED <<balances, queue, faults, retries>>

\* A failed INSERT is logged and swallowed: the payment stays in escrow unrecorded.
RecordMerchantSale(w) ==
    /\ worker[w].pc = "record"
    /\ LET s == worker[w].sale IN
       \/ /\ status' = [status EXCEPT ![s] = "pending_fulfilment"]
          /\ fulfilment' = [fulfilment EXCEPT ![s] = "pending"]
          /\ queue' = queue \cup {s}
          /\ UNCHANGED faults
       \/ Fault("throw") /\ UNCHANGED <<table, queue>>
    /\ Become(w, Idle)
    /\ UNCHANGED <<balances, retries>>

-----------------------------------------------------------------------------
(* processSaleFulfilment.                                                  *)

\* Mutant: the status is not tested, nor whether the API refused.
ProcessUnlessFulfilled(s) == fulfilment[s] # "success"

\* The early returns after the SELECT.
Processable(s) ==
    /\ status[s] = "pending_fulfilment"
    /\ fulfilment[s] \notin {"success", "failed"}

Begin(w, s) == Become(w, IF Processable(s) THEN Job("mark", s) ELSE Idle)

\* The setImmediate callback of enqueueSaleFulfilment.
Dequeue(w, s) ==
    /\ worker[w] = Idle /\ s \in queue
    /\ queue' = queue \ {s}
    /\ Begin(w, s)
    /\ UNCHANGED <<balances, table, faults, retries>>

\* The merchant's retry endpoint runs the same function on any of its sales.
Retry(w, s) ==
    /\ worker[w] = Idle /\ status[s] # "none" /\ retries < MaxRetries
    /\ retries' = retries + 1
    /\ Begin(w, s)
    /\ UNCHANGED <<balances, table, queue, faults>>

\* UPDATE ... SET fulfilment_status WHERE status = 'pending_fulfilment'.
SetFulfilment(s, v) ==
    fulfilment' = [fulfilment EXCEPT ![s] = IF status[s] = "pending_fulfilment" THEN v ELSE @]

Mark(w) ==
    /\ worker[w].pc = "mark"
    /\ \/ SetFulfilment(worker[w].sale, "pending") /\ Goto(w, "call") /\ UNCHANGED faults
       \/ Fault("throw") /\ Become(w, Idle) /\ UNCHANGED fulfilment
    /\ UNCHANGED <<balances, status, queue, retries>>

\* The API answers, or the call times out and counts as a failure.
CallFulfilmentApi(w) ==
    /\ worker[w].pc = "call"
    /\ \E ok \in BOOLEAN : Become(w, Release("outcome", worker[w].sale, ok))
    /\ UNCHANGED <<balances, table, queue, faults, retries>>

\* The outcome is published first, the release is left to the background.
PublishOutcome(w) ==
    /\ worker[w].pc = "outcome"
    /\ \/ /\ SetFulfilment(worker[w].sale, IF worker[w].ok THEN "success" ELSE "failed")
          /\ Goto(w, "debitSale")
          /\ UNCHANGED faults
       \/ Fault("throw") /\ Become(w, Idle) /\ UNCHANGED fulfilment
    /\ UNCHANGED <<balances, status, queue, retries>>

-----------------------------------------------------------------------------
(* releaseEscrowInBackground.  An error ends it: only fulfilment_error,    *)
(* which nothing reads back, is written.                                   *)
Pay(s, ok) ==
    /\ merchant' = [merchant EXCEPT ![s] = @ + IF ok THEN Price[s] ELSE 0]
    /\ consumer' = [consumer EXCEPT ![s] = @ + IF ok THEN 0 ELSE Price[s]]

DebitEscrow(w) ==
    /\ worker[w].pc = "debitSale"
    /\ LET s == worker[w].sale IN
       \/ /\ escrow >= Price[s]
          /\ escrow' = escrow - Price[s]
          /\ \/ Goto(w, "creditSale") /\ UNCHANGED faults
             \/ Fault("lost") /\ Become(w, Idle)
       \/ escrow < Price[s] /\ Become(w, Idle) /\ UNCHANGED <<escrow, faults>>
       \/ Fault("throw") /\ Become(w, Idle) /\ UNCHANGED escrow
    /\ UNCHANGED <<consumer, merchant, table, queue, retries>>

CreditBeneficiary(w) ==
    /\ worker[w].pc = "creditSale"
    /\ \/ /\ Pay(worker[w].sale, worker[w].ok)
          /\ \/ Goto(w, "settle") /\ UNCHANGED faults
             \/ Fault("lost") /\ Become(w, Idle)
       \/ Fault("throw") /\ Become(w, Idle) /\ UNCHANGED <<consumer, merchant>>
    /\ UNCHANGED <<escrow, table, queue, retries>>

\* UPDATE ... SET status WHERE status = 'pending_fulfilment'.
Settle(w) ==
    /\ worker[w].pc = "settle"
    /\ LET s == worker[w].sale IN
       \/ /\ status' = [status EXCEPT ![s] =
                IF @ # "pending_fulfilment" THEN @
                ELSE IF worker[w].ok THEN "paid" ELSE "refunded"]
          /\ UNCHANGED faults
       \/ Fault("throw") /\ UNCHANGED status
    /\ Become(w, Idle)
    /\ UNCHANGED <<balances, fulfilment, queue, retries>>

-----------------------------------------------------------------------------
Step(w) ==
    \/ RecordMerchantSale(w) \/ Mark(w) \/ CallFulfilmentApi(w) \/ PublishOutcome(w)
    \/ DebitEscrow(w) \/ CreditBeneficiary(w) \/ Settle(w)
    \/ \E s \in Sales : Dequeue(w, s)

Call(w) == \E s \in Sales : Purchase(w, s) \/ Retry(w, s)

-----------------------------------------------------------------------------
TypeOK ==
    /\ consumer \in [Sales -> Nat] /\ merchant \in [Sales -> Nat]
    /\ status \in [Sales -> {"none", "pending_fulfilment", "paid", "refunded"}]
    /\ fulfilment \in [Sales -> {"none", "pending", "success", "failed"}]
    /\ queue \subseteq Sales
    /\ retries \in 0..MaxRetries

Releasing == {"creditSale", "settle"}
Running   == {"record", "mark", "call", "outcome", "debitSale"} \cup Releasing

\* The sale a handler works on.
InHand(w) == IF worker[w].pc \in Running THEN {worker[w].sale} ELSE {}

\* What a handler has taken from the escrow account and not yet paid out.
InFlight(w) == IF worker[w].pc = "creditSale" THEN Price[worker[w].sale] ELSE 0

\* What the escrow account owes: the pending sales whose release has not begun.
Owed ==
    Total([s \in {r \in Sales :
                     /\ status[r] = "pending_fulfilment"
                     /\ \A w \in Workers : r \in InHand(w) => worker[w].pc \notin Releasing}
             |-> Price[s]])

Settled(s) == status[s] \in {"paid", "refunded"}

\* A sale shown as paid was paid to the merchant, one shown as refunded to the
\* consumer (releaseEscrowInBackground).
SettledIsPaid ==
    \A s \in Sales : /\ status[s] = "paid" => merchant[s] >= Price[s]
                     /\ status[s] = "refunded" => consumer[s] >= Price[s]
=============================================================================
