---------------------------- MODULE EscrowClaims ----------------------------
(***************************************************************************)
(* Escrow sends by WhatsApp link: escrowService.ts and the routes that     *)
(* call it.  A sender's transfer lands on the custodial escrow account of  *)
(* the Vault and a pending_claims row is written; the recipient redeems it *)
(* before it expires, or a sweep returns it to the sender.                 *)
(*                                                                         *)
(* Every `await` of a handler is a step: a handler is a worker that holds  *)
(* the row it read, and other handlers run between its steps.  A Vault     *)
(* transaction may fail without effect ("throw") or take effect while the  *)
(* server sees an error because the receipt was lost ("lost"); a restart   *)
(* ("crash") drops every handler in flight.                                *)
(*                                                                         *)
(* The escrow account and the handlers are shared with SaleFulfilment;     *)
(* PlatformEscrow composes the two.                                        *)
(***************************************************************************)
EXTENDS Integers, FiniteSets, ShareMath

CONSTANTS
    Claims,       \* escrow sends, each with its own sender and recipient
    Amount,       \* Amount[c]: units sent
    Workers,      \* handlers that may be in flight at the same time
    Faults,       \* subset of {"throw", "lost", "crash"}
    MaxFaults     \* bound on the number of faults

VARIABLES
    escrow,     \* unified balance of the escrow account
    sender,     \* unified balance of each claim's sender
    recipient,  \* unified balance of each claim's recipient
    row,        \* pending_claims.status, "none" before the INSERT
    expired,    \* expires_at has passed
    worker,     \* the handler each worker runs
    faults      \* faults so far

vars == <<escrow, sender, recipient, row, expired, worker, faults>>
balances == <<escrow, sender, recipient>>

\* A handler: its kind, the next await, the row in hand, the sweep's other rows.
Idle == [pc |-> "idle"]
Handler(op, pc, rows, todo) == [op |-> op, pc |-> pc, rows |-> rows, todo |-> todo]

\* The senders start with some funds; the table is empty.
Init(funds) ==
    /\ sender = funds
    /\ recipient = [c \in Claims |-> 0]
    /\ row = [c \in Claims |-> "none"]
    /\ expired = [c \in Claims |-> FALSE]

Fault(kind) == kind \in Faults /\ faults < MaxFaults /\ faults' = faults + 1

\* Control goes to the next await ...
Goto(w, pc) == worker' = [worker EXCEPT ![w].pc = pc]
\* ... or out of the handler: redeemClaim propagates an error to its caller, the
\* sweep logs it and takes the next row.
Leave(w) ==
    worker' = [worker EXCEPT ![w] =
        IF @.todo = {} THEN Idle ELSE Handler("sweep", "next", {}, @.todo)]

-----------------------------------------------------------------------------
(* transfer/escrow/submit: relay the signed transfer to the escrow account,*)
(* then createClaim.                                                       *)
Submit(w, c) ==
    /\ worker[w] = Idle
    /\ sender[c] >= Amount[c] /\ row[c] = "none"
    /\ escrow' = escrow + Amount[c]
    /\ sender' = [sender EXCEPT ![c] = @ - Amount[c]]
    /\ \/ /\ worker' = [worker EXCEPT ![w] = Handler("submit", "insert", {c}, {})]
          /\ UNCHANGED faults
       \/ Fault("lost") /\ UNCHANGED worker
    /\ UNCHANGED <<recipient, row, expired>>

\* A failed INSERT leaves the money in escrow without a row.
CreateClaim(w, c) ==
    /\ worker[w].pc = "insert" /\ c \in worker[w].rows
    /\ \/ row' = [row EXCEPT ![c] = "pending"] /\ UNCHANGED faults
       \/ Fault("throw") /\ UNCHANGED row
    /\ Leave(w)
    /\ UNCHANGED <<balances, expired>>

-----------------------------------------------------------------------------
(* redeemClaim and reclaimExpiredClaims.                                   *)

\* The recipient's phone matches: other callers are refused and change nothing.
Redeem(w, c) ==
    /\ worker[w] = Idle
    /\ row[c] = "pending" /\ ~expired[c]
    /\ worker' = [worker EXCEPT ![w] =
          Handler("redeem", "debitClaim", {c}, {})]
    /\ UNCHANGED <<balances, row, expired, faults>>

ExpiredRows == {c \in Claims : row[c] = "pending" /\ expired[c]}

\* The sweep selects its rows once, at the start.
Sweep(w) ==
    /\ worker[w] = Idle
    /\ ExpiredRows # {}
    /\ worker' = [worker EXCEPT ![w] =
          Handler("sweep", "next", {}, ExpiredRows)]
    /\ UNCHANGED <<balances, row, expired, faults>>

SweepRow(w, c) ==
    /\ worker[w].pc = "next" /\ c \in worker[w].todo
    /\ worker' = [worker EXCEPT ![w].pc = "debitClaim", ![w].rows = {c}, ![w].todo = @ \ {c}]
    /\ UNCHANGED <<balances, row, expired, faults>>

\* The account the handler pays.
Pay(w, c) ==
    /\ recipient' = [recipient EXCEPT ![c] = @ + IF worker[w].op = "redeem" THEN Amount[c] ELSE 0]
    /\ sender' = [sender EXCEPT ![c] = @ + IF worker[w].op = "sweep" THEN Amount[c] ELSE 0]

\* Mutant: the beneficiary is credited before the escrow account is debited.
PayThenDebit(w, c) ==
    /\ worker[w].pc = "debitClaim" /\ c \in worker[w].rows
    /\ Pay(w, c)
    /\ \/ escrow >= Amount[c] /\ escrow' = escrow - Amount[c] /\ Goto(w, "update")
       \/ escrow < Amount[c] /\ Leave(w) /\ UNCHANGED escrow
    /\ UNCHANGED <<row, expired, faults>>

\* vaultAdminDebit(escrow): reverts when the account holds less than the amount.
DebitEscrow(w, c) ==
    /\ worker[w].pc = "debitClaim" /\ c \in worker[w].rows
    /\ \/ /\ escrow >= Amount[c]
          /\ escrow' = escrow - Amount[c]
          /\ \/ Goto(w, "creditClaim") /\ UNCHANGED faults
             \/ Fault("lost") /\ Leave(w)
       \/ escrow < Amount[c] /\ Leave(w) /\ UNCHANGED <<escrow, faults>>
       \/ Fault("throw") /\ Leave(w) /\ UNCHANGED escrow
    /\ UNCHANGED <<sender, recipient, row, expired>>

\* vaultAdminCredit(beneficiary).
CreditBeneficiary(w, c) ==
    /\ worker[w].pc = "creditClaim" /\ c \in worker[w].rows
    /\ \/ /\ Pay(w, c)
          /\ \/ Goto(w, "update") /\ UNCHANGED faults
             \/ Fault("lost") /\ Leave(w)
       \/ Fault("throw") /\ Leave(w) /\ UNCHANGED <<sender, recipient>>
    /\ UNCHANGED <<escrow, row, expired>>

Outcome(w) == IF worker[w].op = "redeem" THEN "claimed" ELSE "reclaimed"

\* Mutant: the UPDATE does not test the status.
SetStatusAnyway(w, c) ==
    /\ worker[w].pc = "update" /\ c \in worker[w].rows
    /\ row' = [row EXCEPT ![c] = Outcome(w)]
    /\ Leave(w)
    /\ UNCHANGED <<balances, expired, faults>>

\* UPDATE ... WHERE status = 'pending'.
SetStatus(w, c) ==
    /\ worker[w].pc = "update" /\ c \in worker[w].rows
    /\ \/ /\ row' = [row EXCEPT ![c] = IF @ = "pending" THEN Outcome(w) ELSE @]
          /\ UNCHANGED faults
       \/ Fault("throw") /\ UNCHANGED row
    /\ Leave(w)
    /\ UNCHANGED <<balances, expired>>

-----------------------------------------------------------------------------
Expire(c) ==
    /\ row[c] # "none" /\ ~expired[c]
    /\ expired' = [expired EXCEPT ![c] = TRUE]
    /\ UNCHANGED <<balances, row, worker, faults>>

Step(w) ==
    \/ \E c \in Claims : \/ CreateClaim(w, c)
                         \/ SweepRow(w, c)
                         \/ DebitEscrow(w, c)
                         \/ CreditBeneficiary(w, c)
                         \/ SetStatus(w, c)

Call(w) ==
    \/ \E c \in Claims : Submit(w, c) \/ Redeem(w, c)
    \/ Sweep(w)

-----------------------------------------------------------------------------
TypeOK ==
    /\ sender \in [Claims -> Nat] /\ recipient \in [Claims -> Nat]
    /\ row \in [Claims -> {"none", "pending", "claimed", "reclaimed"}]
    /\ expired \in [Claims -> BOOLEAN]

\* The rows a handler works on, and those its sweep still has to take up.
InHand(w) == IF worker[w].pc \in {"insert", "debitClaim", "creditClaim", "update"}
             THEN worker[w].rows ELSE {}
Selected(w) == IF worker[w].pc = "next" \/ InHand(w) # {} THEN worker[w].todo ELSE {}

\* What a handler has taken from the escrow account and not yet paid out.
InFlight(w) ==
    IF worker[w].pc = "creditClaim" THEN Total([c \in worker[w].rows |-> Amount[c]]) ELSE 0

\* What the escrow account owes: the pending claims whose payout has not begun.
Owed ==
    Total([c \in {d \in Claims :
                     /\ row[d] = "pending"
                     /\ \A w \in Workers : d \in InHand(w) => worker[w].pc = "debitClaim"}
             |-> Amount[c]])

Settled(c) == row[c] \in {"claimed", "reclaimed"}

\* A claim that the table shows as settled has been paid to the party the status
\* names (redeemClaim, reclaimExpiredClaims).
SettledIsPaid ==
    \A c \in Claims : /\ row[c] = "claimed" => recipient[c] >= Amount[c]
                      /\ row[c] = "reclaimed" => sender[c] >= Amount[c]
=============================================================================
