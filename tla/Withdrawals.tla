---------------------------- MODULE Withdrawals -----------------------------
(***************************************************************************)
(* A consumer's USDC withdrawals to an external wallet: withdrawalService, *)
(* with the challenge store of webauthnService, the spend limits of        *)
(* kycSpendService and the fee of revenueConfig.  A withdrawal is prepared *)
(* (limits, balance and inventory are looked at, a challenge derived from  *)
(* the intent is registered), signed with the passkey and submitted: the   *)
(* net amount is pushed out of the Vault, the fee moved to the platform.   *)
(* Every `await` is a step.                                                *)
(***************************************************************************)
EXTENDS ShareMath

CONSTANTS
    Ids,          \* withdrawalIds, fresh for each prepare
    Intents,      \* what intentHash hashes: destination, amounts, beneficiary
    NoIntent,
    Gross,        \* Gross[n]: units the intent asks for
    FeeBps,       \* revenue.withdrawal_fee_bps
    ZarPerUsd,    \* rate used by toLimitUnits
    MaxSingle, MaxDaily, MaxMonthly,   \* kyc_levels of the consumer
    SpentBefore,  \* limit units spent this month before today
    Workers,      \* handlers that may be in flight at the same time
    Claim0,       \* the consumer's USDC claim at the start
    Reserve0,     \* USDC the Vault holds at the start
    Faults,       \* subset of {"throw", "lost", "db", "crash"}
    MaxFaults     \* bound on the number of faults, each kind at most once

ASSUME WithdrawalsAssumption ==
    /\ IsFiniteSet(Ids) /\ IsFiniteSet(Workers)
    /\ NoIntent \notin Intents /\ Gross \in [Intents -> Nat \ {0}]
    /\ FeeBps \in 0..10000 /\ ZarPerUsd \in Nat \ {0}
    /\ {MaxSingle, MaxDaily, MaxMonthly, SpentBefore} \subseteq Nat
    /\ Claim0 \in Nat /\ Reserve0 \in Nat
    /\ Faults \subseteq {"throw", "lost", "db", "crash"} /\ MaxFaults \in Nat

VARIABLES
    intent,      \* intent[i]: what the request prepared under id i asks for
    claim,       \* the consumer's USDC claim
    fees,        \* the platform treasury's USDC claim
    reserve,     \* USDC held by the Vault
    sent,        \* sent[i]: USDC pushed to the destination for id i
    feeTaken,    \* feeTaken[i]: fee credited to the platform for id i
    elsewhere,   \* claim units that left by other routes
    pending,     \* the pending map: ids prepared, not expired, not taken
    challenges,  \* intents whose challenge is registered
    ready,       \* ids whose prepare has answered: the client may submit
    prepared,    \* ids whose challenge was ever registered
    row,         \* consumer_withdrawals.status
    spent,       \* sum of today's consumer_spend_events, in limit units
    worker,      \* the handler each worker runs
    faults       \* the kinds of faults so far

ledger == <<claim, fees, reserve, sent, feeTaken, elsewhere>>
maps == <<intent, pending, challenges, ready, prepared>>
vars == <<ledger, maps, row, spent, worker, faults>>

\* calcWithdrawalFeeUnits: the fee rounds up in favour of the platform.
Fee(n) == IF FeeBps = 0 THEN 0 ELSE (Gross[n] * FeeBps + 9999) \div 10000
FeeRefused(n) == FeeBps > 0 /\ Fee(n) >= Gross[n]
Net(n) == Gross[n] - Fee(n)
\* toLimitUnits: USDC in ZAR-equivalent units.
LimitUnits(n) == Gross[n] * ZarPerUsd

Idle == [pc |-> "idle"]
Job(pc, i) == [pc |-> pc, id |-> i]
N(w) == intent[worker[w].id]

Init ==
    /\ claim = Claim0 /\ fees = 0 /\ reserve = Reserve0 /\ elsewhere = 0
    /\ sent = [i \in Ids |-> 0] /\ feeTaken = [i \in Ids |-> 0]
    /\ intent = [i \in Ids |-> NoIntent]
    /\ pending = {} /\ challenges = {} /\ ready = {} /\ prepared = {}
    /\ row = [i \in Ids |-> "none"]
    /\ spent = 0
    /\ worker = [w \in Workers |-> Idle]
    /\ faults = {}

Fault(kind) ==
    /\ kind \in Faults \ faults /\ Cardinality(faults) < MaxFaults
    /\ faults' = faults \cup {kind}
Become(w, job) == worker' = [worker EXCEPT ![w] = job]
Goto(w, pc) == worker' = [worker EXCEPT ![w].pc = pc]
At(w, pc) == worker[w].pc = pc

-----------------------------------------------------------------------------
(* prepareWithdrawal.                                                      *)
Prepare(w, i, n) ==
    /\ worker[w] = Idle /\ intent[i] = NoIntent
    /\ intent' = [intent EXCEPT ![i] = n]
    /\ Become(w, Job("kyc", i))
    /\ UNCHANGED <<ledger, pending, challenges, ready, prepared, row, spent, faults>>

\* assertKycSendAllowed reads the spend ledger.
WithinLimits(n) ==
    /\ LimitUnits(n) <= MaxSingle
    /\ spent + LimitUnits(n) <= MaxDaily
    /\ SpentBefore + spent + LimitUnits(n) <= MaxMonthly

CheckKyc(w) ==
    /\ At(w, "kyc")
    /\ IF WithinLimits(N(w)) THEN Goto(w, "quote") ELSE Become(w, Idle)
    /\ UNCHANGED <<ledger, maps, row, spent, faults>>

\* The balance is read, the fee computed.
Quote(w) ==
    /\ At(w, "quote")
    /\ IF claim >= Gross[N(w)] /\ ~FeeRefused(N(w)) THEN Goto(w, "register")
                                                    ELSE Become(w, Idle)
    /\ UNCHANGED <<ledger, maps, row, spent, faults>>

\* The inventory is read; challenge and pending entry are set with no await.
Register(w) ==
    /\ At(w, "register")
    /\ IF reserve >= Net(N(w))
       THEN /\ challenges' = challenges \cup {N(w)}
            /\ pending' = pending \cup {worker[w].id}
            /\ prepared' = prepared \cup {worker[w].id}
            /\ Goto(w, "insert")
       ELSE Become(w, Idle) /\ UNCHANGED <<challenges, pending, prepared>>
    /\ UNCHANGED <<ledger, intent, ready, row, spent, faults>>

\* The INSERT, whose failure is only logged; then prepare answers.
InsertRow(w) ==
    /\ At(w, "insert")
    /\ \/ row' = [row EXCEPT ![worker[w].id] = "pending"] /\ UNCHANGED faults
       \/ Fault("db") /\ UNCHANGED row
    /\ ready' = ready \cup {worker[w].id}
    /\ Become(w, Idle)
    /\ UNCHANGED <<ledger, intent, pending, challenges, prepared, spent>>

-----------------------------------------------------------------------------
(* submitWithdrawal.                                                       *)

\* pending.get: the entry is looked up, not taken.
Submit(w, i) ==
    /\ worker[w] = Idle /\ i \in ready /\ i \in pending
    /\ Become(w, Job("verify", i))
    /\ UNCHANGED <<ledger, maps, row, spent, faults>>

\* Mutant: the challenge stays registered after it was verified.
VerifyKeepsChallenge(w) ==
    /\ At(w, "verify")
    /\ IF N(w) \in challenges THEN Goto(w, "balance") ELSE Become(w, Idle)
    /\ UNCHANGED <<ledger, maps, row, spent, faults>>

\* verifyAssertion: the challenge is consumed or the submit refused.
Verify(w) ==
    /\ At(w, "verify")
    /\ IF N(w) \in challenges THEN Goto(w, "balance") ELSE Become(w, Idle)
    /\ challenges' = challenges \ {N(w)}
    /\ UNCHANGED <<ledger, intent, pending, ready, prepared, row, spent, faults>>

CheckBalance(w) ==
    /\ At(w, "balance")
    /\ IF claim >= Gross[N(w)] THEN Goto(w, "take") ELSE Become(w, Idle)
    /\ UNCHANGED <<ledger, maps, row, spent, faults>>

\* The inventory is read again and the pending entry deleted.
Take(w) ==
    /\ At(w, "take")
    /\ IF reserve >= Net(N(w))
       THEN pending' = pending \ {worker[w].id} /\ Goto(w, "withdraw")
       ELSE Become(w, Idle) /\ UNCHANGED pending
    /\ UNCHANGED <<ledger, intent, challenges, ready, prepared, row, spent, faults>>

\* A transaction that may go through (`ok`, with effect `Do`), be mined
\* although its receipt is lost, revert, or never be sent.
Chain(w, ok, Do, next, Same) ==
    \/ ok /\ Do /\ Goto(w, next) /\ UNCHANGED faults
    \/ ok /\ Do /\ Goto(w, "failed") /\ Fault("lost")
    \/ ~ok /\ Same /\ Goto(w, "failed") /\ UNCHANGED faults
    \/ Same /\ Goto(w, "failed") /\ Fault("throw")

\* Vault.withdrawToExternal: claim and USDC move together or not at all.
Withdraw(w) ==
    /\ At(w, "withdraw")
    /\ Chain(w, claim >= Net(N(w)) /\ reserve >= Net(N(w)),
             /\ claim' = claim - Net(N(w))
             /\ reserve' = reserve - Net(N(w))
             /\ sent' = [sent EXCEPT ![worker[w].id] = @ + Net(N(w))],
             IF Fee(N(w)) > 0 THEN "debitFee" ELSE "executed",
             UNCHANGED <<claim, reserve, sent>>)
    /\ UNCHANGED <<fees, feeTaken, elsewhere, maps, row, spent>>

\* Mutant: a debit that reverts does not stop the credit.
DebitFeeSwallowed(w) ==
    /\ At(w, "debitFee")
    /\ claim' = IF claim >= Fee(N(w)) THEN claim - Fee(N(w)) ELSE claim
    /\ Goto(w, "creditFee")
    /\ UNCHANGED <<fees, reserve, sent, feeTaken, elsewhere, maps, row, spent, faults>>

\* Vault.adminDebit of the fee.
DebitFee(w) ==
    /\ At(w, "debitFee")
    /\ Chain(w, claim >= Fee(N(w)), claim' = claim - Fee(N(w)), "creditFee", UNCHANGED claim)
    /\ UNCHANGED <<fees, reserve, sent, feeTaken, elsewhere, maps, row, spent>>

\* Vault.adminCredit of the fee to the platform treasury.
CreditFee(w) ==
    /\ At(w, "creditFee")
    /\ Chain(w, TRUE,
             /\ fees' = fees + Fee(N(w))
             /\ feeTaken' = [feeTaken EXCEPT ![worker[w].id] = @ + Fee(N(w))],
             "executed", UNCHANGED <<fees, feeTaken>>)
    /\ UNCHANGED <<claim, reserve, sent, elsewhere, maps, row, spent>>

\* An UPDATE of the row; no effect when the INSERT was lost or the query fails.
SetStatus(i, s) ==
    \/ row' = [row EXCEPT ![i] = IF @ = "none" THEN @ ELSE s] /\ UNCHANGED faults
    \/ Fault("db") /\ UNCHANGED row

SetExecuted(w) ==
    /\ At(w, "executed")
    /\ SetStatus(worker[w].id, "executed")
    /\ Goto(w, "record")
    /\ UNCHANGED <<ledger, maps, spent>>

\* recordSpendEvent, whose failure is only logged.
RecordSpend(w) ==
    /\ At(w, "record")
    /\ \/ spent' = spent + LimitUnits(N(w)) /\ UNCHANGED faults
       \/ Fault("db") /\ UNCHANGED spent
    /\ Become(w, Idle)
    /\ UNCHANGED <<ledger, maps, row>>

\* Mutant: the error path leaves the row as it is.
FailSilently(w) ==
    /\ At(w, "failed")
    /\ Become(w, Idle)
    /\ UNCHANGED <<ledger, maps, row, spent, faults>>

SetFailed(w) ==
    /\ At(w, "failed")
    /\ SetStatus(worker[w].id, "failed")
    /\ Become(w, Idle)
    /\ UNCHANGED <<ledger, maps, spent>>

-----------------------------------------------------------------------------
(* What goes on around the handlers.                                       *)

\* A query or a chain read throws before anything was moved: the route answers 500.
ReadFails(w) ==
    /\ worker[w].pc \in {"kyc", "quote", "register", "verify", "balance", "take"}
    /\ Fault("throw")
    /\ Become(w, Idle)
    /\ UNCHANGED <<ledger, maps, row, spent>>

\* The pending entry, or the challenge, is five minutes old.
Expire ==
    /\ \/ \E i \in pending : pending' = pending \ {i} /\ UNCHANGED challenges
       \/ \E n \in challenges : challenges' = challenges \ {n} /\ UNCHANGED pending
    /\ UNCHANGED <<ledger, intent, ready, prepared, row, spent, worker, faults>>

\* convertUsdToFiat debits the same claim.
SpendElsewhere ==
    /\ claim > 0
    /\ claim' = claim - 1 /\ elsewhere' = elsewhere + 1
    /\ UNCHANGED <<fees, reserve, sent, feeTaken, maps, row, spent, worker, faults>>

\* The process restarts: handlers and both maps are gone, rows and chain remain.
Crash ==
    /\ Fault("crash")
    /\ worker' = [w \in Workers |-> Idle]
    /\ pending' = {} /\ challenges' = {}
    /\ UNCHANGED <<ledger, intent, ready, prepared, row, spent>>

Step(w) ==
    \/ CheckKyc(w) \/ Quote(w) \/ Register(w) \/ InsertRow(w)
    \/ Verify(w) \/ CheckBalance(w) \/ Take(w) \/ Withdraw(w) \/ DebitFee(w)
    \/ CreditFee(w) \/ SetExecuted(w) \/ RecordSpend(w) \/ SetFailed(w)

Next ==
    \/ \E w \in Workers : Step(w) \/ ReadFails(w)
    \/ \E w \in Workers, i \in Ids : Submit(w, i) \/ \E n \in Intents : Prepare(w, i, n)
    \/ Expire \/ SpendElsewhere \/ Crash

\* Node runs every handler that is not waiting.
FairSpec == Init /\ [][Next]_vars /\ \A w \in Workers : WF_vars(Step(w))

-----------------------------------------------------------------------------
Pcs == {"kyc", "quote", "register", "insert", "verify", "balance", "take",
        "withdraw", "debitFee", "creditFee", "executed", "record", "failed"}

\* Every variable holds a value of its type; nothing is overdrawn.
TypeOK ==
    /\ intent \in [Ids -> Intents \cup {NoIntent}]
    /\ claim \in Nat /\ fees \in Nat /\ reserve \in Nat /\ elsewhere \in Nat
    /\ sent \in [Ids -> Nat] /\ feeTaken \in [Ids -> Nat]
    /\ pending \subseteq Ids /\ ready \subseteq Ids /\ prepared \subseteq Ids
    /\ challenges \subseteq Intents
    /\ row \in [Ids -> {"none", "pending", "executed", "failed"}]
    /\ spent \in Nat
    /\ worker \in [Workers -> {Idle} \cup [pc : Pcs, id : Ids]]
    /\ faults \subseteq Faults

\* The fee is debited before it is credited: what left the consumer's claim
\* covers what was sent out and what the platform took, whatever fails, and
\* two submits overlapping or a conversion in between never create value.
NoValueCreated == TypeOK /\ claim + elsewhere + Total(sent) + fees <= Claim0

\* A registered challenge is good for one payment: for each intent no more is
\* sent than was prepared, however often the signed request is submitted, and
\* whether receipts are lost or the server restarts.  And a withdrawal shown as
\* executed has been sent net of the fee, and the fee collected (submitWithdrawal).
PaidPerPrepare ==
    /\ \A n \in Intents :
        LET ids == {i \in Ids : intent[i] = n} IN
        Total([i \in ids |-> sent[i]]) <= Net(n) * Cardinality(ids \cap prepared)
    /\ \A i \in Ids : row[i] = "executed" =>
        sent[i] >= Net(intent[i]) /\ feeTaken[i] >= Fee(intent[i])

\* A withdrawal whose money left ends up executed or failed in the history, also
\* when a transaction reverts or a receipt is lost on the way; only a restart or
\* a database error may leave it pending for ever.
SentIsShown ==
    \A i \in Ids :
        (sent[i] > 0)
           ~> (row[i] \in {"executed", "failed"} \/ faults \cap {"db", "crash"} # {})
=============================================================================
