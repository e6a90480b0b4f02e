----------------------------- MODULE Settlement -----------------------------
(***************************************************************************)
(* Merchant payouts: settlement.routes.ts, the operator's execute route in *)
(* admin.routes.ts and the treasury calls they make.  A member of the      *)
(* merchant's organisation requests a payout; an org_admin approves it; a  *)
(* merchant that settles on chain is then paid at once, one that settles   *)
(* in fiat when the platform operator executes the request: the merchant's *)
(* claim is debited and the treasury token behind it swept out of the      *)
(* Vault.  The member writes amount and currency: neither is checked but   *)
(* for being there.  The claim is debited in that currency; the sweep      *)
(* takes as many units of the treasury token of the merchant's country.    *)
(* Every `await` is a step; faults are those of EscrowClaims.              *)
(***************************************************************************)
EXTENDS ShareMath, Functions

CONSTANTS
    Requests,     \* settlement_requests rows
    Currencies,
    Local,        \* the currency of the merchant's country
    Amount,       \* Amount[r]: units requested, of any sign
    CurrencyOf,   \* CurrencyOf[r]: the currency requested
    Members,      \* members of the merchant's organisation
    Admins,       \* those with the role org_admin
    Workers,      \* handlers that may be in flight at the same time
    Claim0,       \* Claim0[c]: the merchant's unified balance at the start
    Others,       \* Others[c]: backing in the Vault for everybody else's claims
    Faults,       \* subset of {"throw", "lost", "crash"}
    MaxFaults     \* bound on the number of faults

ASSUME SettlementAssumption ==
    /\ IsFiniteSet(Requests) /\ IsFiniteSet(Workers)
    /\ Amount \in [Requests -> Int] /\ CurrencyOf \in [Requests -> Currencies]
    /\ Local \in Currencies /\ Admins \subseteq Members
    /\ Claim0 \in [Currencies -> Nat] /\ Others \in [Currencies -> Nat]
    /\ Faults \subseteq {"throw", "lost", "crash"} /\ MaxFaults \in Nat

VARIABLES
    claim,      \* the merchant's unified balance in each currency
    reserve,    \* backing of each currency held by the Vault
    out,        \* backing that left the Vault for each request
    row,        \* status, requested_by, approved_by of each request
    onchain,    \* settlement_type = 'ONCHAIN'
    worker,     \* the handler each worker runs
    faults,
    disturbed   \* history: requests that two handlers held at once or a fault hit

vars == <<claim, reserve, out, row, onchain, worker, faults, disturbed>>
ledger == <<claim, reserve, out>>

NoOne == "nobody"
Idle == [pc |-> "idle"]
\* guarded: the handler's error path only turns 'approved' into 'failed'.
Job(pc, r, m, guarded) == [pc |-> pc, req |-> r, by |-> m, guarded |-> guarded]

Init ==
    /\ claim = Claim0
    /\ reserve = [c \in Currencies |-> Claim0[c] + Others[c]]
    /\ out = [r \in Requests |-> 0]
    /\ row = [r \in Requests |-> [status |-> "none", requested |-> NoOne, approved |-> NoOne]]
    /\ worker = [w \in Workers |-> Idle]
    /\ onchain \in BOOLEAN
    /\ faults = 0 /\ disturbed = {}

Fault(kind) == kind \in Faults /\ faults < MaxFaults /\ faults' = faults + 1
Become(w, job) == worker' = [worker EXCEPT ![w] = job]
Goto(w, pc) == worker' = [worker EXCEPT ![w].pc = pc]

-----------------------------------------------------------------------------
(* The request, approve, reject and execute routes.                        *)

\* An org_admin's own request is approved as it is made; the threshold is not read.
Request(w, m, r) ==
    /\ worker[w] = Idle /\ row[r].status = "none"
    /\ row' = [row EXCEPT ![r] =
          IF m \in Admins THEN [status |-> "approved", requested |-> m, approved |-> m]
                          ELSE [status |-> "pending", requested |-> m, approved |-> NoOne]]
    /\ Become(w, IF m \in Admins /\ onchain THEN Job("balance", r, m, FALSE) ELSE Idle)
    /\ UNCHANGED <<ledger, faults>>

\* The SELECT of the approve route ...
Approve(w, m, r) ==
    /\ worker[w] = Idle /\ m \in Admins /\ row[r].status = "pending"
    /\ Become(w, Job("approve", r, m, FALSE))
    /\ UNCHANGED <<ledger, row, faults>>

\* ... and its UPDATE, which does not look at the status again.
SetApproved(w) ==
    /\ worker[w].pc = "approve"
    /\ row' = [row EXCEPT ![worker[w].req].status = "approved",
                          ![worker[w].req].approved = worker[w].by]
    /\ IF onchain THEN Goto(w, "balance") ELSE Become(w, Idle)
    /\ UNCHANGED <<ledger, faults>>

\* One guarded UPDATE.
Reject(m, r) ==
    /\ m \in Admins /\ row[r].status = "pending"
    /\ row' = [row EXCEPT ![r].status = "rejected", ![r].approved = m]
    /\ UNCHANGED <<ledger, worker, faults>>

\* The operator's route takes approved requests and, again, failed ones.
Execute(w, r) ==
    /\ worker[w] = Idle /\ row[r].status \in {"approved", "failed"}
    /\ Become(w, Job(IF row[r].status = "failed" THEN "revive" ELSE "balance", r, NoOne, TRUE))
    /\ UNCHANGED <<ledger, row, faults>>

Revive(w) ==
    /\ worker[w].pc = "revive"
    /\ row' = [row EXCEPT ![worker[w].req].status = "approved"]
    /\ Goto(w, "balance")
    /\ UNCHANGED <<ledger, faults>>

-----------------------------------------------------------------------------
(* executeSettlement.                                                      *)

\* Amounts are uint256: a payment of nothing reverts, a negative one is not encoded.
Covers(f, c, a) == a > 0 /\ f[c] >= a
Take(f, c, a) == [f EXCEPT ![c] = @ - a]
Pay(r) == out' = [out EXCEPT ![r] = @ + Amount[r]]

CheckBalance(w) ==
    /\ worker[w].pc = "balance"
    /\ LET r == worker[w].req IN
       Goto(w, IF claim[CurrencyOf[r]] < Amount[r] THEN "fail"
               ELSE IF onchain THEN "withdraw" ELSE "debit")
    /\ UNCHANGED <<ledger, row, faults>>

\* Mutant: the reserve is swept before the claim is debited.
SweepFirst(w) ==
    /\ worker[w].pc = "debit"
    /\ LET r == worker[w].req IN
       /\ Covers(reserve, Local, Amount[r])
       /\ reserve' = Take(reserve, Local, Amount[r]) /\ Pay(r)
       /\ IF Covers(claim, CurrencyOf[r], Amount[r])
          THEN claim' = Take(claim, CurrencyOf[r], Amount[r]) /\ Goto(w, "done")
          ELSE UNCHANGED claim /\ Goto(w, "fail")
    /\ UNCHANGED <<row, faults>>

\* Vault.adminDebit reverts when the claim has become too small.
DebitClaim(w) ==
    /\ worker[w].pc = "debit"
    /\ LET r == worker[w].req
           covered == Covers(claim, CurrencyOf[r], Amount[r])
       IN
       \/ /\ covered /\ claim' = Take(claim, CurrencyOf[r], Amount[r])
          /\ \/ Goto(w, "sweep") /\ UNCHANGED faults
             \/ Fault("lost") /\ Goto(w, "fail")
       \/ ~covered /\ Goto(w, "fail") /\ UNCHANGED <<claim, faults>>
       \/ Fault("throw") /\ Goto(w, "fail") /\ UNCHANGED claim
    /\ UNCHANGED <<reserve, out, row>>

\* sweepTreasuryFromVault: forcedTransfer of the country's treasury token, whatever
\* the request's currency.
SweepReserve(w) ==
    /\ worker[w].pc = "sweep"
    /\ LET r == worker[w].req
           covered == Covers(reserve, Local, Amount[r])
       IN
       \/ /\ covered /\ reserve' = Take(reserve, Local, Amount[r]) /\ Pay(r)
          /\ \/ Goto(w, "done") /\ UNCHANGED faults
             \/ Fault("lost") /\ Goto(w, "fail")
       \/ ~covered /\ Goto(w, "fail") /\ UNCHANGED <<reserve, out, faults>>
       \/ Fault("throw") /\ Goto(w, "fail") /\ UNCHANGED <<reserve, out>>
    /\ UNCHANGED <<claim, row>>

\* Vault.withdrawToExternal debits the claim and pushes its token out at once.
Withdraw(w) ==
    /\ worker[w].pc = "withdraw"
    /\ LET r == worker[w].req
           c == CurrencyOf[r]
           covered == Covers(claim, c, Amount[r]) /\ Covers(reserve, c, Amount[r])
       IN
       \/ /\ covered /\ Pay(r)
          /\ claim' = Take(claim, c, Amount[r]) /\ reserve' = Take(reserve, c, Amount[r])
          /\ \/ Goto(w, "done") /\ UNCHANGED faults
             \/ Fault("lost") /\ Goto(w, "fail")
       \/ ~covered /\ Goto(w, "fail") /\ UNCHANGED <<ledger, faults>>
       \/ Fault("throw") /\ Goto(w, "fail") /\ UNCHANGED ledger
    /\ UNCHANGED row

SetExecuted(w) ==
    /\ worker[w].pc = "done"
    /\ \/ /\ row' = [row EXCEPT ![worker[w].req].status = "executed"]
          /\ Become(w, Idle)
          /\ UNCHANGED faults
       \/ Fault("throw") /\ Goto(w, "fail") /\ UNCHANGED row
    /\ UNCHANGED ledger

SetFailed(w) ==
    /\ worker[w].pc = "fail"
    /\ LET r == worker[w].req IN
       row' = IF worker[w].guarded /\ row[r].status # "approved" THEN row
              ELSE [row EXCEPT ![r].status = "failed"]
    /\ Become(w, Idle)
    /\ UNCHANGED <<ledger, faults>>

\* What requests ask for, as SUM(amount) has it: a negative one counts against the rest.
Positive(a) == IF a > 0 THEN a ELSE 0
Asked(S) == Total([r \in S |-> Positive(Amount[r])]) - Total([r \in S |-> Positive(-Amount[r])])
MadeIn(c) == {r \in Requests : CurrencyOf[r] = c}

\* GET /settlement/balance, of a merchant that settles in c: what is left to settle.
PendingSettlement(c) == {r \in MadeIn(c) : row[r].status \in {"pending", "approved", "failed"}}
Available(c) == Positive(claim[c] - Asked(PendingSettlement(c)))

Crash ==
    /\ Fault("crash")
    /\ worker' = [w \in Workers |-> Idle]
    /\ UNCHANGED <<ledger, row>>

Step(w) ==
    \/ SetApproved(w) \/ Revive(w) \/ CheckBalance(w) \/ DebitClaim(w)
    \/ SweepReserve(w) \/ Withdraw(w) \/ SetExecuted(w) \/ SetFailed(w)

Routes ==
    \/ \E w \in Workers, r \in Requests :
          \/ \E m \in Members : Request(w, m, r) \/ Approve(w, m, r)
          \/ Execute(w, r)
    \/ \E m \in Members, r \in Requests : Reject(m, r)
    \/ \E w \in Workers : Step(w)
    \/ Crash

\* History.
InHand(w)  == IF worker[w] = Idle THEN {} ELSE {worker[w].req}
Overlapped == {r \in Requests : \E w, v \in Workers : w # v /\ r \in InHand(w) /\ r \in InHand(v)}
Hit        == IF faults' = faults THEN {}
              ELSE UNION {InHand(w) : w \in {v \in Workers : worker'[v] # worker[v]}}

Trace == disturbed' = disturbed \cup Overlapped' \cup Hit /\ UNCHANGED onchain

Next == Routes /\ Trace

Spec == Init /\ [][Next]_vars

-----------------------------------------------------------------------------
Status == {"none", "pending", "approved", "rejected", "executed", "failed"}
JobType == {Idle} \cup
    [pc : {"approve", "revive", "balance", "debit", "sweep", "withdraw", "done", "fail"},
     req : Requests, by : Members \cup {NoOne}, guarded : BOOLEAN]

\* Every variable holds a value of its type; no account is overdrawn.
TypeOK ==
    /\ claim \in [Currencies -> Nat] /\ reserve \in [Currencies -> Nat]
    /\ out \in [Requests -> Nat]
    /\ row \in [Requests -> [status : Status, requested : Members \cup {NoOne},
                             approved : Members \cup {NoOne}]]
    /\ worker \in [Workers -> JobType]
    /\ faults \in 0..MaxFaults

\* Where the backing of a payout is taken from, and what left the backing of c for
\* requests made in another currency.
Source(r) == IF onchain THEN CurrencyOf[r] ELSE Local
Diverted(c) == Total(Restrict(out, {r \in Requests : Source(r) = c} \ MadeIn(c)))

\* What open and executed requests in c ask for.
Taken(c) == {r \in MadeIn(c) : row[r].status \notin {"none", "rejected"}}

\* executeSettlement debits first: no account is overdrawn, and the backing left in
\* the Vault covers the merchant's claim and everybody else's in every currency,
\* whatever fails or overlaps, but for what a merchant paid by bank was paid for
\* requests in a currency other than its country's: that much of the country's
\* backing is gone and no more.  What the balance page calls available never counts a
\* unit that an open or executed request has asked for already, a negative request
\* counting as what it takes off the sum of the page.
BackingHolds ==
    /\ TypeOK
    /\ \A c \in Currencies :
          /\ reserve[c] + Diverted(c) >= claim[c] + Others[c]
          /\ Available(c) > 0 => Available(c) + Asked(Taken(c)) <= Claim0[c]

\* The table and the payouts agree: a request shown as executed asked for something
\* and has been paid in full (executeSettlement), nothing leaves the Vault for a
\* request that no org_admin approved or that stands rejected, whatever fails or
\* overlaps; and a request that no two handlers worked on at once and no fault hit is
\* paid once, however often it fails and is executed again.
PaidOnce ==
    /\ \A r \in Requests : /\ row[r].status = "executed" => out[r] > 0 /\ out[r] >= Amount[r]
                           /\ out[r] > 0 => row[r].approved \in Admins
                           /\ row[r].status = "rejected" => out[r] = 0
    /\ \A r \in Requests \ disturbed : out[r] <= Positive(Amount[r])
=============================================================================
