------------------------- MODULE Settlement_proofs -------------------------
(***************************************************************************)
(* Proofs about merchant payouts for any requests, amounts, members and    *)
(* number of handlers in flight, and any number of faults: the backing in  *)
(* the Vault covers every claim, and the table agrees with the payouts;    *)
(* and pressed from the pages, a payout is what its page said.  Then about *)
(* a merchant's shop, for any supplier, products, stores, prices and       *)
(* overlapping syncs: the catalogue follows the supplier's list, and what  *)
(* the till asks for and gives as change keeps to the limits.  Last, about *)
(* a merchant's organisation: for any people, wallets and number of seats, *)
(* its seats stay apart and an answered registration is usable.            *)
(***************************************************************************)
EXTENDS PayoutPages, MerchantOrg, Till, ShareMath_proofs

Pcs == {"approve", "revive", "balance", "debit", "sweep", "withdraw", "done", "fail"}
Handling == [pc : Pcs, req : Requests, by : Members \cup {NoOne}, guarded : BOOLEAN]
RowType == [status : Status, requested : Members \cup {NoOne}, approved : Members \cup {NoOne}]

(***************************************************************************)
(*                       The inductive invariant                           *)
(***************************************************************************)

\* Debited from the claim in c and not yet swept, per handler.
Flight(c) == [w \in Workers |-> IF worker[w].pc = "sweep" /\ worker[w].req \in MadeIn(c)
                                THEN Positive(Amount[worker[w].req]) ELSE 0]

\* What left for the requests A, and the requests paid from the backing of c.
Paid(o, A) == Total([r \in A |-> o[r]])
DrawnOn(c) == {r \in Requests : Source(r) = c}

\* Every unit that left for a request in c, or is about to, was debited in c first,
\* and the backing of c lost no more than what the payouts took from it.
MoneyIn(c) ==
    /\ reserve[c] + Paid(out, DrawnOn(c)) = Claim0[c] + Others[c]
    /\ claim[c] + Paid(out, MadeIn(c)) + Total(Flight(c)) <= Claim0[c]

MoneyInv == \A c \in Currencies : MoneyIn(c)

Good == {"approved", "executed", "failed"}

\* A row that is not approved yet, or never will be, has been paid nothing.
RowOk(r) ==
    /\ row[r].status \in {"none", "pending", "rejected"} => out[r] = 0
    /\ row[r].status = "executed" => out[r] > 0 /\ out[r] >= Amount[r]
    /\ row[r].status \in Good => row[r].approved \in Admins

RowInv == \A r \in Requests : RowOk(r)

\* A handler past the approval works on an approved row and on the merchant's rail,
\* and one about to record the payout has made it.
JobOk(w) ==
    worker[w].pc # "idle" =>
       /\ row[worker[w].req].status # "none"
       /\ worker[w].pc = "approve" => worker[w].by \in Admins
       /\ worker[w].pc # "approve" => row[worker[w].req].status \in Good
       /\ worker[w].pc = "done" => out[worker[w].req] > 0 /\ out[worker[w].req] >= Amount[worker[w].req]
       /\ worker[w].pc \in {"debit", "sweep"} => ~onchain
       /\ worker[w].pc = "withdraw" => onchain

JobInv == \A w \in Workers : JobOk(w)

Holds(w, r) == worker[w].pc # "idle" /\ worker[w].req = r

\* One handler at most works on r.
Alone(r) == \A w, v \in Workers : Holds(w, r) /\ Holds(v, r) => w = v

\* Once r is paid its handler is about to record it, or has recorded it and is gone.
Settled(r) ==
    \/ out[r] = 0
    \/ /\ out[r] = Amount[r] /\ row[r].status = "executed"
       /\ \A w \in Workers : ~Holds(w, r)
    \/ /\ out[r] = Amount[r]
       /\ \E w \in Workers : Holds(w, r) /\ worker[w].pc = "done"

SingleInv == \A r \in Requests \ disturbed : Alone(r) /\ Settled(r)

Inv == /\ TypeOK /\ onchain \in BOOLEAN
       /\ MoneyInv /\ RowInv /\ JobInv /\ SingleInv

(***************************************************************************)
(*                             Handlers                                    *)
(***************************************************************************)

\* A handler that is not idle has a job.
LEMMA BusyWorker ==
    ASSUME TypeOK, NEW w \in Workers
    PROVE  /\ worker[w] = Idle \/ worker[w] \in Handling
           /\ worker[w] = Idle <=> worker[w].pc = "idle"
           /\ worker[w].pc # "idle" => /\ worker[w] \in Handling /\ worker[w].pc \in Pcs
                                       /\ worker[w].req \in Requests
                                       /\ worker[w].by \in Members \cup {NoOne}
                                       /\ worker[w].guarded \in BOOLEAN
                                       /\ Amount[worker[w].req] \in Int
  <1>1. worker[w] \in JobType
    BY DEF TypeOK
  <1>2. worker[w] = Idle \/ worker[w] \in Handling
    BY <1>1 DEF JobType, Handling, Pcs
  <1>3. Idle.pc = "idle"
    BY DEF Idle
  <1>4. ASSUME worker[w] \in Handling
        PROVE  /\ worker[w].pc \in Pcs /\ worker[w].req \in Requests /\ worker[w].pc # "idle"
               /\ worker[w].by \in Members \cup {NoOne} /\ worker[w].guarded \in BOOLEAN
    BY <1>4 DEF Handling, Pcs
  <1>5. QED
    BY <1>2, <1>3, <1>4, SettlementAssumption

\* Moving a handler on changes its program counter only.
LEMMA GotoWorker ==
    ASSUME TypeOK, NEW w \in Workers, worker[w].pc # "idle", NEW p \in Pcs, Goto(w, p)
    PROVE  /\ worker' \in [Workers -> JobType]
           /\ worker'[w] \in Handling
           /\ worker'[w].pc = p /\ worker'[w].req = worker[w].req
           /\ worker'[w].by = worker[w].by /\ worker'[w].guarded = worker[w].guarded
           /\ \A v \in Workers : v # w => worker'[v] = worker[v]
  <1>1. worker \in [Workers -> JobType]
    BY DEF TypeOK
  <1>2. PICK j \in Handling : j = worker[w]
    BY BusyWorker
  <1>3. PICK k : k = [j EXCEPT !.pc = p]
    OBVIOUS
  <1>4. worker' = [worker EXCEPT ![w] = k]
    BY <1>1, <1>2, <1>3 DEF Goto
  <1>5. k = [pc |-> p, req |-> j.req, by |-> j.by, guarded |-> j.guarded]
    BY <1>3, Zenon DEF Handling
  <1>6. /\ k.pc = p /\ k.req = j.req /\ k.by = j.by /\ k.guarded = j.guarded
        /\ k \in Handling
    BY <1>5 DEF Handling
  <1>7. k \in JobType
    BY <1>6 DEF Handling, JobType, Pcs
  <1>8. worker'[w] = k
    BY <1>1, <1>4
  <1>9. QED
    BY <1>1, <1>2, <1>4, <1>6, <1>7, <1>8

\* Giving a handler a job, or none.
LEMMA BecomeWorker ==
    ASSUME TypeOK, NEW w \in Workers, NEW j \in JobType, Become(w, j)
    PROVE  /\ worker' \in [Workers -> JobType]
           /\ worker'[w] = j
           /\ \A v \in Workers : v # w => worker'[v] = worker[v]
  BY DEF TypeOK, Become

\* Being idle.
LEMMA IdleParts == Idle \in JobType /\ Idle.pc = "idle"
  BY DEF Idle, JobType

\* What a request may become.
LEMMA RowExcept ==
    ASSUME row \in [Requests -> RowType], NEW r \in Requests, NEW s \in Status,
           row' = [row EXCEPT ![r].status = s]
    PROVE  /\ row' \in [Requests -> RowType]
           /\ row'[r].status = s /\ row'[r].approved = row[r].approved
           /\ \A q \in Requests : q # r => row'[q] = row[q]
  BY DEF RowType

\* The same, with the approver.
LEMMA RowApproved ==
    ASSUME row \in [Requests -> RowType], NEW r \in Requests, NEW s \in Status, NEW m \in Members,
           row' = [row EXCEPT ![r].status = s, ![r].approved = m]
    PROVE  /\ row' \in [Requests -> RowType]
           /\ row'[r].status = s /\ row'[r].approved = m
           /\ \A q \in Requests : q # r => row'[q] = row[q]
  BY DEF RowType
(***************************************************************************)
(* Frames.  A step is that of one handler w, or of nobody, on one request q.*)
(***************************************************************************)

\* Rows other than q's stay as they are.
LEMMA RowsKept ==
    ASSUME RowInv, NEW q \in Requests, RowOk(q)',
           \A r \in Requests : r # q => row'[r] = row[r] /\ out'[r] = out[r]
    PROVE  RowInv'
  BY DEF RowInv, RowOk

\* Other handlers keep a row they can work on.
LEMMA JobsKept ==
    ASSUME TypeOK, JobInv, onchain' = onchain, NEW w, w \in Workers => JobOk(w)',
           out' \in [Requests -> Nat],
           \A v \in Workers : v # w => worker'[v] = worker[v],
           \A r \in Requests : /\ out'[r] >= out[r]
                               /\ row[r].status # "none" => row'[r].status # "none"
                               /\ row[r].status \in Good => row'[r].status \in Good
    PROVE  JobInv'
  <1> SUFFICES ASSUME NEW v \in Workers, v # w
               PROVE  JobOk(v)'
    BY DEF JobInv
  <1>1. JobOk(v) /\ worker'[v] = worker[v]
    BY DEF JobInv
  <1>2. CASE worker[v].pc = "idle"
    BY <1>1, <1>2 DEF JobOk
  <1>3. CASE worker[v].pc # "idle"
    <2>1. worker[v].req \in Requests /\ Amount[worker[v].req] \in Int
      BY <1>3, BusyWorker
    <2>2. out[worker[v].req] \in Nat /\ out'[worker[v].req] \in Nat
      BY <2>1 DEF TypeOK
    <2>3. QED
      BY <1>1, <1>3, <2>1, <2>2 DEF JobOk
  <1>4. QED
    BY <1>2, <1>3

\* An undisturbed request has one handler, by the definition of the history.
LEMMA AloneNext ==
    ASSUME worker' \in [Workers -> JobType], Trace, NEW r \in Requests, r \notin disturbed'
    PROVE  Alone(r)'
  <1> SUFFICES ASSUME NEW w \in Workers, NEW v \in Workers, Holds(w, r)', Holds(v, r)', w # v
               PROVE  FALSE
    BY DEF Alone
  <1>1. worker'[w] # Idle /\ worker'[v] # Idle /\ worker'[w].req = r /\ worker'[v].req = r
    BY IdleParts DEF Holds
  <1>2. r \in InHand(w)' /\ r \in InHand(v)'
    BY <1>1 DEF InHand
  <1>3. r \in Overlapped'
    BY <1>2 DEF Overlapped
  <1>4. QED
    BY <1>3 DEF Trace

\* A fault disturbs the request of the handler it moves.
LEMMA FaultHits ==
    ASSUME TypeOK, Trace, NEW w \in Workers, worker[w].pc # "idle",
           worker'[w] # worker[w], faults' # faults
    PROVE  worker[w].req \in disturbed'
  <1>1. worker[w] # Idle
    BY BusyWorker
  <1>2. worker[w].req \in InHand(w)
    BY <1>1 DEF InHand
  <1>3. worker[w].req \in Hit
    BY <1>2 DEF Hit
  <1>4. QED
    BY <1>3 DEF Trace

\* Requests other than q stay settled or unpaid.
LEMMA SinglesKept ==
    ASSUME SingleInv, Trace, worker' \in [Workers -> JobType],
           NEW w, NEW q \in Requests,
           q \notin disturbed' => Settled(q)',
           \A v \in Workers : v # w => worker'[v] = worker[v],
           w \in Workers => /\ \A r \in Requests : Holds(w, r) => r = q
                            /\ \A r \in Requests : Holds(w, r)' => r = q,
           \A r \in Requests : r # q => row'[r] = row[r] /\ out'[r] = out[r]
    PROVE  SingleInv'
  <1> SUFFICES ASSUME NEW r \in Requests, r \notin disturbed'
               PROVE  Alone(r)' /\ Settled(r)'
    BY DEF SingleInv
  <1>1. Alone(r)'
    BY AloneNext
  <1>2. r \notin disturbed
    BY DEF Trace
  <1>3. CASE r = q
    BY <1>1, <1>3
  <1>4. CASE r # q
    <2>1. Settled(r) /\ row'[r] = row[r] /\ out'[r] = out[r]
      BY <1>2, <1>4 DEF SingleInv
    <2>2. \A v \in Workers : \/ worker'[v] = worker[v]
                             \/ ~Holds(v, r) /\ ~Holds(v, r)'
      BY <1>4
    <2>3. \A v \in Workers : /\ Holds(v, r)' <=> Holds(v, r)
                             /\ Holds(v, r) => worker'[v].pc = worker[v].pc
      BY <2>2 DEF Holds
    <2>4. CASE out[r] = 0
      BY <1>1, <2>1, <2>4 DEF Settled
    <2>5. CASE /\ out[r] = Amount[r] /\ row[r].status = "executed"
               /\ \A v \in Workers : ~Holds(v, r)
      BY <1>1, <2>1, <2>3, <2>5 DEF Settled
    <2>6. CASE /\ out[r] = Amount[r]
               /\ \E v \in Workers : Holds(v, r) /\ worker[v].pc = "done"
      BY <1>1, <2>1, <2>3, <2>6 DEF Settled
    <2>7. QED
      BY <2>1, <2>4, <2>5, <2>6 DEF Settled
  <1>5. QED
    BY <1>1, <1>3, <1>4

\* A handler that has not paid its undisturbed request finds it unpaid.
LEMMA NotPaid ==
    ASSUME SingleInv, NEW w \in Workers, NEW r \in Requests \ disturbed,
           Holds(w, r), worker[w].pc # "done"
    PROVE  out[r] = 0
  BY DEF SingleInv, Alone, Settled

(***************************************************************************)
(*                                Money                                    *)
(***************************************************************************)

\* What counts of an amount is a natural number.
LEMMA PositiveType == \A a \in Int : Positive(a) \in Nat /\ (a > 0 => Positive(a) = a)
  BY DEF Positive

\* What is in flight is a number for each handler.
LEMMA FlightType ==
    ASSUME worker \in [Workers -> JobType], NEW c
    PROVE  Flight(c) \in [Workers -> Nat]
  <1> SUFFICES ASSUME NEW w \in Workers, worker[w].req \in MadeIn(c)
               PROVE  Positive(Amount[worker[w].req]) \in Nat
    BY DEF Flight
  <1>1. worker[w].req \in Requests
    BY DEF MadeIn
  <1>2. QED
    BY <1>1, PositiveType, SettlementAssumption

\* Only the handler that moves changes what is in flight.
LEMMA FlightMoves ==
    ASSUME TypeOK, NEW c, worker' \in [Workers -> JobType], NEW w \in Workers,
           \A v \in Workers : v # w => worker'[v] = worker[v]
    PROVE  /\ Total(Flight(c)) \in Nat /\ Total(Flight(c)') \in Nat
           /\ Flight(c)[w] \in Nat /\ Flight(c)'[w] \in Nat
           /\ Total(Flight(c)') = Total(Flight(c)) - Flight(c)[w] + Flight(c)'[w]
  <1>1. Flight(c) \in [Workers -> Nat] /\ IsFiniteSet(Workers)
    BY FlightType, SettlementAssumption DEF TypeOK
  <1>2. Flight(c)' \in [Workers -> Nat]
    <2> SUFFICES ASSUME NEW v \in Workers, worker'[v].req \in MadeIn(c)
                 PROVE  Positive(Amount[worker'[v].req]) \in Nat
      BY DEF Flight, MadeIn
    <2>1. worker'[v].req \in Requests
      BY DEF MadeIn
    <2>2. QED
      BY <2>1, PositiveType, SettlementAssumption
  <1>3. \A v \in Workers : v # w => Flight(c)'[v] = Flight(c)[v]
    BY DEF Flight, MadeIn
  <1>4. PICK f \in [Workers -> Nat], g \in [Workers -> Nat] : f = Flight(c) /\ g = Flight(c)'
    BY <1>1, <1>2
  <1>5. \A v \in Workers : v # w => g[v] = f[v]
    BY <1>3, <1>4
  <1>6. /\ Total(f) \in Nat /\ Total(g) \in Nat /\ f[w] \in Nat /\ g[w] \in Nat
        /\ Total(g) = Total(f) - f[w] + g[w]
    BY <1>1, <1>5, TotalChange
  <1>7. QED
    BY <1>4, <1>6

\* What left for some requests is a number.
LEMMA PaidType ==
    ASSUME NEW o \in [Requests -> Nat], NEW A \in SUBSET Requests
    PROVE  Paid(o, A) \in Nat
  <1>1. IsFiniteSet(A)
    BY FS_Subset, SettlementAssumption
  <1>2. PICK f \in [A -> Nat] : f = [r \in A |-> o[r]]
    OBVIOUS
  <1>3. QED
    BY <1>1, <1>2, TotalType DEF Paid

\* Paying a request adds to the backing that left, where the request counts.
LEMMA PayOut ==
    ASSUME out \in [Requests -> Nat], NEW r \in Requests, Amount[r] \in Nat, Pay(r)
    PROVE  /\ out' \in [Requests -> Nat] /\ out'[r] = out[r] + Amount[r]
           /\ \A q \in Requests : q # r => out'[q] = out[q]
           /\ \A A \in SUBSET Requests :
                 /\ Paid(out, A) \in Nat /\ Paid(out', A) \in Nat
                 /\ r \in A => Paid(out', A) = Paid(out, A) + Amount[r]
                 /\ r \notin A => Paid(out', A) = Paid(out, A)
  <1>1. PICK n \in Nat : n = out[r] + Amount[r]
    OBVIOUS
  <1>2. out' = [out EXCEPT ![r] = n]
    BY <1>1 DEF Pay
  <1>3. /\ out' \in [Requests -> Nat] /\ out'[r] = n
        /\ \A q \in Requests : q # r => out'[q] = out[q]
    BY <1>2
  <1>4. ASSUME NEW A \in SUBSET Requests
        PROVE  /\ Paid(out, A) \in Nat /\ Paid(out', A) \in Nat
               /\ r \in A => Paid(out', A) = Paid(out, A) + Amount[r]
               /\ r \notin A => Paid(out', A) = Paid(out, A)
    <2>1. PICK f \in [A -> Nat], g \in [A -> Nat] : f = [q \in A |-> out[q]] /\ g = [q \in A |-> out'[q]]
      BY <1>3
    <2>2. /\ \A q \in A : q # r => g[q] = f[q]
          /\ r \in A => f[r] = out[r] /\ g[r] = n
          /\ r \notin A => g = f
      BY <1>3, <2>1
    <2>3. IsFiniteSet(A)
      BY FS_Subset, SettlementAssumption
    <2>4. Total(f) \in Nat /\ Total(g) \in Nat
      BY <2>3, TotalType
    <2>5. ASSUME r \in A
          PROVE  Total(g) = Total(f) + Amount[r]
      <3>1. Total(g) = Total(f) - f[r] + g[r]
        BY <2>2, <2>3, <2>5, TotalChange
      <3>2. out[r] \in Nat
        OBVIOUS
      <3>3. QED
        BY <1>1, <2>2, <2>4, <2>5, <3>1, <3>2
    <2>6. QED
      BY <2>1, <2>2, <2>4, <2>5 DEF Paid
  <1>5. QED
    BY <1>1, <1>3, <1>4

\* What a request asks for, and in which currency.
LEMMA Terms ==
    ASSUME NEW r \in Requests
    PROVE  Amount[r] \in Int /\ CurrencyOf[r] \in Currencies
  <1>1. Amount[r] \in Int
    BY SettlementAssumption
  <1>2. CurrencyOf[r] \in Currencies
    BY SettlementAssumption
  <1>3. QED
    BY <1>1, <1>2

\* Taking what is there leaves a balance.
LEMMA TakeFrom ==
    ASSUME NEW f \in [Currencies -> Nat], NEW c \in Currencies, NEW a \in Int, Covers(f, c, a)
    PROVE  /\ Take(f, c, a) \in [Currencies -> Nat] /\ a \in Nat /\ a > 0
           /\ Take(f, c, a)[c] = f[c] - a
           /\ \A d \in Currencies : d # c => Take(f, c, a)[d] = f[d]
  <1>1. f[c] \in Nat /\ f[c] >= a /\ a > 0
    BY DEF Covers
  <1>2. PICK n \in Nat : n = f[c] - a
    BY <1>1
  <1>3. Take(f, c, a) = [f EXCEPT ![c] = n]
    BY <1>2 DEF Take
  <1>4. QED
    BY <1>1, <1>2, <1>3

\* The requests that count for a currency are requests; the rail does not change.
LEMMA CountedRequests ==
    ASSUME NEW c
    PROVE  /\ MadeIn(c) \in SUBSET Requests /\ DrawnOn(c) \in SUBSET Requests
           /\ onchain' = onchain => DrawnOn(c)' = DrawnOn(c)
  BY DEF MadeIn, DrawnOn, Source

\* A step that leaves the ledger alone and does not go to the sweep.
LEMMA MoneyStill ==
    ASSUME TypeOK, MoneyInv, Trace, worker' \in [Workers -> JobType], NEW w \in Workers,
           \A v \in Workers : v # w => worker'[v] = worker[v],
           worker'[w].pc # "sweep", UNCHANGED ledger
    PROVE  MoneyInv'
  <1> SUFFICES ASSUME NEW c \in Currencies
               PROVE  MoneyIn(c)'
    BY DEF MoneyInv
  <1>1. Flight(c)'[w] = 0
    BY DEF Flight
  <1>2. claim' = claim /\ reserve' = reserve /\ out' = out /\ onchain' = onchain
    BY DEF ledger, Trace
  <1>3. Paid(out, MadeIn(c)) \in Nat /\ claim[c] \in Nat /\ Claim0[c] \in Nat
    BY PaidType, CountedRequests, SettlementAssumption DEF TypeOK
  <1>4. /\ Total(Flight(c)) \in Nat /\ Total(Flight(c)') \in Nat /\ Flight(c)[w] \in Nat
        /\ Total(Flight(c)') = Total(Flight(c)) - Flight(c)[w] + Flight(c)'[w]
    BY FlightMoves
  <1>5. MoneyIn(c)
    BY DEF MoneyInv
  <1>6. claim[c] + Paid(out, MadeIn(c)) + Total(Flight(c)') <= Claim0[c]
    BY <1>1, <1>3, <1>4, <1>5 DEF MoneyIn
  <1>7. DrawnOn(c)' = DrawnOn(c)
    BY <1>2, CountedRequests
  <1>8. QED
    BY <1>2, <1>5, <1>6, <1>7 DEF MoneyIn

\* A fault is counted within its bound.
LEMMA FaultType ==
    ASSUME TypeOK, faults' = faults \/ \E kind \in {"throw", "lost", "crash"} : Fault(kind)
    PROVE  faults' \in 0..MaxFaults
  BY SettlementAssumption DEF TypeOK, Fault

(***************************************************************************)
(* The invariant holds after a step of handler w on request q that keeps   *)
(* its parts for w and q.                                                  *)
(***************************************************************************)
LEMMA Kept ==
    ASSUME Inv, Trace, NEW w \in Workers, NEW q \in Requests,
           worker' \in [Workers -> JobType], row' \in [Requests -> RowType],
           out' \in [Requests -> Nat], claim' \in [Currencies -> Nat],
           reserve' \in [Currencies -> Nat], faults' \in 0..MaxFaults,
           \A v \in Workers : v # w => worker'[v] = worker[v],
           \A r \in Requests : r # q => row'[r] = row[r] /\ out'[r] = out[r],
           worker[w].pc # "idle" => worker[w].req = q,
           worker'[w].pc # "idle" => worker'[w].req = q,
           out'[q] >= out[q],
           row[q].status # "none" => row'[q].status # "none",
           row[q].status \in Good => row'[q].status \in Good,
           MoneyInv', RowOk(q)', JobOk(w)', q \notin disturbed' => Settled(q)'
    PROVE  Inv'
  <1>1. TypeOK'
    BY DEF TypeOK, RowType
  <1>2. RowInv'
    BY RowsKept DEF Inv
  <1>3. \A r \in Requests : /\ out'[r] >= out[r]
                            /\ row[r].status # "none" => row'[r].status # "none"
                            /\ row[r].status \in Good => row'[r].status \in Good
    <2> SUFFICES ASSUME NEW r \in Requests, r # q
                 PROVE  /\ out'[r] >= out[r]
                        /\ row[r].status # "none" => row'[r].status # "none"
                        /\ row[r].status \in Good => row'[r].status \in Good
      OBVIOUS
    <2>1. out[r] \in Nat
      BY DEF Inv, TypeOK
    <2>2. QED
      BY <2>1
  <1>4. JobInv'
    BY <1>3, JobsKept DEF Inv, Trace
  <1>5. /\ \A r \in Requests : Holds(w, r) => r = q
        /\ \A r \in Requests : Holds(w, r)' => r = q
    BY DEF Holds
  <1>6. SingleInv'
    BY <1>5, SinglesKept DEF Inv
  <1>7. onchain' \in BOOLEAN
    BY DEF Inv, Trace
  <1>8. QED
    BY <1>1, <1>2, <1>4, <1>6, <1>7 DEF Inv

\* A request made by an org_admin is approved as it is made.
LEMMA RequestKept ==
    ASSUME Inv, Trace, NEW w \in Workers, NEW m \in Members, NEW r \in Requests, Request(w, m, r)
    PROVE  Inv'
  <1> DEFINE new == IF m \in Admins THEN [status |-> "approved", requested |-> m, approved |-> m]
                    ELSE [status |-> "pending", requested |-> m, approved |-> NoOne]
             job == IF m \in Admins /\ onchain THEN Job("balance", r, m, FALSE) ELSE Idle
  <1>1. TypeOK /\ row \in [Requests -> RowType] /\ out[r] \in Nat /\ worker[w].pc = "idle"
    BY BusyWorker DEF Inv, TypeOK, RowType, Request
  <1>2. new \in RowType /\ new.status = (IF m \in Admins THEN "approved" ELSE "pending")
        /\ (m \in Admins => new.approved = m)
    BY DEF RowType, Status
  <1>3. row' = [row EXCEPT ![r] = new]
    BY DEF Request
  <1>4. row' \in [Requests -> RowType] /\ row'[r] = new /\ \A q \in Requests : q # r => row'[q] = row[q]
    BY <1>1, <1>2, <1>3
  <1>5. Job("balance", r, m, FALSE) \in JobType /\ Job("balance", r, m, FALSE).pc = "balance"
        /\ Job("balance", r, m, FALSE).req = r
    BY DEF Job, JobType
  <1>6. PICK j \in JobType : /\ j = job /\ j.pc \in {"idle", "balance"}
                             /\ j.pc = "balance" => j.req = r /\ m \in Admins
    BY <1>5, IdleParts
  <1>7. /\ worker' \in [Workers -> JobType] /\ worker'[w] = j
        /\ \A v \in Workers : v # w => worker'[v] = worker[v]
    BY <1>1, <1>6, BecomeWorker DEF Request
  <1>8. UNCHANGED ledger /\ out' = out /\ claim' = claim /\ reserve' = reserve /\ faults' = faults
    BY DEF Request, ledger
  <1>9. out[r] = 0 /\ row[r].status = "none"
    BY DEF Inv, RowInv, RowOk, Request
  <1>10. MoneyInv'
    BY <1>1, <1>6, <1>7, <1>8, MoneyStill DEF Inv
  <1>11. RowOk(r)'
    BY <1>2, <1>4, <1>8, <1>9 DEF RowOk, Good
  <1>12. JobOk(w)'
    <2>1. worker'[w].pc \in {"idle", "balance"} /\ row'[r].status \in {"approved", "pending"}
      BY <1>2, <1>4, <1>6, <1>7
    <2>2. worker'[w].pc = "balance" => worker'[w].req = r /\ row'[r].status = "approved"
      BY <1>2, <1>4, <1>6, <1>7
    <2>3. QED
      BY <2>1, <2>2 DEF JobOk, Good
  <1>13. Settled(r)'
    BY <1>8, <1>9 DEF Settled
  <1>14. QED
    <2> HIDE DEF new, job
    <2>1. row'[r].status # "none" /\ row[r].status \notin Good
      BY <1>2, <1>4, <1>9 DEF Good
    <2>2. /\ out' \in [Requests -> Nat] /\ claim' \in [Currencies -> Nat] /\ reserve' \in [Currencies -> Nat] /\ faults' \in 0..MaxFaults
          /\ out'[r] >= out[r]
      BY <1>1, <1>8 DEF TypeOK
    <2>3. worker'[w].pc # "idle" => worker'[w].req = r
      BY <1>6, <1>7
    <2>4. \A q \in Requests : q # r => row'[q] = row[q] /\ out'[q] = out[q]
      BY <1>4, <1>8
    <2>5. QED
      BY <1>1, <1>4, <1>7, <1>10, <1>11, <1>12, <1>13, <2>1, <2>2, <2>3, <2>4, Kept
\* The approve route reads a pending request.
LEMMA ApproveKept ==
    ASSUME Inv, Trace, NEW w \in Workers, NEW m \in Members, NEW r \in Requests, Approve(w, m, r)
    PROVE  Inv'
  <1>1. TypeOK /\ row \in [Requests -> RowType] /\ out[r] \in Nat /\ worker[w].pc = "idle"
    BY BusyWorker DEF Inv, TypeOK, RowType, Approve
  <1>2. PICK j \in JobType : /\ j = Job("approve", r, m, FALSE) /\ j.pc = "approve"
                             /\ j.req = r /\ j.by = m
    <2>1. /\ Job("approve", r, m, FALSE) \in JobType /\ Job("approve", r, m, FALSE).pc = "approve"
          /\ Job("approve", r, m, FALSE).req = r /\ Job("approve", r, m, FALSE).by = m
      BY DEF Job, JobType
    <2>2. QED
      BY <2>1
  <1>3. /\ worker' \in [Workers -> JobType] /\ worker'[w] = j
        /\ \A v \in Workers : v # w => worker'[v] = worker[v]
    BY <1>1, <1>2, BecomeWorker DEF Approve
  <1>4. UNCHANGED ledger /\ UNCHANGED <<claim, reserve, out, row, faults>>
    BY DEF Approve, ledger
  <1>5. out[r] = 0 /\ row[r].status = "pending" /\ m \in Admins /\ RowOk(r)
    BY DEF Inv, RowInv, RowOk, Approve
  <1>6. MoneyInv'
    BY <1>1, <1>2, <1>3, <1>4, MoneyStill DEF Inv
  <1>7. RowOk(r)'
    BY <1>4, <1>5 DEF RowOk
  <1>8. JobOk(w)'
    BY <1>2, <1>3, <1>4, <1>5 DEF JobOk
  <1>9. Settled(r)'
    BY <1>4, <1>5 DEF Settled
  <1>10. /\ out' \in [Requests -> Nat] /\ claim' \in [Currencies -> Nat] /\ reserve' \in [Currencies -> Nat] /\ faults' \in 0..MaxFaults
         /\ row' \in [Requests -> RowType] /\ out'[r] >= out[r]
    BY <1>1, <1>4 DEF TypeOK
  <1>11. QED
    BY <1>1, <1>2, <1>3, <1>4, <1>6, <1>7, <1>8, <1>9, <1>10, Kept

\* The operator's route reads an approved or a failed request: were it paid and
\* undisturbed, the handler about to record that would hold it beside this one.
LEMMA ExecuteKept ==
    ASSUME Inv, Trace, NEW w \in Workers, NEW r \in Requests, Execute(w, r)
    PROVE  Inv'
  <1>1. TypeOK /\ row \in [Requests -> RowType] /\ out[r] \in Nat /\ worker[w].pc = "idle"
    BY BusyWorker DEF Inv, TypeOK, RowType, Execute
  <1>2. PICK p \in {"revive", "balance"} : p = IF row[r].status = "failed" THEN "revive" ELSE "balance"
    OBVIOUS
  <1>3. PICK j \in JobType : /\ j = Job(p, r, NoOne, TRUE) /\ j.pc = p /\ j.req = r
    <2>1. /\ Job(p, r, NoOne, TRUE) \in JobType /\ Job(p, r, NoOne, TRUE).pc = p
          /\ Job(p, r, NoOne, TRUE).req = r
      BY DEF Job, JobType
    <2>2. QED
      BY <2>1
  <1>4. /\ worker' \in [Workers -> JobType] /\ worker'[w] = j
        /\ \A v \in Workers : v # w => worker'[v] = worker[v]
    BY <1>1, <1>2, <1>3, BecomeWorker DEF Execute
  <1>5. UNCHANGED ledger /\ UNCHANGED <<claim, reserve, out, row, faults>>
    BY DEF Execute, ledger
  <1>6. row[r].status \in {"approved", "failed"} /\ RowOk(r)
    BY DEF Inv, RowInv, Execute
  <1>7. MoneyInv'
    BY <1>1, <1>2, <1>3, <1>4, <1>5, MoneyStill DEF Inv
  <1>8. RowOk(r)'
    BY <1>5, <1>6 DEF RowOk
  <1>9. JobOk(w)'
    BY <1>2, <1>3, <1>4, <1>5, <1>6 DEF JobOk, Good
  <1>10. ASSUME r \notin disturbed'
         PROVE  Settled(r)'
    <2>1. Settled(r) /\ Alone(r)'
      BY <1>4, <1>10, AloneNext DEF Inv, SingleInv, Trace
    <2>2. Holds(w, r)' /\ ~Holds(w, r)
      BY <1>1, <1>2, <1>3, <1>4 DEF Holds
    <2>3. \A v \in Workers : ~Holds(v, r)
      BY <1>4, <2>1, <2>2 DEF Alone, Holds
    <2>4. out[r] = 0
      BY <1>6, <2>1, <2>3 DEF Settled
    <2>5. QED
      BY <1>5, <2>4 DEF Settled
  <1>11. /\ out' \in [Requests -> Nat] /\ claim' \in [Currencies -> Nat] /\ reserve' \in [Currencies -> Nat] /\ faults' \in 0..MaxFaults
         /\ row' \in [Requests -> RowType] /\ out'[r] >= out[r]
    BY <1>1, <1>5 DEF TypeOK
  <1>12. QED
    BY <1>1, <1>3, <1>4, <1>5, <1>7, <1>8, <1>9, <1>10, <1>11, Kept

\* A handler that moves on without paying or writing; one about to record a payout
\* does so only because of a fault.
LEMMA MoveOn ==
    ASSUME Inv, Trace, NEW w \in Workers, worker[w].pc \notin {"idle", "approve"},
           NEW p \in Pcs \ {"approve", "sweep", "done"}, p # worker[w].pc, Goto(w, p),
           UNCHANGED <<ledger, row>>,
           faults' = faults \/ \E kind \in {"throw", "lost", "crash"} : Fault(kind),
           worker[w].pc = "done" => faults' # faults,
           p = "debit" => ~onchain, p = "withdraw" => onchain
    PROVE  Inv'
  <1>1. TypeOK /\ row \in [Requests -> RowType]
    BY DEF Inv, TypeOK, RowType
  <1>2. PICK r \in Requests : r = worker[w].req
    BY <1>1, BusyWorker
  <1>3. /\ worker' \in [Workers -> JobType] /\ worker'[w].pc = p /\ worker'[w].req = r
        /\ \A v \in Workers : v # w => worker'[v] = worker[v]
    BY <1>1, <1>2, GotoWorker
  <1>4. UNCHANGED ledger /\ UNCHANGED <<claim, reserve, out, row>>
    BY DEF ledger
  <1>5. RowOk(r) /\ row[r].status \in Good
    BY <1>2 DEF Inv, RowInv, JobInv, JobOk
  <1>6. MoneyInv'
    BY <1>1, <1>3, <1>4, MoneyStill DEF Inv
  <1>7. RowOk(r)'
    BY <1>4, <1>5 DEF RowOk
  <1>8. JobOk(w)'
    <2>1. onchain' = onchain
      BY DEF Trace
    <2>2. QED
      BY <1>3, <1>4, <1>5, <2>1 DEF JobOk, Good
  <1>9. ASSUME r \notin disturbed'
        PROVE  Settled(r)'
    <2>1. worker[w].pc # "done"
      BY <1>1, <1>2, <1>3, <1>9, FaultHits
    <2>2. out[r] = 0
      BY <1>2, <1>9, <2>1, NotPaid DEF Inv, Trace, Holds
    <2>3. QED
      BY <1>4, <2>2 DEF Settled
  <1>10. /\ out' \in [Requests -> Nat] /\ claim' \in [Currencies -> Nat] /\ reserve' \in [Currencies -> Nat]
         /\ row' \in [Requests -> RowType] /\ out[r] \in Nat /\ out'[r] >= out[r]
    BY <1>1, <1>4 DEF TypeOK
  <1>11. faults' \in 0..MaxFaults
    BY <1>1, FaultType
  <1>12. QED
    BY <1>2, <1>3, <1>4, <1>6, <1>7, <1>8, <1>9, <1>10, <1>11, Kept
\* The handler that turned the status of its own row, and did not pay.
LEMMA StatusKept ==
    ASSUME Inv, Trace, NEW w \in Workers, worker[w].pc \notin {"idle", "done"},
           NEW r \in Requests, r = worker[w].req,
           NEW s \in {"approved", "failed"}, row' \in [Requests -> RowType],
           row'[r].status = s, row'[r].approved \in Admins,
           \A q \in Requests : q # r => row'[q] = row[q],
           worker' \in [Workers -> JobType], worker'[w].pc \in {"idle", "balance"},
           worker'[w].pc # "idle" => worker'[w].req = r,
           \A v \in Workers : v # w => worker'[v] = worker[v],
           UNCHANGED <<ledger, faults>>
    PROVE  Inv'
  <1>1. TypeOK
    BY DEF Inv
  <1>2. UNCHANGED ledger /\ UNCHANGED <<claim, reserve, out, faults>>
    BY DEF ledger
  <1>3. MoneyInv'
    BY <1>1, <1>2, MoneyStill DEF Inv
  <1>4. RowOk(r)'
    BY DEF RowOk, Good
  <1>5. JobOk(w)'
    BY DEF JobOk, Good
  <1>6. ASSUME r \notin disturbed'
        PROVE  Settled(r)'
    <2>1. out[r] = 0
      BY <1>6, NotPaid DEF Inv, Trace, Holds
    <2>2. QED
      BY <1>2, <2>1 DEF Settled
  <1>7. /\ out' \in [Requests -> Nat] /\ claim' \in [Currencies -> Nat] /\ reserve' \in [Currencies -> Nat]
        /\ faults' \in 0..MaxFaults /\ out[r] \in Nat /\ out'[r] >= out[r]
    BY <1>1, <1>2 DEF TypeOK
  <1>8. row'[r].status # "none" /\ row'[r].status \in Good
    BY DEF Good
  <1>9. QED
    BY <1>2, <1>3, <1>4, <1>5, <1>6, <1>7, <1>8, Kept

\* The UPDATE of the approve route names an org_admin.
LEMMA SetApprovedKept ==
    ASSUME Inv, Trace, NEW w \in Workers, SetApproved(w)
    PROVE  Inv'
  <1>1. TypeOK /\ row \in [Requests -> RowType] /\ worker[w].pc = "approve"
    BY DEF Inv, TypeOK, RowType, SetApproved
  <1>2. PICK r \in Requests : r = worker[w].req
    BY <1>1, BusyWorker
  <1>3. PICK m \in Members : m = worker[w].by /\ m \in Admins
    BY <1>1, SettlementAssumption DEF Inv, JobInv, JobOk
  <1>4. row' = [row EXCEPT ![r].status = "approved", ![r].approved = m]
    BY <1>2, <1>3 DEF SetApproved
  <1>5. /\ row' \in [Requests -> RowType] /\ row'[r].status = "approved" /\ row'[r].approved = m
        /\ \A q \in Requests : q # r => row'[q] = row[q]
    BY <1>1, <1>4, RowApproved DEF Status
  <1>6. /\ worker' \in [Workers -> JobType] /\ worker'[w].pc \in {"idle", "balance"}
        /\ worker'[w].pc # "idle" => worker'[w].req = r
        /\ \A v \in Workers : v # w => worker'[v] = worker[v]
    <2>1. CASE onchain
      BY <1>1, <1>2, <2>1, GotoWorker DEF SetApproved, Pcs
    <2>2. CASE ~onchain
      BY <1>1, <2>2, BecomeWorker, IdleParts DEF SetApproved
    <2>3. QED
      BY <2>1, <2>2
  <1>7. UNCHANGED <<ledger, faults>>
    BY DEF SetApproved
  <1>8. row'[r].approved \in Admins /\ worker[w].pc \notin {"idle", "done"}
    BY <1>1, <1>3, <1>5
  <1>9. QED
    BY <1>2, <1>5, <1>6, <1>7, <1>8, StatusKept, ZenonT(90)

\* A failed request is executed again.
LEMMA ReviveKept ==
    ASSUME Inv, Trace, NEW w \in Workers, Revive(w)
    PROVE  Inv'
  <1>1. TypeOK /\ row \in [Requests -> RowType] /\ worker[w].pc = "revive"
    BY DEF Inv, TypeOK, RowType, Revive
  <1>2. PICK r \in Requests : r = worker[w].req
    BY <1>1, BusyWorker
  <1>3. row' = [row EXCEPT ![r].status = "approved"]
    BY <1>2 DEF Revive
  <1>4. /\ row' \in [Requests -> RowType] /\ row'[r].status = "approved"
        /\ row'[r].approved = row[r].approved
        /\ \A q \in Requests : q # r => row'[q] = row[q]
    BY <1>1, <1>3, RowExcept DEF Status
  <1>5. row[r].approved \in Admins
    BY <1>1, <1>2 DEF Inv, RowInv, RowOk, JobInv, JobOk
  <1>6. /\ worker' \in [Workers -> JobType] /\ worker'[w].pc = "balance" /\ worker'[w].req = r
        /\ \A v \in Workers : v # w => worker'[v] = worker[v]
    BY <1>1, <1>2, GotoWorker DEF Revive, Pcs
  <1>7. QED
    BY <1>1, <1>2, <1>4, <1>5, <1>6, StatusKept DEF Revive

\* The error path of both routes.
LEMMA SetFailedKept ==
    ASSUME Inv, Trace, NEW w \in Workers, SetFailed(w)
    PROVE  Inv'
  <1>1. TypeOK /\ row \in [Requests -> RowType] /\ worker[w].pc = "fail"
    BY DEF Inv, TypeOK, RowType, SetFailed
  <1>2. PICK r \in Requests : r = worker[w].req
    BY <1>1, BusyWorker
  <1>3. RowOk(r) /\ row[r].status \in Good
    BY <1>1, <1>2 DEF Inv, RowInv, JobInv, JobOk
  <1>4. /\ worker' \in [Workers -> JobType] /\ worker'[w].pc = "idle"
        /\ \A v \in Workers : v # w => worker'[v] = worker[v]
    BY <1>1, BecomeWorker, IdleParts DEF SetFailed
  <1>5. CASE row' = [row EXCEPT ![r].status = "failed"]
    <2>1. /\ row' \in [Requests -> RowType] /\ row'[r].status = "failed"
          /\ row'[r].approved = row[r].approved
          /\ \A q \in Requests : q # r => row'[q] = row[q]
      BY <1>1, <1>5, RowExcept DEF Status
    <2>2. row[r].approved \in Admins
      BY <1>3 DEF RowOk
    <2>3. QED
      BY <1>1, <1>2, <1>4, <2>1, <2>2, StatusKept DEF SetFailed
  <1>6. CASE row' = row
    <2>1. UNCHANGED ledger /\ UNCHANGED <<claim, reserve, out, faults>>
      BY DEF ledger, SetFailed
    <2>2. MoneyInv'
      BY <1>1, <1>4, <2>1, MoneyStill DEF Inv
    <2>3. RowOk(r)'
      BY <1>3, <1>6, <2>1 DEF RowOk
    <2>4. JobOk(w)'
      BY <1>4 DEF JobOk
    <2>5. ASSUME r \notin disturbed'
          PROVE  Settled(r)'
      <3>1. out[r] = 0
        BY <1>1, <1>2, <2>5, NotPaid DEF Inv, Trace, Holds
      <3>2. QED
        BY <2>1, <3>1 DEF Settled
    <2>6. /\ out' \in [Requests -> Nat] /\ claim' \in [Currencies -> Nat] /\ reserve' \in [Currencies -> Nat]
          /\ faults' \in 0..MaxFaults /\ row' \in [Requests -> RowType]
          /\ out[r] \in Nat /\ out'[r] >= out[r]
      BY <1>1, <1>6, <2>1 DEF TypeOK
    <2>7. QED
      BY <1>2, <1>4, <1>6, <2>1, <2>2, <2>3, <2>4, <2>5, <2>6, Kept
  <1>7. row' = row \/ row' = [row EXCEPT ![r].status = "failed"]
    BY <1>2 DEF SetFailed
  <1>8. QED
    BY <1>5, <1>6, <1>7

\* executeSettlement reads the claim.
LEMMA CheckBalanceKept ==
    ASSUME Inv, Trace, NEW w \in Workers, CheckBalance(w)
    PROVE  Inv'
  <1>1. worker[w].pc = "balance" /\ UNCHANGED <<ledger, row>> /\ faults' = faults
    BY DEF CheckBalance
  <1>2. PICK p \in {"fail", "withdraw", "debit"} :
           Goto(w, p) /\ (p = "debit" => ~onchain) /\ (p = "withdraw" => onchain)
    BY DEF CheckBalance
  <1>3. p \in Pcs \ {"approve", "sweep", "done"} /\ p # worker[w].pc
    BY <1>1 DEF Pcs
  <1>4. QED
    BY <1>1, <1>2, <1>3, MoveOn

\* Vault.adminDebit: the claim goes down by what is now in flight, or lost.
LEMMA DebitKept ==
    ASSUME Inv, Trace, NEW w \in Workers, DebitClaim(w)
    PROVE  Inv'
  <1>1. /\ TypeOK /\ row \in [Requests -> RowType] /\ worker[w].pc = "debit"
        /\ UNCHANGED <<reserve, out, row>> /\ onchain' = onchain
    BY DEF Inv, TypeOK, RowType, DebitClaim, Trace
  <1>2. PICK r \in Requests : r = worker[w].req
    BY <1>1, BusyWorker
  <1> DEFINE a == Amount[r]
             d == CurrencyOf[r]
  <1>3. a \in Int /\ d \in Currencies
    BY Terms
  <1>4. CASE claim' = claim /\ Goto(w, "fail") /\ (faults' = faults \/ Fault("throw"))
    <2>1. UNCHANGED <<ledger, row>>
      BY <1>1, <1>4 DEF ledger
    <2>2. "fail" \in Pcs \ {"approve", "sweep", "done"}
      BY DEF Pcs
    <2>3. QED
      BY <1>1, <1>4, <2>1, <2>2, MoveOn
  <1>5. ASSUME Covers(claim, d, a), claim' = Take(claim, d, a), NEW p \in {"sweep", "fail"}, Goto(w, p),
               faults' = faults \/ Fault("lost")
        PROVE  Inv'
    <2>1. /\ worker' \in [Workers -> JobType] /\ worker'[w].pc = p /\ worker'[w].req = r
          /\ \A v \in Workers : v # w => worker'[v] = worker[v]
      BY <1>1, <1>2, <1>5, GotoWorker DEF Pcs
    <2>2. RowOk(r) /\ row[r].status \in Good /\ ~onchain
      BY <1>1, <1>2 DEF Inv, RowInv, JobInv, JobOk
    <2>3. /\ claim' \in [Currencies -> Nat] /\ a \in Nat /\ a > 0 /\ claim'[d] = claim[d] - a
          /\ \A c \in Currencies : c # d => claim'[c] = claim[c]
      <3> HIDE DEF a, d
      <3>1. claim \in [Currencies -> Nat]
        BY <1>1 DEF TypeOK
      <3>2. QED
        BY <1>3, <1>5, <3>1, TakeFrom
    <2>4. ASSUME NEW c \in Currencies
          PROVE  MoneyIn(c)'
      <3>1. Flight(c)[w] = 0 /\ Flight(c)'[w] <= IF c = d THEN a ELSE 0
        <4>1. r \in MadeIn(c) <=> c = d
          BY <1>2 DEF MadeIn
        <4>2. MadeIn(c)' = MadeIn(c)
          BY DEF MadeIn
        <4>3. Flight(c)[w] = 0
          BY <1>1 DEF Flight
        <4>4. Flight(c)'[w] \in {0, IF c = d THEN a ELSE 0}
          BY <1>3, <2>1, <2>3, <4>1, <4>2, PositiveType DEF Flight
        <4>5. QED
          BY <2>3, <4>3, <4>4
      <3>2. claim[c] \in Nat /\ Claim0[c] \in Nat /\ Paid(out, MadeIn(c)) \in Nat
        BY <1>1, PaidType, CountedRequests, SettlementAssumption DEF TypeOK
      <3>3. /\ Total(Flight(c)) \in Nat /\ Total(Flight(c)') \in Nat /\ Flight(c)'[w] \in Nat
            /\ Total(Flight(c)') = Total(Flight(c)) - Flight(c)[w] + Flight(c)'[w]
        BY <1>1, <2>1, FlightMoves
      <3>4. MoneyIn(c)
        BY DEF Inv, MoneyInv
      <3>5. claim'[c] = claim[c] - IF c = d THEN a ELSE 0
        BY <2>3, <3>2
      <3>6. claim'[c] + Paid(out, MadeIn(c)) + Total(Flight(c)') <= Claim0[c]
        BY <2>3, <3>1, <3>2, <3>3, <3>4, <3>5 DEF MoneyIn
      <3>7. DrawnOn(c)' = DrawnOn(c)
        BY <1>1, CountedRequests
      <3>8. QED
        BY <1>1, <3>4, <3>6, <3>7 DEF MoneyIn
    <2>5. MoneyInv'
      BY <2>4 DEF MoneyInv
    <2>6. RowOk(r)'
      BY <1>1, <2>2 DEF RowOk
    <2>7. JobOk(w)'
      BY <1>1, <1>5, <2>1, <2>2 DEF JobOk, Good
    <2>8. ASSUME r \notin disturbed'
          PROVE  Settled(r)'
      <3>1. out[r] = 0
        BY <1>1, <1>2, <2>8, NotPaid DEF Inv, Trace, Holds
      <3>2. QED
        BY <1>1, <3>1 DEF Settled
    <2>9. /\ out' \in [Requests -> Nat] /\ reserve' \in [Currencies -> Nat]
          /\ row' \in [Requests -> RowType] /\ out[r] \in Nat /\ out'[r] >= out[r]
      BY <1>1 DEF TypeOK
    <2>10. faults' \in 0..MaxFaults
      BY <1>1, <1>5, FaultType
    <2>11. QED
      BY <1>1, <1>2, <2>1, <2>3, <2>5, <2>6, <2>7, <2>8, <2>9, <2>10, Kept
  <1>6. \/ claim' = claim /\ Goto(w, "fail") /\ (faults' = faults \/ Fault("throw"))
        \/ /\ Covers(claim, d, a) /\ claim' = Take(claim, d, a)
           /\ \/ Goto(w, "sweep") /\ faults' = faults
              \/ Goto(w, "fail") /\ Fault("lost")
    BY <1>2, <1>3 DEF DebitClaim
  <1>7. QED
    BY <1>4, <1>5, <1>6

\* The backing leaves for the handler's request: the handler goes on to record it,
\* or a fault has hit the request.
LEMMA PaidKept ==
    ASSUME Inv, Trace, NEW w \in Workers, worker[w].pc \in {"sweep", "withdraw"},
           NEW r \in Requests, r = worker[w].req, Amount[r] \in Nat, Amount[r] > 0, Pay(r),
           claim' \in [Currencies -> Nat], reserve' \in [Currencies -> Nat], row' = row,
           NEW p \in {"done", "fail"}, Goto(w, p), MoneyInv',
           \/ faults' = faults /\ p = "done"
           \/ Fault("lost")
    PROVE  Inv'
  <1>1. TypeOK /\ row \in [Requests -> RowType] /\ out \in [Requests -> Nat]
    BY DEF Inv, TypeOK, RowType
  <1>2. /\ worker' \in [Workers -> JobType] /\ worker'[w].pc = p /\ worker'[w].req = r
        /\ \A v \in Workers : v # w => worker'[v] = worker[v]
    BY <1>1, GotoWorker DEF Pcs
  <1>3. /\ out' \in [Requests -> Nat] /\ out'[r] = out[r] + Amount[r]
        /\ \A q \in Requests : q # r => out'[q] = out[q]
    BY <1>1, PayOut
  <1>4. RowOk(r) /\ row[r].status \in Good /\ out[r] \in Nat
    BY <1>1 DEF Inv, RowInv, JobInv, JobOk
  <1>5. RowOk(r)'
    BY <1>3, <1>4 DEF RowOk, Good
  <1>6. JobOk(w)'
    BY <1>2, <1>3, <1>4 DEF JobOk, Good
  <1>7. ASSUME r \notin disturbed'
        PROVE  Settled(r)'
    <2>1. faults' = faults
      BY <1>1, <1>2, <1>7, FaultHits
    <2>2. p = "done"
      BY <1>1, <2>1, SettlementAssumption DEF Fault, TypeOK
    <2>3. out[r] = 0
      BY <1>7, NotPaid DEF Inv, Trace, Holds
    <2>4. out'[r] = Amount[r] /\ Holds(w, r)'
      BY <1>2, <1>3, <2>2, <2>3 DEF Holds
    <2>5. QED
      BY <1>2, <2>2, <2>4 DEF Settled
  <1>8. faults' \in 0..MaxFaults
    BY <1>1, FaultType
  <1>9. out'[r] >= out[r]
    BY <1>3, <1>4
  <1>10. \A q \in Requests : q # r => row'[q] = row[q] /\ out'[q] = out[q]
    BY <1>3
  <1>11. QED
    BY <1>1, <1>2, <1>3, <1>5, <1>6, <1>7, <1>8, <1>9, <1>10, Kept

\* sweepTreasuryFromVault: what was in flight has left, from the country's backing.
LEMMA SweepKept ==
    ASSUME Inv, Trace, NEW w \in Workers, SweepReserve(w)
    PROVE  Inv'
  <1>1. TypeOK /\ worker[w].pc = "sweep" /\ UNCHANGED <<claim, row>> /\ onchain' = onchain
    BY DEF Inv, SweepReserve, Trace
  <1>2. PICK r \in Requests : r = worker[w].req
    BY <1>1, BusyWorker
  <1> DEFINE a == Amount[r]
             d == CurrencyOf[r]
  <1>3. a \in Int /\ d \in Currencies
    BY Terms
  <1>4. CASE UNCHANGED <<reserve, out>> /\ Goto(w, "fail") /\ (faults' = faults \/ Fault("throw"))
    <2>1. UNCHANGED <<ledger, row>>
      BY <1>1, <1>4 DEF ledger
    <2>2. "fail" \in Pcs \ {"approve", "sweep", "done"}
      BY DEF Pcs
    <2>3. QED
      BY <1>1, <1>4, <2>1, <2>2, MoveOn
  <1>5. ASSUME Covers(reserve, Local, a), reserve' = Take(reserve, Local, a), Pay(r),
               NEW p \in {"done", "fail"}, Goto(w, p),
               \/ faults' = faults /\ p = "done"
               \/ Fault("lost")
        PROVE  Inv'
    <2>1. /\ worker' \in [Workers -> JobType] /\ worker'[w].pc = p
          /\ \A v \in Workers : v # w => worker'[v] = worker[v]
      BY <1>1, <1>5, GotoWorker DEF Pcs
    <2>2. ~onchain
      BY <1>1 DEF Inv, JobInv, JobOk
    <2>3. /\ reserve' \in [Currencies -> Nat] /\ a \in Nat /\ a > 0 /\ reserve'[Local] = reserve[Local] - a
          /\ \A c \in Currencies : c # Local => reserve'[c] = reserve[c]
      BY <1>1, <1>5, TakeFrom, SettlementAssumption DEF TypeOK
    <2>4. ASSUME NEW c \in Currencies
          PROVE  MoneyIn(c)'
      <3>1. /\ r \in MadeIn(c) <=> c = d
            /\ r \in DrawnOn(c) <=> c = Local
        <4>1. r \in MadeIn(c) <=> c = d
          BY DEF MadeIn
        <4>2. r \in DrawnOn(c) <=> c = Local
          BY <2>2 DEF DrawnOn, Source
        <4>3. QED
          BY <4>1, <4>2
      <3>2. Flight(c)'[w] = 0 /\ Flight(c)[w] = IF c = d THEN a ELSE 0
        BY <1>1, <1>2, <1>3, <1>5, <2>1, <2>3, <3>1, PositiveType DEF Flight
      <3>3. /\ claim[c] \in Nat /\ reserve[c] \in Nat /\ Claim0[c] \in Nat /\ Others[c] \in Nat
            /\ out \in [Requests -> Nat]
        BY <1>1, SettlementAssumption DEF TypeOK
      <3>4. \A A \in SUBSET Requests :
               /\ Paid(out, A) \in Nat /\ Paid(out', A) \in Nat
               /\ r \in A => Paid(out', A) = Paid(out, A) + a
               /\ r \notin A => Paid(out', A) = Paid(out, A)
        BY <1>3, <1>5, <2>3, <3>3, PayOut
      <3>5. /\ Paid(out, MadeIn(c)) \in Nat /\ Paid(out, DrawnOn(c)) \in Nat
            /\ Paid(out', MadeIn(c)) = Paid(out, MadeIn(c)) + IF c = d THEN a ELSE 0
            /\ Paid(out', DrawnOn(c)) = Paid(out, DrawnOn(c)) + IF c = Local THEN a ELSE 0
        BY <2>3, <3>1, <3>4, CountedRequests
      <3>6. /\ Total(Flight(c)) \in Nat /\ Total(Flight(c)') \in Nat
            /\ Total(Flight(c)') = Total(Flight(c)) - Flight(c)[w] + Flight(c)'[w]
        BY <1>1, <2>1, FlightMoves
      <3>7. MoneyIn(c)
        BY DEF Inv, MoneyInv
      <3>8. reserve'[c] = reserve[c] - IF c = Local THEN a ELSE 0
        BY <2>3, <3>3
      <3>9. reserve'[c] + Paid(out', DrawnOn(c)) = Claim0[c] + Others[c]
        BY <2>3, <3>3, <3>5, <3>7, <3>8 DEF MoneyIn
      <3>10. claim[c] + Paid(out', MadeIn(c)) + Total(Flight(c)') <= Claim0[c]
        BY <2>3, <3>2, <3>3, <3>5, <3>6, <3>7 DEF MoneyIn
      <3>11. DrawnOn(c)' = DrawnOn(c)
        BY <1>1, CountedRequests
      <3>12. QED
        BY <1>1, <3>9, <3>10, <3>11 DEF MoneyIn
    <2>5. MoneyInv'
      BY <2>4 DEF MoneyInv
    <2>6. claim' \in [Currencies -> Nat]
      BY <1>1 DEF TypeOK
    <2>7. QED
      BY <1>1, <1>2, <1>3, <1>5, <2>3, <2>5, <2>6, PaidKept
  <1>6. \/ UNCHANGED <<reserve, out>> /\ Goto(w, "fail") /\ (faults' = faults \/ Fault("throw"))
        \/ /\ Covers(reserve, Local, a) /\ reserve' = Take(reserve, Local, a) /\ Pay(r)
           /\ \/ Goto(w, "done") /\ faults' = faults
              \/ Goto(w, "fail") /\ Fault("lost")
    BY <1>2, <1>3 DEF SweepReserve
  <1>7. QED
    BY <1>4, <1>5, <1>6

\* Vault.withdrawToExternal: the claim and the backing go down together.
LEMMA WithdrawKept ==
    ASSUME Inv, Trace, NEW w \in Workers, Withdraw(w)
    PROVE  Inv'
  <1>1. TypeOK /\ worker[w].pc = "withdraw" /\ UNCHANGED row /\ onchain' = onchain
    BY DEF Inv, Withdraw, Trace
  <1>2. PICK r \in Requests : r = worker[w].req
    BY <1>1, BusyWorker
  <1> DEFINE a == Amount[r]
             d == CurrencyOf[r]
  <1>3. a \in Int /\ d \in Currencies
    BY Terms
  <1>4. CASE UNCHANGED ledger /\ Goto(w, "fail") /\ (faults' = faults \/ Fault("throw"))
    <2>1. "fail" \in Pcs \ {"approve", "sweep", "done"}
      BY DEF Pcs
    <2>2. QED
      BY <1>1, <1>4, <2>1, MoveOn
  <1>5. ASSUME Covers(claim, d, a), Covers(reserve, d, a), Pay(r),
               claim' = Take(claim, d, a), reserve' = Take(reserve, d, a),
               NEW p \in {"done", "fail"}, Goto(w, p),
               \/ faults' = faults /\ p = "done"
               \/ Fault("lost")
        PROVE  Inv'
    <2>1. /\ worker' \in [Workers -> JobType] /\ worker'[w].pc = p
          /\ \A v \in Workers : v # w => worker'[v] = worker[v]
      BY <1>1, <1>5, GotoWorker DEF Pcs
    <2>2. onchain
      BY <1>1 DEF Inv, JobInv, JobOk
    <2>3. /\ reserve' \in [Currencies -> Nat] /\ a \in Nat /\ a > 0 /\ reserve'[d] = reserve[d] - a
          /\ \A c \in Currencies : c # d => reserve'[c] = reserve[c]
      <3> HIDE DEF a, d
      <3>1. reserve \in [Currencies -> Nat]
        BY <1>1 DEF TypeOK
      <3>2. QED
        BY <1>3, <1>5, <3>1, TakeFrom
    <2>4. /\ claim' \in [Currencies -> Nat] /\ claim'[d] = claim[d] - a
          /\ \A c \in Currencies : c # d => claim'[c] = claim[c]
      <3> HIDE DEF a, d
      <3>1. claim \in [Currencies -> Nat]
        BY <1>1 DEF TypeOK
      <3>2. QED
        BY <1>3, <1>5, <3>1, TakeFrom
    <2>5. ASSUME NEW c \in Currencies
          PROVE  MoneyIn(c)'
      <3>1. /\ r \in MadeIn(c) <=> c = d
            /\ r \in DrawnOn(c) <=> c = d
        <4>1. r \in MadeIn(c) <=> c = d
          BY DEF MadeIn
        <4>2. r \in DrawnOn(c) <=> c = d
          BY <2>2 DEF DrawnOn, Source
        <4>3. QED
          BY <4>1, <4>2
      <3>2. Flight(c)'[w] = 0 /\ Flight(c)[w] = 0
        BY <1>1, <1>5, <2>1 DEF Flight
      <3>3. /\ claim[c] \in Nat /\ reserve[c] \in Nat /\ Claim0[c] \in Nat /\ Others[c] \in Nat
            /\ out \in [Requests -> Nat]
        BY <1>1, SettlementAssumption DEF TypeOK
      <3>4. \A A \in SUBSET Requests :
               /\ Paid(out, A) \in Nat /\ Paid(out', A) \in Nat
               /\ r \in A => Paid(out', A) = Paid(out, A) + a
               /\ r \notin A => Paid(out', A) = Paid(out, A)
        BY <1>3, <1>5, <2>3, <3>3, PayOut
      <3>5. /\ Paid(out, MadeIn(c)) \in Nat /\ Paid(out, DrawnOn(c)) \in Nat
            /\ Paid(out', MadeIn(c)) = Paid(out, MadeIn(c)) + IF c = d THEN a ELSE 0
            /\ Paid(out', DrawnOn(c)) = Paid(out, DrawnOn(c)) + IF c = d THEN a ELSE 0
        BY <2>3, <3>1, <3>4, CountedRequests
      <3>6. /\ Total(Flight(c)) \in Nat /\ Total(Flight(c)') \in Nat
            /\ Total(Flight(c)') = Total(Flight(c)) - Flight(c)[w] + Flight(c)'[w]
        BY <1>1, <2>1, FlightMoves
      <3>7. MoneyIn(c)
        BY DEF Inv, MoneyInv
      <3>8. /\ reserve'[c] = reserve[c] - IF c = d THEN a ELSE 0
            /\ claim'[c] = claim[c] - IF c = d THEN a ELSE 0
        BY <2>3, <2>4, <3>3
      <3>9. reserve'[c] + Paid(out', DrawnOn(c)) = Claim0[c] + Others[c]
        BY <2>3, <3>3, <3>5, <3>7, <3>8 DEF MoneyIn
      <3>10. claim'[c] + Paid(out', MadeIn(c)) + Total(Flight(c)') <= Claim0[c]
        BY <2>3, <3>2, <3>3, <3>5, <3>6, <3>7, <3>8 DEF MoneyIn
      <3>11. DrawnOn(c)' = DrawnOn(c)
        BY <1>1, CountedRequests
      <3>12. QED
        BY <3>9, <3>10, <3>11 DEF MoneyIn
    <2>6. MoneyInv'
      BY <2>5 DEF MoneyInv
    <2>7. QED
      BY <1>1, <1>2, <1>3, <1>5, <2>3, <2>4, <2>6, PaidKept
  <1>6. \/ UNCHANGED ledger /\ Goto(w, "fail") /\ (faults' = faults \/ Fault("throw"))
        \/ /\ Covers(claim, d, a) /\ Covers(reserve, d, a) /\ Pay(r)
           /\ claim' = Take(claim, d, a) /\ reserve' = Take(reserve, d, a)
           /\ \/ Goto(w, "done") /\ faults' = faults
              \/ Goto(w, "fail") /\ Fault("lost")
    BY <1>2, <1>3 DEF Withdraw
  <1>7. QED
    BY <1>4, <1>5, <1>6

\* A payout is recorded by the handler that made it.
LEMMA SetExecutedKept ==
    ASSUME Inv, Trace, NEW w \in Workers, SetExecuted(w)
    PROVE  Inv'
  <1>1. /\ TypeOK /\ row \in [Requests -> RowType] /\ worker[w].pc = "done"
        /\ UNCHANGED ledger /\ UNCHANGED <<claim, reserve, out>>
    BY DEF Inv, TypeOK, RowType, SetExecuted, ledger
  <1>2. PICK r \in Requests : r = worker[w].req
    BY <1>1, BusyWorker
  <1>3. CASE Fault("throw") /\ Goto(w, "fail") /\ UNCHANGED row
    <2>1. "fail" \in Pcs \ {"approve", "sweep", "done"}
      BY DEF Pcs
    <2>2. faults' # faults
      BY <1>1, <1>3, SettlementAssumption DEF Fault, TypeOK
    <2>3. QED
      BY <1>1, <1>3, <2>1, <2>2, MoveOn
  <1>4. CASE /\ row' = [row EXCEPT ![r].status = "executed"]
             /\ Become(w, Idle) /\ faults' = faults
    <2>1. /\ worker' \in [Workers -> JobType] /\ worker'[w].pc = "idle"
          /\ \A v \in Workers : v # w => worker'[v] = worker[v]
      BY <1>1, <1>4, BecomeWorker, IdleParts
    <2>2. /\ row' \in [Requests -> RowType] /\ row'[r].status = "executed"
          /\ row'[r].approved = row[r].approved
          /\ \A q \in Requests : q # r => row'[q] = row[q]
      BY <1>1, <1>4, RowExcept DEF Status
    <2>3. RowOk(r) /\ row[r].status \in Good /\ out[r] > 0 /\ out[r] >= Amount[r]
      BY <1>1, <1>2 DEF Inv, RowInv, JobInv, JobOk
    <2>4. MoneyInv'
      BY <1>1, <2>1, MoneyStill DEF Inv
    <2>5. RowOk(r)'
      BY <1>1, <2>2, <2>3 DEF RowOk, Good
    <2>6. JobOk(w)'
      BY <2>1 DEF JobOk
    <2>7. ASSUME r \notin disturbed'
          PROVE  Settled(r)'
      <3>1. Settled(r) /\ Alone(r)
        BY <2>7 DEF Inv, SingleInv, Trace
      <3>2. Holds(w, r)
        BY <1>1, <1>2 DEF Holds
      <3>3. out[r] = Amount[r]
        BY <2>3, <3>1 DEF Settled
      <3>4. \A v \in Workers : ~Holds(v, r)'
        BY <2>1, <3>1, <3>2 DEF Alone, Holds
      <3>5. QED
        BY <1>1, <2>2, <3>3, <3>4 DEF Settled
    <2>8. /\ out' \in [Requests -> Nat] /\ claim' \in [Currencies -> Nat] /\ reserve' \in [Currencies -> Nat]
          /\ faults' \in 0..MaxFaults /\ out[r] \in Nat /\ out'[r] >= out[r]
      BY <1>1, <1>4 DEF TypeOK
    <2>9. row'[r].status # "none" /\ row'[r].status \in Good
      BY <2>2 DEF Good
    <2>10. QED
      BY <1>1, <1>2, <2>1, <2>2, <2>4, <2>5, <2>6, <2>7, <2>8, <2>9, Kept
  <1>5. QED
    BY <1>2, <1>3, <1>4 DEF SetExecuted

\* Only a pending request is rejected: nothing has been paid for it.
LEMMA RejectKept ==
    ASSUME Inv, Trace, NEW m \in Members, NEW r \in Requests, Reject(m, r)
    PROVE  Inv'
  <1>1. /\ TypeOK /\ row \in [Requests -> RowType] /\ row[r].status = "pending"
        /\ UNCHANGED <<claim, reserve, out, worker, faults>>
    BY DEF Inv, TypeOK, RowType, Reject, ledger
  <1>2. row' = [row EXCEPT ![r].status = "rejected", ![r].approved = m]
    BY DEF Reject
  <1>3. /\ row' \in [Requests -> RowType] /\ row'[r].status = "rejected"
        /\ \A q \in Requests : q # r => row'[q] = row[q]
    BY <1>1, <1>2, RowApproved DEF Status
  <1>4. out[r] = 0
    BY <1>1 DEF Inv, RowInv, RowOk
  <1>5. TypeOK'
    BY <1>1, <1>3 DEF TypeOK, RowType
  <1>6. MoneyInv'
    BY <1>1 DEF Inv, MoneyInv, MoneyIn, Flight, MadeIn, DrawnOn, Source, Trace
  <1>7. RowInv'
    <2>1. RowOk(r)'
      BY <1>1, <1>3, <1>4 DEF RowOk, Good
    <2>2. QED
      BY <1>1, <1>3, <2>1, RowsKept DEF Inv
  <1>8. JobInv'
    <2>1. out' \in [Requests -> Nat] /\ \A q \in Requests : out'[q] >= out[q]
      BY <1>1 DEF TypeOK
    <2>2. \A q \in Requests : /\ row[q].status # "none" => row'[q].status # "none"
                              /\ row[q].status \in Good => row'[q].status \in Good
      BY <1>1, <1>3 DEF Good
    <2>3. PICK w : w \notin Workers
      BY NoSetContainsEverything
    <2>4. QED
      BY <1>1, <2>1, <2>2, <2>3, JobsKept DEF Inv, Trace
  <1>9. SingleInv'
    <2>1. Settled(r)'
      BY <1>1, <1>4 DEF Settled
    <2>2. PICK w : w \notin Workers
      BY NoSetContainsEverything
    <2>3. worker' \in [Workers -> JobType]
      BY <1>1 DEF TypeOK
    <2>4. QED
      BY <1>1, <1>3, <2>1, <2>2, <2>3, SinglesKept DEF Inv
  <1>10. onchain' \in BOOLEAN
    BY DEF Inv, Trace
  <1>11. QED
    BY <1>5, <1>6, <1>7, <1>8, <1>9, <1>10 DEF Inv

\* A crash forgets every handler; what was in flight stays in the Vault.
LEMMA CrashKept ==
    ASSUME Inv, Trace, Crash
    PROVE  Inv'
  <1>1. /\ TypeOK /\ Fault("crash") /\ UNCHANGED <<claim, reserve, out, row>>
        /\ worker' = [w \in Workers |-> Idle]
    BY DEF Inv, Crash, ledger
  <1>2. /\ worker' \in [Workers -> JobType]
        /\ \A w \in Workers : worker'[w] = Idle /\ worker'[w].pc = "idle"
    BY <1>1, IdleParts
  <1>3. TypeOK'
    <2>1. faults' \in 0..MaxFaults
      BY <1>1, FaultType
    <2>2. QED
      BY <1>1, <1>2, <2>1 DEF TypeOK
  <1>4. ASSUME NEW c \in Currencies
        PROVE  MoneyIn(c)'
    <2>1. Flight(c)' = [w \in Workers |-> 0]
      BY <1>2 DEF Flight
    <2>2. Total(Flight(c)') = 0
      BY <2>1, TotalZero
    <2>3. Flight(c) \in [Workers -> Nat] /\ IsFiniteSet(Workers)
      BY <1>1, FlightType, SettlementAssumption DEF TypeOK
    <2>4. Total(Flight(c)) \in Nat /\ claim[c] \in Nat /\ Claim0[c] \in Nat
      BY <1>1, <2>3, TotalType, SettlementAssumption DEF TypeOK
    <2>5. Paid(out, MadeIn(c)) \in Nat /\ DrawnOn(c)' = DrawnOn(c)
      BY <1>1, PaidType, CountedRequests DEF TypeOK, Trace
    <2>6. MoneyIn(c)
      BY DEF Inv, MoneyInv
    <2>7. claim[c] + Paid(out, MadeIn(c)) + Total(Flight(c)') <= Claim0[c]
      BY <2>2, <2>4, <2>5, <2>6 DEF MoneyIn
    <2>8. QED
      BY <1>1, <2>5, <2>6, <2>7 DEF MoneyIn
  <1>5. RowInv'
    BY <1>1 DEF Inv, RowInv, RowOk
  <1>6. JobInv'
    BY <1>2 DEF JobInv, JobOk
  <1>7. SingleInv'
    <2> SUFFICES ASSUME NEW r \in Requests, r \notin disturbed'
                 PROVE  Alone(r)' /\ Settled(r)'
      BY DEF SingleInv
    <2>1. Alone(r)'
      BY <1>2, AloneNext
    <2>2. \A w \in Workers : ~Holds(w, r)
      <3> SUFFICES ASSUME NEW w \in Workers, Holds(w, r)
                   PROVE  FALSE
        OBVIOUS
      <3>1. worker[w].pc # "idle" /\ worker[w].req = r /\ worker'[w] # worker[w]
        BY <1>2 DEF Holds
      <3>2. faults' # faults
        BY <1>1, SettlementAssumption DEF Fault, TypeOK
      <3>3. QED
        BY <1>1, <3>1, <3>2, FaultHits
    <2>3. Settled(r)
      BY DEF Inv, SingleInv, Trace
    <2>4. \/ out[r] = 0
          \/ out[r] = Amount[r] /\ row[r].status = "executed"
      BY <2>2, <2>3 DEF Settled
    <2>5. \A w \in Workers : ~Holds(w, r)'
      BY <1>2 DEF Holds
    <2>6. QED
      BY <1>1, <2>1, <2>4, <2>5 DEF Settled
  <1>8. onchain' \in BOOLEAN
    BY DEF Inv, Trace
  <1>9. QED
    BY <1>3, <1>4, <1>5, <1>6, <1>7, <1>8 DEF Inv, MoneyInv

\* The invariant holds at the start.
LEMMA InitInv == Init => Inv
  <1> SUFFICES ASSUME Init
               PROVE  Inv
    OBVIOUS
  <1>1. \A w \in Workers : worker[w] = Idle /\ worker[w].pc = "idle"
    BY IdleParts DEF Init
  <1>2. TypeOK
    <2>1. row \in [Requests -> RowType]
      BY DEF Init, RowType, Status
    <2>2. worker \in [Workers -> JobType]
      BY IdleParts DEF Init
    <2>3. QED
      BY <2>1, <2>2, SettlementAssumption DEF Init, TypeOK, RowType
  <1>3. ASSUME NEW c \in Currencies
        PROVE  MoneyIn(c)
    <2>1. Flight(c) = [w \in Workers |-> 0]
      BY <1>1 DEF Flight
    <2>2. /\ [r \in MadeIn(c) |-> out[r]] = [r \in MadeIn(c) |-> 0]
          /\ [r \in DrawnOn(c) |-> out[r]] = [r \in DrawnOn(c) |-> 0]
      BY DEF Init, MadeIn, DrawnOn
    <2>3. Total(Flight(c)) = 0 /\ Paid(out, MadeIn(c)) = 0 /\ Paid(out, DrawnOn(c)) = 0
      BY <2>1, <2>2, TotalZero DEF Paid
    <2>4. /\ claim[c] = Claim0[c] /\ reserve[c] = Claim0[c] + Others[c]
          /\ Claim0[c] \in Nat /\ Others[c] \in Nat
      BY SettlementAssumption DEF Init
    <2>5. QED
      BY <2>3, <2>4 DEF MoneyIn
  <1>4. RowInv
    BY DEF Init, RowInv, RowOk, Good
  <1>5. JobInv
    BY <1>1 DEF JobInv, JobOk
  <1>6. SingleInv
    BY <1>1 DEF Init, SingleInv, Alone, Settled, Holds
  <1>7. QED
    BY <1>2, <1>3, <1>4, <1>5, <1>6 DEF Inv, Init, MoneyInv

\* Every step keeps it.
LEMMA NextInv == Inv /\ [Next]_vars => Inv'
  <1> SUFFICES ASSUME Inv, [Next]_vars
               PROVE  Inv'
    OBVIOUS
  <1>1. CASE UNCHANGED vars
    <2>1. TypeOK' /\ onchain' \in BOOLEAN
      BY <1>1 DEF vars, Inv, TypeOK
    <2>2. MoneyInv'
      BY <1>1 DEF vars, Inv, MoneyInv, MoneyIn, Flight, MadeIn, DrawnOn, Source
    <2>3. RowInv' /\ JobInv' /\ SingleInv'
      BY <1>1 DEF vars, Inv, RowInv, RowOk, JobInv, JobOk, SingleInv, Alone, Settled, Holds
    <2>4. QED
      BY <2>1, <2>2, <2>3 DEF Inv
  <1>2. CASE Next
    <2>1. Trace /\ Routes
      BY <1>2 DEF Next
    <2>2. CASE \E w \in Workers, r \in Requests, m \in Members : Request(w, m, r)
      BY <2>1, <2>2, RequestKept
    <2>3. CASE \E w \in Workers, r \in Requests, m \in Members : Approve(w, m, r)
      BY <2>1, <2>3, ApproveKept
    <2>4. CASE \E w \in Workers, r \in Requests : Execute(w, r)
      BY <2>1, <2>4, ExecuteKept
    <2>5. CASE \E m \in Members, r \in Requests : Reject(m, r)
      BY <2>1, <2>5, RejectKept
    <2>6. CASE \E w \in Workers : Step(w)
      <3>1. PICK w \in Workers : Step(w)
        BY <2>6
      <3>2. QED
        BY <2>1, <3>1, SetApprovedKept, ReviveKept, CheckBalanceKept, DebitKept, SweepKept,
           WithdrawKept, SetExecutedKept, SetFailedKept DEF Step
    <2>7. CASE Crash
      BY <2>1, <2>7, CrashKept
    <2>8. QED
      BY <2>1, <2>2, <2>3, <2>4, <2>5, <2>6, <2>7 DEF Routes
  <1>3. QED
    BY <1>1, <1>2
(***************************************************************************)
(*                              Theorems                                   *)
(***************************************************************************)

\* A group of requests has been paid no more than a larger one.
LEMMA PaidMore ==
    ASSUME NEW o \in [Requests -> Nat], NEW A \in SUBSET Requests, NEW B \in SUBSET A
    PROVE  Paid(o, A) \in Nat /\ Paid(o, B) \in Nat /\ Paid(o, B) <= Paid(o, A)
  <1>1. IsFiniteSet(A) /\ B \in SUBSET Requests
    BY FS_Subset, SettlementAssumption
  <1>2. PICK f \in [A -> Nat] : f = [r \in A |-> o[r]]
    OBVIOUS
  <1>3. \A r \in B : f[r] <= f[r]
    OBVIOUS
  <1>4. Total([r \in B |-> f[r]]) <= Total(f)
    BY <1>1, <1>3, TotalPart
  <1>5. [r \in B |-> f[r]] = [r \in B |-> o[r]]
    BY <1>2
  <1>6. QED
    BY <1>1, <1>2, <1>4, <1>5, PaidType DEF Paid

\* Two separate groups of requests were paid what both were paid together.
LEMMA PaidSplit ==
    ASSUME NEW o \in [Requests -> Nat], NEW A \in SUBSET Requests, NEW B \in SUBSET Requests,
           A \cap B = {}
    PROVE  Paid(o, A \cup B) = Paid(o, A) + Paid(o, B)
  <1>1. IsFiniteSet(Requests)
    BY SettlementAssumption
  <1>2. \A f \in [Requests -> Nat] :
           Total([r \in A \cup B |-> f[r]]) = Total([r \in A |-> f[r]]) + Total([r \in B |-> f[r]])
    BY <1>1, TotalSplit, SMTT(60)
  <1>3. QED
    BY <1>2, Zenon DEF Paid

\* What left the backing of c is what was paid for requests in c, which their claim
\* was debited for, and what was diverted.
LEMMA BackingLeft ==
    ASSUME Inv, NEW c \in Currencies
    PROVE  reserve[c] + Diverted(c) >= claim[c] + Others[c]
  <1> DEFINE own == DrawnOn(c) \cap MadeIn(c)
             other == DrawnOn(c) \ MadeIn(c)
  <1>1. /\ out \in [Requests -> Nat] /\ claim[c] \in Nat /\ reserve[c] \in Nat
        /\ Claim0[c] \in Nat /\ Others[c] \in Nat /\ MoneyIn(c)
    BY SettlementAssumption DEF Inv, TypeOK, MoneyInv
  <1>2. /\ own \in SUBSET Requests /\ other \in SUBSET Requests /\ own \cap other = {}
        /\ DrawnOn(c) = own \cup other /\ own \in SUBSET MadeIn(c) /\ MadeIn(c) \in SUBSET Requests
    BY CountedRequests
  <1>3. Diverted(c) = Paid(out, other)
    BY DEF Diverted, Restrict, Paid, DrawnOn
  <1> HIDE DEF own, other
  <1>4. Paid(out, DrawnOn(c)) = Paid(out, own) + Paid(out, other)
    BY <1>1, <1>2, PaidSplit
  <1>5. Paid(out, MadeIn(c)) \in Nat /\ Paid(out, own) \in Nat /\ Paid(out, own) <= Paid(out, MadeIn(c))
    BY <1>1, <1>2, PaidMore
  <1>6. Paid(out, other) \in Nat
    BY <1>1, <1>2, PaidType
  <1>7. Total(Flight(c)) \in Nat
    BY FlightType, TotalType, SettlementAssumption DEF Inv, TypeOK
  <1>8. QED
    BY <1>1, <1>3, <1>4, <1>5, <1>6, <1>7 DEF MoneyIn

\* What is available and what was asked for already never exceed the merchant's
\* claim at the start: an executed request has been paid, in full, out of it.
LEMMA AvailableFits ==
    ASSUME Inv, NEW c \in Currencies
    PROVE  Available(c) > 0 => Available(c) + Asked(Taken(c)) <= Claim0[c]
  <1> DEFINE closed == {r \in MadeIn(c) : row[r].status = "executed"}
             open == PendingSettlement(c)
             up == [r \in Requests |-> Positive(Amount[r])]
             down == [r \in Requests |-> Positive(-Amount[r])]
  <1>1. /\ out \in [Requests -> Nat] /\ claim[c] \in Nat /\ Claim0[c] \in Nat
        /\ MadeIn(c) \in SUBSET Requests /\ MoneyIn(c)
    BY CountedRequests, SettlementAssumption DEF Inv, TypeOK, MoneyInv
  <1>2. /\ Taken(c) = open \cup closed /\ open \cap closed = {}
        /\ open \in SUBSET Requests /\ closed \in SUBSET MadeIn(c) /\ closed \in SUBSET Requests
    <2>1. \A r \in Requests : row[r].status \in Status
      BY DEF Inv, TypeOK
    <2>2. QED
      BY <1>1, <2>1 DEF PendingSettlement, Taken, Status
  <1>3. /\ up \in [Requests -> Nat] /\ down \in [Requests -> Nat]
        /\ \A r \in Requests : up[r] = Positive(Amount[r]) /\ down[r] = Positive(-Amount[r])
    <2>1. \A r \in Requests : Amount[r] \in Int /\ -Amount[r] \in Int
      BY SettlementAssumption
    <2>2. QED
      BY <2>1, PositiveType
  <1>4. \A r \in closed : up[r] <= out[r]
    <2> SUFFICES ASSUME NEW r \in closed
                 PROVE  up[r] <= out[r]
      OBVIOUS
    <2>1. out[r] > 0 /\ out[r] >= Amount[r] /\ out[r] \in Nat /\ Amount[r] \in Int
      BY <1>1, <1>2, SettlementAssumption DEF Inv, RowInv, RowOk
    <2>2. QED
      BY <1>2, <1>3, <2>1 DEF Positive
  <1> HIDE DEF closed, open, up, down
  <1>5. ASSUME NEW S \in SUBSET Requests
        PROVE  Asked(S) = Paid(up, S) - Paid(down, S) /\ Paid(up, S) \in Nat /\ Paid(down, S) \in Nat
    <2>1. /\ [r \in S |-> Positive(Amount[r])] = [r \in S |-> up[r]]
          /\ [r \in S |-> Positive(-Amount[r])] = [r \in S |-> down[r]]
      BY <1>3
    <2>2. QED
      BY <1>3, <2>1, PaidType DEF Asked, Paid
  <1>6. /\ Paid(up, Taken(c)) = Paid(up, open) + Paid(up, closed)
        /\ Paid(down, Taken(c)) = Paid(down, open) + Paid(down, closed)
    BY <1>2, <1>3, PaidSplit
  <1>7. Paid(up, closed) <= Paid(out, closed)
    <2>1. PICK f \in [closed -> Nat], g \in [closed -> Nat] : f = [r \in closed |-> out[r]] /\ g = [r \in closed |-> up[r]]
      BY <1>1, <1>2, <1>3
    <2>2. \A r \in closed : g[r] <= f[r]
      BY <1>2, <1>4, <2>1
    <2>3. IsFiniteSet(closed) /\ closed \in SUBSET closed
      BY <1>2, FS_Subset, SettlementAssumption
    <2>4. Total([r \in closed |-> g[r]]) <= Total(f)
      BY <2>2, <2>3, TotalPart
    <2>5. [r \in closed |-> g[r]] = g
      OBVIOUS
    <2>6. QED
      BY <2>1, <2>4, <2>5 DEF Paid
  <1>8. Paid(out, closed) \in Nat /\ Paid(out, MadeIn(c)) \in Nat /\ Paid(out, closed) <= Paid(out, MadeIn(c))
    BY <1>1, <1>2, PaidMore
  <1>9. Total(Flight(c)) \in Nat
    BY FlightType, TotalType, SettlementAssumption DEF Inv, TypeOK
  <1>10. Paid(up, closed) <= Claim0[c] - claim[c]
    <2>1. Paid(up, closed) \in Nat
      BY <1>2, <1>5
    <2>2. QED
      BY <1>1, <1>7, <1>8, <1>9, <2>1 DEF MoneyIn
  <1>11. PICK a \in Int, b \in Int : a = Asked(open) /\ b = Asked(closed) /\ a + b = Asked(Taken(c))
                                      /\ b <= Claim0[c] - claim[c]
    <2>1. /\ Asked(open) = Paid(up, open) - Paid(down, open) /\ Paid(up, open) \in Nat /\ Paid(down, open) \in Nat
          /\ Asked(closed) = Paid(up, closed) - Paid(down, closed) /\ Paid(up, closed) \in Nat /\ Paid(down, closed) \in Nat
      BY <1>2, <1>5
    <2>2. Asked(Taken(c)) = Paid(up, Taken(c)) - Paid(down, Taken(c))
      BY <1>2, <1>5
    <2>3. QED
      BY <1>1, <1>6, <1>10, <2>1, <2>2
  <1>12. Available(c) = IF claim[c] - a > 0 THEN claim[c] - a ELSE 0
    BY <1>11 DEF Available, Positive, open
  <1>13. QED
    BY <1>1, <1>11, <1>12

\* The inductive invariant gives both properties.
LEMMA InvGives == Inv => BackingHolds /\ PaidOnce
  <1> SUFFICES ASSUME Inv
               PROVE  BackingHolds /\ PaidOnce
    OBVIOUS
  <1>1. TypeOK
    BY DEF Inv
  <1>2. BackingHolds
    BY <1>1, BackingLeft, AvailableFits DEF BackingHolds
  <1>3. ASSUME NEW r \in Requests
        PROVE  /\ row[r].status = "executed" => out[r] > 0 /\ out[r] >= Amount[r]
               /\ out[r] > 0 => row[r].approved \in Admins
               /\ row[r].status = "rejected" => out[r] = 0
    <2>1. RowOk(r) /\ row[r].status \in Status /\ out[r] \in Nat
      BY <1>1 DEF Inv, RowInv, TypeOK
    <2>2. QED
      BY <2>1 DEF RowOk, Good, Status
  <1>4. ASSUME NEW r \in Requests \ disturbed
        PROVE  out[r] <= Positive(Amount[r])
    <2>1. Settled(r) /\ Amount[r] \in Int /\ out[r] \in Nat
      BY <1>1, SettlementAssumption DEF Inv, SingleInv, TypeOK
    <2>2. out[r] = 0 \/ out[r] = Amount[r]
      BY <2>1 DEF Settled
    <2>3. QED
      BY <2>1, <2>2 DEF Positive
  <1>5. QED
    BY <1>2, <1>3, <1>4 DEF PaidOnce

\* Whatever overlaps, throws, is lost or crashes, in executeSettlement or around it,
\* and whatever amounts and currencies were asked for, the Vault's backing covers the
\* merchant's claim and everybody else's in every currency but for what was paid for
\* requests in another one, and what the balance page offers has not been asked for.
THEOREM Backing == Spec => []BackingHolds
  BY InitInv, NextInv, InvGives, PTL DEF Spec

\* A request shown as executed has been paid in full; nothing leaves the Vault for
\* one that no org_admin approved or that stands rejected; and one that no two
\* handlers held at once and no fault hit is paid once.
THEOREM PayoutsAgree == Spec => []PaidOnce
  BY InitInv, NextInv, InvGives, PTL DEF Spec

(***************************************************************************)
(*                               The pages                                 *)
(***************************************************************************)

PageType == [shown : SUBSET Requests, busy : Requests \cup {Nothing, "form", "act"}, due : BOOLEAN]
PagesType ==
    /\ pages \in [Members \cup {Panel} -> PageType]
    /\ caller \in [Workers -> Members \cup {Panel, NoPage}]
    /\ slipped \in BOOLEAN

\* A handler that pays, or is about to.
Paying(w) == worker[w].pc \notin {"idle", "approve"}

\* Nothing that excuses a second payout has happened.
Quiet == ~onchain /\ faults = 0 /\ ~slipped

\* One payment at a time, for the panel, which marks its row; the decisions under
\* way are about different pending rows.
PressedJob(w) ==
    /\ Paying(w) => /\ caller[w] = Panel /\ pages[Panel].busy = worker[w].req
                    /\ row[worker[w].req].status \in {"approved", "failed"}
    /\ caller[w] = Panel => Paying(w)
    /\ worker[w].pc = "approve" => row[worker[w].req].status = "pending"

PressedAlone ==
    \A w, v \in Workers :
       \/ w = v
       \/ /\ ~(Paying(w) /\ Paying(v))
          /\ ~(worker[w].pc = "approve" /\ worker[v].pc = "approve" /\ worker[w].req = worker[v].req)

PressInv == PagesType /\ (Quiet => disturbed = {} /\ PressedAlone /\ \A w \in Workers : PressedJob(w))
(***************************************************************************)
(* What the calls do to the pages.                                         *)
(***************************************************************************)

Viewers == Members \cup {Panel}

LEMMA ToldPages ==
    ASSUME PagesType, NEW p \in Viewers, Told(p)
    PROVE  /\ pages' \in [Viewers -> PageType]
           /\ \A q \in Viewers : q # p => pages'[q] = pages[q]
  <1>1. pages \in [Viewers -> PageType]
    BY DEF PagesType, Viewers
  <1>2. PICK e \in PageType : e = pages[p]
    BY <1>1
  <1>3. PICK d : d = [e EXCEPT !.busy = Nothing]
    OBVIOUS
  <1>4. d \in PageType
    BY <1>3 DEF PageType
  <1>5. pages' = [pages EXCEPT ![p] = d]
    BY <1>1, <1>2, <1>3 DEF Told
  <1>6. QED
    BY <1>1, <1>4, <1>5

LEMMA DonePages ==
    ASSUME PagesType, NEW p \in Viewers, Done(p)
    PROVE  /\ pages' \in [Viewers -> PageType]
           /\ \A q \in Viewers : q # p => pages'[q] = pages[q]
  <1>1. pages \in [Viewers -> PageType]
    BY DEF PagesType, Viewers
  <1>2. PICK e \in PageType : e = pages[p]
    BY <1>1
  <1>3. PICK b \in {Nothing, e.busy} : b = IF p = Panel THEN Nothing ELSE e.busy
    OBVIOUS
  <1>4. PICK d : d = [[e EXCEPT !.due = TRUE] EXCEPT !.busy = b]
    OBVIOUS
  <1>5. d \in PageType
    BY <1>3, <1>4 DEF PageType
  <1>6. pages' = [pages EXCEPT ![p] = d]
    BY <1>1, <1>2, <1>3, <1>4 DEF Done
  <1>7. QED
    BY <1>1, <1>5, <1>6

LEMMA MarkedPages ==
    ASSUME PagesType, NEW p \in Viewers, NEW mark \in Requests \cup {"form", "act"},
           pages' = [pages EXCEPT ![p].busy = mark]
    PROVE  /\ pages' \in [Viewers -> PageType]
           /\ pages'[p].busy = mark
           /\ \A q \in Viewers : q # p => pages'[q] = pages[q]
  <1>1. pages \in [Viewers -> PageType]
    BY DEF PagesType, Viewers
  <1>2. PICK e \in PageType : e = pages[p]
    BY <1>1
  <1>3. PICK d : d = [e EXCEPT !.busy = mark]
    OBVIOUS
  <1>4. d \in PageType /\ d.busy = mark
    BY <1>3 DEF PageType
  <1>5. pages' = [pages EXCEPT ![p] = d]
    BY <1>1, <1>2, <1>3
  <1>6. QED
    BY <1>1, <1>4, <1>5

\* A press leaves other pages and the callers of other handlers alone.
LEMMA PressedPages ==
    ASSUME PagesType, NEW w \in Workers, NEW p \in Viewers,
           NEW mark \in Requests \cup {"form", "act"}, Pressed(w, p, mark)
    PROVE  /\ pages' \in [Viewers -> PageType]
           /\ caller' \in [Workers -> Members \cup {Panel, NoPage}]
           /\ \A q \in Viewers : q # p => pages'[q] = pages[q]
           /\ \A v \in Workers : v # w => caller'[v] = caller[v]
           /\ worker'[w] = Idle => caller' = caller
           /\ worker'[w] # Idle => caller'[w] = p /\ pages'[p].busy = mark
  <1>1. caller \in [Workers -> Members \cup {Panel, NoPage}] /\ p \in Members \cup {Panel, NoPage}
    BY DEF PagesType, Viewers
  <1>2. CASE worker'[w] = Idle
    BY <1>1, <1>2, DonePages DEF Pressed
  <1>3. CASE worker'[w] # Idle
    BY <1>1, <1>3, MarkedPages DEF Pressed
  <1>4. QED
    BY <1>2, <1>3

\* What a page shows when it is loaded are requests.
LEMMA FreshPage == \A p : Fresh(p) \in PageType /\ Buttons(p) \subseteq Requests
  BY DEF Fresh, Buttons, Executable, Decidable, PageType

LEMMA LoadPages ==
    ASSUME PagesType, NEW p \in Viewers, Load(p)
    PROVE  /\ pages' \in [Viewers -> PageType]
           /\ pages'[Panel].busy = pages[Panel].busy
  <1>1. pages \in [Viewers -> PageType] /\ Panel \in Viewers
    BY DEF PagesType, Viewers
  <1>2. PICK seen \in {pages[p].shown, Buttons(p)} :
          pages' = [pages EXCEPT ![p] = [shown |-> seen, due |-> FALSE,
                                         busy |-> IF p = Panel THEN @.busy ELSE Nothing]]
    BY DEF Load
  <1>3. PICK e \in PageType : e = pages[p]
    BY <1>1
  <1>4. seen \subseteq Requests
    BY <1>2, <1>3, FreshPage DEF PageType
  <1>5. PICK b \in {Nothing, e.busy} : b = IF p = Panel THEN e.busy ELSE Nothing
    OBVIOUS
  <1>6. PICK d : d = [shown |-> seen, due |-> FALSE, busy |-> b]
    OBVIOUS
  <1>7. d \in PageType /\ d.busy = b
    BY <1>4, <1>5, <1>6 DEF PageType
  <1>8. pages' = [pages EXCEPT ![p] = d]
    BY <1>1, <1>2, <1>3, <1>5, <1>6
  <1>9. QED
    BY <1>1, <1>3, <1>5, <1>7, <1>8

LEMMA OpenPages ==
    ASSUME PagesType, NEW p \in Viewers, Open(p)
    PROVE  /\ pages' \in [Viewers -> PageType]
           /\ caller' \in [Workers -> Members \cup {Panel, NoPage}]
           /\ \A q \in Viewers : q # p => pages'[q] = pages[q]
           /\ slipped' \in BOOLEAN
           /\ ~slipped' => /\ ~slipped /\ caller' = caller
                           /\ \A w \in Workers : caller[w] # p \/ p = NoPage
  <1>1. pages \in [Viewers -> PageType] /\ caller \in [Workers -> Members \cup {Panel, NoPage}]
    BY DEF PagesType, Viewers
  <1>2. PICK d \in PageType : d = Fresh(p)
    BY FreshPage
  <1>3. pages' = [pages EXCEPT ![p] = d]
    BY <1>2 DEF Open
  <1>4. caller' = [w \in Workers |-> IF caller[w] = p THEN NoPage ELSE caller[w]]
    BY DEF Open
  <1>5. slipped' = (slipped \/ caller' # caller)
    BY DEF Open
  <1>6. caller' = caller => \A w \in Workers : caller[w] # p \/ p = NoPage
    BY <1>1, <1>4
  <1>7. slipped' \in BOOLEAN /\ (~slipped' => ~slipped /\ caller' = caller)
    BY <1>5
  <1>8. QED
    BY <1>1, <1>3, <1>4, <1>6, <1>7
(***************************************************************************)
(* What the pages add: one payment at a time.                              *)
(***************************************************************************)

Orderly == PressedAlone /\ \A w \in Workers : PressedJob(w)

\* Handlers in an orderly state work on different requests.
LEMMA OrderlyRows ==
    ASSUME TypeOK, Orderly, NEW w \in Workers, NEW v \in Workers, w # v,
           worker[w] # Idle, worker[v] # Idle
    PROVE  worker[w].req # worker[v].req
  <1>1. worker[w].pc # "idle" /\ worker[v].pc # "idle"
    BY BusyWorker
  <1>2. PressedJob(w) /\ PressedJob(v) /\ PressedAlone
    BY DEF Orderly
  <1>3. CASE Paying(w) \/ Paying(v)
    BY <1>1, <1>2, <1>3 DEF PressedJob, PressedAlone, Paying
  <1>4. CASE ~Paying(w) /\ ~Paying(v)
    BY <1>1, <1>2, <1>4 DEF PressedAlone, Paying
  <1>5. QED
    BY <1>3, <1>4

\* Then nothing is disturbed by a step without a fault.
LEMMA NothingDisturbed ==
    ASSUME TypeOK, Orderly
    PROVE  Overlapped = {}
  <1> SUFFICES ASSUME NEW r \in Requests, NEW w \in Workers, NEW v \in Workers,
                      w # v, r \in InHand(w), r \in InHand(v)
               PROVE  FALSE
    BY DEF Overlapped
  <1>1. worker[w] # Idle /\ worker[v] # Idle /\ worker[w].req = r /\ worker[v].req = r
    BY DEF InHand
  <1>2. QED
    BY <1>1, OrderlyRows

\* A step of no handler on rows that none of them works on.
LEMMA OrderlyStill ==
    ASSUME Orderly, UNCHANGED <<worker, caller>>,
           \A v \in Workers : worker[v].pc # "idle" => row'[worker[v].req] = row[worker[v].req],
           \A v \in Workers : Paying(v) => pages'[Panel].busy = pages[Panel].busy
    PROVE  Orderly'
  <1>1. worker' = worker /\ caller' = caller
    OBVIOUS
  <1>2. ASSUME NEW v \in Workers
        PROVE  PressedJob(v)'
    <2>1. PressedJob(v)
      BY DEF Orderly
    <2>2. Paying(v)' = Paying(v)
      BY <1>1 DEF Paying
    <2>3. /\ Paying(v) => row'[worker[v].req] = row[worker[v].req]
          /\ worker[v].pc = "approve" => row'[worker[v].req] = row[worker[v].req]
      BY DEF Paying
    <2>4. QED
      BY <1>1, <2>1, <2>2, <2>3 DEF PressedJob
  <1>3. PressedAlone'
    BY <1>1 DEF Orderly, PressedAlone, Paying
  <1>4. QED
    BY <1>2, <1>3 DEF Orderly

\* A step of handler w, beside rows that the others work on.
LEMMA OrderlyStep ==
    ASSUME Orderly, NEW w \in Workers,
           \A v \in Workers : v # w => worker'[v] = worker[v] /\ caller'[v] = caller[v],
           \A v \in Workers : v # w /\ worker[v].pc # "idle" =>
                                  row'[worker[v].req] = row[worker[v].req],
           \A v \in Workers : v # w /\ Paying(v) => pages'[Panel].busy = pages[Panel].busy,
           Paying(w)' => \A v \in Workers : v # w => ~Paying(v),
           worker'[w].pc = "approve" =>
              \A v \in Workers : v # w /\ worker[v].pc = "approve" => worker[v].req # worker'[w].req,
           PressedJob(w)'
    PROVE  Orderly'
  <1>1. ASSUME NEW v \in Workers, v # w
        PROVE  PressedJob(v)'
    <2>1. PressedJob(v) /\ worker'[v] = worker[v] /\ caller'[v] = caller[v]
      BY <1>1 DEF Orderly
    <2>2. Paying(v)' = Paying(v)
      BY <2>1 DEF Paying
    <2>3. /\ Paying(v) => row'[worker[v].req] = row[worker[v].req]
          /\ worker[v].pc = "approve" => row'[worker[v].req] = row[worker[v].req]
          /\ Paying(v) => pages'[Panel].busy = pages[Panel].busy
      BY <1>1 DEF Paying
    <2>4. QED
      BY <2>1, <2>2, <2>3 DEF PressedJob
  <1>2. PressedAlone'
    <2> SUFFICES ASSUME NEW u \in Workers, NEW v \in Workers, u # v
                 PROVE  /\ ~(Paying(u)' /\ Paying(v)')
                        /\ ~(/\ worker'[u].pc = "approve" /\ worker'[v].pc = "approve"
                             /\ worker'[u].req = worker'[v].req)
      BY DEF PressedAlone
    <2>1. /\ ~(Paying(u) /\ Paying(v))
          /\ ~(worker[u].pc = "approve" /\ worker[v].pc = "approve" /\ worker[u].req = worker[v].req)
      BY DEF Orderly, PressedAlone
    <2>2. /\ u # w => worker'[u] = worker[u] /\ Paying(u)' = Paying(u)
          /\ v # w => worker'[v] = worker[v] /\ Paying(v)' = Paying(v)
      BY DEF Paying
    <2>3. CASE u = w
      BY <2>1, <2>2, <2>3
    <2>4. CASE v = w
      BY <2>1, <2>2, <2>4
    <2>5. CASE u # w /\ v # w
      BY <2>1, <2>2, <2>5
    <2>6. QED
      BY <2>3, <2>4, <2>5
  <1>3. QED
    BY <1>1, <1>2 DEF Orderly, PressedJob

\* A decided or executed row is in no handler's hands.
LEMMA RowFree ==
    ASSUME TypeOK, Orderly, NEW r \in Requests, row[r].status \notin {"pending", "approved", "failed"}
    PROVE  \A v \in Workers : worker[v].pc # "idle" => worker[v].req # r
  <1>1. \A v \in Workers : PressedJob(v)
    BY DEF Orderly
  <1>2. QED
    BY <1>1 DEF PressedJob, Paying
\* Making a request: by bank the handler is done at once.
LEMMA HandleRequestOrderly ==
    ASSUME TypeOK, PagesType, PagesAssumption, Orderly, ~onchain,
           NEW w \in Workers, NEW m \in Members, NEW r \in Requests, HandleRequest(w, m, r)
    PROVE  Orderly'
  <1>1. worker \in [Workers -> JobType] /\ row \in [Requests -> RowType]
    BY DEF TypeOK, RowType
  <1>2. worker[w] = Idle /\ row[r].status = "none"
    BY DEF HandleRequest, Request
  <1>3. worker' = [worker EXCEPT ![w] = Idle]
    BY DEF HandleRequest, Request, Become
  <1>4. worker' = worker /\ worker'[w] = Idle
    BY <1>1, <1>2, <1>3
  <1>5. \A q \in Requests : q # r => row'[q] = row[q]
    BY <1>1 DEF HandleRequest, Request
  <1>6. \A v \in Workers : worker[v].pc # "idle" => worker[v].req \in Requests \ {r}
    BY <1>2, RowFree, BusyWorker
  <1>7. m \in Viewers /\ m # Panel /\ Panel \in Viewers /\ Pressed(w, m, "form")
    BY DEF PagesAssumption, Viewers, Panel, HandleRequest
  <1>8. pages'[Panel] = pages[Panel] /\ caller' = caller
    BY <1>4, <1>7, PressedPages
  <1>9. QED
    BY <1>4, <1>5, <1>6, <1>8, OrderlyStill

\* Deciding: the row is pending, and nobody else is deciding on it.
LEMMA ActOrderly ==
    ASSUME TypeOK, PagesType, PagesAssumption, Orderly,
           NEW w \in Workers, NEW m \in Members, NEW r \in Requests, Act(w, m, r), ~slipped'
    PROVE  Orderly'
  <1>1. worker \in [Workers -> JobType] /\ row \in [Requests -> RowType]
    BY DEF TypeOK, RowType
  <1>2. m \in Viewers /\ m # Panel /\ Panel \in Viewers
    BY DEF PagesAssumption, Viewers, Panel
  <1>3. \A v \in Workers : ~(worker[v].pc = "approve" /\ worker[v].req = r)
    BY DEF Act
  <1>4. row[r].status = "pending" =>
           \A v \in Workers : worker[v].pc # "idle" => worker[v].req # r
    BY <1>3 DEF Orderly, PressedJob, Paying
  <1>5. CASE Approve(w, m, r) /\ Pressed(w, m, "act")
    <2>1. worker[w] = Idle /\ row[r].status = "pending" /\ row' = row
      BY <1>5 DEF Approve
    <2>2. PICK j \in JobType : j.pc = "approve" /\ j.req = r /\ j # Idle /\ Become(w, j)
      <3>1. /\ Job("approve", r, m, FALSE) \in JobType
            /\ Job("approve", r, m, FALSE).pc = "approve"
            /\ Job("approve", r, m, FALSE).req = r
        BY DEF Job, JobType
      <3>2. QED
        BY <1>5, <3>1, IdleParts DEF Approve
    <2>3. worker'[w] = j /\ \A v \in Workers : v # w => worker'[v] = worker[v]
      BY <2>2, BecomeWorker
    <2>4. /\ pages'[Panel] = pages[Panel] /\ caller'[w] = m
          /\ \A v \in Workers : v # w => caller'[v] = caller[v]
      BY <1>2, <1>5, <2>2, <2>3, PressedPages
    <2>5. PressedJob(w)'
      BY <1>2, <2>1, <2>2, <2>3, <2>4 DEF PressedJob, Paying
    <2>6. ~Paying(w)'
      BY <2>2, <2>3 DEF Paying
    <2>7. QED
      BY <1>3, <2>1, <2>2, <2>3, <2>4, <2>5, <2>6, OrderlyStep
  <1>6. CASE Reject(m, r) /\ Done(m) /\ UNCHANGED caller
    <2>1. row[r].status = "pending" /\ worker' = worker
      BY <1>6 DEF Reject
    <2>2. row' = [row EXCEPT ![r].status = "rejected", ![r].approved = m]
      BY <1>6 DEF Reject
    <2>3. \A q \in Requests : q # r => row'[q] = row[q]
      BY <1>1, <2>2, RowApproved DEF Status
    <2>4. pages'[Panel] = pages[Panel]
      BY <1>2, <1>6, DonePages
    <2>5. \A v \in Workers : worker[v].pc # "idle" => row'[worker[v].req] = row[worker[v].req]
      BY <1>4, <2>1, <2>3, BusyWorker
    <2>6. QED
      BY <1>6, <2>1, <2>4, <2>5, OrderlyStill
  <1>7. CASE Refused(m)
    <2>1. worker' = worker /\ caller' = caller /\ row' = row /\ Told(m)
      BY <1>7 DEF Refused
    <2>2. pages'[Panel] = pages[Panel]
      BY <1>2, <2>1, ToldPages
    <2>3. QED
      BY <2>1, <2>2, OrderlyStill
  <1>8. QED
    BY <1>5, <1>6, <1>7 DEF Act

\* Executing: the mark of the panel is the one payment under way, and a press of
\* another row while it is under way counts as a slip.
LEMMA ExecuteOrderly ==
    ASSUME TypeOK, PagesType, Orderly, NEW w \in Workers, NEW r \in Requests,
           ExecutePressed(w, r), ~slipped'
    PROVE  Orderly'
  <1>1. Panel \in Viewers /\ pages[Panel].busy # r
    BY DEF Viewers, ExecutePressed
  <1>2. \A v \in Workers : caller[v] = Panel => worker[v].req = r
    BY DEF ExecutePressed
  <1>3. \A v \in Workers : ~Paying(v) /\ caller[v] # Panel
    BY <1>1, <1>2 DEF Orderly, PressedJob
  <1>4. CASE Execute(w, r) /\ Pressed(w, Panel, r)
    <2>1. worker[w] = Idle /\ row[r].status \in {"approved", "failed"} /\ row' = row
      BY <1>4 DEF Execute
    <2>2. PICK j \in JobType : j.pc \in {"revive", "balance"} /\ j.req = r /\ j # Idle /\ Become(w, j)
      <3>1. PICK p \in {"revive", "balance"} : p = IF row[r].status = "failed" THEN "revive" ELSE "balance"
        OBVIOUS
      <3>2. Job(p, r, NoOne, TRUE) \in JobType /\ Job(p, r, NoOne, TRUE).pc = p
            /\ Job(p, r, NoOne, TRUE).req = r
        BY DEF Job, JobType
      <3>3. QED
        BY <1>4, <3>1, <3>2, IdleParts DEF Execute
    <2>3. worker'[w] = j /\ \A v \in Workers : v # w => worker'[v] = worker[v]
      BY <2>2, BecomeWorker
    <2>4. /\ pages'[Panel].busy = r /\ caller'[w] = Panel
          /\ \A v \in Workers : v # w => caller'[v] = caller[v]
      BY <1>1, <1>4, <2>2, <2>3, PressedPages
    <2>5. PressedJob(w)' /\ worker'[w].pc # "approve"
      BY <2>1, <2>2, <2>3, <2>4 DEF PressedJob, Paying
    <2>6. QED
      BY <1>3, <2>1, <2>3, <2>4, <2>5, OrderlyStep
  <1>5. CASE Refused(Panel)
    <2>1. worker' = worker /\ caller' = caller /\ row' = row
      BY <1>5 DEF Refused
    <2>2. QED
      BY <1>3, <2>1, OrderlyStill
  <1>6. QED
    BY <1>4, <1>5 DEF ExecutePressed
\* A step of a handler without a fault: it ends, or goes on with its row still open.
LEMMA StepQuiet ==
    ASSUME TypeOK, ~onchain, faults' = faults, NEW w \in Workers, Step(w),
           Paying(w) => row[worker[w].req].status \in {"approved", "failed"}
    PROVE  /\ worker[w].pc # "idle" /\ worker[w].req \in Requests
           /\ \A v \in Workers : v # w => worker'[v] = worker[v]
           /\ \A q \in Requests : q # worker[w].req => row'[q] = row[q]
           /\ \/ worker'[w] = Idle
              \/ /\ Paying(w) /\ Paying(w)' /\ worker'[w] # Idle
                 /\ worker'[w].req = worker[w].req
                 /\ row'[worker[w].req].status \in {"approved", "failed"}
  <1>1. worker[w].pc \in Pcs \ {"idle"}
    BY BusyWorker DEF Step, SetApproved, Revive, CheckBalance, DebitClaim, SweepReserve, Withdraw,
                      SetExecuted, SetFailed, Pcs
  <1>2. worker[w].req \in Requests /\ worker[w].by \in Members \cup {NoOne} /\ worker[w] \in Handling
    BY <1>1, BusyWorker
  <1>3. worker \in [Workers -> JobType] /\ row \in [Requests -> RowType] /\ faults \in Nat
    BY SettlementAssumption DEF TypeOK, RowType
  <1>4. \A kind : ~Fault(kind)
    BY <1>3 DEF Fault
  <1>5. ASSUME Become(w, Idle)
        PROVE  worker'[w] = Idle /\ \A v \in Workers : v # w => worker'[v] = worker[v]
    BY <1>5, BecomeWorker, IdleParts
  <1>6. ASSUME Paying(w), NEW p \in Pcs \ {"approve"}, Goto(w, p)
        PROVE  /\ \A v \in Workers : v # w => worker'[v] = worker[v]
               /\ Paying(w)' /\ worker'[w] # Idle /\ worker'[w].req = worker[w].req
    <2>1. /\ worker'[w].pc = p /\ worker'[w].req = worker[w].req
          /\ \A v \in Workers : v # w => worker'[v] = worker[v]
      BY <1>1, <1>6, GotoWorker
    <2>2. p # "idle" /\ p # "approve"
      BY DEF Pcs
    <2>3. QED
      BY <2>1, <2>2, IdleParts DEF Paying
  <1>7. ASSUME Paying(w), row' = row, NEW p \in Pcs \ {"approve"}, Goto(w, p)
        PROVE  /\ \A v \in Workers : v # w => worker'[v] = worker[v]
               /\ \A q \in Requests : q # worker[w].req => row'[q] = row[q]
               /\ Paying(w) /\ Paying(w)' /\ worker'[w] # Idle
               /\ worker'[w].req = worker[w].req
               /\ row'[worker[w].req].status \in {"approved", "failed"}
    BY <1>6, <1>7
  <1>8. CASE SetApproved(w)
    <2>1. row' = [row EXCEPT ![worker[w].req].status = "approved",
                             ![worker[w].req].approved = worker[w].by]
      BY <1>8 DEF SetApproved
    <2>2. \A q \in Requests : q # worker[w].req => row'[q] = row[q]
      BY <1>3, <2>1
    <2>3. Become(w, Idle)
      BY <1>8 DEF SetApproved
    <2>4. QED
      BY <1>1, <1>2, <1>5, <2>2, <2>3
  <1>9. CASE Revive(w)
    <2>1. row' = [row EXCEPT ![worker[w].req].status = "approved"] /\ Goto(w, "balance") /\ Paying(w)
      BY <1>9 DEF Revive, Paying
    <2>2. row'[worker[w].req].status = "approved"
          /\ \A q \in Requests : q # worker[w].req => row'[q] = row[q]
      BY <1>2, <1>3, <2>1, RowExcept DEF Status
    <2>3. "balance" \in Pcs \ {"approve"}
      BY DEF Pcs
    <2>4. QED
      BY <1>1, <1>2, <1>6, <2>1, <2>2, <2>3
  <1>10. CASE CheckBalance(w) \/ DebitClaim(w) \/ SweepReserve(w) \/ Withdraw(w)
    <2>1. Paying(w) /\ row' = row
      BY <1>10 DEF CheckBalance, DebitClaim, SweepReserve, Withdraw, Paying
    <2>2. \E p \in {"debit", "sweep", "withdraw", "done", "fail"} : Goto(w, p)
      <3>1. CheckBalance(w) => \E p \in {"debit", "withdraw", "fail"} : Goto(w, p)
        BY DEF CheckBalance
      <3>2. DebitClaim(w) => Goto(w, "sweep") \/ Goto(w, "fail")
        BY DEF DebitClaim
      <3>3. SweepReserve(w) => Goto(w, "done") \/ Goto(w, "fail")
        BY DEF SweepReserve
      <3>4. Withdraw(w) => Goto(w, "done") \/ Goto(w, "fail")
        BY DEF Withdraw
      <3>5. QED
        BY <1>10, <3>1, <3>2, <3>3, <3>4
    <2>3. {"debit", "sweep", "withdraw", "done", "fail"} \subseteq Pcs \ {"approve"}
      BY DEF Pcs
    <2>4. QED
      BY <1>1, <1>2, <1>7, <2>1, <2>2, <2>3
  <1>11. CASE SetExecuted(w) \/ SetFailed(w)
    <2>1. Become(w, Idle)
      BY <1>4, <1>11 DEF SetExecuted, SetFailed
    <2>2. \/ row' = row
          \/ row' = [row EXCEPT ![worker[w].req].status = "executed"]
          \/ row' = [row EXCEPT ![worker[w].req].status = "failed"]
      BY <1>4, <1>11 DEF SetExecuted, SetFailed
    <2>3. \A q \in Requests : q # worker[w].req => row'[q] = row[q]
      BY <1>3, <2>2
    <2>4. QED
      BY <1>1, <1>2, <1>5, <2>1, <2>3
  <1>12. QED
    BY <1>8, <1>9, <1>10, <1>11, SMTT(60) DEF Step

\* The page hears of a handler that has ended.
LEMMA ServePages ==
    ASSUME PagesType, NEW w \in Workers, Serve(w)
    PROVE  /\ pages' \in [Viewers -> PageType]
           /\ caller' \in [Workers -> Members \cup {Panel, NoPage}]
           /\ \A v \in Workers : v # w => caller'[v] = caller[v]
           /\ caller[w] # Panel => (Panel \in Viewers => pages'[Panel] = pages[Panel])
           /\ worker'[w] = Idle => caller'[w] = NoPage
           /\ worker'[w] # Idle => UNCHANGED <<pages, caller>>
  <1>1. /\ caller \in [Workers -> Members \cup {Panel, NoPage}]
        /\ pages \in [Viewers -> PageType]
    BY DEF PagesType, Viewers
  <1>2. CASE worker'[w] = Idle /\ caller[w] # NoPage
    <2>1. PICK p \in Viewers : p = caller[w]
      BY <1>1, <1>2 DEF Viewers
    <2>2. caller' = [caller EXCEPT ![w] = NoPage] /\ (Told(p) \/ Done(p))
      BY <1>2, <2>1 DEF Serve
    <2>3. /\ pages' \in [Viewers -> PageType]
          /\ \A q \in Viewers : q # p => pages'[q] = pages[q]
      BY <2>2, ToldPages, DonePages
    <2>4. QED
      BY <1>1, <1>2, <2>1, <2>2, <2>3
  <1>3. CASE ~(worker'[w] = Idle /\ caller[w] # NoPage)
    <2>1. UNCHANGED <<pages, caller>>
      BY <1>3 DEF Serve
    <2>2. QED
      BY <1>1, <1>3, <2>1
  <1>4. QED
    BY <1>2, <1>3

\* A handler goes on.
LEMMA ServeOrderly ==
    ASSUME TypeOK, PagesType, Orderly, ~onchain, faults' = faults,
           NEW w \in Workers, Serve(w)
    PROVE  Orderly'
  <1>1. PressedJob(w) /\ PressedAlone /\ Panel \in Viewers /\ Step(w)
    BY DEF Orderly, Serve, Viewers
  <1>2. Paying(w) => row[worker[w].req].status \in {"approved", "failed"}
    BY <1>1 DEF PressedJob
  <1>3. /\ worker[w].pc # "idle" /\ worker[w].req \in Requests
        /\ \A v \in Workers : v # w => worker'[v] = worker[v]
        /\ \A q \in Requests : q # worker[w].req => row'[q] = row[q]
        /\ \/ worker'[w] = Idle
           \/ /\ Paying(w) /\ Paying(w)' /\ worker'[w] # Idle
              /\ worker'[w].req = worker[w].req
              /\ row'[worker[w].req].status \in {"approved", "failed"}
    BY <1>1, <1>2, StepQuiet
  <1>4. \A v \in Workers : v # w => worker'[v] = worker[v] /\ caller'[v] = caller[v]
    BY <1>3, ServePages
  <1>5. \A v \in Workers : v # w /\ worker[v].pc # "idle" => row'[worker[v].req] = row[worker[v].req]
    <2>1. \A v \in Workers : worker[v].pc # "idle" => worker[v] # Idle /\ worker[v].req \in Requests
      BY BusyWorker
    <2>2. QED
      BY <1>3, <2>1, OrderlyRows
  <1>6. \A v \in Workers : v # w /\ Paying(v) => pages'[Panel].busy = pages[Panel].busy
    <2> SUFFICES ASSUME NEW v \in Workers, v # w, Paying(v) PROVE pages'[Panel] = pages[Panel]
      OBVIOUS
    <2>1. ~Paying(w)
      BY <1>1 DEF PressedAlone
    <2>2. caller[w] # Panel
      BY <1>1, <2>1 DEF PressedJob
    <2>3. QED
      BY <1>1, <2>2, ServePages
  <1>7. Paying(w)' => \A v \in Workers : v # w => ~Paying(v)
    BY <1>1, <1>3, IdleParts DEF Paying, PressedAlone
  <1>8. PressedJob(w)' /\ worker'[w].pc # "approve"
    <2>1. CASE worker'[w] = Idle
      <3>1. caller'[w] = NoPage /\ NoPage # Panel /\ worker'[w].pc = "idle"
        BY <2>1, ServePages, IdleParts DEF NoPage, Panel
      <3>2. QED
        BY <3>1 DEF PressedJob, Paying
    <2>2. CASE worker'[w] # Idle
      <3>1. pages' = pages /\ caller' = caller
        BY <2>2, ServePages
      <3>2. QED
        BY <1>1, <1>3, <2>2, <3>1 DEF PressedJob, Paying
    <2>3. QED
      BY <2>1, <2>2
  <1>9. QED
    BY <1>4, <1>5, <1>6, <1>7, <1>8, OrderlyStep
(***************************************************************************)
(* The two invariants together.                                            *)
(***************************************************************************)

\* What the pages do to themselves does not touch the payouts.
LEMMA InvGrows ==
    ASSUME Inv, UNCHANGED <<ledger, row, worker, faults, onchain>>, disturbed \subseteq disturbed'
    PROVE  Inv'
  <1>1. /\ claim' = claim /\ reserve' = reserve /\ out' = out /\ row' = row
        /\ worker' = worker /\ faults' = faults /\ onchain' = onchain
    BY DEF ledger
  <1>2. TypeOK' /\ onchain' \in BOOLEAN
    BY <1>1 DEF Inv, TypeOK
  <1>3. MoneyInv
    BY DEF Inv
  <1>4. MoneyInv'
    BY <1>1, <1>3 DEF MoneyInv, MoneyIn, Flight, MadeIn, DrawnOn, Source
  <1>5. RowInv'
    BY <1>1 DEF Inv, RowInv, RowOk
  <1>6. JobInv'
    BY <1>1 DEF Inv, JobInv, JobOk
  <1>7. ASSUME NEW r \in Requests \ disturbed'
        PROVE  Alone(r)' /\ Settled(r)'
    <2>1. Alone(r) /\ Settled(r)
      BY <1>7 DEF Inv, SingleInv
    <2>2. \A w \in Workers : Holds(w, r)' = Holds(w, r)
      BY <1>1 DEF Holds
    <2>3. Alone(r)'
      BY <2>1, <2>2 DEF Alone
    <2>4. Settled(r)'
      BY <1>1, <2>1, <2>2 DEF Settled
    <2>5. QED
      BY <2>3, <2>4
  <1>8. QED
    BY <1>2, <1>4, <1>5, <1>6, <1>7 DEF Inv, SingleInv

\* Every call of a page is a call of a route, or leaves the payouts alone.
LEMMA PagingRoutes ==
    ASSUME Paging
    PROVE  Routes \/ UNCHANGED <<ledger, row, worker, faults>>
  <1>1. ASSUME NEW p \in Members \cup {Panel}, Load(p) \/ Open(p)
        PROVE  UNCHANGED <<ledger, row, worker, faults>>
    BY <1>1 DEF Load, Open
  <1>2. ASSUME NEW w \in Workers, Serve(w) \/ AnswerLost(w)
        PROVE  Routes \/ UNCHANGED <<ledger, row, worker, faults>>
    BY <1>2 DEF Serve, AnswerLost, Routes
  <1>3. ASSUME NEW w \in Workers, NEW r \in Requests, ExecutePressed(w, r)
        PROVE  Routes \/ UNCHANGED <<ledger, row, worker, faults>>
    BY <1>3 DEF ExecutePressed, Refused, Routes
  <1>4. ASSUME NEW w \in Workers, NEW r \in Requests, NEW m \in Members,
               HandleRequest(w, m, r) \/ Act(w, m, r)
        PROVE  Routes \/ UNCHANGED <<ledger, row, worker, faults>>
    BY <1>4 DEF HandleRequest, Act, Refused, Routes
  <1>5. QED
    BY <1>1, <1>2, <1>3, <1>4 DEF Paging

LEMMA PagingInv ==
    ASSUME Inv, Paging, Trace
    PROVE  Inv'
  <1>1. CASE Routes
    BY <1>1, NextInv DEF Next
  <1>2. CASE UNCHANGED <<ledger, row, worker, faults>>
    <2>1. disturbed \subseteq disturbed' /\ onchain' = onchain
      BY DEF Trace
    <2>2. QED
      BY <1>2, <2>1, InvGrows
  <1>3. QED
    BY <1>1, <1>2, PagingRoutes

\* The history of slips only grows.
LEMMA PagesTyped ==
    ASSUME PagesType, Paging
    PROVE  PagesType' /\ (~slipped' => ~slipped)
  <1>1. /\ pages \in [Viewers -> PageType] /\ Viewers = Members \cup {Panel}
        /\ caller \in [Workers -> Members \cup {Panel, NoPage}] /\ slipped \in BOOLEAN
    BY DEF PagesType, Viewers
  <1>2. SUFFICES /\ pages' \in [Viewers -> PageType]
                 /\ caller' \in [Workers -> Members \cup {Panel, NoPage}]
                 /\ slipped' \in BOOLEAN /\ (~slipped' => ~slipped)
    BY <1>1 DEF PagesType
  <1>3. ASSUME NEW p \in Viewers, Load(p)
        PROVE  <1>2!1
    BY <1>1, <1>3, LoadPages DEF Load
  <1>4. ASSUME NEW p \in Viewers, Open(p)
        PROVE  <1>2!1
    BY <1>4, OpenPages
  <1>5. ASSUME NEW w \in Workers, Serve(w)
        PROVE  <1>2!1
    BY <1>1, <1>5, ServePages DEF Serve
  <1>6. ASSUME NEW w \in Workers, AnswerLost(w)
        PROVE  <1>2!1
    <2>1. PICK p \in Viewers : p = caller[w]
      BY <1>1, <1>6 DEF AnswerLost
    <2>2. Told(p) /\ caller' = [caller EXCEPT ![w] = NoPage] /\ slipped' = TRUE
      BY <1>6, <2>1 DEF AnswerLost
    <2>3. pages' \in [Viewers -> PageType]
      BY <2>2, ToldPages
    <2>4. QED
      BY <1>1, <2>2, <2>3
  <1>7. ASSUME NEW p \in Viewers, Refused(p)
        PROVE  pages' \in [Viewers -> PageType] /\ caller' = caller
    BY <1>7, ToldPages DEF Refused
  <1>8. ASSUME NEW w \in Workers, NEW r \in Requests, ExecutePressed(w, r)
        PROVE  <1>2!1
    <2>1. Panel \in Viewers /\ r \in Requests \cup {"form", "act"}
      BY <1>1
    <2>2. Pressed(w, Panel, r) \/ Refused(Panel)
      BY <1>8 DEF ExecutePressed
    <2>3. pages' \in [Viewers -> PageType] /\ caller' \in [Workers -> Members \cup {Panel, NoPage}]
      BY <1>1, <1>7, <2>1, <2>2, PressedPages
    <2>4. slipped' = (slipped \/ \E v \in Workers : caller[v] = Panel /\ worker[v].req # r)
      BY <1>8 DEF ExecutePressed
    <2>5. QED
      BY <1>1, <2>3, <2>4
  <1>9. ASSUME NEW w \in Workers, NEW m \in Members, NEW r \in Requests, HandleRequest(w, m, r)
        PROVE  <1>2!1
    <2>1. m \in Viewers /\ Pressed(w, m, "form") /\ slipped' = slipped
      BY <1>1, <1>9 DEF HandleRequest
    <2>2. QED
      BY <1>1, <2>1, PressedPages
  <1>10. ASSUME NEW w \in Workers, NEW m \in Members, NEW r \in Requests, Act(w, m, r)
         PROVE  <1>2!1
    <2>1. m \in Viewers
      BY <1>1
    <2>2. Pressed(w, m, "act") \/ (Done(m) /\ caller' = caller) \/ Refused(m)
      BY <1>10 DEF Act
    <2>3. pages' \in [Viewers -> PageType] /\ caller' \in [Workers -> Members \cup {Panel, NoPage}]
      BY <1>1, <1>7, <2>1, <2>2, PressedPages, DonePages
    <2>4. slipped' = (slipped \/ \E v \in Workers : worker[v].pc = "approve" /\ worker[v].req = r)
      BY <1>10 DEF Act
    <2>5. QED
      BY <1>1, <2>3, <2>4
  <1>11. QED
    BY <1>1, <1>3, <1>4, <1>5, <1>6, <1>8, <1>9, <1>10 DEF Paging

\* While nothing slips the payments stay in order.
LEMMA PagingOrderly ==
    ASSUME TypeOK, PagesType, PagesAssumption, Orderly, ~onchain, faults' = faults, Paging, ~slipped'
    PROVE  Orderly'
  <1>1. Panel \in Viewers /\ Viewers = Members \cup {Panel}
    BY DEF Viewers
  <1>2. ASSUME NEW p \in Viewers, Load(p)
        PROVE  Orderly'
    <2>1. UNCHANGED <<row, worker, caller>>
      BY <1>2 DEF Load
    <2>2. QED
      BY <1>2, <2>1, LoadPages, OrderlyStill
  <1>3. ASSUME NEW p \in Viewers, Open(p)
        PROVE  Orderly'
    <2>1. UNCHANGED <<row, worker>>
      BY <1>3 DEF Open
    <2>2. caller' = caller /\ \A v \in Workers : caller[v] # p \/ p = NoPage
      BY <1>3, OpenPages
    <2>3. \A v \in Workers : Paying(v) => pages'[Panel].busy = pages[Panel].busy
      <3>1. \A v \in Workers : Paying(v) => caller[v] = Panel
        BY DEF Orderly, PressedJob
      <3>2. Panel # NoPage
        BY DEF Panel, NoPage
      <3>3. QED
        BY <1>1, <1>3, <2>2, <3>1, <3>2, OpenPages
    <2>4. QED
      BY <2>1, <2>2, <2>3, OrderlyStill
  <1>4. ASSUME NEW w \in Workers, AnswerLost(w)
        PROVE  FALSE
    BY <1>4 DEF AnswerLost
  <1>5. QED
    BY <1>1, <1>2, <1>3, <1>4, ServeOrderly, ExecuteOrderly, HandleRequestOrderly, ActOrderly DEF Paging

\* A behaviour of the pages keeps both.
LEMMA PressNext ==
    ASSUME Inv, PressInv, Paging, Trace
    PROVE  Inv' /\ PressInv'
  <1>1. Inv' /\ TypeOK /\ TypeOK'
    BY PagingInv DEF Inv
  <1>2. PagesType' /\ (~slipped' => ~slipped)
    BY PagesTyped DEF PressInv
  <1>3. ASSUME Quiet'
        PROVE  disturbed' = {} /\ Orderly'
    <2>1. faults \in Nat /\ faults' = 0 /\ (faults' = faults \/ faults' = faults + 1)
      <3>1. faults \in Nat
        BY <1>1, SettlementAssumption, SMTT(60) DEF TypeOK
      <3>2. Routes => faults' = faults \/ faults' = faults + 1
        BY DEF Routes, Request, Approve, Execute, Reject, Crash, Step, SetApproved, Revive,
               CheckBalance, DebitClaim, SweepReserve, Withdraw, SetExecuted, SetFailed, Fault
      <3>3. QED
        BY <1>3, <3>1, <3>2, PagingRoutes DEF Quiet
    <2>2. faults' = faults /\ faults = 0
      BY <2>1
    <2>3. ~onchain /\ Quiet
      BY <1>2, <1>3, <2>2 DEF Quiet, Trace
    <2>4. disturbed = {} /\ Orderly
      BY <2>3 DEF PressInv, Orderly
    <2>5. PagesType /\ PagesAssumption /\ ~slipped'
      BY <1>3, PagesAssumption DEF PressInv, Quiet
    <2>6. Orderly'
      BY <1>1, <2>2, <2>3, <2>4, <2>5, PagingOrderly
    <2>7. (TypeOK /\ Orderly => Overlapped = {})'
      BY NothingDisturbed, PTL
    <2>8. Overlapped' = {} /\ Hit = {}
      BY <1>1, <2>2, <2>6, <2>7 DEF Hit
    <2>9. QED
      BY <2>4, <2>6, <2>8 DEF Trace
  <1>4. QED
    BY <1>1, <1>2, <1>3 DEF PressInv, Orderly

LEMMA PressInit == Init /\ PagesInit => PressInv
  <1> SUFFICES ASSUME Init, PagesInit PROVE PressInv
    OBVIOUS
  <1>1. pages \in [Members \cup {Panel} -> PageType]
    BY FreshPage DEF PagesInit
  <1>2. caller \in [Workers -> Members \cup {Panel, NoPage}] /\ slipped \in BOOLEAN
    BY DEF PagesInit
  <1>3. \A w \in Workers : worker[w].pc = "idle" /\ caller[w] # Panel
    BY IdleParts DEF Init, PagesInit, NoPage, Panel
  <1>4. disturbed = {}
    BY DEF Init
  <1>5. QED
    BY <1>1, <1>2, <1>3, <1>4 DEF PressInv, PagesType, PressedAlone, PressedJob, Paying

\* Whatever their pages show and however often members and the operator press them,
\* the table and the payouts agree, and until a fault or a slip a payout by bank is
\* paid once (MerchantSettlementsPanel.execute, Settlement.act).
THEOREM PressedPayouts == PagedSpec => []PaidAsPressed
  <1>1. Init /\ PagesInit => Inv /\ PressInv
    BY InitInv, PressInit
  <1>2. Inv /\ PressInv /\ [Paging /\ Trace]_<<vars, pageVars>> => Inv' /\ PressInv'
    <2> SUFFICES ASSUME Inv, PressInv, UNCHANGED <<vars, pageVars>> PROVE Inv' /\ PressInv'
      BY PressNext
    <2>1. /\ UNCHANGED vars
          /\ pages' = pages /\ caller' = caller /\ slipped' = slipped
      BY DEF pageVars
    <2>2. Inv'
      BY <2>1, NextInv
    <2>3. PressInv'
      BY <2>1 DEF vars, PressInv, PagesType, Quiet, PressedAlone, PressedJob, Paying
    <2>4. QED
      BY <2>2, <2>3
  <1>3. Inv /\ PressInv => PaidAsPressed
    <2> SUFFICES ASSUME Inv, PressInv PROVE PaidAsPressed
      OBVIOUS
    <2>1. PaidOnce
      BY InvGives
    <2>2. PressedOnce
      BY <2>1 DEF PaidOnce, PressedOnce, PressInv, Quiet
    <2>3. QED
      BY <2>1, <2>2 DEF PaidAsPressed
  <1>4. QED
    BY <1>1, <1>2, <1>3, PTL DEF PagedSpec

(***************************************************************************)
(*                     The shop: catalogue and till                        *)
(***************************************************************************)

Money == Corridors \cup {"ZAR", "ZWG", "MWK"}
Row == [ext : Items \cup {Absent}, source : {"manual", "api"}, active : {"yes", "no"}, cur : Money,
        fixed : {"yes", "no"}, price : Int, min : Int, max : Int]
Offering == [fixed : {"yes", "no"}, price : Int, min : Int, max : Int, cur : Money, active : {"yes", "no"}]

\* The table: ids are given out in order.
TableOk ==
    /\ IsFiniteSet(DOMAIN products) /\ DOMAIN products = 1..Cardinality(DOMAIN products)
    /\ products \in [DOMAIN products -> Row]
FormOk == form = NoForm \/ form \in [id : {Keep} \cup DOMAIN products, fixed : {"yes", "no"}, unit : Int,
                                     min : Int, max : Int, cur : Money]

Priced(o) == {o.fixed, o.base, o.min, o.max} \subseteq Nat
Feed(f) == \A i \in Items : Priced(f[i])
Sync(x) == x \in [pc : {x.pc}, snap : {x.snap}, todo : {x.todo}, item : {x.item}, row : {x.row}, hand : {x.hand}]

\* A sync's list, and the row it is about to write.
Listing(x) == x.pc \in {"item", "write", "stamp"}
TypedSync(x) ==
    /\ Listing(x) => /\ DOMAIN x.snap \subseteq Items /\ x.todo \subseteq DOMAIN x.snap
                     /\ \A i \in DOMAIN x.snap : x.snap[i] \in Offering
    /\ x.pc = "write" => x.item \in x.todo /\ (x.row # 0 => x.row \in DOMAIN products /\ products[x.row].source = "api")
SyncOk ==
    /\ feed = [i \in Items |-> feed[i]] /\ Feed(feed) /\ DOMAIN sync = Syncs /\ sync = [s \in Syncs |-> sync[s]]
    /\ \A s \in Syncs : Sync(sync[s]) /\ TypedSync(sync[s])

\* An item that an undisturbed sync is done with has a row with what the list says.
Listed(i, p) == RowsOf(i) \cap ByHand # {} \/ \E r \in RowsOf(i) : Fields(products[r]) = p
Undisturbed(x) ==
    /\ x.pc # "idle" => x.hand = [r \in ByHand |-> products[r]]
    /\ Listing(x) => \A i \in DOMAIN x.snap \ x.todo : Listed(i, x.snap[i])
    /\ x.pc = "write" => IF x.row = 0 THEN RowsOf(x.item) = {} ELSE x.row \in RowsOf(x.item) \ ByHand
    /\ x.pc = "stamp" =>
          /\ x.todo = {}
          /\ DOMAIN x.snap # {} => \A r \in DOMAIN products :
                products[r].source = "api" /\ products[r].ext \notin DOMAIN x.snap => products[r].active = "no"
AloneOk == \A s \in Syncs \ mixed : Undisturbed(sync[s])

\* Syncs one after the other: an item has one row of the supplier's.
Single(x) == x.pc = "write" => IF x.row = 0 THEN FromApi(x.item) = {} ELSE x.row \in FromApi(x.item)
SingleOk ==
    marks = {} =>
        /\ \A s, u \in Syncs : Busy(s) /\ Busy(u) => s = u
        /\ \A i \in Items : \A q, r \in FromApi(i) : q = r
        /\ \A s \in Syncs : Single(sync[s])

StockInv == TableOk /\ FormOk /\ SyncOk /\ AloneOk /\ SingleOk

\* The fields of the page and of a request.
Page(x) == x \in [open : {x.open}, store : {x.store}, list : {x.list}, listed : {x.listed}, cart : {x.cart},
                  charging : {x.charging}, change : {x.change}, aged : {x.aged}]
Asking(c) == c \in [kind : {c.kind}, store : {c.store}, served : {c.served}, answer : {c.answer}]

\* The list on the page and in the answers under way: rows as the table had them.
Snapshot(f) == \A r \in DOMAIN f : f[r] \in Row
ListOk ==
    /\ Page(till)
    /\ Snapshot(till.list)
    /\ \A r \in DOMAIN till.list : till.list[r].cur = StoreCurrency[till.listed]
    /\ \A c \in calls : Asking(c) /\ Snapshot(c.answer)
    /\ ~till.open => till.store = NoStore /\ calls = {}
    /\ till.store = NoStore => /\ DOMAIN till.list = {} /\ DOMAIN till.cart = {}
                              /\ \A c \in calls : c.kind \in {"load", "reload"}

CartOk ==
    \A r \in (DOMAIN till.list \cap DOMAIN till.cart) \ till.aged :
        /\ till.cart[r] \in Int
        /\ till.list[r].price > 0 /\ till.list[r].max > 0 => till.cart[r] * till.list[r].price <= till.list[r].max

VoucherOk ==
    /\ vouchers = [i \in 1..Len(vouchers) |-> vouchers[i]] /\ Len(vouchers) \in Nat
    /\ \A i \in 1..Len(vouchers) :
          /\ vouchers[i].priced.cur = vouchers[i].cur
          /\ vouchers[i].priced.max > 0 => vouchers[i].amount <= vouchers[i].priced.max

Shown(x) == x \in [open : {x.open}, mode : {x.mode}, call : {x.call}, qr : {x.qr}, turn : {x.turn}]
Ask(c) == c \in [kind : {c.kind}, product : {c.product}, store : {c.store}, amount : {c.amount}, turn : {c.turn},
                 state : {c.state}, id : {c.id}]
\* What a call of the dialog has led to, and what the dialog shows.
CallFits(c) == c # NoCall =>
    /\ Ask(c) /\ c.amount \in Int /\ c.state \in {"sent", "done", "refused"}
    /\ c.state = "done" =>
          /\ c.id \in 1..Len(vouchers) /\ vouchers[c.id].mode = c.kind
          /\ vouchers[c.id].turn = c.turn /\ vouchers[c.id].store = c.store
\* A voucher issued in this turn of the dialog, for the store that is selected.
QrShown(x) == x.open /\ x.qr # 0 =>
    /\ x.qr \in 1..Len(vouchers) /\ vouchers[x.qr].mode = "qr"
    /\ ~outlived => vouchers[x.qr].turn = x.turn /\ vouchers[x.qr].store = till.store
OwnCall(x) == x.open /\ x.call # NoCall /\ ~outlived => x.call.turn = x.turn /\ x.call.store = till.store

\* What the dialog waits for, and what it shows, was asked for in its own turn.
DialogOk ==
    /\ Shown(dialog) /\ CallFits(dialog.call) /\ QrShown(dialog) /\ OwnCall(dialog)
    /\ dialog.open => till.store # NoStore

TillInv == ListOk /\ CartOk /\ VoucherOk /\ DialogOk
ShopInv == StockInv /\ TillInv

-----------------------------------------------------------------------------
LEMMA InsertTable ==
    ASSUME TableOk, NEW x \in Row, Insert(x)
    PROVE  /\ TableOk' /\ DOMAIN products \subseteq DOMAIN products'
           /\ \E n : /\ n \notin DOMAIN products /\ n \in Nat \ {0}
                     /\ DOMAIN products' = DOMAIN products \cup {n} /\ products'[n] = x
           /\ \A r \in DOMAIN products : products'[r] = products[r]
  <1> DEFINE c == Cardinality(DOMAIN products)
  <1>1. c \in Nat /\ DOMAIN products = 1..c
    BY FS_CardinalityType DEF TableOk
  <1>2. products' = [r \in {c + 1} \cup DOMAIN products |-> IF r = c + 1 THEN x ELSE products[r]]
    BY DEF Insert, With
  <1>3. DOMAIN products' = 1..c + 1 /\ c + 1 \notin DOMAIN products
    BY <1>1, <1>2
  <1>4. IsFiniteSet(1..c + 1) /\ Cardinality(1..c + 1) = c + 1
    BY <1>1, FS_Interval
  <1>5. products' \in [DOMAIN products' -> Row]
    BY <1>2 DEF TableOk
  <1>6. TableOk'
    BY <1>3, <1>4, <1>5 DEF TableOk
  <1>7. DOMAIN products' = DOMAIN products \cup {c + 1}
    BY <1>2
  <1>8. products'[c + 1] = x /\ \A r \in DOMAIN products : products'[r] = products[r]
    BY <1>2, <1>3
  <1>9. c + 1 \in Nat \ {0}
    BY <1>1
  <1> HIDE DEF c
  <1> QED BY <1>3, <1>6, <1>7, <1>8, <1>9

LEMMA PatchTable ==
    ASSUME TableOk, NEW k \in DOMAIN products, NEW x \in Row, products' = [products EXCEPT ![k] = x]
    PROVE  /\ TableOk' /\ DOMAIN products' = DOMAIN products
           /\ \A r \in DOMAIN products : products'[r] = IF r = k THEN x ELSE products[r]
  BY DEF TableOk

\* An edit by hand, and what it may not do to the supplier's rows.
LEMMA EditKeeps ==
    ASSUME StockInv, TableOk', DOMAIN products \subseteq DOMAIN products',
           mixed' = mixed \cup {s \in Syncs : Busy(s)}, UNCHANGED <<sync, feed>>,
           \A r \in DOMAIN products : products'[r].source = products[r].source,
           marks' = {} => /\ marks = {}
                          /\ \A r \in DOMAIN products : products'[r].ext = products[r].ext
                          /\ \A r \in DOMAIN products' \ DOMAIN products : products'[r].source = "manual",
           form' \in {form, NoForm}
    PROVE  StockInv'
  <1>1. FormOk'
    <2>1. CASE form' = NoForm
      BY <2>1 DEF FormOk, NoForm
    <2>2. CASE form' = form /\ form # NoForm
      BY <2>2 DEF StockInv, FormOk
    <2> QED BY <2>1, <2>2
  <1>2. SyncOk'
    BY DEF StockInv, SyncOk, TypedSync, Listing
  <1>3. AloneOk'
    <2> SUFFICES ASSUME NEW s \in Syncs \ mixed' PROVE Undisturbed(sync[s])'
      BY DEF AloneOk
    <2>1. sync'[s].pc = "idle"
      BY DEF Busy
    <2> QED BY <2>1 DEF Undisturbed, Listing
  <1>4. SingleOk'
    <2> SUFFICES ASSUME marks' = {} PROVE SingleOk'
      BY DEF SingleOk
    <2>1. \A i : FromApi(i)' = FromApi(i)
      BY DEF FromApi, RowsOf
    <2>2. \A s \in Syncs : Single(sync[s])' <=> Single(sync[s])
      BY <2>1 DEF Single
    <2> QED BY <2>1, <2>2 DEF StockInv, SingleOk, Busy
  <1> QED BY <1>1, <1>2, <1>3, <1>4 DEF StockInv

LEMMA MajorsAre == \A n \in Majors : n \in Int /\ ToMinorUnits(n) \in Int
  BY CatAssumption DEF CatAssumption, ToMinorUnits

\* What a request body may hold, and what is made of it.
Body(b) == b \in [fixed : {"keep", "yes", "no"}, unit : Int, min : Int, max : Int, active : {"keep", "yes", "no"}]

LEMMA ParsedOk ==
    ASSUME NEW b, Body(b), NEW partial \in BOOLEAN, ParseProductBody(b, partial) # Wrong
    PROVE  Body(ParseProductBody(b, partial)) 
  <1> DEFINE fixed == IF b.fixed = "keep" /\ ~partial THEN "yes" ELSE b.fixed
             unit == IF b.unit > 0 THEN ToMinorUnits(b.unit) ELSE Keep
             spread(v) == IF v # Keep THEN Minor(v) ELSE IF fixed # "no" THEN unit ELSE Keep
             price == IF fixed = "no" THEN 0 ELSE unit
             f == [fixed |-> fixed, unit |-> price, min |-> spread(b.min), max |-> spread(b.max), active |-> b.active]
  <1>1. fixed \in {"keep", "yes", "no"} /\ unit \in Int /\ b.active \in {"keep", "yes", "no"}
    BY DEF Body, ToMinorUnits, Keep
  <1>2. \A v \in Int : spread(v) \in Int
    BY <1>1 DEF Minor, ToMinorUnits, Keep
  <1>3. price \in Int /\ spread(b.min) \in Int /\ spread(b.max) \in Int
    BY <1>1, <1>2 DEF Body
  <1>4. ParseProductBody(b, partial) = f
    BY DEF ParseProductBody
  <1> HIDE DEF fixed, unit, price, spread
  <1>5. Body(f)
    BY <1>1, <1>3 DEF Body
  <1> QED BY <1>4, <1>5

LEMMA PatchedOk ==
    ASSUME NEW p \in Row, NEW f, Body(f)
    PROVE  Patched(p, f) \in Row /\ Patched(p, f).ext = p.ext /\ Patched(p, f).source = p.source
  <1> DEFINE a == [p EXCEPT !.fixed = Set(p.fixed, f.fixed, "keep")]
             b == [a EXCEPT !.price = Set(a.price, f.unit, Keep)]
             c == [b EXCEPT !.min = Set(b.min, f.min, Keep)]
             d == [c EXCEPT !.max = Set(c.max, f.max, Keep)]
             e == [d EXCEPT !.active = Set(d.active, f.active, "keep")]
  <1>1. Patched(p, f) = e
    BY Zenon DEF Patched
  <1>2. \A old \in Int, new \in Int : Set(old, new, Keep) \in Int
    BY DEF Set
  <1>3. \A old \in {"yes", "no"}, new \in {"keep", "yes", "no"} : Set(old, new, "keep") \in {"yes", "no"}
    BY DEF Set
  <1>4. f.fixed \in {"keep", "yes", "no"} /\ f.active \in {"keep", "yes", "no"} /\ f.unit \in Int /\ f.min \in Int /\ f.max \in Int
    BY DEF Body
  <1>5. a \in Row /\ a.ext = p.ext /\ a.source = p.source
    BY <1>3, <1>4 DEF Row
  <1> HIDE DEF a
  <1>6. b \in Row /\ b.ext = p.ext /\ b.source = p.source
    BY <1>2, <1>4, <1>5 DEF Row
  <1> HIDE DEF b
  <1>7. c \in Row /\ c.ext = p.ext /\ c.source = p.source
    BY <1>2, <1>4, <1>6 DEF Row
  <1> HIDE DEF c
  <1>8. d \in Row /\ d.ext = p.ext /\ d.source = p.source
    BY <1>2, <1>4, <1>7 DEF Row
  <1> HIDE DEF d
  <1>9. e \in Row /\ e.ext = p.ext /\ e.source = p.source
    BY <1>3, <1>4, <1>8 DEF Row
  <1> HIDE DEF e
  <1> QED BY <1>1, <1>9

LEMMA BlankOk ==
    ASSUME NEW cur \in Money
    PROVE  BlankRow(cur) \in Row /\ BlankRow(cur).source = "manual"
  BY DEF BlankRow, Row, Absent

LEMMA InsertByHand ==
    ASSUME StockInv, NEW x \in Row, x.source = "manual", Edit, Insert(x), UNCHANGED <<sync, feed, marks>>,
           form' \in {form, NoForm}
    PROVE  StockInv'
  <1>1. TableOk' /\ DOMAIN products \subseteq DOMAIN products' /\ \A r \in DOMAIN products : products'[r] = products[r]
    BY InsertTable DEF StockInv
  <1>2. \A r \in DOMAIN products' \ DOMAIN products : products'[r].source = "manual"
    BY InsertTable DEF StockInv
  <1>3. mixed' = mixed \cup {s \in Syncs : Busy(s)}
    BY DEF Edit, Disturb
  <1> QED BY <1>1, <1>2, <1>3, EditKeeps

LEMMA PatchByHand ==
    ASSUME StockInv, NEW k \in DOMAIN products, NEW x \in Row, Edit, products' = [products EXCEPT ![k] = x],
           UNCHANGED <<sync, feed>>, form' \in {form, NoForm},
           x.source = products[k].source, marks' = {} => marks = {} /\ x.ext = products[k].ext
    PROVE  StockInv'
  <1>1. TableOk' /\ DOMAIN products' = DOMAIN products /\ \A r \in DOMAIN products : products'[r] = IF r = k THEN x ELSE products[r]
    BY PatchTable DEF StockInv
  <1>2. mixed' = mixed \cup {s \in Syncs : Busy(s)}
    BY DEF Edit, Disturb
  <1> QED BY <1>1, <1>2, EditKeeps

LEMMA CreateOk ==
    ASSUME StockInv, NEW b, Body(b), NEW cur \in Corridors, CreateProduct(b, cur)
    PROVE  StockInv'
  <1> DEFINE f == ParseProductBody(b, FALSE)
             x == Patched(BlankRow(cur), f)
  <1>1. Body(f)
    BY ParsedOk DEF CreateProduct
  <1>2. cur \in Money
    BY DEF Money
  <1>3. x \in Row /\ x.source = "manual"
    BY <1>1, <1>2, BlankOk, PatchedOk
  <1>4. Insert(x) /\ Edit /\ UNCHANGED <<sync, feed, marks, form>>
    BY DEF CreateProduct
  <1> HIDE DEF x
  <1> QED BY <1>3, <1>4, InsertByHand

LEMMA SaveFormOk ==
    ASSUME StockInv, NEW n \in Majors, SaveForm(n)
    PROVE  StockInv'
  <1> DEFINE f == ParseProductBody(FormBody(n), form.id # Keep)
  <1>1. form \in [id : {Keep} \cup DOMAIN products, fixed : {"yes", "no"}, unit : Int, min : Int, max : Int, cur : Money]
    BY DEF SaveForm, StockInv, FormOk
  <1>2. Body(FormBody(n))
    <2>1. n \in Int
      BY MajorsAre
    <2> QED BY <1>1, <2>1 DEF FormBody, Body
  <1>3. f # Wrong /\ Edit /\ form' = NoForm /\ UNCHANGED <<sync, feed, marks>>
    BY DEF SaveForm
  <1>4. Body(f)
    BY <1>2, <1>3, ParsedOk
  <1>5. CASE form.id = Keep
    <2> DEFINE x == Patched(BlankRow(form.cur), f)
    <2>1. x \in Row /\ x.source = "manual"
      BY <1>1, <1>4, BlankOk, PatchedOk
    <2>2. Insert(x)
      BY <1>5 DEF SaveForm
    <2> HIDE DEF x
    <2> QED BY <1>3, <2>1, <2>2, InsertByHand
  <1>6. CASE form.id # Keep
    <2> DEFINE x == Patched(products[form.id], f)
    <2>1. form.id \in DOMAIN products /\ products[form.id] \in Row
      BY <1>1, <1>6 DEF StockInv, TableOk
    <2>2. x \in Row /\ x.source = products[form.id].source /\ x.ext = products[form.id].ext
      BY <1>4, <2>1, PatchedOk
    <2>3. products' = [products EXCEPT ![form.id] = x]
      BY <1>6 DEF SaveForm
    <2> HIDE DEF x
    <2> QED BY <1>3, <2>1, <2>2, <2>3, PatchByHand
  <1> QED BY <1>5, <1>6

LEMMA AdminCreateOk ==
    ASSUME StockInv, NEW i \in Items, NEW n \in Majors, AdminCreate(i, n)
    PROVE  StockInv'
  <1>1. PICK cur \in Corridors : Insert([BlankRow(cur) EXCEPT !.ext = i, !.price = n])
    BY DEF AdminCreate
  <1> DEFINE x == [BlankRow(cur) EXCEPT !.ext = i, !.price = n]
  <1>2. n \in Int /\ cur \in Money
    BY MajorsAre DEF Money
  <1> DEFINE a == [BlankRow(cur) EXCEPT !.ext = i]
             b == [a EXCEPT !.price = n]
  <1>5. x = b
    BY Zenon
  <1>6. a \in Row /\ a.source = "manual"
    BY <1>2, BlankOk DEF Row
  <1> HIDE DEF a
  <1>7. b \in Row /\ b.source = "manual"
    BY <1>2, <1>6 DEF Row
  <1> HIDE DEF b
  <1>3. x \in Row /\ x.source = "manual"
    BY <1>5, <1>7
  <1>4. Insert(x) /\ Edit /\ UNCHANGED <<sync, feed, marks, form>>
    BY <1>1 DEF AdminCreate
  <1> HIDE DEF x
  <1> QED BY <1>3, <1>4, InsertByHand

\* One field of a row is set.
LEMMA SetOk ==
    ASSUME StockInv, NEW k \in DOMAIN products,
           \/ \E cur \in Corridors : SetCurrency(k, cur)
           \/ \E active \in {"yes", "no"} : ToggleActive(k, active)
           \/ \E n \in Majors : PatchByWallet(k, n)
           \/ \E i \in Items : AdminPatch(k, i)
    PROVE  StockInv'
  <1>1. products[k] \in Row
    BY DEF StockInv, TableOk
  <1>2. ASSUME NEW cur \in Corridors, SetCurrency(k, cur)
        PROVE  StockInv'
    <2> DEFINE x == [products[k] EXCEPT !.cur = cur]
    <2>1. x \in Row /\ x.ext = products[k].ext /\ x.source = products[k].source
      BY <1>1 DEF Row, Money
    <2>2. products' = [products EXCEPT ![k] = x] /\ Edit /\ UNCHANGED <<sync, feed, form, marks>>
      BY <1>2 DEF SetCurrency
    <2> HIDE DEF x
    <2> QED BY <2>1, <2>2, PatchByHand
  <1>3. ASSUME NEW active \in {"yes", "no"}, ToggleActive(k, active)
        PROVE  StockInv'
    <2> DEFINE x == Patched(products[k], [NoBody EXCEPT !.active = active])
    <2>1. Body([NoBody EXCEPT !.active = active])
      BY DEF Body, NoBody, Keep
    <2>2. x \in Row /\ x.ext = products[k].ext /\ x.source = products[k].source
      BY <1>1, <2>1, PatchedOk
    <2>3. products' = [products EXCEPT ![k] = x] /\ Edit /\ UNCHANGED <<sync, feed, form, marks>>
      BY <1>3 DEF ToggleActive
    <2> HIDE DEF x
    <2> QED BY <2>2, <2>3, PatchByHand
  <1>4. ASSUME NEW n \in Majors, PatchByWallet(k, n)
        PROVE  StockInv'
    <2> DEFINE x == [products[k] EXCEPT !.price = ToMinorUnits(n), !.min = ToMinorUnits(n), !.max = ToMinorUnits(n)]
           a == [products[k] EXCEPT !.price = ToMinorUnits(n)]
           b == [a EXCEPT !.min = ToMinorUnits(n)]
           c == [b EXCEPT !.max = ToMinorUnits(n)]
    <2>1. ToMinorUnits(n) \in Int
      BY MajorsAre
    <2>4. x = c
      BY Zenon
    <2>5. a \in Row /\ a.ext = products[k].ext /\ a.source = products[k].source
      BY <1>1, <2>1 DEF Row
    <2> HIDE DEF a
    <2>6. b \in Row /\ b.ext = products[k].ext /\ b.source = products[k].source
      BY <2>1, <2>5 DEF Row
    <2> HIDE DEF b
    <2>7. c \in Row /\ c.ext = products[k].ext /\ c.source = products[k].source
      BY <2>1, <2>6 DEF Row
    <2> HIDE DEF c
    <2>2. x \in Row /\ x.ext = products[k].ext /\ x.source = products[k].source
      BY <2>4, <2>7
    <2>3. products' = [products EXCEPT ![k] = x] /\ Edit /\ UNCHANGED <<sync, feed, form, marks>>
      BY <1>4 DEF PatchByWallet
    <2> HIDE DEF x
    <2> QED BY <2>2, <2>3, PatchByHand
  <1>5. ASSUME NEW i \in Items, AdminPatch(k, i)
        PROVE  StockInv'
    <2> DEFINE x == [products[k] EXCEPT !.ext = i]
    <2>1. x \in Row /\ x.source = products[k].source
      BY <1>1 DEF Row
    <2>2. products' = [products EXCEPT ![k] = x] /\ Edit /\ UNCHANGED <<sync, feed, form>> /\ marks' # {}
      BY <1>5 DEF AdminPatch
    <2> HIDE DEF x
    <2> QED BY <2>1, <2>2, PatchByHand
  <1> QED BY <1>2, <1>3, <1>4, <1>5

\* A step of one handler that leaves the table alone.
LEMMA SyncMoves ==
    ASSUME StockInv, NEW s \in Syncs, NEW x, sync' = [sync EXCEPT ![s] = x], UNCHANGED <<products, form>>,
           feed' = feed, Sync(x), TypedSync(x), s \notin mixed' => Undisturbed(x),
           \A u \in Syncs \ {s} : u \notin mixed' /\ Busy(u) => u \notin mixed,
           marks' = {} => marks = {} /\ Single(x) /\ (x.pc # "idle" => Busy(s) \/ \A u \in Syncs \ {s} : ~Busy(u))
    PROVE  StockInv'
  <1>1. TableOk' /\ FormOk'
    BY DEF StockInv, TableOk, FormOk
  <1>2. /\ sync' = [u \in Syncs |-> sync'[u]] /\ DOMAIN sync' = Syncs /\ sync'[s] = x
        /\ \A u \in Syncs \ {s} : sync'[u] = sync[u]
    BY DEF StockInv, SyncOk
  <1>3. \A u \in Syncs : Sync(sync[u])' /\ TypedSync(sync[u])'
    <2> SUFFICES ASSUME NEW u \in Syncs PROVE Sync(sync'[u]) /\ TypedSync(sync[u])'
      BY DEF Sync
    <2>1. TypedSync(sync[u])' <=> TypedSync(sync'[u])
      BY DEF TypedSync, Listing
    <2> QED BY <1>2, <2>1 DEF StockInv, SyncOk
  <1>4. SyncOk'
    BY <1>2, <1>3 DEF StockInv, SyncOk
  <1>5. AloneOk'
    <2> SUFFICES ASSUME NEW u \in Syncs \ mixed' PROVE Undisturbed(sync[u])'
      BY DEF AloneOk
    <2>1. Undisturbed(sync[u])' <=> Undisturbed(sync'[u])
      BY DEF Undisturbed, Listing, Listed, RowsOf, ByHand
    <2>2. CASE u = s
      BY <1>2, <2>1, <2>2
    <2>3. CASE u # s /\ Busy(u)
      BY <1>2, <2>1, <2>3 DEF StockInv, AloneOk
    <2>4. CASE u # s /\ ~Busy(u)
      BY <1>2, <2>1, <2>4 DEF Busy, Undisturbed, Listing
    <2> QED BY <2>2, <2>3, <2>4
  <1>6. SingleOk'
    <2> SUFFICES ASSUME marks' = {} PROVE SingleOk'
      BY DEF SingleOk
    <2>1. \A i : FromApi(i)' = FromApi(i)
      BY DEF FromApi, RowsOf
    <2>2. \A u \in Syncs : Single(sync[u])' <=> Single(sync'[u])
      BY <2>1 DEF Single
    <2>3. \A u \in Syncs : Single(sync'[u])
      BY <1>2 DEF StockInv, SingleOk
    <2>4. \A u, v \in Syncs : Busy(u)' /\ Busy(v)' => u = v
      BY <1>2 DEF StockInv, SingleOk, Busy
    <2> QED BY <2>1, <2>2, <2>3, <2>4 DEF StockInv, SingleOk
  <1> QED BY <1>1, <1>4, <1>5, <1>6 DEF StockInv

LEMMA Rested == Sync(Resting) /\ Resting.pc = "idle" /\ TypedSync(Resting) /\ Undisturbed(Resting) /\ Single(Resting)
  BY DEF Resting, Sync, TypedSync, Undisturbed, Single, Listing

LEMMA EndsOk ==
    ASSUME StockInv, NEW s \in Syncs, Stamp(s) \/ SyncThrows(s)
    PROVE  StockInv'
  <1>1. sync' = [sync EXCEPT ![s] = Resting] /\ UNCHANGED <<products, form, feed, mixed, marks>>
    BY DEF Stamp, SyncThrows, catTables
  <1>2. \E x : x = Resting
    OBVIOUS
  <1>3. PICK x : x = Resting
    BY <1>2
  <1> QED BY <1>1, <1>3, Rested, SyncMoves

LEMMA StartOk ==
    ASSUME StockInv, NEW s \in Syncs, StartSync(s)
    PROVE  StockInv'
  <1> DEFINE x == [Resting EXCEPT !.pc = "fetch", !.item = url, !.hand = [r \in ByHand |-> products[r]]]
         h == [r \in ByHand |-> products[r]]
  <1> HIDE DEF h
  <1>1. x = [[[Resting EXCEPT !.pc = "fetch"] EXCEPT !.item = url] EXCEPT !.hand = h]
    BY Zenon DEF h
  <1>7. Sync(x) /\ x.pc = "fetch" /\ x.hand = h
    BY <1>1 DEF Sync, Resting
  <1>2. Sync(x) /\ x.pc = "fetch" /\ x.hand = [r \in ByHand |-> products[r]]
    BY <1>7 DEF h
  <1>3. sync' = [sync EXCEPT ![s] = x] /\ UNCHANGED <<products, form, feed>>
    BY DEF StartSync, catTables
  <1>4. \A u \in Syncs \ {s} : u \notin mixed' /\ Busy(u) => u \notin mixed
    BY DEF StartSync
  <1>5. marks' = {} => marks = {} /\ \A u \in Syncs \ {s} : ~Busy(u)
    BY DEF StartSync
  <1> HIDE DEF x
  <1>6. TypedSync(x) /\ Undisturbed(x) /\ Single(x)
    BY <1>2 DEF TypedSync, Undisturbed, Single, Listing
  <1> QED BY <1>2, <1>3, <1>4, <1>5, <1>6, SyncMoves

LEMMA OffersAre == \A o \in {Gone} \cup Offers : Priced(o)
  BY CatAssumption DEF CatAssumption, Priced, Gone

\* A supplier's list as the sync reads it.
LEMMA ParsedList ==
    ASSUME NEW payload, Feed(payload)
    PROVE  LET list == ParseFlashPimPayload(payload) IN
           DOMAIN list \subseteq Items /\ \A i \in DOMAIN list : list[i] \in Offering
  <1>1. \A o : Priced(o) => MapFlashPimItem(o) \in Offering
    <2> SUFFICES ASSUME NEW o, Priced(o) PROVE MapFlashPimItem(o) \in Offering
      OBVIOUS
    <2>1. Currency(o.country) \in Money
      BY DEF Currency, Money
    <2>2. \A n \in Nat : ToMinorUnits(n) \in Int
      BY DEF ToMinorUnits
    <2>3. o.fixed \in Nat /\ o.base \in Nat /\ o.min \in Nat /\ o.max \in Nat
      BY DEF Priced
    <2>4. /\ ToMinorUnits(IF o.fixed > 0 THEN o.fixed ELSE o.base) \in Int
          /\ ToMinorUnits(o.min) \in Int /\ ToMinorUnits(o.max) \in Int
      BY <2>2, <2>3
    <2> QED BY <2>1, <2>4 DEF MapFlashPimItem, Offering
  <1> QED BY <1>1 DEF ParseFlashPimPayload, Feed

LEMMA FetchOk ==
    ASSUME StockInv, NEW s \in Syncs, FetchCatalogJson(s)
    PROVE  StockInv'
  <1>1. UNCHANGED <<products, form, feed, mixed, marks>> /\ sync[s].pc = "fetch" /\ Sync(sync[s])
    BY DEF FetchCatalogJson, catTables, StockInv, SyncOk
  <1>2. CASE sync' = [sync EXCEPT ![s] = Resting]
    <2>1. PICK x : x = Resting
      OBVIOUS
    <2> QED BY <1>1, <1>2, <2>1, Rested, SyncMoves
  <1>3. ASSUME NEW payload, Feed(payload),
               sync' = [sync EXCEPT ![s].pc = "item", ![s].snap = ParseFlashPimPayload(payload),
                                    ![s].todo = DOMAIN ParseFlashPimPayload(payload)]
        PROVE  StockInv'
    <2>1. PICK list : list = ParseFlashPimPayload(payload)
      OBVIOUS
    <2>2. DOMAIN list \subseteq Items /\ \A i \in DOMAIN list : list[i] \in Offering
      BY <1>3, <2>1, ParsedList
    <2> DEFINE x == [sync[s] EXCEPT !.pc = "item", !.snap = list, !.todo = DOMAIN list]
    <2>3. Sync(x) /\ x.pc = "item" /\ x.snap = list /\ x.todo = DOMAIN list /\ x.hand = sync[s].hand
      BY <1>1 DEF Sync
    <2>4. sync' = [sync EXCEPT ![s] = x]
      BY <1>3, <2>1, Zenon
    <2>5. s \notin mixed => sync[s].hand = [r \in ByHand |-> products[r]]
      BY <1>1 DEF StockInv, AloneOk, Undisturbed
    <2> HIDE DEF x
    <2>6. TypedSync(x) /\ Single(x) /\ (s \notin mixed => Undisturbed(x))
      BY <2>2, <2>3, <2>5 DEF TypedSync, Single, Undisturbed, Listing
    <2>7. Busy(s)
      BY <1>1 DEF Busy
    <2> QED BY <1>1, <2>3, <2>4, <2>6, <2>7, SyncMoves
  <1>4. Feed(feed) /\ Feed(Fixture)
    BY CatAssumption, OffersAre DEF CatAssumption, StockInv, SyncOk, Feed
  <1>5. \/ sync' = [sync EXCEPT ![s] = Resting]
        \/ \E payload \in {feed, Fixture} : sync' = [sync EXCEPT ![s].pc = "item",
               ![s].snap = ParseFlashPimPayload(payload), ![s].todo = DOMAIN ParseFlashPimPayload(payload)]
    BY DEF FetchCatalogJson
  <1> QED BY <1>2, <1>3, <1>4, <1>5

LEMMA LookupOk ==
    ASSUME StockInv, NEW s \in Syncs, Lookup(s)
    PROVE  StockInv'
  <1>1. UNCHANGED <<products, form, feed, mixed, marks>> /\ sync[s].pc = "item" /\ Sync(sync[s]) /\ Busy(s)
    BY DEF Lookup, catTables, StockInv, SyncOk, Busy
  <1>2. PICK i \in sync[s].todo : \E r \in IF RowsOf(i) = {} THEN {0} ELSE RowsOf(i) :
          sync' = IF r \in ByHand THEN [sync EXCEPT ![s].todo = @ \ {i}]
                  ELSE [sync EXCEPT ![s].pc = "write", ![s].item = i, ![s].row = r]
    BY DEF Lookup
  <1>3. PICK r \in IF RowsOf(i) = {} THEN {0} ELSE RowsOf(i) :
          sync' = IF r \in ByHand THEN [sync EXCEPT ![s].todo = @ \ {i}]
                  ELSE [sync EXCEPT ![s].pc = "write", ![s].item = i, ![s].row = r]
    BY <1>2
  <1>4. /\ TypedSync(sync[s]) /\ i \in DOMAIN sync[s].snap /\ i \in Items
        /\ s \notin mixed => Undisturbed(sync[s])
    BY <1>1 DEF StockInv, SyncOk, AloneOk, TypedSync, Listing
  <1>7. 0 \notin DOMAIN products
    <2>1. Cardinality(DOMAIN products) \in Nat /\ DOMAIN products = 1..Cardinality(DOMAIN products)
      BY FS_CardinalityType DEF StockInv, TableOk
    <2> QED BY <2>1
  <1>5. CASE r \in ByHand
    <2> DEFINE x == [sync[s] EXCEPT !.todo = @ \ {i}]
    <2>1. /\ Sync(x) /\ x.pc = "item" /\ x.snap = sync[s].snap /\ x.todo = sync[s].todo \ {i}
          /\ x.hand = sync[s].hand
      BY <1>1 DEF Sync
    <2>2. sync' = [sync EXCEPT ![s] = x]
      BY <1>3, <1>5
    <2> HIDE DEF x
    <2>3. TypedSync(x) /\ Single(x)
      BY <1>1, <1>4, <2>1 DEF TypedSync, Single, Listing
    <2>4. r \in RowsOf(i)
      BY <1>3, <1>5, <1>7 DEF ByHand, RowsOf
    <2>5. s \notin mixed => Undisturbed(x)
      BY <1>1, <1>4, <1>5, <2>1, <2>4 DEF Undisturbed, Listing, Listed
    <2> QED BY <1>1, <2>1, <2>2, <2>3, <2>5, SyncMoves
  <1>6. CASE r \notin ByHand
    <2> DEFINE x == [sync[s] EXCEPT !.pc = "write", !.item = i, !.row = r]
    <2>1. /\ Sync(x) /\ x.pc = "write" /\ x.snap = sync[s].snap /\ x.todo = sync[s].todo
          /\ x.hand = sync[s].hand /\ x.item = i /\ x.row = r
      BY <1>1 DEF Sync
    <2>2. sync' = [sync EXCEPT ![s] = x]
      BY <1>3, <1>6, Zenon
    <2> HIDE DEF x
    <2>3. \A k \in DOMAIN products : products[k].source \in {"manual", "api"}
      BY DEF StockInv, TableOk, Row
    <2>4. IF r = 0 THEN RowsOf(i) = {} ELSE r \in RowsOf(i) \ ByHand /\ r \in DOMAIN products
      BY <1>3, <1>6, <1>7 DEF RowsOf
    <2>5. IF r = 0 THEN FromApi(i) = {} ELSE r \in FromApi(i)
      BY <1>7, <2>3, <2>4 DEF RowsOf, FromApi, ByHand
    <2>8. r # 0 => r \in DOMAIN products /\ products[r].source = "api"
      BY <2>3, <2>4 DEF ByHand
    <2>6. TypedSync(x) /\ Single(x)
      BY <1>1, <1>2, <1>4, <2>1, <2>5, <2>8 DEF TypedSync, Single, Listing
    <2>7. s \notin mixed => Undisturbed(x)
      BY <1>1, <1>4, <2>1, <2>4 DEF Undisturbed, Listing
    <2> QED BY <1>1, <2>1, <2>2, <2>6, <2>7, SyncMoves
  <1> QED BY <1>5, <1>6

\* A write of one handler to the table: the others, if any, are disturbed.
LEMMA SyncWrites ==
    ASSUME StockInv, NEW s \in Syncs, NEW x, sync' = [sync EXCEPT ![s] = x], UNCHANGED <<form, feed, marks>>, Busy(s),
           TableOk', DOMAIN products \subseteq DOMAIN products', Sync(x), TypedSync(x)', Single(x)',
           \A r \in DOMAIN products : products[r].source = "api" => products'[r].source = "api",
           mixed' = mixed \cup {u \in Syncs \ {s} : Busy(u)}, s \notin mixed => Undisturbed(x)',
           marks = {} => \A i \in Items : \A q, r \in FromApi(i)' : q = r
    PROVE  StockInv'
  <1>1. TableOk' /\ FormOk'
    BY DEF StockInv, FormOk
  <1>2. /\ sync' = [u \in Syncs |-> sync'[u]] /\ DOMAIN sync' = Syncs /\ sync'[s] = x
        /\ \A u \in Syncs \ {s} : sync'[u] = sync[u]
    BY DEF StockInv, SyncOk
  <1>3. SyncOk'
    <2>1. ASSUME NEW u \in Syncs
          PROVE  Sync(sync'[u]) /\ TypedSync(sync[u])'
      <3>1. CASE u = s
        BY <1>2, <3>1 DEF TypedSync, Listing
      <3>2. CASE u # s
        BY <1>2, <3>2 DEF StockInv, SyncOk, TypedSync, Listing
      <3> QED BY <3>1, <3>2
    <2>2. feed' = [i \in Items |-> feed'[i]] /\ Feed(feed)'
      BY DEF StockInv, SyncOk
    <2> QED BY <1>2, <2>1, <2>2 DEF SyncOk, Sync
  <1>4. AloneOk'
    <2> SUFFICES ASSUME NEW u \in Syncs \ mixed' PROVE Undisturbed(sync[u])'
      BY DEF AloneOk
    <2>1. CASE u = s
      <3>1. Undisturbed(sync[u])' <=> Undisturbed(x)'
        BY <1>2, <2>1 DEF Undisturbed, Listing
      <3> QED BY <2>1, <3>1
    <2>2. CASE u # s
      <3>1. sync'[u].pc = "idle"
        BY <1>2, <2>2 DEF Busy
      <3> QED BY <3>1 DEF Undisturbed, Listing
    <2> QED BY <2>1, <2>2
  <1>5. SingleOk'
    <2> SUFFICES ASSUME marks = {} PROVE SingleOk'
      BY DEF SingleOk
    <2>1. \A u, v \in Syncs : Busy(u)' /\ Busy(v)' => u = v
      BY <1>2 DEF StockInv, SingleOk, Busy
    <2>2. ASSUME NEW u \in Syncs
          PROVE  Single(sync[u])'
      <3>1. CASE u = s
        BY <1>2, <3>1 DEF Single
      <3>2. CASE u # s
        <4>1. sync'[u].pc = "idle"
          BY <1>2, <3>2 DEF StockInv, SingleOk, Busy
        <4> QED BY <4>1 DEF Single
      <3> QED BY <3>1, <3>2
    <2> QED BY <2>1, <2>2 DEF SingleOk
  <1> QED BY <1>1, <1>3, <1>4, <1>5 DEF StockInv

\* The row an update or insert writes.
LEMMA Written ==
    ASSUME NEW p \in Offering, NEW i \in Items \cup {Absent}
    PROVE  LET entry == [ext |-> i, source |-> "api", active |-> p.active, cur |-> p.cur,
                       fixed |-> p.fixed, price |-> p.price, min |-> p.min, max |-> p.max]
           IN entry \in Row /\ Fields(entry) = p
  <1>1. /\ p.active \in {"yes", "no"} /\ p.cur \in Money /\ p.fixed \in {"yes", "no"}
        /\ p.price \in Int /\ p.min \in Int /\ p.max \in Int
        /\ p = [fixed |-> p.fixed, price |-> p.price, min |-> p.min, max |-> p.max, cur |-> p.cur, active |-> p.active]
    BY DEF Offering
  <1> QED BY <1>1 DEF Row, Fields

Finished(y, i) == [y EXCEPT !.pc = "item", !.todo = @ \ {i}, !.item = Absent, !.row = 0]

LEMMA ItemDone ==
    ASSUME NEW y, Sync(y), NEW i
    PROVE  LET x == Finished(y, i) IN
           Sync(x) /\ x.pc = "item" /\ x.snap = y.snap /\ x.todo = y.todo \ {i} /\ x.hand = y.hand
  <1> DEFINE a == [y EXCEPT !.pc = "item"]
             b == [a EXCEPT !.todo = a.todo \ {i}]
             c == [b EXCEPT !.item = Absent]
             d == [c EXCEPT !.row = 0]
  <1>5. Finished(y, i) = d
    BY Zenon DEF Finished
  <1>1. Sync(a) /\ a.pc = "item" /\ a.snap = y.snap /\ a.hand = y.hand /\ a.todo = y.todo
    BY DEF Sync
  <1> HIDE DEF a
  <1>2. Sync(b) /\ b.pc = "item" /\ b.snap = y.snap /\ b.hand = y.hand /\ b.todo = y.todo \ {i}
    BY <1>1 DEF Sync
  <1> HIDE DEF b
  <1>3. Sync(c) /\ c.pc = "item" /\ c.snap = y.snap /\ c.hand = y.hand /\ c.todo = y.todo \ {i}
    BY <1>2 DEF Sync
  <1> HIDE DEF c
  <1>4. Sync(d) /\ d.pc = "item" /\ d.snap = y.snap /\ d.hand = y.hand /\ d.todo = y.todo \ {i}
    BY <1>3 DEF Sync
  <1> HIDE DEF d
  <1> QED BY <1>4, <1>5, Zenon

LEMMA UpsertOk ==
    ASSUME StockInv, NEW s \in Syncs, Upsert(s)
    PROVE  StockInv'
  <1>1. PICK i : i = sync[s].item
    OBVIOUS
  <1>2. PICK p : p = sync[s].snap[i]
    OBVIOUS
  <1>3. /\ sync[s].pc = "write" /\ Busy(s) /\ Sync(sync[s]) /\ TypedSync(sync[s])
        /\ s \notin mixed => Undisturbed(sync[s])
    BY DEF Upsert, Busy, StockInv, SyncOk, AloneOk
  <1>4. i \in sync[s].todo /\ i \in DOMAIN sync[s].snap /\ i \in Items /\ p \in Offering
    BY <1>1, <1>2, <1>3 DEF TypedSync, Listing
  <1> DEFINE new == [ext |-> i, source |-> "api", active |-> p.active, cur |-> p.cur,
                     fixed |-> p.fixed, price |-> p.price, min |-> p.min, max |-> p.max]
             k == sync[s].row
  <1>15. PICK x : x = Finished(sync[s], i)
    OBVIOUS
  <1>5. sync' = [sync EXCEPT ![s] = x] /\ UNCHANGED <<form, feed, marks>>
    <2>1. sync' = [sync EXCEPT ![s] = Finished(sync[s], i)]
      BY <1>1, Zenon DEF Upsert, Finished
    <2>2. UNCHANGED <<form, feed, marks>>
      BY DEF Upsert
    <2> QED BY <1>15, <2>1, <2>2, Zenon
  <1>6. mixed' = mixed \cup {u \in Syncs \ {s} : Busy(u)}
    BY DEF Upsert, Disturb
  <1>7. IF k = 0 THEN Insert(new) ELSE products' = [products EXCEPT ![k] = [new EXCEPT !.ext = products[k].ext]]
    BY <1>1, <1>2 DEF Upsert
  <1>8. /\ Sync(x) /\ x.pc = "item" /\ x.snap = sync[s].snap /\ x.todo = sync[s].todo \ {i} /\ x.hand = sync[s].hand
    BY <1>3, <1>15, ItemDone
  <1>9. TypedSync(x)' /\ Single(x)'
    BY <1>3, <1>8 DEF TypedSync, Single, Listing
  <1>10. ASSUME NEW n, NEW entry \in Row, TableOk', DOMAIN products' = DOMAIN products \cup {n}, products'[n] = entry,
                \A r \in DOMAIN products \ {n} : products'[r] = products[r],
                entry.source = "api", Fields(entry) = p,
                n \in DOMAIN products => entry.ext = products[n].ext /\ products[n].source = "api",
                n \notin DOMAIN products => entry.ext = i /\ (marks = {} => FromApi(i) = {}),
                s \notin mixed => entry.ext = i
         PROVE  StockInv'
    <2>1. marks = {} => \A j \in Items : \A q, r \in FromApi(j)' : q = r
      <3> SUFFICES ASSUME marks = {}, NEW j \in Items, NEW q \in FromApi(j)', NEW r \in FromApi(j)' PROVE q = r
        OBVIOUS
      <3>1. \A u, v \in FromApi(j) : u = v
        BY DEF StockInv, SingleOk
      <3>2. \A u \in FromApi(j)' : u \in FromApi(j) \/ (u = n /\ n \notin DOMAIN products /\ j = i)
        BY <1>10 DEF FromApi, RowsOf
      <3> QED BY <1>10, <3>1, <3>2
    <2>2. s \notin mixed => Undisturbed(x)'
      <3> SUFFICES ASSUME s \notin mixed PROVE Undisturbed(x)'
        OBVIOUS
      <3>1. ByHand' = ByHand /\ \A r \in ByHand : products'[r] = products[r]
        BY <1>10 DEF ByHand
      <3>2. x.hand = [r \in ByHand |-> products[r]]'
        BY <1>3, <1>8, <3>1 DEF Undisturbed
      <3>3. ASSUME NEW j \in DOMAIN x.snap \ x.todo
            PROVE  Listed(j, x.snap[j])'
        <4>1. CASE j = i
          <5>1. n \in RowsOf(j)' /\ Fields(products[n])' = p
            BY <1>10, <4>1 DEF RowsOf, Fields
          <5> QED BY <1>2, <1>8, <4>1, <5>1 DEF Listed
        <4>2. CASE j # i
          <5>1. Listed(j, x.snap[j])
            BY <1>3, <1>8, <3>3, <4>2 DEF Undisturbed, Listing
          <5>2. \A r \in RowsOf(j) : r \in RowsOf(j)' /\ products'[r] = products[r]
            BY <1>10, <4>2 DEF RowsOf
          <5>3. \A r \in RowsOf(j) : Fields(products[r])' = Fields(products[r])
            BY <5>2 DEF Fields
          <5> QED BY <3>1, <5>1, <5>2, <5>3 DEF Listed
        <4> QED BY <4>1, <4>2
      <3> QED BY <1>8, <3>2, <3>3 DEF Undisturbed, Listing
    <2>3. /\ DOMAIN products \subseteq DOMAIN products'
          /\ \A r \in DOMAIN products : products[r].source = "api" => products'[r].source = "api"
      BY <1>10
    <2> QED BY <1>3, <1>5, <1>6, <1>8, <1>9, <1>10, <2>1, <2>2, <2>3, SyncWrites
  <1>11. new \in Row /\ Fields(new) = p
    BY <1>4, Written
  <1>12. new.source = "api" /\ new.ext = i
    OBVIOUS
  <1>13. CASE k = 0
    <2>1. Insert(new)
      BY <1>7, <1>13
    <2> HIDE DEF new
    <2>2. /\ TableOk' /\ \A r \in DOMAIN products : products'[r] = products[r]
          /\ \E n : n \notin DOMAIN products /\ DOMAIN products' = DOMAIN products \cup {n} /\ products'[n] = new
      BY <1>11, <2>1, InsertTable DEF StockInv
    <2>3. PICK n : n \notin DOMAIN products /\ DOMAIN products' = DOMAIN products \cup {n} /\ products'[n] = new
      BY <2>2
    <2>4. marks = {} => FromApi(i) = {}
      BY <1>1, <1>3, <1>13 DEF StockInv, SingleOk, Single
    <2> QED BY <1>10, <1>11, <1>12, <2>2, <2>3, <2>4
  <1>14. CASE k # 0
    <2> DEFINE entry == [new EXCEPT !.ext = products[k].ext]
    <2>1. k \in DOMAIN products /\ products[k] \in Row
      BY <1>3, <1>14 DEF TypedSync, StockInv, TableOk
    <2>2. entry = [ext |-> products[k].ext, source |-> "api", active |-> p.active, cur |-> p.cur,
                 fixed |-> p.fixed, price |-> p.price, min |-> p.min, max |-> p.max]
      OBVIOUS
    <2>3. products[k].ext \in Items \cup {Absent}
      BY <2>1 DEF Row
    <2>4. entry \in Row /\ Fields(entry) = p /\ entry.source = "api" /\ entry.ext = products[k].ext
      BY <1>4, <2>2, <2>3, Written
    <2>5. products' = [products EXCEPT ![k] = entry]
      BY <1>7, <1>14
    <2> HIDE DEF entry, new
    <2>6. TableOk' /\ DOMAIN products' = DOMAIN products /\ \A r \in DOMAIN products : products'[r] = IF r = k THEN entry ELSE products[r]
      BY <2>1, <2>4, <2>5, PatchTable DEF StockInv
    <2>7. s \notin mixed => products[k].ext = i
      BY <1>1, <1>3, <1>14 DEF Undisturbed, RowsOf
    <2>8. products[k].source = "api"
      BY <1>3, <1>14 DEF TypedSync
    <2> QED BY <1>10, <2>1, <2>4, <2>6, <2>7, <2>8
  <1> QED BY <1>13, <1>14

LEMMA DeactivateOk ==
    ASSUME StockInv, NEW s \in Syncs, Deactivate(s)
    PROVE  StockInv'
  <1>1. PICK seen : seen = DOMAIN sync[s].snap
    OBVIOUS
  <1>2. PICK x : x = [sync[s] EXCEPT !.pc = "stamp"]
    OBVIOUS
  <1>3. /\ sync[s].pc = "item" /\ sync[s].todo = {} /\ Busy(s) /\ Sync(sync[s]) /\ TypedSync(sync[s])
        /\ s \notin mixed => Undisturbed(sync[s])
    BY DEF Deactivate, Busy, StockInv, SyncOk, AloneOk
  <1>4. products' = [r \in DOMAIN products |->
          IF seen # {} /\ products[r].source = "api" /\ products[r].ext \notin seen
          THEN [products[r] EXCEPT !.active = "no"] ELSE products[r]]
    BY <1>1 DEF Deactivate
  <1>5. sync' = [sync EXCEPT ![s] = x] /\ UNCHANGED <<form, feed, marks>>
        /\ mixed' = mixed \cup {u \in Syncs \ {s} : Busy(u)}
    BY <1>2 DEF Deactivate, Disturb
  <1>6. /\ Sync(x) /\ x.pc = "stamp" /\ x.snap = sync[s].snap /\ x.todo = sync[s].todo /\ x.hand = sync[s].hand
    BY <1>2, <1>3 DEF Sync
  <1>7. \A r \in DOMAIN products :
          /\ products[r] \in Row /\ products'[r] \in Row
          /\ products'[r].ext = products[r].ext /\ products'[r].source = products[r].source
          /\ products[r].source = "manual" \/ products[r].ext \in seen => products'[r] = products[r]
          /\ seen # {} /\ products[r].source = "api" /\ products[r].ext \notin seen => products'[r].active = "no"
    <2> SUFFICES ASSUME NEW r \in DOMAIN products
                 PROVE  /\ products[r] \in Row /\ products'[r] \in Row
                        /\ products'[r].ext = products[r].ext /\ products'[r].source = products[r].source
                        /\ products[r].source = "manual" \/ products[r].ext \in seen => products'[r] = products[r]
                        /\ seen # {} /\ products[r].source = "api" /\ products[r].ext \notin seen => products'[r].active = "no"
      BY Zenon
    <2>1. products[r] \in Row
      BY DEF StockInv, TableOk
    <2>2. products'[r] = IF seen # {} /\ products[r].source = "api" /\ products[r].ext \notin seen
                         THEN [products[r] EXCEPT !.active = "no"] ELSE products[r]
      BY <1>4
    <2> QED BY <2>1, <2>2 DEF Row
  <1>8. DOMAIN products' = DOMAIN products
    BY <1>4
  <1>9. products' = [r \in DOMAIN products' |-> products'[r]]
    BY <1>4
  <1>10. TableOk'
    BY <1>7, <1>8, <1>9 DEF StockInv, TableOk
  <1>11. TypedSync(x)' /\ Single(x)'
    BY <1>3, <1>6 DEF TypedSync, Single, Listing
  <1>12. \A i : FromApi(i)' = FromApi(i) /\ RowsOf(i)' = RowsOf(i)
    BY <1>7, <1>8 DEF FromApi, RowsOf
  <1>13. marks = {} => \A i \in Items : \A q, r \in FromApi(i)' : q = r
    BY <1>12 DEF StockInv, SingleOk
  <1>14. s \notin mixed => Undisturbed(x)'
    <2> SUFFICES ASSUME s \notin mixed PROVE Undisturbed(x)'
      OBVIOUS
    <2>1. ByHand' = ByHand /\ \A r \in ByHand : products'[r] = products[r]
      BY <1>7, <1>8 DEF ByHand
    <2>2. x.hand = [r \in ByHand |-> products[r]]'
      BY <1>3, <1>6, <2>1 DEF Undisturbed
    <2>3. ASSUME NEW j \in DOMAIN x.snap \ x.todo
          PROVE  Listed(j, x.snap[j])'
      <3>1. Listed(j, x.snap[j])
        BY <1>3, <1>6 DEF Undisturbed, Listing
      <3>2. \A r \in RowsOf(j) : Fields(products[r])' = Fields(products[r])
        BY <1>1, <1>6, <1>7 DEF RowsOf, Fields
      <3> QED BY <1>12, <2>1, <3>1, <3>2 DEF Listed
    <2>4. seen # {} => \A r \in DOMAIN products' :
            products'[r].source = "api" /\ products'[r].ext \notin seen => products'[r].active = "no"
      BY <1>7, <1>8
    <2> QED BY <1>1, <1>3, <1>6, <2>2, <2>3, <2>4 DEF Undisturbed
  <1>15. \A r \in DOMAIN products : products[r].source = "api" => products'[r].source = "api"
    BY <1>7
  <1> QED BY <1>3, <1>5, <1>6, <1>8, <1>10, <1>11, <1>13, <1>14, <1>15, SyncWrites

\* The parts of StockInv that a form or the supplier's list take part in.
LEMMA FormMoves ==
    ASSUME StockInv, UNCHANGED <<products, sync, mixed, marks>>, FormOk', Feed(feed'), feed' = [i \in Items |-> feed'[i]]
    PROVE  StockInv'
  <1>1. TableOk' /\ SyncOk' /\ AloneOk' /\ SingleOk'
    BY DEF StockInv, TableOk, SyncOk, TypedSync, Listing, AloneOk, Undisturbed, Listed, RowsOf, ByHand, SingleOk, Single,
           FromApi, Busy
  <1> QED BY <1>1 DEF StockInv

LEMMA StockingOk ==
    ASSUME StockInv, Stocking
    PROVE  StockInv'
  <1>1. ASSUME NEW i \in Items, NEW o \in {Gone} \cup Offers, Publish(i, o)
        PROVE  StockInv'
    <2>1. Priced(o)
      BY OffersAre
    <2>2. feed' = [j \in Items |-> feed'[j]] /\ \A j \in Items : feed'[j] = IF j = i THEN o ELSE feed[j]
      BY <1>1 DEF Publish, StockInv, SyncOk
    <2>3. Feed(feed')
      BY <2>1, <2>2 DEF StockInv, SyncOk, Feed
    <2> QED BY <1>1, <2>2, <2>3, FormMoves DEF Publish, catTables, StockInv, FormOk
  <1>2. Feed(feed) /\ feed = [i \in Items |-> feed[i]]
    BY DEF StockInv, SyncOk
  <1>3. ASSUME NEW u \in {"none", "live", "flash"}, SaveCatalogConfig(u)
        PROVE  StockInv'
    BY <1>2, <1>3, FormMoves DEF SaveCatalogConfig, StockInv, FormOk
  <1>4. ASSUME NEW n \in Majors, NEW cur \in Corridors, CreateProduct([NoBody EXCEPT !.unit = n], cur)
        PROVE  StockInv'
    <2>1. Body([NoBody EXCEPT !.unit = n])
      BY MajorsAre DEF Body, NoBody, Keep
    <2> QED BY <1>4, <2>1, CreateOk
  <1>5. ASSUME NEW lo \in Majors, NEW hi \in Majors, NEW cur \in Corridors,
               CreateProduct([NoBody EXCEPT !.fixed = "no", !.min = lo, !.max = hi], cur)
        PROVE  StockInv'
    <2> DEFINE a == [NoBody EXCEPT !.fixed = "no"]
               c == [a EXCEPT !.min = lo]
               b == [c EXCEPT !.max = hi]
    <2>2. [NoBody EXCEPT !.fixed = "no", !.min = lo, !.max = hi] = b
      BY Zenon
    <2>3. Body(a)
      BY DEF Body, NoBody, Keep
    <2> HIDE DEF a
    <2>4. Body(c)
      BY <2>3, MajorsAre DEF Body
    <2> HIDE DEF c
    <2>1. Body(b)
      BY <2>4, MajorsAre DEF Body
    <2> HIDE DEF b
    <2> QED BY <1>5, <2>1, <2>2, CreateOk
  <1>6. CASE OpenAdd
    <2>1. PICK cur \in Corridors : form' = [id |-> Keep, fixed |-> "yes", unit |-> 1, min |-> 1, max |-> 100, cur |-> cur]
      BY <1>6 DEF OpenAdd
    <2>2. FormOk'
      BY <2>1 DEF FormOk, Money
    <2> QED BY <1>2, <1>6, <2>2, FormMoves DEF OpenAdd, catTables
  <1>7. CASE CloseForm
    <2>1. FormOk'
      BY <1>7 DEF CloseForm, FormOk
    <2> QED BY <1>2, <1>7, <2>1, FormMoves DEF CloseForm, catTables
  <1>8. ASSUME NEW r \in DOMAIN products, OpenEdit(r)
        PROVE  StockInv'
    <2>1. products[r] \in Row
      BY DEF StockInv, TableOk
    <2>2. \A v \in Int : FromMinorUnits(v) \in Int
      BY DEF FromMinorUnits
    <2>3. FormOk'
      BY <1>8, <2>1, <2>2 DEF OpenEdit, FormOk, Row, catTables
    <2> QED BY <1>2, <1>8, <2>3, FormMoves DEF OpenEdit, catTables
  <1>9. ASSUME NEW s \in Syncs, Syncing(s)
        PROVE  StockInv'
    BY <1>9, StartOk, FetchOk, LookupOk, UpsertOk, DeactivateOk, EndsOk DEF Syncing
  <1>10. CASE \E n \in Majors : SaveForm(n)
    BY <1>10, SaveFormOk
  <1>11. CASE \E i \in Items, n \in Majors : AdminCreate(i, n)
    BY <1>11, AdminCreateOk
  <1>12. ASSUME NEW r \in DOMAIN products,
                \/ \E cur \in Corridors : SetCurrency(r, cur)
                \/ \E active \in {"yes", "no"} : ToggleActive(r, active)
                \/ \E n \in Majors : PatchByWallet(r, n)
                \/ \E i \in Items : AdminPatch(r, i)
         PROVE  StockInv'
    BY <1>12, SetOk
  <1>13. CASE Supplying
    BY <1>1, <1>13 DEF Supplying
  <1>14. CASE Editing
    BY <1>3, <1>4, <1>6, <1>7, <1>8, <1>10, <1>11, <1>12, <1>14, Zenon DEF Editing
  <1>15. CASE CreateRanged
    BY <1>5, <1>15 DEF CreateRanged
  <1> QED BY <1>9, <1>13, <1>14, <1>15 DEF Stocking

LEMMA StockStarts == ShopInit => StockInv
  <1> SUFFICES ASSUME ShopInit PROVE StockInv
    OBVIOUS
  <1>1. products = <<>> /\ form = NoForm /\ sync = [s \in Syncs |-> Resting] /\ feed \in [Items -> {Gone} \cup Offers]
    BY DEF ShopInit, CatInit
  <1>2. DOMAIN products = {}
    BY <1>1
  <1>3. TableOk
    BY <1>1, <1>2, FS_EmptySet DEF TableOk
  <1>4. Feed(feed) /\ feed = [i \in Items |-> feed[i]]
    BY <1>1, OffersAre DEF Feed
  <1>5. \A s \in Syncs : sync[s] = Resting
    BY <1>1
  <1>6. \A s \in Syncs : Sync(sync[s]) /\ TypedSync(sync[s]) /\ Undisturbed(sync[s]) /\ Single(sync[s]) /\ ~Busy(s)
    BY <1>5, Rested DEF Busy
  <1>7. \A i : FromApi(i) = {}
    BY <1>2 DEF FromApi, RowsOf
  <1> QED BY <1>1, <1>3, <1>4, <1>6, <1>7 DEF StockInv, FormOk, SyncOk, AloneOk, SingleOk

LEMMA StockGood == StockInv => CatalogueInSync
  <1> SUFFICES ASSUME StockInv PROVE CatalogueInSync
    OBVIOUS
  <1>1. ASSUME NEW s \in Syncs, sync[s].pc = "stamp", s \notin mixed
        PROVE  /\ [r \in ByHand |-> products[r]] = sync[s].hand
               /\ \A i \in DOMAIN sync[s].snap : RowsOf(i) \cap ByHand = {} =>
                     /\ RowsOf(i) # {}
                     /\ Cardinality(RowsOf(i)) = 1 => \A r \in RowsOf(i) : Fields(products[r]) = sync[s].snap[i]
               /\ DOMAIN sync[s].snap # {} => \A i \in Items \ DOMAIN sync[s].snap, cur \in Corridors :
                     FromApi(i) \cap Shelf(cur) = {}
    <2>1. Undisturbed(sync[s])
      BY <1>1 DEF StockInv, AloneOk
    <2>2. ASSUME NEW i \in DOMAIN sync[s].snap, RowsOf(i) \cap ByHand = {}
          PROVE  /\ RowsOf(i) # {}
                 /\ Cardinality(RowsOf(i)) = 1 => \A r \in RowsOf(i) : Fields(products[r]) = sync[s].snap[i]
      <3>1. PICK k \in RowsOf(i) : Fields(products[k]) = sync[s].snap[i]
        BY <1>1, <2>1, <2>2 DEF Undisturbed, Listing, Listed
      <3>2. ASSUME Cardinality(RowsOf(i)) = 1, NEW r \in RowsOf(i)
            PROVE  r = k
        <4>1. IsFiniteSet(RowsOf(i))
          BY FS_Subset DEF RowsOf, StockInv, TableOk
        <4> QED BY <3>1, <3>2, <4>1, FS_Singleton
      <3> QED BY <3>1, <3>2
    <2>3. ASSUME DOMAIN sync[s].snap # {}, NEW i \in Items \ DOMAIN sync[s].snap, NEW cur \in Corridors
          PROVE  FromApi(i) \cap Shelf(cur) = {}
      <3>1. \A r \in FromApi(i) : products[r].active = "no"
        BY <1>1, <2>1, <2>3 DEF Undisturbed, FromApi, RowsOf
      <3> QED BY <3>1 DEF Shelf
    <2>4. [r \in ByHand |-> products[r]] = sync[s].hand
      BY <1>1, <2>1 DEF Undisturbed
    <2> QED BY <2>2, <2>3, <2>4
  <1>2. ASSUME NEW i \in Items, Cardinality(FromApi(i)) > 1
        PROVE  marks # {}
    <2> SUFFICES ASSUME marks = {} PROVE FALSE
      OBVIOUS
    <2>1. \A q, r \in FromApi(i) : q = r
      BY DEF StockInv, SingleOk
    <2>2. CASE FromApi(i) = {}
      BY <1>2, <2>2, FS_EmptySet
    <2>3. CASE FromApi(i) # {}
      <3>1. PICK q : FromApi(i) = {q}
        BY <2>1, <2>3
      <3> QED BY <1>2, <3>1, FS_Singleton
    <2> QED BY <2>2, <2>3
  <1> QED BY <1>1, <1>2 DEF CatalogueInSync

-----------------------------------------------------------------------------
\* What changes on the page may not change what the dialog shows.
LEMMA PageMoves ==
    ASSUME TillInv, UNCHANGED dialogVars, ListOk', CartOk', dialog.open => till'.store = till.store
    PROVE  TillInv'
  <1>1. VoucherOk'
    BY DEF TillInv, VoucherOk, dialogVars
  <1>2. DialogOk'
    BY DEF TillInv, DialogOk, CallFits, QrShown, OwnCall, dialogVars
  <1> QED BY <1>1, <1>2 DEF TillInv

LEMMA AskedOk == \A kind, store : LET c == Call(kind, store) IN
    Asking(c) /\ Snapshot(c.answer) /\ c.kind = kind /\ c.store = store
  <1>1. DOMAIN <<>> = {}
    OBVIOUS
  <1> QED BY <1>1 DEF Call, Asking, Snapshot, Unserved

LEMMA OpenOk ==
    ASSUME TillInv, OpenTill, UNCHANGED dialogVars
    PROVE  TillInv'
  <1>1. Page(till) /\ ~till.open /\ calls' = {Call("load", NoStore)} /\ till' = [till EXCEPT !.open = TRUE]
    BY DEF OpenTill, TillInv, ListOk
  <1>2. PICK t : t = TRUE
    OBVIOUS
  <1>3. till' = [till EXCEPT !.open = t]
    BY <1>1, <1>2
  <1>4. /\ Page(till') /\ till'.open = t /\ till'.store = till.store /\ till'.list = till.list
        /\ till'.listed = till.listed /\ till'.cart = till.cart /\ till'.charging = till.charging /\ till'.aged = till.aged
    BY <1>1, <1>3 DEF Page
  <1>5. till.store = NoStore
    BY <1>1 DEF TillInv, ListOk
  <1>6. ListOk'
    BY <1>1, <1>2, <1>4, <1>5, AskedOk DEF TillInv, ListOk, Snapshot
  <1>7. CartOk'
    BY <1>4 DEF TillInv, CartOk
  <1> QED BY <1>4, <1>6, <1>7, PageMoves

LEMMA FlipOk ==
    ASSUME TillInv, RoleFlips, UNCHANGED dialogVars
    PROVE  TillInv'
  <1>1. till' = till /\ till.open
    BY DEF RoleFlips
  <1>2. PICK ask : calls' = calls \cup {ask} /\ ask = Call("reload", NoStore)
    BY DEF RoleFlips
  <1>3. Asking(ask) /\ Snapshot(ask.answer) /\ ask.kind = "reload"
    BY <1>2, AskedOk
  <1>4. ListOk'
    BY <1>1, <1>2, <1>3 DEF TillInv, ListOk, Snapshot
  <1>5. CartOk'
    BY <1>1 DEF TillInv, CartOk
  <1> QED BY <1>1, <1>4, <1>5, PageMoves

\* A step that only takes requests away, or lets the server see them.
LEMMA ServeOk ==
    ASSUME TillInv, StockInv, ServeProducts, UNCHANGED dialogVars
    PROVE  TillInv'
  <1>1. PICK c \in calls : calls' = (calls \ {c}) \cup {[c EXCEPT !.served = TRUE, !.answer = products]}
    BY DEF ServeProducts
  <1>2. PICK t : t = TRUE
    OBVIOUS
  <1> DEFINE b == [c EXCEPT !.served = t]
             a == [b EXCEPT !.answer = products]
  <1>3. calls' = (calls \ {c}) \cup {a}
    BY <1>1, <1>2, Zenon
  <1>4. Asking(c)
    BY DEF TillInv, ListOk
  <1>5. Asking(b) /\ b.kind = c.kind
    BY <1>4 DEF Asking
  <1> HIDE DEF b
  <1>6. Asking(a) /\ a.kind = c.kind /\ a.answer = products
    BY <1>5 DEF Asking
  <1> HIDE DEF a
  <1>7. Snapshot(a.answer)
    BY <1>6 DEF Snapshot, StockInv, TableOk
  <1>8. till' = till
    BY DEF ServeProducts
  <1>9. ListOk'
    BY <1>3, <1>6, <1>7, <1>8 DEF TillInv, ListOk, Snapshot
  <1>10. CartOk'
    BY <1>8 DEF TillInv, CartOk
  <1> QED BY <1>8, <1>9, <1>10, PageMoves

LEMMA LostOk ==
    ASSUME TillInv, CallLost, UNCHANGED dialogVars
    PROVE  TillInv'
  <1>1. calls' \subseteq calls /\ till' = till
    BY DEF CallLost
  <1>2. ListOk'
    BY <1>1 DEF TillInv, ListOk, Snapshot
  <1>3. CartOk'
    BY <1>1 DEF TillInv, CartOk
  <1> QED BY <1>1, <1>2, <1>3, PageMoves

LEMMA OnSale ==
    ASSUME NEW f, Snapshot(f), NEW s
    PROVE  Snapshot(OnSaleAt(f, s)) /\ \A r \in DOMAIN OnSaleAt(f, s) : OnSaleAt(f, s)[r].cur = StoreCurrency[s]
  BY DEF Snapshot, OnSaleAt

LEMMA LoadOk ==
    ASSUME TillInv, LoadAnswered, UNCHANGED dialogVars
    PROVE  TillInv'
  <1>1. PICK s : s = IF till.store = NoStore THEN SavedStore ELSE till.store
    OBVIOUS
  <1>2. PICK c \in calls : \E list, ch :
          /\ list = OnSaleAt(c.answer, s)
          /\ till' = [till EXCEPT !.store = s, !.list = list, !.listed = s, !.aged = DOMAIN till.cart, !.change = ch]
          /\ calls' = (calls \ {c}) \cup IF till.store = NoStore THEN {Call("list", s)} ELSE {}
    BY <1>1, Zenon DEF LoadAnswered
  <1>3. PICK list, ch :
          /\ list = OnSaleAt(c.answer, s)
          /\ till' = [till EXCEPT !.store = s, !.list = list, !.listed = s, !.aged = DOMAIN till.cart, !.change = ch]
          /\ calls' = (calls \ {c}) \cup IF till.store = NoStore THEN {Call("list", s)} ELSE {}
    BY <1>2, Zenon
  <1>4. PICK old : old = DOMAIN till.cart
    OBVIOUS
  <1> DEFINE u == [till EXCEPT !.store = s]
             x == [u EXCEPT !.list = list]
             y == [x EXCEPT !.listed = s]
             z == [y EXCEPT !.aged = old]
             w == [z EXCEPT !.change = ch]
  <1>5. till' = w
    BY <1>3, <1>4, Zenon
  <1>6. Page(till) /\ Snapshot(c.answer) /\ s # NoStore
    BY <1>1, TillAssumption DEF TillInv, ListOk
  <1>7. Page(u) /\ u.store = s /\ u.cart = till.cart /\ u.open = till.open
    BY <1>6 DEF Page
  <1> HIDE DEF u
  <1>8. Page(x) /\ x.store = s /\ x.cart = till.cart /\ x.list = list /\ x.open = till.open
    BY <1>7 DEF Page
  <1> HIDE DEF x
  <1>9. Page(y) /\ y.store = s /\ y.cart = till.cart /\ y.list = list /\ y.listed = s /\ y.open = till.open
    BY <1>8 DEF Page
  <1> HIDE DEF y
  <1>10. /\ Page(z) /\ z.store = s /\ z.cart = till.cart /\ z.list = list /\ z.listed = s /\ z.open = till.open
         /\ z.aged = old
    BY <1>9 DEF Page
  <1> HIDE DEF z
  <1>11. /\ Page(till') /\ till'.store = s /\ till'.cart = till.cart /\ till'.list = list /\ till'.listed = s
         /\ till'.open = till.open /\ till'.aged = old
    BY <1>5, <1>10 DEF Page
  <1> HIDE DEF w
  <1>12. till.open
    BY DEF TillInv, ListOk
  <1>13. dialog.open => s = till.store
    BY <1>1 DEF TillInv, DialogOk
  <1>14. \A d \in calls' : Asking(d) /\ Snapshot(d.answer)
    <2>1. Asking(Call("list", s)) /\ Snapshot(Call("list", s).answer)
      BY AskedOk
    <2> QED BY <1>3, <2>1 DEF TillInv, ListOk
  <1>15. Snapshot(list) /\ \A r \in DOMAIN list : list[r].cur = StoreCurrency[s]
    BY <1>3, <1>6, OnSale
  <1>16. ListOk'
    BY <1>6, <1>11, <1>12, <1>14, <1>15 DEF ListOk, Snapshot
  <1>17. CartOk'
    BY <1>4, <1>11 DEF CartOk
  <1> QED BY <1>11, <1>13, <1>16, <1>17, PageMoves

LEMMA PickOk ==
    ASSUME TillInv, NEW s \in Stores, PickStore(s), UNCHANGED dialogVars
    PROVE  TillInv'
  <1>1. /\ Page(till) /\ till.store \notin {NoStore, s} /\ ~dialog.open
        /\ till' = [till EXCEPT !.store = s] /\ calls' = calls \cup {Call("list", s)}
    BY DEF PickStore, TillInv, ListOk
  <1>2. /\ Page(till') /\ till'.store = s /\ till'.list = till.list /\ till'.listed = till.listed
        /\ till'.cart = till.cart /\ till'.open = till.open /\ till'.aged = till.aged
    BY <1>1 DEF Page
  <1>5. PICK ask : ask = Call("list", s)
    OBVIOUS
  <1>6. Asking(ask) /\ Snapshot(ask.answer) /\ ask.kind = "list" /\ calls' = calls \cup {ask}
    BY <1>1, <1>5, AskedOk
  <1>7. s # NoStore
    BY TillAssumption
  <1>3. ListOk'
    BY <1>1, <1>2, <1>6, <1>7 DEF TillInv, ListOk, Snapshot
  <1>4. CartOk'
    BY <1>2 DEF TillInv, CartOk
  <1> QED BY <1>1, <1>3, <1>4, PageMoves

LEMMA ListedOk ==
    ASSUME TillInv, ListAnswered, UNCHANGED dialogVars
    PROVE  TillInv'
  <1>1. PICK c \in calls :
          /\ c.kind = "list"
          /\ \E old, ch : till' = [till EXCEPT !.list = OnSaleAt(c.answer, c.store), !.listed = c.store, !.cart = <<>>,
                                              !.aged = old, !.change = ch]
          /\ calls' = calls \ {c}
    BY Zenon DEF ListAnswered
  <1>2. Page(till) /\ Snapshot(c.answer) /\ till.store # NoStore
    BY <1>1 DEF TillInv, ListOk
  <1>3. PICK list : list = OnSaleAt(c.answer, c.store)
    OBVIOUS
  <1>13. PICK none : none = <<>> /\ DOMAIN none = {}
    OBVIOUS
  <1>14. PICK old, ch : till' = [till EXCEPT !.list = OnSaleAt(c.answer, c.store), !.listed = c.store, !.cart = <<>>,
                                            !.aged = old, !.change = ch]
    BY <1>1, Zenon
  <1> DEFINE x == [till EXCEPT !.list = list]
             y == [x EXCEPT !.listed = c.store]
             z == [y EXCEPT !.cart = none]
             u == [z EXCEPT !.aged = old]
             w == [u EXCEPT !.change = ch]
  <1>4. till' = w
    BY <1>3, <1>13, <1>14, Zenon
  <1>5. Page(x) /\ x.store = till.store /\ x.list = list /\ x.open = till.open
    BY <1>2 DEF Page
  <1> HIDE DEF x
  <1>6. Page(y) /\ y.store = till.store /\ y.list = list /\ y.listed = c.store /\ y.open = till.open
    BY <1>5 DEF Page
  <1> HIDE DEF y
  <1>7. Page(z) /\ z.store = till.store /\ z.cart = none /\ z.list = list /\ z.listed = c.store /\ z.open = till.open
    BY <1>6 DEF Page
  <1> HIDE DEF z
  <1>8. Page(u) /\ u.store = till.store /\ u.cart = none /\ u.list = list /\ u.listed = c.store /\ u.open = till.open
    BY <1>7 DEF Page
  <1> HIDE DEF u
  <1>9. Page(w) /\ w.store = till.store /\ w.cart = none /\ w.list = list /\ w.listed = c.store /\ w.open = till.open
    BY <1>8 DEF Page
  <1> HIDE DEF w
  <1>11. ListOk'
    BY <1>1, <1>2, <1>3, <1>4, <1>9, OnSale DEF TillInv, ListOk
  <1>12. CartOk'
    BY <1>4, <1>9, <1>13 DEF CartOk
  <1> QED BY <1>4, <1>9, <1>11, <1>12, PageMoves

LEMMA PutOk ==
    ASSUME TillInv, NEW r, NEW v \in Int, Put(r, v), UNCHANGED dialogVars,
           till.list[r].price > 0 /\ till.list[r].max > 0 => v * till.list[r].price <= till.list[r].max
    PROVE  TillInv'
  <1>1. Page(till) /\ calls' = calls /\ r \in DOMAIN till.list
    BY DEF Put, TillInv, ListOk
  <1>2. PICK cart : cart = With(till.cart, r, v)
    OBVIOUS
  <1>3. PICK old : old = till.aged \ {r}
    OBVIOUS
  <1> DEFINE x == [till EXCEPT !.cart = cart]
             y == [x EXCEPT !.aged = old]
  <1>8. till' = [till EXCEPT !.cart = cart, !.aged = old]
    BY <1>2, <1>3 DEF Put
  <1>9. till' = y
    BY <1>8, Zenon
  <1>10. /\ Page(x) /\ x.store = till.store /\ x.list = till.list /\ x.listed = till.listed
         /\ x.cart = cart /\ x.open = till.open
    BY <1>1 DEF Page
  <1> HIDE DEF x
  <1>4. /\ Page(till') /\ till'.store = till.store /\ till'.list = till.list /\ till'.listed = till.listed
        /\ till'.cart = cart /\ till'.open = till.open /\ till'.aged = old
    BY <1>9, <1>10 DEF Page
  <1> HIDE DEF y
  <1>5. DOMAIN cart = DOMAIN till.cart \cup {r} /\ \A k \in DOMAIN cart : cart[k] = IF k = r THEN v ELSE till.cart[k]
    BY <1>2 DEF With
  <1>6. ListOk'
    BY <1>1, <1>4 DEF TillInv, ListOk, Snapshot
  <1>7. CartOk'
    BY <1>3, <1>4, <1>5 DEF TillInv, CartOk
  <1> QED BY <1>4, <1>6, <1>7, PageMoves

LEMMA Times ==
    ASSUME NEW q \in Int, NEW m \in Int, NEW p \in Nat \ {0}, q <= m \div p
    PROVE  q * p <= m
  <1>1. (m \div p) * p <= m /\ m \div p \in Int
    OBVIOUS
  <1>2. q * p <= (m \div p) * p
    BY <1>1
  <1> QED BY <1>1, <1>2

\* The page caps what is rung up.
LEMMA RingOk ==
    ASSUME TillInv, NEW r, NEW q \in 0..MaxQty, SetQty(r, q) \/ SetAmountForProduct(r, q), UNCHANGED dialogVars
    PROVE  TillInv'
  <1>1. q \in Nat /\ MaxQty \in Nat
    BY TillAssumption
  <1>2. r \in DOMAIN till.list
    BY DEF SetQty, SetAmountForProduct, Put
  <1>3. PICK p : p = till.list[r].price
    OBVIOUS
  <1>4. PICK m : m = till.list[r].max
    OBVIOUS
  <1>5. p \in Int /\ m \in Int
    BY <1>2, <1>3, <1>4 DEF TillInv, ListOk, Snapshot, Row
  <1>6. MaxQuantity(r) = (IF p <= 0 \/ m = 0 THEN MaxQty ELSE m \div p) /\ UnitPrice(r) = p
    BY <1>3, <1>4 DEF MaxQuantity, UnitPrice
  <1>7. MaxQuantity(r) \in Int
    BY <1>1, <1>5, <1>6
  <1>8. \A a \in Int : Least(a, MaxQuantity(r)) \in Int /\ Least(a, MaxQuantity(r)) <= MaxQuantity(r)
    BY <1>7 DEF Least
  <1>9. CASE SetQty(r, q)
    <2> DEFINE v == Least(q, MaxQuantity(r)) * (IF UnitPrice(r) > 0 THEN 1 ELSE ToMinorUnits(1))
    <2>1. Put(r, v)
      BY <1>9 DEF SetQty
    <2>2. v \in Int
      BY <1>1, <1>5, <1>6, <1>8 DEF ToMinorUnits
    <2>3. p > 0 /\ m > 0 => v * p <= m
      <3> SUFFICES ASSUME p > 0, m > 0 PROVE v * p <= m
        OBVIOUS
      <3>1. v = Least(q, MaxQuantity(r)) /\ MaxQuantity(r) = m \div p
        BY <1>1, <1>5, <1>6, <1>8
      <3>2. v <= m \div p
        BY <1>1, <1>8, <3>1
      <3> HIDE DEF v
      <3> QED BY <1>5, <2>2, <3>2, Times
    <2> HIDE DEF v
    <2> QED BY <1>3, <1>4, <2>1, <2>2, <2>3, PutOk
  <1>10. CASE SetAmountForProduct(r, q)
    <2>1. PICK capped : capped = IF m = 0 THEN ToMinorUnits(q) ELSE Least(ToMinorUnits(q), m)
      OBVIOUS
    <2>2. IF p > 0 THEN Put(r, Least(capped \div p, MaxQuantity(r))) ELSE Put(r, capped)
      BY <1>3, <1>4, <1>10, <2>1 DEF SetAmountForProduct, UnitPrice
    <2>3. capped \in Int
      BY <1>1, <1>5, <2>1 DEF Least, ToMinorUnits
    <2>4. CASE p > 0
      <3> DEFINE v == Least(capped \div p, MaxQuantity(r))
      <3>1. v \in Int /\ v <= MaxQuantity(r)
        BY <1>5, <1>8, <2>3, <2>4
      <3>2. Put(r, v)
        BY <2>2, <2>4
      <3> HIDE DEF v
      <3>3. m > 0 => v <= m \div p
        BY <1>5, <1>6, <2>4, <3>1
      <3>4. m > 0 => v * p <= m
        BY <1>5, <2>4, <3>1, <3>3, Times
      <3> QED BY <1>3, <1>4, <3>1, <3>2, <3>4, PutOk
    <2>5. CASE ~(p > 0)
      BY <1>3, <2>2, <2>3, <2>5, PutOk
    <2> QED BY <2>4, <2>5
  <1> QED BY <1>9, <1>10

\* Charging, and what ends it.
LEMMA ChargeOk ==
    ASSUME TillInv, Charge \/ CancelCharge \/ ChargeDone, UNCHANGED dialogVars
    PROVE  TillInv'
  <1>1. calls' = calls /\ Page(till)
    BY DEF Charge, CancelCharge, ChargeDone, TillInv, ListOk
  <1>2. PICK t, none : t \in BOOLEAN /\ DOMAIN none = {} /\
          \/ till' = [till EXCEPT !.charging = t]
          \/ \E old : till' = [till EXCEPT !.charging = t, !.cart = none, !.aged = old]
    <2>1. DOMAIN <<>> = {} /\ TRUE \in BOOLEAN /\ FALSE \in BOOLEAN
      OBVIOUS
    <2> QED BY <2>1, Zenon DEF Charge, CancelCharge, ChargeDone
  <1>3. /\ Page(till') /\ till'.store = till.store /\ till'.list = till.list /\ till'.listed = till.listed
        /\ till'.open = till.open /\ ((till'.cart = till.cart /\ till'.aged = till.aged) \/ till'.cart = none)
    <2>1. CASE till' = [till EXCEPT !.charging = t]
      BY <1>1, <2>1 DEF Page
    <2>2. ASSUME NEW old, till' = [till EXCEPT !.charging = t, !.cart = none, !.aged = old]
          PROVE  /\ Page(till') /\ till'.store = till.store /\ till'.list = till.list /\ till'.listed = till.listed
                 /\ till'.open = till.open /\ till'.cart = none
      <3> DEFINE x == [till EXCEPT !.charging = t]
                 y == [x EXCEPT !.cart = none]
                 z == [y EXCEPT !.aged = old]
      <3>1. till' = z
        BY <2>2, Zenon
      <3>2. Page(x) /\ x.store = till.store /\ x.list = till.list /\ x.listed = till.listed /\ x.open = till.open
        BY <1>1 DEF Page
      <3> HIDE DEF x
      <3>3. /\ Page(y) /\ y.store = till.store /\ y.list = till.list /\ y.listed = till.listed /\ y.open = till.open
            /\ y.cart = none
        BY <3>2 DEF Page
      <3> HIDE DEF y
      <3> QED BY <3>1, <3>3 DEF Page
    <2> QED BY <1>2, <2>1, <2>2, Zenon
  <1>4. ListOk'
    BY <1>1, <1>2, <1>3 DEF TillInv, ListOk, Snapshot
  <1>5. CartOk'
    BY <1>2, <1>3 DEF TillInv, CartOk
  <1> QED BY <1>3, <1>4, <1>5, PageMoves

-----------------------------------------------------------------------------
\* A step of the dialog beside an unchanged page.
LEMMA DialogMoves ==
    ASSUME TillInv, UNCHANGED <<till, calls>>, VoucherOk', DialogOk'
    PROVE  TillInv'
  <1>1. ListOk' /\ CartOk'
    BY DEF TillInv, ListOk, CartOk, Snapshot
  <1> QED BY <1>1 DEF TillInv

\* The dialog is put away, or what it waits for or shows is.
LEMMA DropOk ==
    ASSUME TillInv, SetMode("qr") \/ SetMode("tag") \/ CloseChange \/ ChangeLost, UNCHANGED <<till, calls>>
    PROVE  TillInv'
  <1>1. UNCHANGED <<vouchers, outlived>> /\ Shown(dialog) /\ TillInv
    BY DEF SetMode, CloseChange, ChangeLost, TillInv, DialogOk
  <1>2. PICK f, none, m : /\ f = FALSE /\ none = NoCall
                          /\ \/ dialog' = [dialog EXCEPT !.mode = m, !.qr = 0]
                             \/ dialog' = [dialog EXCEPT !.open = f]
                             \/ dialog' = [dialog EXCEPT !.call = none]
    BY DEF SetMode, CloseChange, ChangeLost
  <1>3. /\ Shown(dialog') /\ dialog'.turn = dialog.turn
        /\ dialog'.open = dialog.open \/ ~dialog'.open
        /\ dialog'.call = dialog.call \/ dialog'.call = NoCall
        /\ dialog'.qr = dialog.qr \/ dialog'.qr = 0
    <2>1. CASE dialog' = [dialog EXCEPT !.mode = m, !.qr = 0]
      <3> DEFINE x == [dialog EXCEPT !.mode = m]
      <3>1. Shown(x) /\ x.turn = dialog.turn /\ x.open = dialog.open /\ x.call = dialog.call
        BY <1>1 DEF Shown
      <3>2. dialog' = [x EXCEPT !.qr = 0]
        BY <2>1, Zenon
      <3> HIDE DEF x
      <3> QED BY <3>1, <3>2 DEF Shown
    <2>2. CASE dialog' = [dialog EXCEPT !.open = f]
      BY <1>1, <1>2, <2>2 DEF Shown
    <2>3. CASE dialog' = [dialog EXCEPT !.call = none]
      BY <1>1, <1>2, <2>3 DEF Shown
    <2> QED BY <1>2, <2>1, <2>2, <2>3
  <1>4. VoucherOk'
    BY <1>1 DEF TillInv, VoucherOk
  <1>5. DialogOk'
    BY <1>1, <1>3 DEF TillInv, DialogOk, CallFits, QrShown, OwnCall
  <1> QED BY <1>4, <1>5, DialogMoves

LEMMA OpenChangeOk ==
    ASSUME TillInv, OpenChange, UNCHANGED <<till, calls>>
    PROVE  TillInv'
  <1>1. PICK c : c = dialog.call
    OBVIOUS
  <1>2. PICK n : n = dialog.turn + 1
    OBVIOUS
  <1>3. /\ dialog' = [ShutDialog EXCEPT !.open = TRUE, !.call = c, !.turn = n]
        /\ outlived' = (outlived \/ c # NoCall) /\ vouchers' = vouchers /\ till.store # NoStore
    BY <1>1, <1>2 DEF OpenChange
  <1>4. dialog' = [open |-> TRUE, mode |-> "qr", call |-> c, qr |-> 0, turn |-> n]
    BY <1>3 DEF ShutDialog
  <1>5. Shown(dialog') /\ dialog'.call = c /\ dialog'.qr = 0
    BY <1>4 DEF Shown
  <1>6. VoucherOk'
    BY <1>3 DEF TillInv, VoucherOk
  <1>7. DialogOk'
    BY <1>1, <1>3, <1>5 DEF TillInv, DialogOk, CallFits, QrShown, OwnCall
  <1> QED BY <1>6, <1>7, DialogMoves

LEMMA PressOk ==
    ASSUME TillInv, NEW kind \in {"qr", "tag"}, NEW n \in 1..MaxQty, PressChange(kind, n), UNCHANGED <<till, calls>>
    PROVE  TillInv'
  <1>1. PICK p : dialog' = [dialog EXCEPT !.call = [kind |-> kind, product |-> p, store |-> till.store,
                              amount |-> ToMinorUnits(n), turn |-> dialog.turn, state |-> "sent", id |-> 0]]
    BY DEF PressChange
  <1>2. PICK c : c = [kind |-> kind, product |-> p, store |-> till.store,
                      amount |-> ToMinorUnits(n), turn |-> dialog.turn, state |-> "sent", id |-> 0]
    OBVIOUS
  <1>3. Ask(c) /\ c.amount = ToMinorUnits(n) /\ c.state = "sent" /\ c.turn = dialog.turn /\ c.store = till.store
    BY <1>2 DEF Ask
  <1>4. n \in Int /\ ToMinorUnits(n) \in Int
    BY TillAssumption DEF ToMinorUnits
  <1>5. Shown(dialog) /\ dialog' = [dialog EXCEPT !.call = c] /\ UNCHANGED <<vouchers, outlived>>
    BY <1>1, <1>2 DEF TillInv, DialogOk, PressChange
  <1>6. Shown(dialog') /\ dialog'.call = c /\ dialog'.qr = dialog.qr /\ dialog'.open = dialog.open /\ dialog'.turn = dialog.turn
    BY <1>5 DEF Shown
  <1>7. VoucherOk'
    BY <1>5 DEF TillInv, VoucherOk
  <1>8. DialogOk'
    BY <1>3, <1>4, <1>5, <1>6 DEF TillInv, DialogOk, CallFits, QrShown, OwnCall
  <1> QED BY <1>7, <1>8, DialogMoves

\* A voucher is issued within the limits its product has at that time.
LEMMA IssueOk ==
    ASSUME TillInv, StockInv, ServeChange, UNCHANGED <<till, calls>>
    PROVE  TillInv'
  <1>1. PICK c : c = dialog.call
    OBVIOUS
  <1>2. /\ c # NoCall /\ c.state = "sent" /\ Ask(c) /\ c.amount \in Int /\ Shown(dialog) /\ outlived' = outlived
        /\ Len(vouchers) \in Nat /\ OwnCall(dialog) /\ QrShown(dialog) /\ (dialog.open => till.store # NoStore)
    BY <1>1 DEF ServeChange, TillInv, DialogOk, CallFits, VoucherOk
  <1> DEFINE cur == StoreCurrency[c.store]
             entry == IF c.product = 0 THEN BlankRow(cur) ELSE products[c.product]
             note == [store |-> c.store, cur |-> cur, amount |-> c.amount, mode |-> c.kind, priced |-> entry, turn |-> c.turn]
  <1>3. CASE /\ ValidateProduct(c.product, c.amount, cur) /\ vouchers' = Append(vouchers, note)
             /\ dialog' = [dialog EXCEPT !.call.state = "done", !.call.id = Len(vouchers) + 1]
    <2>1. PICK k : k = Len(vouchers) + 1
      OBVIOUS
    <2>2. PICK v : v = note
      OBVIOUS
    <2>3. PICK d : d = [[c EXCEPT !.state = "done"] EXCEPT !.id = k]
      OBVIOUS
    <2>4. Ask(d) /\ d.state = "done" /\ d.id = k /\ d.kind = c.kind /\ d.turn = c.turn /\ d.store = c.store /\ d.amount = c.amount
      <3> DEFINE a == [c EXCEPT !.state = "done"]
      <3>1. Ask(a) /\ a.state = "done" /\ a.kind = c.kind /\ a.turn = c.turn /\ a.store = c.store /\ a.amount = c.amount
        BY <1>2 DEF Ask
      <3>2. d = [a EXCEPT !.id = k]
        BY <2>3
      <3> HIDE DEF a
      <3> QED BY <3>1, <3>2 DEF Ask
    <2>5. Shown(dialog') /\ dialog'.call = d /\ dialog'.qr = dialog.qr /\ dialog'.open = dialog.open /\ dialog'.turn = dialog.turn
      <3> DEFINE a == [c EXCEPT !.state = "done"]
                 x == [dialog EXCEPT !.call = a]
                 y == [x EXCEPT !.call = [x.call EXCEPT !.id = k]]
      <3>1. dialog' = y
        BY <1>1, <1>3, <2>1, Zenon
      <3>2. Shown(x) /\ x.call = a /\ x.qr = dialog.qr /\ x.open = dialog.open /\ x.turn = dialog.turn
        BY <1>2 DEF Shown
      <3>3. d = [a EXCEPT !.id = k]
        BY <2>3
      <3> HIDE DEF x, a
      <3>4. [x.call EXCEPT !.id = k] = d
        BY <3>2, <3>3
      <3> QED BY <3>1, <3>2, <3>4 DEF Shown
    <2>6. /\ Len(vouchers') = k /\ k \in Nat /\ k \in 1..k /\ vouchers'[k] = v
          /\ vouchers' = [i \in 1..k |-> vouchers'[i]]
          /\ \A i \in 1..Len(vouchers) : vouchers'[i] = vouchers[i] /\ i \in 1..k
          /\ \A i \in 1..k : i = k \/ i \in 1..Len(vouchers)
      BY <1>2, <1>3, <2>1, <2>2 DEF TillInv, VoucherOk
    <2>7. /\ v.cur = cur /\ v.amount = c.amount /\ v.mode = c.kind /\ v.priced = entry /\ v.turn = c.turn /\ v.store = c.store
      BY <2>2
    <2>8. entry.cur = cur /\ (entry.max > 0 => c.amount <= entry.max)
      <3>1. CASE c.product = 0
        BY <3>1 DEF BlankRow
      <3>2. CASE c.product # 0
        BY <1>3, <3>2 DEF ValidateProduct
      <3> QED BY <3>1, <3>2
    <2> HIDE DEF cur, entry, note
    <2>9. VoucherOk'
      BY <2>6, <2>7, <2>8 DEF TillInv, VoucherOk
    <2>10. CallFits(dialog.call)'
      BY <1>2, <2>4, <2>5, <2>6, <2>7 DEF CallFits
    <2>11. QrShown(dialog)'
      BY <1>2, <2>5, <2>6 DEF QrShown
    <2>12. OwnCall(dialog)'
      BY <1>1, <1>2, <2>4, <2>5 DEF OwnCall
    <2>13. DialogOk'
      BY <1>2, <2>5, <2>10, <2>11, <2>12 DEF DialogOk, CallFits
    <2> QED BY <2>9, <2>13, DialogMoves
  <1>4. CASE dialog' = [dialog EXCEPT !.call.state = "refused"] /\ vouchers' = vouchers
    <2>1. PICK d : d = [c EXCEPT !.state = "refused"]
      OBVIOUS
    <2>2. Ask(d) /\ d.state = "refused" /\ d.turn = c.turn /\ d.store = c.store /\ d.amount = c.amount
      BY <1>2, <2>1 DEF Ask
    <2>3. dialog' = [dialog EXCEPT !.call = d]
      BY <1>1, <1>4, <2>1
    <2>4. Shown(dialog') /\ dialog'.call = d /\ dialog'.qr = dialog.qr /\ dialog'.open = dialog.open /\ dialog'.turn = dialog.turn
      BY <1>2, <2>3 DEF Shown
    <2>5. VoucherOk'
      BY <1>4 DEF TillInv, VoucherOk
    <2>6. DialogOk'
      BY <1>1, <1>2, <1>4, <2>2, <2>4 DEF DialogOk, CallFits, QrShown, OwnCall
    <2> QED BY <2>5, <2>6, DialogMoves
  <1> QED BY <1>1, <1>3, <1>4 DEF ServeChange

LEMMA AnsweredOk ==
    ASSUME TillInv, ChangeAnswered, UNCHANGED <<till, calls>>
    PROVE  TillInv'
  <1>1. PICK c : c = dialog.call
    OBVIOUS
  <1>2. /\ c # NoCall /\ c.state \in {"done", "refused"} /\ Shown(dialog) /\ CallFits(c) /\ OwnCall(dialog) /\ QrShown(dialog)
        /\ UNCHANGED <<vouchers, outlived>> /\ (dialog.open => till.store # NoStore)
    BY <1>1 DEF ChangeAnswered, TillInv, DialogOk, CallFits
  <1>3. PICK f, none : f = FALSE /\ none = NoCall
    OBVIOUS
  <1> DEFINE x == [dialog EXCEPT !.call = none]
  <1>4. Shown(x) /\ x.call = none /\ x.qr = dialog.qr /\ x.open = dialog.open /\ x.turn = dialog.turn
    BY <1>2 DEF Shown
  <1>5. \/ dialog' = x
        \/ c.state = "done" /\ c.kind = "qr" /\ dialog' = [x EXCEPT !.qr = c.id]
        \/ dialog' = [[x EXCEPT !.qr = 0] EXCEPT !.open = f]
    BY <1>1, <1>2, <1>3, Zenon DEF ChangeAnswered
  <1> HIDE DEF x
  <1>6. VoucherOk'
    BY <1>2 DEF TillInv, VoucherOk
  <1>7. CASE dialog' = x
    <2>1. DialogOk'
      BY <1>2, <1>3, <1>4, <1>7 DEF DialogOk, CallFits, QrShown, OwnCall
    <2> QED BY <1>6, <2>1, DialogMoves
  <1>8. CASE c.state = "done" /\ c.kind = "qr" /\ dialog' = [x EXCEPT !.qr = c.id]
    <2>1. Shown(dialog') /\ dialog'.call = none /\ dialog'.qr = c.id /\ dialog'.open = dialog.open /\ dialog'.turn = dialog.turn
      BY <1>4, <1>8 DEF Shown
    <2>2. DialogOk'
      BY <1>1, <1>2, <1>3, <1>8, <2>1 DEF DialogOk, CallFits, QrShown, OwnCall
    <2> QED BY <1>6, <2>2, DialogMoves
  <1>9. CASE dialog' = [[x EXCEPT !.qr = 0] EXCEPT !.open = f]
    <2> DEFINE y == [x EXCEPT !.qr = 0]
    <2>1. Shown(y) /\ y.call = none
      BY <1>4 DEF Shown
    <2>2. dialog' = [y EXCEPT !.open = f]
      BY <1>9
    <2> HIDE DEF y
    <2>3. Shown(dialog') /\ dialog'.call = none /\ dialog'.open = f
      BY <2>1, <2>2 DEF Shown
    <2>4. DialogOk'
      BY <1>2, <1>3, <2>3 DEF DialogOk, CallFits, QrShown, OwnCall
    <2> QED BY <1>6, <2>4, DialogMoves
  <1> QED BY <1>5, <1>7, <1>8, <1>9

LEMMA AtTillOk ==
    ASSUME ShopInv, AtTill
    PROVE  TillInv'
  <1>1. ASSUME Selling, UNCHANGED dialogVars
        PROVE  TillInv'
    <2>1. CASE OpenTill \/ RoleFlips \/ ServeProducts \/ LoadAnswered \/ ListAnswered
      BY <1>1, <2>1, OpenOk, FlipOk, ServeOk, LoadOk, ListedOk DEF ShopInv
    <2>2. ASSUME NEW s \in Stores, PickStore(s)
          PROVE  TillInv'
      BY <1>1, <2>2, PickOk DEF ShopInv
    <2>3. ASSUME NEW r \in DOMAIN till.list, NEW q \in 0..MaxQty, SetQty(r, q) \/ SetAmountForProduct(r, q)
          PROVE  TillInv'
      BY <1>1, <2>3, RingOk DEF ShopInv
    <2>4. CASE Charge \/ CancelCharge \/ ChargeDone
      BY <1>1, <2>4, ChargeOk DEF ShopInv
    <2> QED BY <1>1, <2>1, <2>2, <2>3, <2>4, Zenon DEF Selling, Browsing
  <1>2. ASSUME CallLost, UNCHANGED dialogVars
        PROVE  TillInv'
    BY <1>2, LostOk DEF ShopInv
  <1>3. ASSUME Changing, UNCHANGED <<till, calls>>
        PROVE  TillInv'
    <2>1. CASE SetMode("qr") \/ SetMode("tag") \/ CloseChange
      BY <1>3, <2>1, DropOk DEF ShopInv
    <2>2. CASE OpenChange
      BY <1>3, <2>2, OpenChangeOk DEF ShopInv
    <2>3. CASE ServeChange
      BY <1>3, <2>3, IssueOk DEF ShopInv
    <2>4. CASE ChangeAnswered
      BY <1>3, <2>4, AnsweredOk DEF ShopInv
    <2>5. ASSUME NEW kind \in {"qr", "tag"}, NEW n \in 1..MaxQty, PressChange(kind, n)
          PROVE  TillInv'
      BY <1>3, <2>5, PressOk DEF ShopInv
    <2>6. \A kind \in {"qr", "tag"} : kind = "qr" \/ kind = "tag"
      OBVIOUS
    <2> QED BY <1>3, <2>1, <2>2, <2>3, <2>4, <2>5, <2>6, Zenon DEF Changing
  <1>4. ASSUME ChangeLost, UNCHANGED <<till, calls>>
        PROVE  TillInv'
    BY <1>4, DropOk DEF ShopInv
  <1>5. /\ UNCHANGED <<dialogVars, catFaults>> => UNCHANGED dialogVars
        /\ UNCHANGED <<till, calls, catFaults>> => UNCHANGED <<till, calls>>
    OBVIOUS
  <1> QED BY <1>1, <1>2, <1>3, <1>4, <1>5, Zenon DEF AtTill

\* Neither part reads what the other writes, except the server for the page.
LEMMA StockStill == ASSUME StockInv, UNCHANGED <<feed, published, catTables, sync, form, edits, mixed, marks>>
                    PROVE  StockInv'
  BY DEF StockInv, TableOk, FormOk, SyncOk, TypedSync, Listing, Feed, AloneOk, Undisturbed, Listed, RowsOf, ByHand, SingleOk,
         Single, FromApi, Busy, catTables

LEMMA TillStill == ASSUME TillInv, UNCHANGED tillVars
                   PROVE  TillInv'
  <1>1. ListOk' /\ CartOk'
    BY DEF TillInv, tillVars, ListOk, CartOk
  <1> QED BY <1>1, PageMoves DEF tillVars

LEMMA TillStarts == ShopInit => TillInv
  <1> SUFFICES ASSUME ShopInit PROVE TillInv
    OBVIOUS
  <1>1. /\ till = ClosedTill /\ calls = {} /\ dialog = ShutDialog /\ vouchers = <<>> /\ outlived = FALSE
    BY DEF ShopInit, TillInit
  <1>2. DOMAIN <<>> = {} /\ Len(vouchers) = 0 /\ 1..0 = {}
    BY <1>1
  <1>3. ListOk /\ CartOk
    BY <1>1, <1>2 DEF ListOk, CartOk, ClosedTill, Page, Snapshot
  <1>4. VoucherOk
    BY <1>1, <1>2 DEF VoucherOk
  <1>5. Shown(dialog) /\ ~dialog.open /\ dialog.call = NoCall
    BY <1>1 DEF ShutDialog, Shown
  <1>6. DialogOk
    BY <1>5 DEF DialogOk, CallFits, QrShown, OwnCall
  <1> QED BY <1>3, <1>4, <1>6 DEF TillInv

LEMMA TillGood == TillInv => QrFits
  <1> SUFFICES ASSUME TillInv PROVE QrFits
    OBVIOUS
  <1>1. Lines \subseteq DOMAIN till.list
    BY DEF Lines
  <1>2. ASSUME NEW r \in Lines \ till.aged, till.list[r].max > 0, UnitPrice(r) > 0
        PROVE  LineTotal(r) <= till.list[r].max
    <2>1. LineTotal(r) = Rung(r) * till.list[r].price /\ LineTotal(r) > 0 /\ till.list[r].price > 0
      BY <1>2 DEF LineTotal, UnitPrice, Lines
    <2>2. till.list[r] \in Row /\ till.list[r].price \in Int
      BY <1>1 DEF TillInv, ListOk, Snapshot, Row
    <2>3. CASE r \in DOMAIN till.cart
      BY <1>1, <1>2, <2>1, <2>3 DEF TillInv, CartOk, Rung
    <2>4. CASE r \notin DOMAIN till.cart
      <3>1. Rung(r) = 0 /\ 0 * till.list[r].price = 0
        BY <2>2, <2>4 DEF Rung
      <3> QED BY <2>1, <3>1
    <2> QED BY <2>3, <2>4
  <1>3. \A r \in Lines : Qr.items[r].cur = till.list[r].cur /\ till.list[r].cur = StoreCurrency[till.listed]
    BY <1>1 DEF Qr, TillInv, ListOk
  <1>4. Qr.cur = StoreCurrency[till.store]
    BY DEF Qr
  <1>5. \A i \in DOMAIN vouchers :
          /\ vouchers[i].priced.cur = vouchers[i].cur
          /\ vouchers[i].priced.max > 0 => vouchers[i].amount <= vouchers[i].priced.max
    BY DEF TillInv, VoucherOk
  <1>6. ASSUME dialog.open, dialog.qr # 0
        PROVE  /\ vouchers[dialog.qr].mode = "qr"
               /\ ~outlived => vouchers[dialog.qr].turn = dialog.turn /\ vouchers[dialog.qr].store = till.store
    BY <1>6 DEF TillInv, DialogOk, QrShown
  <1>7. \A r \in Lines \ till.aged : till.list[r].max > 0 /\ UnitPrice(r) > 0 => LineTotal(r) <= till.list[r].max
    BY <1>2
  <1>8. \A q, r \in Lines : Qr.items[q].cur = Qr.items[r].cur
    BY <1>3
  <1>9. till.listed = till.store => \A r \in Lines : Qr.items[r].cur = Qr.cur
    BY <1>3, <1>4
  <1> QED BY <1>5, <1>6, <1>7, <1>8, <1>9, Zenon DEF QrFits

\* The invariant of the shop: what a sync has done of its list and what the rows by
\* hand are, and what the page, the dialog and the requests under way were told
\* (productCatalogService, merchantSelf.routes, products.routes, PointOfSale.tsx).
THEOREM ShopInvariant == ShopSpec => []ShopInv
  <1>1. ShopInit => ShopInv
    BY StockStarts, TillStarts DEF ShopInv
  <1>2. ASSUME ShopInv, [ShopNext]_<<catVars, tillVars>>
        PROVE  ShopInv'
    <2>1. CASE Stocking /\ UNCHANGED tillVars
      BY <1>2, <2>1, StockingOk, TillStill DEF ShopInv
    <2>2. CASE AtTill /\ UNCHANGED <<feed, published, catTables, sync, form, edits, mixed, marks>>
      BY <1>2, <2>2, AtTillOk, StockStill DEF ShopInv
    <2>3. CASE CatFaultsAgain
      <3>1. UNCHANGED <<feed, published, catTables, sync, form, edits, mixed, marks>> /\ UNCHANGED tillVars
        BY <2>3 DEF CatFaultsAgain
      <3> QED BY <1>2, <3>1, StockStill, TillStill DEF ShopInv
    <2>4. CASE UNCHANGED <<catVars, tillVars>>
      <3>1. UNCHANGED <<feed, published, catTables, sync, form, edits, mixed, marks>> /\ UNCHANGED tillVars
        BY <2>4 DEF catVars
      <3> QED BY <1>2, <3>1, StockStill, TillStill DEF ShopInv
    <2> QED BY <1>2, <2>1, <2>2, <2>3, <2>4, Zenon DEF ShopNext
  <1> QED BY <1>1, <1>2, PTL DEF ShopSpec

\* When a sync that nothing disturbed ends, the shelf is the supplier's list and the
\* rows made by hand are as they were (productCatalogService), whatever the till does.
THEOREM CatalogueTheorem == ShopSpec => []CatalogueInSync
  <1>1. ShopInv => CatalogueInSync
    BY StockGood DEF ShopInv
  <1> QED BY <1>1, ShopInvariant, PTL

\* A QR code keeps to the limits and to one currency, a change voucher to the limits
\* of its product, and a voucher's code to its own dialog (PointOfSale.tsx).
THEOREM QrTheorem == ShopSpec => []QrFits
  <1>1. ShopInv => QrFits
    BY TillGood DEF ShopInv
  <1> QED BY <1>1, ShopInvariant, PTL

(***************************************************************************)
(*                          The organisation                               *)
(***************************************************************************)

AtPage(x) == x \in [pc : {x.pc}, merchant : {x.merchant}, seat : {x.seat}, boot : {x.boot}]
SeatRow(x) == x \in [merchant : {x.merchant}, email : {x.email}, role : {x.role}, status : {x.status}, scope : {x.scope},
                     by : {x.by}]
MerchantRow(x) == x \in [wallet : {x.wallet}, active : {x.active}, settles : {x.settles}, payout : {x.payout}]
InOrder(f) == IsFiniteSet(DOMAIN f) /\ DOMAIN f = 1..Cardinality(DOMAIN f)

Registered(m) == {s \in DOMAIN seats : seats[s].merchant = m /\ seats[s].by = "register"}

SeatOk(s) ==
    /\ SeatRow(seats[s]) /\ seats[s].status \in {"invited", "active"}
    /\ seats[s].by = "register" => seats[s].role = "org_admin"
    /\ seats[s].status = "active" <=> \E p \in People : s \in passkeys[p]
    /\ <<"claim", s>> \notin crossed => \A p, q \in Holders(s) : p = q
    /\ seats[s].by = "register" /\ <<"seat", seats[s].merchant>> \notin crossed =>
          \A u \in DOMAIN seats : seats[u].by = "register" /\ seats[u].merchant = seats[s].merchant => u = s

\* A seat is active when somebody holds its passkey; a registration makes one seat.
SeatsOk ==
    /\ InOrder(seats)
    /\ passkeys = [p \in People |-> passkeys[p]]
    /\ \A p \in People : passkeys[p] \subseteq DOMAIN seats
    /\ \A s \in DOMAIN seats : SeatOk(s)

\* Wallets are unique.
MerchantsOk ==
    /\ InOrder(merchants)
    /\ \A m \in DOMAIN merchants : MerchantRow(merchants[m]) /\ merchants[m].active \in BOOLEAN
    /\ \A m, n \in DOMAIN merchants : merchants[m].wallet = merchants[n].wallet => m = n

\* How far somebody's page is, and what it relies on.
Stands(x) ==
    /\ AtPage(x)
    /\ x.pc \in {"claim", "verify", "chain", "answer"} => x.seat \in DOMAIN seats
    /\ x.pc \in {"chain", "answer"} => Owners(x.merchant) # {}
    /\ x.pc \in {"seat", "seat_insert", "chain", "answer"} /\ ~x.boot => <<x.merchant, HO>> \in DOMAIN stores
    /\ x.pc = "answer" /\ ~x.boot /\ "chain" \notin orgFaults =>
          \E w \in Wallets : \A c \in {"treasury", "vault"} : w \in trusted[c]
    /\ x.pc = "seat_insert" /\ <<"seat", x.merchant>> \notin crossed => Registered(x.merchant) = {}
    /\ x.pc = "verify" /\ <<"claim", x.seat>> \notin crossed => Holders(x.seat) = {}

SignedIn(p, k) ==
    /\ k.seat \in DOMAIN seats /\ \E q \in Device(p) : k.seat \in passkeys[q]
    /\ seats[k.seat].merchant = k.merchant /\ seats[k.seat].role = k.role

PeopleOk ==
    /\ page = [p \in People |-> page[p]] /\ token = [p \in People |-> token[p]]
    /\ \A p \in People : /\ Stands(page[p])
                         /\ page[p].pc = "in" => SignedIn(p, token[p])
RacesOk ==
    /\ \A p, q \in People : At(p, "seat_insert") /\ At(q, "seat_insert") /\ p # q /\ page[p].merchant = page[q].merchant
          => <<"seat", page[p].merchant>> \in crossed
    /\ \A p, q \in People : At(p, "verify") /\ At(q, "verify") /\ p # q /\ page[p].seat = page[q].seat
          => <<"claim", page[p].seat>> \in crossed

DoneOk ==
    /\ DOMAIN trusted = {"treasury", "vault"}
    /\ \A m \in done :
          /\ Owners(m) # {} /\ <<m, HO>> \in DOMAIN stores
          /\ "chain" \notin orgFaults => \E w \in Wallets : \A c \in {"treasury", "vault"} : w \in trusted[c]

OrgInv == SeatsOk /\ MerchantsOk /\ PeopleOk /\ RacesOk /\ DoneOk

-----------------------------------------------------------------------------
\* What no step takes back.
Grows ==
    /\ DOMAIN seats \subseteq DOMAIN seats' /\ DOMAIN stores \subseteq DOMAIN stores' /\ crossed \subseteq crossed'
    /\ \A s \in DOMAIN seats : /\ seats'[s].merchant = seats[s].merchant
                               /\ seats'[s].role = seats[s].role
    /\ \A p \in People : passkeys[p] \subseteq passkeys'[p]
    /\ \A c \in {"treasury", "vault"} : trusted[c] \subseteq trusted'[c]
    /\ "chain" \in orgFaults => "chain" \in orgFaults'

LEMMA Noted == Note => RacesOk' /\ crossed \subseteq crossed'
  <1> SUFFICES ASSUME Note PROVE RacesOk' /\ crossed \subseteq crossed'
    OBVIOUS
  <1>1. crossed' = crossed \cup Racing'
    BY DEF Note
  <1>2. ASSUME NEW p \in People, NEW q \in People, At(p, "seat_insert")', At(q, "seat_insert")', p # q,
               page'[p].merchant = page'[q].merchant
        PROVE  <<"seat", page'[p].merchant>> \in Racing'
    BY <1>2 DEF Racing
  <1>3. ASSUME NEW p \in People, NEW q \in People, At(p, "verify")', At(q, "verify")', p # q,
               page'[p].seat = page'[q].seat
        PROVE  <<"claim", page'[p].seat>> \in Racing'
    BY <1>3 DEF Racing
  <1> QED BY <1>1, <1>2, <1>3 DEF RacesOk

\* What somebody's page relies on outlasts what others do.
LEMMA StandsStill ==
    ASSUME Grows, NEW x, Stands(x),
           x.pc = "seat_insert" /\ <<"seat", x.merchant>> \notin crossed' => Registered(x.merchant)' \subseteq Registered(x.merchant),
           x.pc = "verify" /\ <<"claim", x.seat>> \notin crossed' => Holders(x.seat)' \subseteq Holders(x.seat)
    PROVE  Stands(x)'
  <1>1. Owners(x.merchant) \subseteq Owners(x.merchant)'
    BY DEF Owners, Grows
  <1>2. x.pc \in {"claim", "verify", "chain", "answer"} => x.seat \in DOMAIN seats'
    BY DEF Stands, Grows
  <1>3. x.pc \in {"chain", "answer"} => Owners(x.merchant)' # {}
    BY <1>1 DEF Stands
  <1>4. x.pc \in {"seat", "seat_insert", "chain", "answer"} /\ ~x.boot => <<x.merchant, HO>> \in DOMAIN stores'
    BY DEF Stands, Grows
  <1>5. x.pc = "answer" /\ ~x.boot /\ "chain" \notin orgFaults' =>
          \E w \in Wallets : \A c \in {"treasury", "vault"} : w \in trusted'[c]
    BY DEF Stands, Grows
  <1>6. x.pc = "seat_insert" /\ <<"seat", x.merchant>> \notin crossed' => Registered(x.merchant)' = {}
    BY DEF Stands, Grows
  <1>7. x.pc = "verify" /\ <<"claim", x.seat>> \notin crossed' => Holders(x.seat)' = {}
    BY DEF Stands, Grows
  <1> QED BY <1>2, <1>3, <1>4, <1>5, <1>6, <1>7 DEF Stands

LEMMA SignedStill ==
    ASSUME Grows, NEW p, NEW k, SignedIn(p, k)
    PROVE  SignedIn(p, k)'
  <1>1. Device(p) \subseteq People
    BY DEF Device
  <1> QED BY <1>1 DEF SignedIn, Grows

LEMMA DoneStill ==
    ASSUME DoneOk, Grows, done' = done, DOMAIN trusted' = DOMAIN trusted
    PROVE  DoneOk'
  <1>1. \A m : Owners(m) \subseteq Owners(m)'
    BY DEF Owners, Grows
  <1> QED BY <1>1 DEF DoneOk, Grows

LEMMA SeatsStill ==
    ASSUME SeatsOk, UNCHANGED <<seats, passkeys>>, crossed \subseteq crossed'
    PROVE  SeatsOk'
  BY DEF SeatsOk, SeatOk, InOrder, Holders

\* Somebody's page moves; the others, and what they rely on, stay.
LEMMA PeopleMove ==
    ASSUME PeopleOk, Grows, NEW t \in People, NEW x, NEW k,
           page' = [page EXCEPT ![t] = x], token' = [token EXCEPT ![t] = k], Stands(x)', x.pc = "in" => SignedIn(t, k)',
           \A m, p : p \in People \ {t} /\ At(p, "seat_insert") /\ page[p].merchant = m /\ <<"seat", m>> \notin crossed' =>
              Registered(m)' \subseteq Registered(m),
           \A s, p : p \in People \ {t} /\ At(p, "verify") /\ page[p].seat = s /\ <<"claim", s>> \notin crossed' =>
              Holders(s)' \subseteq Holders(s)
    PROVE  PeopleOk'
  <1>1. /\ page' = [p \in People |-> page'[p]] /\ page'[t] = x /\ \A p \in People \ {t} : page'[p] = page[p]
        /\ token' = [p \in People |-> token'[p]] /\ token'[t] = k /\ \A p \in People \ {t} : token'[p] = token[p]
    BY DEF PeopleOk
  <1>2. ASSUME NEW p \in People \ {t}
        PROVE  Stands(page[p])' /\ (page'[p].pc = "in" => SignedIn(p, token[p])')
    <2>1. PICK y, j : y = page[p] /\ j = token[p]
      OBVIOUS
    <2>2. Stands(y) /\ (y.pc = "in" => SignedIn(p, j))
      BY <2>1 DEF PeopleOk
    <2>3. Stands(y)'
      <3>1. y.pc = "seat_insert" /\ <<"seat", y.merchant>> \notin crossed' => Registered(y.merchant)' \subseteq Registered(y.merchant)
        <4>1. PICK m : m = y.merchant
          OBVIOUS
        <4> QED BY <2>1, <4>1 DEF At
      <3>2. y.pc = "verify" /\ <<"claim", y.seat>> \notin crossed' => Holders(y.seat)' \subseteq Holders(y.seat)
        <4>1. PICK s : s = y.seat
          OBVIOUS
        <4> QED BY <2>1, <4>1 DEF At
      <3> QED BY <2>2, <3>1, <3>2, StandsStill
    <2>4. y.pc = "in" => SignedIn(p, j)'
      BY <2>2, SignedStill
    <2>5. page'[p] = y /\ token'[p] = j
      BY <1>1, <2>1
    <2> QED BY <2>3, <2>4, <2>5 DEF Stands, SignedIn
  <1>3. Stands(page[t])' /\ (page'[t].pc = "in" => SignedIn(t, token[t])')
    BY <1>1 DEF Stands, SignedIn
  <1> QED BY <1>1, <1>2, <1>3 DEF PeopleOk

\* The same when no page moves.
LEMMA PeopleStay ==
    ASSUME PeopleOk, Grows, UNCHANGED <<page, token, seats, passkeys>>
    PROVE  PeopleOk'
  <1>1. ASSUME NEW p \in People
        PROVE  Stands(page[p])' /\ (page'[p].pc = "in" => SignedIn(p, token[p])')
    <2>1. PICK y, j : y = page[p] /\ j = token[p]
      OBVIOUS
    <2>2. Stands(y)
      BY <2>1 DEF PeopleOk
    <2>3. Stands(y)'
      BY <2>2, StandsStill DEF Registered, Holders
    <2>4. y.pc = "in" => SignedIn(p, j)'
      BY <2>1, SignedStill DEF PeopleOk
    <2>5. page'[p] = y /\ token'[p] = j
      BY <2>1
    <2> QED BY <2>3, <2>4, <2>5 DEF Stands, SignedIn
  <1> QED BY <1>1 DEF PeopleOk

\* A step of a registration that makes no seat.
LEMMA Passes ==
    ASSUME OrgInv, Note, Grows, NEW t \in People, NEW x, page' = [page EXCEPT ![t] = x], Stands(x)', x.pc # "in",
           UNCHANGED <<seats, passkeys, token>>, MerchantsOk', DoneOk'
    PROVE  OrgInv'
  <1>1. PICK k : k = token[t]
    OBVIOUS
  <1>2. token' = [token EXCEPT ![t] = k]
    BY <1>1 DEF OrgInv, PeopleOk
  <1>3. \A m, s : Registered(m)' = Registered(m) /\ Holders(s)' = Holders(s)
    BY DEF Registered, Holders
  <1>4. PeopleOk'
    <2>1. /\ \A m : Registered(m)' \subseteq Registered(m)
          /\ \A s : Holders(s)' \subseteq Holders(s)
      BY <1>3
    <2> QED BY <1>2, <2>1, PeopleMove DEF OrgInv
  <1>5. SeatsOk' /\ RacesOk'
    BY SeatsStill, Noted DEF OrgInv
  <1> QED BY <1>4, <1>5 DEF OrgInv

Waiting == {"form", "gone", "signed", "insert", "currency", "office", "sign_in", "none"}

\* A page that relies on nothing.
LEMMA Waits ==
    ASSUME OrgInv, Note, NEW t \in People, NEW x, AtPage(x), x.pc \in Waiting, page' = [page EXCEPT ![t] = x],
           UNCHANGED <<seats, passkeys, stores, token, trusted, done>>, MerchantsOk',
           "chain" \in orgFaults => "chain" \in orgFaults'
    PROVE  OrgInv'
  <1>1. Grows
    BY Noted DEF Grows
  <1>2. Stands(x)'
    BY DEF Stands, Waiting
  <1> QED BY <1>1, <1>2, Passes, DoneStill DEF OrgInv, Waiting

LEMMA Turned ==
    ASSUME PeopleOk, NEW t \in People, NEW pc, Turn(t, pc)
    PROVE  \E x : /\ AtPage(x) /\ page' = [page EXCEPT ![t] = x]
                  /\ x.pc = pc /\ x.merchant = page[t].merchant /\ x.seat = page[t].seat /\ x.boot = page[t].boot
  <1>1. PICK y : y = page[t]
    OBVIOUS
  <1>2. AtPage(y)
    BY <1>1 DEF PeopleOk, Stands
  <1>3. PICK x : x = [y EXCEPT !.pc = pc]
    OBVIOUS
  <1>4. page' = [page EXCEPT ![t] = x]
    BY <1>1, <1>3 DEF Turn
  <1>5. AtPage(x) /\ x.pc = pc /\ x.merchant = y.merchant /\ x.seat = y.seat /\ x.boot = y.boot
    BY <1>2, <1>3 DEF AtPage
  <1> QED BY <1>1, <1>4, <1>5

LEMMA TurnedAway ==
    ASSUME NEW t \in People, Refuse(t)
    PROVE  \E x : AtPage(x) /\ page' = [page EXCEPT ![t] = x] /\ x.pc \in {"form", "gone"}
  <1>1. PICK f : f = AtForm
    OBVIOUS
  <1>2. AtPage(f)
    BY <1>1 DEF AtPage, AtForm
  <1>3. PICK pc \in {"form", "gone"} : pc = IF t \in Patient THEN "form" ELSE "gone"
    OBVIOUS
  <1>4. PICK x : x = [f EXCEPT !.pc = pc]
    OBVIOUS
  <1>5. page' = [page EXCEPT ![t] = x]
    BY <1>1, <1>3, <1>4 DEF Refuse
  <1>6. AtPage(x) /\ x.pc = pc
    BY <1>2, <1>4 DEF AtPage
  <1> QED BY <1>5, <1>6

LEMMA Added ==
    ASSUME NEW f, InOrder(f), NEW v, NEW k, k = Cardinality(DOMAIN f) + 1
    PROVE  /\ k \notin DOMAIN f /\ InOrder(Add(f, k, v)) /\ DOMAIN Add(f, k, v) = DOMAIN f \cup {k}
           /\ Add(f, k, v)[k] = v /\ \A i \in DOMAIN f : Add(f, k, v)[i] = f[i]
  <1> DEFINE c == Cardinality(DOMAIN f)
             g == Add(f, k, v)
  <1>1. c \in Nat /\ DOMAIN f = 1..c
    BY FS_CardinalityType DEF InOrder
  <1>2. DOMAIN g = DOMAIN f \cup {k} /\ g[k] = v /\ \A i \in DOMAIN f : i # k => g[i] = f[i]
    BY DEF Add
  <1>3. DOMAIN f \cup {k} = 1..c + 1 /\ k \notin DOMAIN f
    BY <1>1
  <1>4. IsFiniteSet(1..c + 1) /\ Cardinality(1..c + 1) = c + 1
    BY <1>1, FS_Interval
  <1>5. InOrder(g)
    BY <1>2, <1>3, <1>4 DEF InOrder
  <1> QED BY <1>2, <1>3, <1>5

\* The oldest of some seats is one of them.
LEMMA OldestIs ==
    ASSUME SeatsOk, NEW S \in SUBSET DOMAIN seats, S # {}
    PROVE  Oldest(S) \in S
  <1>1. S \subseteq Nat
    BY FS_CardinalityType DEF SeatsOk, InOrder
  <1>2. PICK s \in S : \A u \in S : ~(<<u, s>> \in OpToRel(<, Nat))
    BY <1>1, NatLessThanWellFounded, WFMin
  <1>3. \A u \in S : s <= u
    <2> SUFFICES ASSUME NEW u \in S PROVE s <= u
      OBVIOUS
    <2>1. <<u, s>> \in Nat \X Nat /\ s \in Nat /\ u \in Nat
      BY <1>1
    <2>2. ~(<<u, s>>[1] < <<u, s>>[2])
      BY <1>2, <2>1 DEF OpToRel
    <2> QED BY <2>1, <2>2
  <1> QED BY <1>3 DEF Oldest

-----------------------------------------------------------------------------
\* Steps of POST /register, one lemma each.

LEMMA TurnWaits ==
    ASSUME OrgInv, Note, NEW t \in People, NEW pc \in Waiting, Turn(t, pc),
           UNCHANGED <<seats, passkeys, stores, token, trusted, done, merchants>>,
           "chain" \in orgFaults => "chain" \in orgFaults'
    PROVE  OrgInv'
  <1>1. PICK x : AtPage(x) /\ page' = [page EXCEPT ![t] = x] /\ x.pc = pc
    BY Turned DEF OrgInv
  <1>2. MerchantsOk'
    BY DEF OrgInv, MerchantsOk, InOrder
  <1> QED BY <1>1, <1>2, Waits

LEMMA RefuseWaits ==
    ASSUME OrgInv, Note, NEW t \in People, Refuse(t),
           UNCHANGED <<seats, passkeys, stores, token, trusted, done, merchants>>,
           "chain" \in orgFaults => "chain" \in orgFaults'
    PROVE  OrgInv'
  <1>1. PICK x : AtPage(x) /\ page' = [page EXCEPT ![t] = x] /\ x.pc \in {"form", "gone"}
    BY TurnedAway
  <1>2. MerchantsOk'
    BY DEF OrgInv, MerchantsOk, InOrder
  <1> QED BY <1>1, <1>2, Waits DEF Waiting

LEMMA FaultKeeps == \A kind : OrgFault(kind) => orgFaults \subseteq orgFaults'
  BY DEF OrgFault

LEMMA PostOk ==
    ASSUME OrgInv, Note, NEW t \in People, PostRegister(t)
    PROVE  OrgInv'
  <1> DEFINE known == MerchantOf(WalletOf[t])
  <1>1. PICK y, n, b : y = page[t] /\ n = (CHOOSE m \in known : TRUE) /\ b = TRUE
    OBVIOUS
  <1>2. AtPage(y)
    BY <1>1 DEF OrgInv, PeopleOk, Stands
  <1>3. UNCHANGED <<seats, passkeys, stores, token, trusted, done, merchants, orgFaults>>
    BY DEF PostRegister, orgTables
  <1>4. MerchantsOk'
    BY <1>3 DEF OrgInv, MerchantsOk, InOrder
  <1>5. CASE known = {}
    <2>1. PICK x : x = [y EXCEPT !.pc = "insert"]
      OBVIOUS
    <2>2. page' = [page EXCEPT ![t] = x]
      BY <1>1, <1>5, <2>1 DEF PostRegister
    <2>3. AtPage(x) /\ x.pc = "insert"
      BY <1>2, <2>1 DEF AtPage
    <2> QED BY <1>3, <1>4, <2>2, <2>3, Waits DEF Waiting
  <1>6. CASE known # {}
    <2> DEFINE a == [y EXCEPT !.pc = "seat"]
               c == [a EXCEPT !.merchant = n]
    <2>1. PICK x : x = [c EXCEPT !.boot = b]
      OBVIOUS
    <2>2. page' = [page EXCEPT ![t] = x]
      <3>1. page' = [page EXCEPT ![t] = [page[t] EXCEPT !.pc = "seat", !.merchant = CHOOSE m \in known : TRUE, !.boot = TRUE]]
        BY <1>6 DEF PostRegister
      <3>2. [y EXCEPT !.pc = "seat", !.merchant = n, !.boot = b] = x
        BY <2>1, Zenon
      <3> QED BY <1>1, <3>1, <3>2
    <2>3. AtPage(a) /\ a.pc = "seat"
      BY <1>2 DEF AtPage
    <2> HIDE DEF a
    <2>4. AtPage(c) /\ c.pc = "seat"
      BY <2>3 DEF AtPage
    <2> HIDE DEF c
    <2>5. AtPage(x) /\ x.pc = "seat" /\ x.boot = b
      BY <2>1, <2>4 DEF AtPage
    <2>6. Grows
      BY <1>3, Noted DEF Grows
    <2>7. Stands(x)'
      BY <1>1, <2>5 DEF Stands
    <2> QED BY <1>3, <1>4, <2>2, <2>5, <2>6, <2>7, Passes, DoneStill DEF OrgInv
  <1> QED BY <1>5, <1>6

LEMMA InsertOk ==
    ASSUME OrgInv, Note, NEW t \in People, NEW settles, InsertMerchant(t, settles)
    PROVE  OrgInv'
  <1> DEFINE m == Cardinality(DOMAIN merchants) + 1
             v == [wallet |-> WalletOf[t], active |-> TRUE, settles |-> settles,
                   payout |-> IF settles = "ONCHAIN" THEN "USDC" ELSE "home"]
  <1>1. UNCHANGED <<seats, passkeys, stores, token, trusted, done, orgFaults>>
    BY DEF InsertMerchant
  <1>2. CASE MerchantOf(WalletOf[t]) # {}
    BY <1>1, <1>2, RefuseWaits DEF InsertMerchant
  <1>3. CASE MerchantOf(WalletOf[t]) = {}
    <2>1. PICK k, r : k = m /\ r = v
      OBVIOUS
    <2>2. r.wallet = WalletOf[t] /\ MerchantRow(r) /\ r.active \in BOOLEAN
      BY <2>1 DEF MerchantRow
    <2>3. merchants' = Add(merchants, k, r) /\ page' = [page EXCEPT ![t].pc = "currency", ![t].merchant = k]
      BY <1>3, <2>1, Zenon DEF InsertMerchant
    <2> HIDE DEF v
    <2>4. /\ k \notin DOMAIN merchants /\ InOrder(merchants') /\ DOMAIN merchants' = DOMAIN merchants \cup {k}
          /\ merchants'[k] = r /\ \A i \in DOMAIN merchants : merchants'[i] = merchants[i]
      <3>1. PICK f : f = merchants
        OBVIOUS
      <3>2. PICK g : g = Add(f, k, r)
        OBVIOUS
      <3>3. InOrder(f) /\ k = Cardinality(DOMAIN f) + 1
        BY <2>1, <3>1 DEF OrgInv, MerchantsOk
      <3>4. /\ k \notin DOMAIN f /\ InOrder(g) /\ DOMAIN g = DOMAIN f \cup {k}
            /\ g[k] = r /\ \A i \in DOMAIN f : g[i] = f[i]
        BY <3>2, <3>3, Added
      <3>5. merchants' = g
        BY <2>3, <3>1, <3>2
      <3> QED BY <3>1, <3>4, <3>5 DEF InOrder
    <2>5. \A i \in DOMAIN merchants : merchants[i].wallet # WalletOf[t]
      BY <1>3 DEF MerchantOf
    <2>6. MerchantsOk'
      BY <2>2, <2>4, <2>5 DEF OrgInv, MerchantsOk, InOrder
    <2>7. PICK y : y = page[t]
      OBVIOUS
    <2> DEFINE a == [y EXCEPT !.pc = "currency"]
    <2>8. PICK x : x = [a EXCEPT !.merchant = k]
      OBVIOUS
    <2>9. page' = [page EXCEPT ![t] = x]
      <3>1. page' = [[page EXCEPT ![t] = a] EXCEPT ![t] = [([page EXCEPT ![t] = a])[t] EXCEPT !.merchant = k]]
        BY <2>3, <2>7, Zenon
      <3>2. ([page EXCEPT ![t] = a])[t] = a
        BY DEF OrgInv, PeopleOk
      <3> HIDE DEF a
      <3>3. page' = [[page EXCEPT ![t] = a] EXCEPT ![t] = x]
        BY <2>8, <3>1, <3>2
      <3> QED BY <3>3
    <2>10. AtPage(y)
      BY <2>7 DEF OrgInv, PeopleOk, Stands
    <2>11. AtPage(a) /\ a.pc = "currency"
      BY <2>10 DEF AtPage
    <2> HIDE DEF a
    <2>12. AtPage(x) /\ x.pc = "currency"
      BY <2>8, <2>11 DEF AtPage
    <2> QED BY <1>1, <2>6, <2>9, <2>12, Waits DEF Waiting
  <1> QED BY <1>2, <1>3

LEMMA OfficeOk ==
    ASSUME OrgInv, Note, NEW t \in People, HeadOffice(t)
    PROVE  OrgInv'
  <1>1. PICK x : AtPage(x) /\ page' = [page EXCEPT ![t] = x] /\ x.pc = "seat" /\ x.merchant = page[t].merchant
    BY Turned DEF HeadOffice, OrgInv
  <1>2. UNCHANGED <<seats, passkeys, token, trusted, done, merchants, orgFaults>> /\ stores' = EnsureHeadOffice(page[t].merchant)
    BY DEF HeadOffice
  <1>3. DOMAIN stores \subseteq DOMAIN stores' /\ <<x.merchant, HO>> \in DOMAIN stores'
    BY <1>1, <1>2 DEF EnsureHeadOffice, Add
  <1>4. Grows
    BY <1>2, <1>3, Noted DEF Grows
  <1>5. Stands(x)'
    BY <1>1, <1>3 DEF Stands
  <1>6. MerchantsOk'
    BY <1>2 DEF OrgInv, MerchantsOk, InOrder
  <1> QED BY <1>1, <1>2, <1>4, <1>5, <1>6, Passes, DoneStill DEF OrgInv

LEMMA ReadSeatOk ==
    ASSUME OrgInv, Note, NEW t \in People, ReadSeat(t)
    PROVE  OrgInv'
  <1>1. PICK y : y = page[t]
    OBVIOUS
  <1>2. AtPage(y) /\ y.pc = "seat" /\ Stands(y)
    BY <1>1 DEF OrgInv, PeopleOk, Stands, ReadSeat, At
  <1>3. PICK m : m = y.merchant
    OBVIOUS
  <1>4. UNCHANGED <<seats, passkeys, stores, token, trusted, done, merchants, orgFaults>>
    BY DEF ReadSeat, orgTables
  <1>5. MerchantsOk' /\ Grows
    BY <1>4, Noted DEF OrgInv, MerchantsOk, InOrder, Grows
  <1>6. CASE Owners(m) = {}
    <2>1. Turn(t, "seat_insert")
      BY <1>1, <1>3, <1>6 DEF ReadSeat
    <2>2. PICK x : AtPage(x) /\ page' = [page EXCEPT ![t] = x] /\ x.pc = "seat_insert" /\ x.merchant = m /\ x.boot = y.boot
      BY <1>1, <1>3, <2>1, Turned DEF OrgInv
    <2>3. Registered(m) \subseteq Owners(m)
      BY DEF Registered, Owners, OrgInv, SeatsOk, SeatOk
    <2>4. Registered(x.merchant)' = {}
      BY <1>4, <1>6, <2>2, <2>3 DEF Registered
    <2>5. Stands(x)'
      BY <1>2, <1>3, <1>4, <2>2, <2>4 DEF Stands
    <2> QED BY <1>4, <1>5, <2>2, <2>5, Passes, DoneStill DEF OrgInv
  <1>7. CASE Owners(m) # {}
    <2>1. PICK s, pc : /\ s = OwnerSeat(m)
                       /\ pc = IF ~y.boot THEN "chain" ELSE IF seats[OwnerSeat(m)].status = "active" THEN "sign_in" ELSE "answer"
      OBVIOUS
    <2>2. s \in Owners(m)
      <3>1. {u \in Owners(m) : seats[u].status = "invited"} \in SUBSET DOMAIN seats /\ Owners(m) \in SUBSET DOMAIN seats
        BY DEF Owners
      <3> DEFINE S == IF {u \in Owners(m) : seats[u].status = "invited"} # {}
                        THEN {u \in Owners(m) : seats[u].status = "invited"} ELSE Owners(m)
      <3>2. S \in SUBSET DOMAIN seats /\ S # {} /\ S \subseteq Owners(m)
        BY <1>7, <3>1
      <3>3. s = Oldest(S)
        BY <2>1 DEF OwnerSeat
      <3> HIDE DEF S
      <3>4. Oldest(S) \in S
        BY <3>2, OldestIs DEF OrgInv
      <3> QED BY <3>2, <3>3, <3>4
    <2> DEFINE a == [y EXCEPT !.seat = s]
    <2>3. PICK x : x = [a EXCEPT !.pc = pc]
      OBVIOUS
    <2>4. page' = [page EXCEPT ![t] = x]
      <3>1. page' = [page EXCEPT ![t].seat = s, ![t].pc = pc]
        BY <1>1, <1>3, <1>7, <2>1, Zenon DEF ReadSeat
      <3>2. page' = [[page EXCEPT ![t] = a] EXCEPT ![t] = [([page EXCEPT ![t] = a])[t] EXCEPT !.pc = pc]]
        BY <1>1, <3>1, Zenon
      <3>3. ([page EXCEPT ![t] = a])[t] = a
        BY DEF OrgInv, PeopleOk
      <3> HIDE DEF a
      <3>4. page' = [[page EXCEPT ![t] = a] EXCEPT ![t] = x]
        BY <2>3, <3>2, <3>3
      <3> QED BY <3>4
    <2>5. AtPage(a) /\ a.seat = s /\ a.merchant = m /\ a.boot = y.boot
      BY <1>2, <1>3 DEF AtPage
    <2> HIDE DEF a
    <2>6. AtPage(x) /\ x.pc = pc /\ x.seat = s /\ x.merchant = m /\ x.boot = y.boot
      BY <2>3, <2>5 DEF AtPage
    <2>7. s \in DOMAIN seats' /\ Owners(m)' # {}
      BY <1>4, <1>7, <2>2 DEF Owners
    <2>8. pc \in {"chain", "sign_in", "answer"} /\ (pc = "answer" => y.boot) /\ (pc = "chain" => ~y.boot)
      BY <2>1
    <2>9. Owners(x.merchant)' # {}
      BY <2>6, <2>7 DEF Owners
    <2>10. Stands(x)'
      BY <1>2, <1>3, <1>4, <2>6, <2>7, <2>8, <2>9 DEF Stands
    <2> QED BY <1>4, <1>5, <2>4, <2>6, <2>8, <2>10, Passes, DoneStill DEF OrgInv
  <1> QED BY <1>6, <1>7

LEMMA TrustGrows ==
    ASSUME DoneOk, NEW w, NEW ok, Trust(w, ok)
    PROVE  /\ DOMAIN trusted' = DOMAIN trusted
           /\ \A c \in {"treasury", "vault"} : trusted[c] \subseteq trusted'[c] /\ (c \in ok => w \in trusted'[c])
  BY DEF Trust, DoneOk

LEMMA TrustWalletOk ==
    ASSUME DoneOk, NEW w, TrustWallet(w) \/ ("chain" \in orgFaults /\ orgFaults' = orgFaults /\ \E ok : Trust(w, ok))
    PROVE  /\ DOMAIN trusted' = DOMAIN trusted
           /\ \A c \in {"treasury", "vault"} : trusted[c] \subseteq trusted'[c]
           /\ "chain" \in orgFaults => "chain" \in orgFaults'
           /\ "chain" \notin orgFaults' => \A c \in {"treasury", "vault"} : w \in trusted'[c]
  <1>1. CASE Trust(w, DOMAIN trusted) /\ UNCHANGED orgFaults
    <2>1. DOMAIN trusted = {"treasury", "vault"}
      BY DEF DoneOk
    <2> QED BY <1>1, <2>1, TrustGrows
  <1>2. CASE OrgFault("chain") /\ \E ok : Trust(w, ok)
    <2>1. "chain" \in orgFaults'
      BY <1>2 DEF OrgFault
    <2> QED BY <1>2, <2>1, TrustGrows
  <1>3. CASE "chain" \in orgFaults /\ orgFaults' = orgFaults /\ \E ok : Trust(w, ok)
    BY <1>3, TrustGrows
  <1> QED BY <1>1, <1>2, <1>3 DEF TrustWallet

LEMMA ChainOk ==
    ASSUME OrgInv, Note, NEW t \in Pages, At(t, "chain"), Turn(t, "answer"), UNCHANGED <<nonce, orgTables, token, done>>,
           TrustWallet(WalletOf[t]) \/ ("chain" \in orgFaults /\ orgFaults' = orgFaults /\ \E ok : Trust(WalletOf[t], ok))
    PROVE  OrgInv'
  <1>1. PICK y, w : y = page[t] /\ w = WalletOf[t]
    OBVIOUS
  <1>2. t \in People /\ w \in Wallets
    BY <1>1 DEF People, Wallets
  <1>3. y.pc = "chain" /\ Stands(y)
    BY <1>1, <1>2 DEF OrgInv, PeopleOk, At, Stands
  <1>4. PICK x : /\ AtPage(x) /\ page' = [page EXCEPT ![t] = x] /\ x.pc = "answer"
                 /\ x.merchant = y.merchant /\ x.seat = y.seat /\ x.boot = y.boot
    BY <1>1, <1>2, Turned DEF OrgInv
  <1>5. /\ DOMAIN trusted' = DOMAIN trusted
        /\ \A c \in {"treasury", "vault"} : trusted[c] \subseteq trusted'[c]
        /\ "chain" \in orgFaults => "chain" \in orgFaults'
        /\ "chain" \notin orgFaults' => \A c \in {"treasury", "vault"} : w \in trusted'[c]
    BY <1>1, TrustWalletOk DEF OrgInv
  <1>6. UNCHANGED <<seats, passkeys, stores, token, done, merchants>>
    BY DEF orgTables
  <1>7. MerchantsOk' /\ Grows
    BY <1>5, <1>6, Noted DEF OrgInv, MerchantsOk, InOrder, Grows
  <1>8. Owners(x.merchant)' # {}
    BY <1>3, <1>4, <1>6 DEF Stands, Owners
  <1>9. Stands(x)'
    BY <1>2, <1>3, <1>4, <1>5, <1>6, <1>8 DEF Stands
  <1> QED BY <1>2, <1>4, <1>5, <1>6, <1>7, <1>9, Passes, DoneStill DEF OrgInv

LEMMA AnswerOk ==
    ASSUME OrgInv, Note, NEW t \in Pages, AnswerRegister(t)
    PROVE  OrgInv'
  <1>1. PICK y : y = page[t]
    OBVIOUS
  <1>2. t \in People
    BY DEF People
  <1>3. y.pc = "answer" /\ Stands(y)
    BY <1>1, <1>2 DEF OrgInv, PeopleOk, At, Stands, AnswerRegister
  <1>4. UNCHANGED <<seats, passkeys, stores, token, trusted, merchants>> /\ orgFaults \subseteq orgFaults'
    BY FaultKeeps DEF AnswerRegister, orgTables
  <1>5. "chain" \notin orgFaults' => "chain" \notin orgFaults
    BY <1>4
  <1>6. MerchantsOk' /\ Grows
    BY <1>4, Noted DEF OrgInv, MerchantsOk, InOrder, Grows
  <1>7. \A m : Owners(m)' = Owners(m)
    BY <1>4 DEF Owners
  <1>8. DoneOk'
    <2>1. done' = IF y.boot THEN done ELSE done \cup {y.merchant}
      BY <1>1 DEF AnswerRegister
    <2>2. ASSUME NEW m \in done'
          PROVE  /\ Owners(m) # {} /\ <<m, HO>> \in DOMAIN stores
                 /\ "chain" \notin orgFaults => \E w \in Wallets : \A c \in {"treasury", "vault"} : w \in trusted[c]
      <3>1. CASE m \in done
        BY <3>1 DEF OrgInv, DoneOk
      <3>2. CASE ~y.boot /\ m = y.merchant
        BY <1>3, <3>2 DEF Stands
      <3> QED BY <2>1, <3>1, <3>2
    <2> QED BY <1>4, <1>5, <1>7, <2>2 DEF OrgInv, DoneOk
  <1>9. PICK x : /\ AtPage(x) /\ page' = [page EXCEPT ![t] = x]
                 /\ x.pc \in {"gone", "form"} \/ (x.pc = "claim" /\ x.seat = y.seat)
    <2>1. CASE Refuse(t)
      BY <1>2, <2>1, TurnedAway
    <2>2. CASE Turn(t, IF t \in Desk THEN "gone" ELSE "claim")
      <3>1. PICK pc : pc = IF t \in Desk THEN "gone" ELSE "claim"
        OBVIOUS
      <3>2. PICK x : AtPage(x) /\ page' = [page EXCEPT ![t] = x] /\ x.pc = pc /\ x.seat = y.seat
        BY <1>1, <1>2, <2>2, <3>1, Turned DEF OrgInv
      <3> QED BY <3>1, <3>2
    <2> QED BY <2>1, <2>2 DEF AnswerRegister
  <1>10. Stands(x)'
    BY <1>3, <1>4, <1>9 DEF Stands
  <1> QED BY <1>2, <1>4, <1>6, <1>8, <1>9, <1>10, Passes

-----------------------------------------------------------------------------
\* Seats.

\* A new row of merchant_members: an invite, which nobody has a passkey of.
LEMMA SeatAdded ==
    ASSUME OrgInv, crossed \subseteq crossed', NEW k, k = Cardinality(DOMAIN seats) + 1,
           NEW r, SeatRow(r), r.status = "invited", seats' = Add(seats, k, r), UNCHANGED passkeys,
           r.by = "register" => r.role = "org_admin" /\ (<<"seat", r.merchant>> \notin crossed' => Registered(r.merchant) = {})
    PROVE  /\ SeatsOk' /\ k \notin DOMAIN seats /\ DOMAIN seats' = DOMAIN seats \cup {k} /\ seats'[k] = r
           /\ \A i \in DOMAIN seats : seats'[i] = seats[i]
           /\ \A m : (r.by = "register" /\ m = r.merchant) \/ Registered(m)' = Registered(m)
           /\ \A s : Holders(s)' = Holders(s)
  <1>1. PICK f : f = seats
    OBVIOUS
  <1>2. PICK g : g = Add(f, k, r)
    OBVIOUS
  <1>3. InOrder(f) /\ k = Cardinality(DOMAIN f) + 1
    BY <1>1 DEF OrgInv, SeatsOk
  <1>4. /\ k \notin DOMAIN f /\ InOrder(g) /\ DOMAIN g = DOMAIN f \cup {k}
        /\ g[k] = r /\ \A i \in DOMAIN f : g[i] = f[i]
    BY <1>2, <1>3, Added
  <1>5. seats' = g
    BY <1>1, <1>2
  <1>6. /\ k \notin DOMAIN seats /\ DOMAIN seats' = DOMAIN seats \cup {k} /\ seats'[k] = r
        /\ \A i \in DOMAIN seats : seats'[i] = seats[i]
        /\ InOrder(seats)'
    BY <1>1, <1>4, <1>5 DEF InOrder
  <1>7. \A s : Holders(s)' = Holders(s)
    BY DEF Holders
  <1>8. \A m : (r.by = "register" /\ m = r.merchant) \/ Registered(m)' = Registered(m)
    BY <1>6 DEF Registered
  <1>9. \A p \in People : passkeys'[p] \subseteq DOMAIN seats' /\ k \notin passkeys'[p]
    BY <1>6 DEF OrgInv, SeatsOk
  <1>10. Holders(k)' = {}
    BY <1>9 DEF Holders
  <1>11. r.by = "register" /\ <<"seat", r.merchant>> \notin crossed' =>
            \A u \in DOMAIN seats : ~(seats[u].by = "register" /\ seats[u].merchant = r.merchant)
    BY DEF Registered
  <1>12. ASSUME NEW s \in DOMAIN seats'
         PROVE  SeatOk(s)'
    <2>1. CASE s = k
      <3>1. seats'[s] = r
        BY <1>6, <2>1
      <3>2. <<"claim", s>> \notin crossed' => \A p, q \in Holders(s)' : p = q
        BY <1>10, <2>1
      <3>3. r.by = "register" /\ <<"seat", r.merchant>> \notin crossed' =>
               \A u \in DOMAIN seats' : seats'[u].by = "register" /\ seats'[u].merchant = r.merchant => u = s
        BY <1>6, <1>11, <2>1
      <3> QED BY <1>9, <2>1, <3>1, <3>2, <3>3 DEF SeatOk
    <2>2. CASE s \in DOMAIN seats
      <3>1. PICK old : old = seats[s]
        OBVIOUS
      <3>2. seats'[s] = old
        BY <1>6, <2>2, <3>1
      <3>3. SeatOk(s)
        BY <2>2 DEF OrgInv, SeatsOk
      <3>4. <<"claim", s>> \notin crossed' => \A p, q \in Holders(s)' : p = q
        BY <1>7, <3>3 DEF SeatOk
      <3>5. old.by = "register" /\ <<"seat", old.merchant>> \notin crossed' =>
               \A u \in DOMAIN seats' : seats'[u].by = "register" /\ seats'[u].merchant = old.merchant => u = s
        <4>1. old.by = "register" /\ <<"seat", old.merchant>> \notin crossed' =>
                 \A u \in DOMAIN seats : seats[u].by = "register" /\ seats[u].merchant = old.merchant => u = s
          BY <3>1, <3>3 DEF SeatOk
        <4> QED BY <1>6, <1>11, <2>2, <3>1, <4>1
      <3> QED BY <3>1, <3>2, <3>3, <3>4, <3>5 DEF SeatOk
    <2> QED BY <1>6, <2>1, <2>2
  <1>13. SeatsOk'
    BY <1>6, <1>9, <1>12 DEF OrgInv, SeatsOk
  <1> QED BY <1>6, <1>7, <1>8, <1>13

LEMMA InsertSeatOk ==
    ASSUME OrgInv, Note, NEW t \in People, InsertSeat(t)
    PROVE  OrgInv'
  <1>1. CASE TakenEmail(page[t].merchant, EmailOf[t], 0)
    <2>1. Refuse(t) /\ UNCHANGED <<seats, passkeys, stores, token, trusted, done, merchants, orgFaults>>
      BY <1>1 DEF InsertSeat
    <2> QED BY <2>1, RefuseWaits
  <1>2. CASE ~TakenEmail(page[t].merchant, EmailOf[t], 0)
    <2>1. PICK y, m, k : y = page[t] /\ m = y.merchant /\ k = Cardinality(DOMAIN seats) + 1
      OBVIOUS
    <2>2. PICK r : r = [merchant |-> m, email |-> EmailOf[t], role |-> "org_admin", status |-> "invited", scope |-> "all", by |-> "register"]
      OBVIOUS
    <2>3. SeatRow(r) /\ r.merchant = m /\ r.role = "org_admin" /\ r.status = "invited" /\ r.by = "register"
      BY <2>2 DEF SeatRow
    <2>4. PICK pc : pc = IF y.boot THEN "answer" ELSE "chain"
      OBVIOUS
    <2>5. /\ seats' = Add(seats, k, r) /\ page' = [page EXCEPT ![t].seat = k, ![t].pc = pc]
          /\ UNCHANGED <<merchants, stores, passkeys, token, trusted, done, orgFaults>>
      BY <1>2, <2>1, <2>2, <2>4, Zenon DEF InsertSeat
    <2>6. AtPage(y) /\ y.pc = "seat_insert" /\ Stands(y)
      BY <2>1 DEF OrgInv, PeopleOk, Stands, InsertSeat, At
    <2>7. crossed \subseteq crossed' /\ RacesOk'
      BY Noted
    <2>8. <<"seat", m>> \notin crossed' => Registered(m) = {}
      BY <2>1, <2>6, <2>7 DEF Stands
    <2>9. /\ SeatsOk' /\ k \notin DOMAIN seats /\ DOMAIN seats' = DOMAIN seats \cup {k} /\ seats'[k] = r
          /\ \A i \in DOMAIN seats : seats'[i] = seats[i]
          /\ \A n : n = m \/ Registered(n)' = Registered(n)
          /\ \A s : Holders(s)' = Holders(s)
      BY <2>1, <2>3, <2>5, <2>7, <2>8, SeatAdded
    <2>10. MerchantsOk' /\ Grows
      BY <2>5, <2>7, <2>9 DEF OrgInv, MerchantsOk, InOrder, Grows
    <2> DEFINE a == [y EXCEPT !.seat = k]
    <2>11. PICK x : x = [a EXCEPT !.pc = pc]
      OBVIOUS
    <2>12. page' = [page EXCEPT ![t] = x]
      <3>1. page' = [[page EXCEPT ![t] = a] EXCEPT ![t] = [([page EXCEPT ![t] = a])[t] EXCEPT !.pc = pc]]
        BY <2>1, <2>5, Zenon
      <3>2. ([page EXCEPT ![t] = a])[t] = a
        BY DEF OrgInv, PeopleOk
      <3> HIDE DEF a
      <3>3. page' = [[page EXCEPT ![t] = a] EXCEPT ![t] = x]
        BY <2>11, <3>1, <3>2
      <3> QED BY <3>3
    <2>13. AtPage(a) /\ a.seat = k /\ a.merchant = m /\ a.boot = y.boot
      BY <2>1, <2>6 DEF AtPage
    <2> HIDE DEF a
    <2>14. AtPage(x) /\ x.pc = pc /\ x.seat = k /\ x.merchant = m /\ x.boot = y.boot
      BY <2>11, <2>13 DEF AtPage
    <2>15. k \in Owners(m)'
      BY <2>3, <2>9 DEF Owners
    <2>16. Owners(x.merchant)' # {}
      BY <2>14, <2>15 DEF Owners
    <2>17. pc \in {"chain", "answer"} /\ (pc = "answer" => y.boot) /\ (pc = "chain" => ~y.boot)
      BY <2>4
    <2>18. Stands(x)'
      BY <2>1, <2>5, <2>6, <2>9, <2>14, <2>16, <2>17 DEF Stands
    <2>19. PICK j : j = token[t]
      OBVIOUS
    <2>20. token' = [token EXCEPT ![t] = j]
      BY <2>5, <2>19 DEF OrgInv, PeopleOk
    <2>21. \A n, p : p \in People \ {t} /\ At(p, "seat_insert") /\ page[p].merchant = n /\ <<"seat", n>> \notin crossed' =>
              Registered(n)' \subseteq Registered(n)
      <3> SUFFICES ASSUME NEW n, NEW p \in People \ {t}, At(p, "seat_insert"), page[p].merchant = n, <<"seat", n>> \notin crossed'
                   PROVE  Registered(n)' \subseteq Registered(n)
        OBVIOUS
      <3>1. n # m
        BY <2>1, <2>6, <2>7 DEF OrgInv, RacesOk, At
      <3> QED BY <2>9, <3>1
    <2>22. \A s : Holders(s)' \subseteq Holders(s)
      BY <2>9
    <2>23. x.pc # "in"
      BY <2>14, <2>17
    <2>24. PeopleOk'
      BY <2>10, <2>12, <2>18, <2>20, <2>21, <2>22, <2>23, PeopleMove DEF OrgInv
    <2> QED BY <2>5, <2>7, <2>9, <2>10, <2>24, DoneStill DEF OrgInv
  <1> QED BY <1>1, <1>2

LEMMA InviteOk ==
    ASSUME OrgInv, Note, NEW p, NEW c \in People, NEW role, NEW scope, Invite(p, c, role, scope)
    PROVE  OrgInv'
  <1>1. PICK m, k, f : m = token[p].merchant /\ k = Cardinality(DOMAIN seats) + 1 /\ f = AtForm
    OBVIOUS
  <1>2. PICK r : r = [merchant |-> m, email |-> EmailOf[c], role |-> role, status |-> "invited", scope |-> scope, by |-> "invite"]
    OBVIOUS
  <1>3. SeatRow(r) /\ r.status = "invited" /\ r.by = "invite"
    BY <1>2 DEF SeatRow
  <1>4. /\ seats' = Add(seats, k, r) /\ page' = [page EXCEPT ![c] = [f EXCEPT !.pc = "claim", !.seat = k]]
        /\ UNCHANGED <<merchants, stores, passkeys, token, trusted, done, orgFaults>>
    BY <1>1, <1>2, Zenon DEF Invite
  <1>5. crossed \subseteq crossed' /\ RacesOk'
    BY Noted
  <1>6. /\ SeatsOk' /\ k \notin DOMAIN seats /\ DOMAIN seats' = DOMAIN seats \cup {k}
        /\ \A i \in DOMAIN seats : seats'[i] = seats[i]
        /\ \A n : Registered(n)' = Registered(n)
        /\ \A s : Holders(s)' = Holders(s)
    BY <1>1, <1>3, <1>4, <1>5, SeatAdded
  <1>7. MerchantsOk' /\ Grows
    BY <1>4, <1>5, <1>6 DEF OrgInv, MerchantsOk, InOrder, Grows
  <1> DEFINE a == [f EXCEPT !.pc = "claim"]
  <1>8. PICK x : x = [a EXCEPT !.seat = k]
    OBVIOUS
  <1>9. page' = [page EXCEPT ![c] = x]
    <2>1. [f EXCEPT !.pc = "claim", !.seat = k] = x
      BY <1>8, Zenon
    <2> QED BY <1>4, <2>1
  <1>10. AtPage(f)
    BY <1>1 DEF AtPage, AtForm
  <1>11. AtPage(a) /\ a.pc = "claim"
    BY <1>10 DEF AtPage
  <1> HIDE DEF a
  <1>12. AtPage(x) /\ x.pc = "claim" /\ x.seat = k
    BY <1>8, <1>11 DEF AtPage
  <1>13. Stands(x)'
    BY <1>6, <1>12 DEF Stands
  <1>14. PICK j : j = token[c]
    OBVIOUS
  <1>15. token' = [token EXCEPT ![c] = j]
    BY <1>4, <1>14 DEF OrgInv, PeopleOk
  <1>16. /\ \A n : Registered(n)' \subseteq Registered(n)
         /\ \A s : Holders(s)' \subseteq Holders(s)
    BY <1>6
  <1>17. PeopleOk'
    BY <1>7, <1>9, <1>12, <1>13, <1>15, <1>16, PeopleMove DEF OrgInv
  <1> QED BY <1>4, <1>5, <1>6, <1>7, <1>17, DoneStill DEF OrgInv

LEMMA ReadClaimOk ==
    ASSUME OrgInv, Note, NEW p \in People, ReadClaim(p)
    PROVE  OrgInv'
  <1>1. UNCHANGED <<seats, passkeys, stores, token, trusted, done, merchants, orgFaults>>
    BY DEF ReadClaim, orgTables
  <1>2. CASE Refuse(p)
    BY <1>1, <1>2, RefuseWaits
  <1>3. CASE seats[page[p].seat].status = "invited" /\ Turn(p, "verify")
    <2>1. PICK y, s : y = page[p] /\ s = y.seat
      OBVIOUS
    <2>2. Stands(y) /\ y.pc = "claim"
      BY <2>1 DEF OrgInv, PeopleOk, ReadClaim, At, Stands
    <2>3. PICK x : AtPage(x) /\ page' = [page EXCEPT ![p] = x] /\ x.pc = "verify" /\ x.seat = s
      BY <1>3, <2>1, Turned DEF OrgInv
    <2>4. s \in DOMAIN seats /\ seats[s].status = "invited"
      BY <1>3, <2>1, <2>2 DEF Stands
    <2>5. Holders(s)' = {}
      BY <1>1, <2>4 DEF OrgInv, SeatsOk, SeatOk, Holders
    <2>6. Holders(x.seat)' = {}
      BY <2>3, <2>5 DEF Holders
    <2>7. Stands(x)'
      BY <1>1, <2>3, <2>4, <2>6 DEF Stands
    <2>8. MerchantsOk' /\ Grows
      BY <1>1, Noted DEF OrgInv, MerchantsOk, InOrder, Grows
    <2> QED BY <1>1, <2>3, <2>7, <2>8, Passes, DoneStill DEF OrgInv
  <1> QED BY <1>2, <1>3 DEF ReadClaim

LEMMA LoginOk ==
    ASSUME OrgInv, Note, NEW p \in People, MemberLogin(p)
    PROVE  OrgInv'
  <1>1. /\ UNCHANGED <<seats, passkeys, stores, trusted, done, merchants, orgFaults>> /\ Turn(p, "in")
    BY DEF MemberLogin, orgTables
  <1>2. PICK q \in Device(p) : \E s \in passkeys[q] :
           token' = [token EXCEPT ![p] = [seat |-> s, merchant |-> seats[s].merchant, role |-> seats[s].role]]
    BY DEF MemberLogin
  <1>3. PICK s \in passkeys[q] :
           token' = [token EXCEPT ![p] = [seat |-> s, merchant |-> seats[s].merchant, role |-> seats[s].role]]
    BY <1>2
  <1>4. PICK k : k = [seat |-> s, merchant |-> seats[s].merchant, role |-> seats[s].role]
    OBVIOUS
  <1>5. q \in People /\ s \in DOMAIN seats
    BY DEF Device, OrgInv, SeatsOk
  <1>6. token' = [token EXCEPT ![p] = k] /\ k.seat = s /\ k.merchant = seats[s].merchant /\ k.role = seats[s].role
    BY <1>3, <1>4
  <1>7. SignedIn(p, k)'
    BY <1>1, <1>5, <1>6 DEF SignedIn, Device
  <1>8. PICK x : AtPage(x) /\ page' = [page EXCEPT ![p] = x] /\ x.pc = "in"
    BY <1>1, Turned DEF OrgInv
  <1>9. Stands(x)'
    BY <1>8 DEF Stands
  <1>10. MerchantsOk' /\ Grows /\ RacesOk' /\ SeatsOk'
    BY <1>1, Noted, SeatsStill DEF OrgInv, MerchantsOk, InOrder, Grows
  <1>11. /\ \A n : Registered(n)' \subseteq Registered(n)
         /\ \A u : Holders(u)' \subseteq Holders(u)
    BY <1>1 DEF Registered, Holders
  <1>12. PeopleOk'
    BY <1>6, <1>7, <1>8, <1>9, <1>10, <1>11, PeopleMove DEF OrgInv
  <1> QED BY <1>1, <1>10, <1>12, DoneStill DEF OrgInv

\* The seat becomes its claimant's.
LEMMA CommitOk ==
    ASSUME OrgInv, Note, NEW p \in People, CommitClaim(p)
    PROVE  OrgInv'
  <1>1. UNCHANGED <<stores, trusted, done, merchants>> /\ orgFaults \subseteq orgFaults'
    BY FaultKeeps DEF CommitClaim
  <1>2. CASE Refuse(p) /\ UNCHANGED <<seats, passkeys, token>>
    BY <1>1, <1>2, RefuseWaits
  <1> DEFINE z == page[p].seat
  <1>3. CASE /\ seats' = [seats EXCEPT ![z].status = "active", ![z].email = EmailOf[p]]
             /\ passkeys' = [passkeys EXCEPT ![p] = @ \cup {z}]
             /\ token' = [token EXCEPT ![p] = [seat |-> z, merchant |-> seats[z].merchant, role |-> seats[z].role]]
             /\ Turn(p, "in")
    <2>1. PICK y, s, e : y = page[p] /\ s = y.seat /\ e = EmailOf[p]
      OBVIOUS
    <2>2. Stands(y) /\ y.pc = "verify"
      BY <2>1 DEF OrgInv, PeopleOk, CommitClaim, At, Stands
    <2>3. s \in DOMAIN seats /\ SeatOk(s)
      BY <2>2, <2>1 DEF Stands, OrgInv, SeatsOk
    <2>4. PICK old : old = seats[s]
      OBVIOUS
    <2> DEFINE a == [old EXCEPT !.status = "active"]
    <2>5. PICK r : r = [a EXCEPT !.email = e]
      OBVIOUS
    <2>6. seats' = [seats EXCEPT ![s] = r]
      <3>1. seats' = [[seats EXCEPT ![s] = a] EXCEPT ![s] = [([seats EXCEPT ![s] = a])[s] EXCEPT !.email = e]]
        BY <1>3, <2>1, <2>4, Zenon
      <3>2. ([seats EXCEPT ![s] = a])[s] = a
        BY <2>3
      <3> HIDE DEF a
      <3>3. seats' = [[seats EXCEPT ![s] = a] EXCEPT ![s] = r]
        BY <2>5, <3>1, <3>2
      <3> QED BY <3>3
    <2>7. SeatRow(a) /\ a.status = "active" /\ a.by = old.by /\ a.role = old.role /\ a.merchant = old.merchant
      BY <2>3, <2>4 DEF SeatOk, SeatRow
    <2> HIDE DEF a
    <2>8. SeatRow(r) /\ r.status = "active" /\ r.by = old.by /\ r.role = old.role /\ r.merchant = old.merchant
      BY <2>5, <2>7 DEF SeatRow
    <2>9. /\ DOMAIN seats' = DOMAIN seats /\ seats'[s] = r /\ \A u \in DOMAIN seats : u # s => seats'[u] = seats[u]
          /\ \A u \in DOMAIN seats : seats'[u].by = seats[u].by /\ seats'[u].role = seats[u].role /\ seats'[u].merchant = seats[u].merchant
      BY <2>3, <2>4, <2>6, <2>8
    <2>10. /\ passkeys' = [q \in People |-> passkeys'[q]] /\ passkeys'[p] = passkeys[p] \cup {s}
           /\ \A q \in People : q # p => passkeys'[q] = passkeys[q]
      BY <1>3, <2>1 DEF OrgInv, SeatsOk
    <2>11. crossed \subseteq crossed' /\ RacesOk'
      BY Noted
    <2>12. \A u : u # s => Holders(u)' = Holders(u)
      BY <2>10 DEF Holders
    <2>13. Holders(s)' = Holders(s) \cup {p}
      BY <2>10 DEF Holders
    <2>14. <<"claim", s>> \notin crossed' => Holders(s) = {}
      BY <2>1, <2>2, <2>11 DEF Stands
    <2>15. ASSUME NEW u \in DOMAIN seats
           PROVE  SeatOk(u)'
      <3>1. SeatOk(u)
        BY DEF OrgInv, SeatsOk
      <3>2. seats'[u].by = "register" /\ <<"seat", seats'[u].merchant>> \notin crossed' =>
               \A v \in DOMAIN seats' : seats'[v].by = "register" /\ seats'[v].merchant = seats'[u].merchant => v = u
        BY <2>9, <2>11, <3>1 DEF SeatOk
      <3>3. <<"claim", u>> \notin crossed' => \A q, v \in Holders(u)' : q = v
        BY <2>11, <2>12, <2>13, <2>14, <3>1 DEF SeatOk
      <3>4. seats'[u].status = "active" <=> \E q \in People : u \in passkeys'[q]
        <4>1. CASE u = s
          BY <2>8, <2>9, <2>10, <4>1
        <4>2. CASE u # s
          BY <2>9, <2>10, <3>1, <4>2 DEF SeatOk
        <4> QED BY <4>1, <4>2
      <3>5. SeatRow(seats'[u]) /\ seats'[u].status \in {"invited", "active"} /\ (seats'[u].by = "register" => seats'[u].role = "org_admin")
        <4>1. CASE u = s
          BY <2>3, <2>4, <2>8, <2>9, <4>1 DEF SeatOk
        <4>2. CASE u # s
          BY <2>9, <3>1, <4>2 DEF SeatOk
        <4> QED BY <4>1, <4>2
      <3> QED BY <3>2, <3>3, <3>4, <3>5 DEF SeatOk
    <2>16. SeatsOk'
      <3>1. \A q \in People : passkeys'[q] \subseteq DOMAIN seats'
        BY <2>3, <2>9, <2>10 DEF OrgInv, SeatsOk
      <3>2. InOrder(seats)'
        BY <2>9 DEF OrgInv, SeatsOk, InOrder
      <3> QED BY <2>9, <2>10, <2>15, <3>1, <3>2 DEF SeatsOk
    <2>17. MerchantsOk' /\ Grows
      <3>1. \A q \in People : passkeys[q] \subseteq passkeys'[q]
        BY <2>10
      <3>2. MerchantsOk'
        BY <1>1 DEF OrgInv, MerchantsOk, InOrder
      <3> QED BY <1>1, <2>9, <2>11, <3>1, <3>2 DEF Grows
    <2>18. PICK k : k = [seat |-> s, merchant |-> old.merchant, role |-> old.role]
      OBVIOUS
    <2>19. token' = [token EXCEPT ![p] = k] /\ k.seat = s /\ k.merchant = old.merchant /\ k.role = old.role
      BY <1>3, <2>1, <2>4, <2>18
    <2>20. SignedIn(p, k)'
      BY <2>3, <2>8, <2>9, <2>10, <2>19 DEF SignedIn, Device
    <2>21. PICK x : AtPage(x) /\ page' = [page EXCEPT ![p] = x] /\ x.pc = "in"
      BY <1>3, Turned DEF OrgInv
    <2>22. Stands(x)'
      BY <2>21 DEF Stands
    <2>23. \A n : Registered(n)' \subseteq Registered(n)
      BY <2>9 DEF Registered
    <2>24. \A u, q : q \in People \ {p} /\ At(q, "verify") /\ page[q].seat = u /\ <<"claim", u>> \notin crossed' =>
              Holders(u)' \subseteq Holders(u)
      <3> SUFFICES ASSUME NEW u, NEW q \in People \ {p}, At(q, "verify"), page[q].seat = u, <<"claim", u>> \notin crossed'
                   PROVE  Holders(u)' \subseteq Holders(u)
        OBVIOUS
      <3>1. u # s
        BY <2>1, <2>2, <2>11 DEF OrgInv, RacesOk, At
      <3> QED BY <2>12, <3>1
    <2>25. PeopleOk'
      BY <2>17, <2>19, <2>20, <2>21, <2>22, <2>23, <2>24, PeopleMove DEF OrgInv
    <2> QED BY <1>1, <2>11, <2>16, <2>17, <2>25, DoneStill DEF OrgInv
  <1> QED BY <1>2, <1>3 DEF CommitClaim

-----------------------------------------------------------------------------
\* Stores, profile and the operators: nobody's page moves.
LEMMA NobodyMoves ==
    ASSUME OrgInv, crossed \subseteq crossed', RacesOk', UNCHANGED <<page, token, seats, passkeys, done>>, MerchantsOk',
           DOMAIN stores \subseteq DOMAIN stores', DOMAIN trusted' = DOMAIN trusted,
           \A c \in {"treasury", "vault"} : trusted[c] \subseteq trusted'[c],
           "chain" \in orgFaults => "chain" \in orgFaults'
    PROVE  OrgInv'
  <1>1. Grows
    BY DEF Grows
  <1> QED BY <1>1, PeopleStay, DoneStill, SeatsStill DEF OrgInv

\* A merchant's row with other values; its wallet stays unique.
LEMMA MerchantRowOk ==
    ASSUME MerchantsOk, NEW m, NEW r, merchants' = [merchants EXCEPT ![m] = r], MerchantRow(r), r.active \in BOOLEAN,
           \A n \in DOMAIN merchants : merchants[n].wallet = r.wallet => n = m
    PROVE  MerchantsOk'
  BY DEF MerchantsOk, InOrder

LEMMA SettlesOk ==
    ASSUME MerchantsOk, NEW m, NEW how, Settles(m, how)
    PROVE  MerchantsOk'
  <1>1. PICK y, cur : y = merchants[m] /\ cur = IF how = "ONCHAIN" THEN "USDC" ELSE "home"
    OBVIOUS
  <1>2. CASE m \notin DOMAIN merchants
    <2>1. DOMAIN merchants' = DOMAIN merchants /\ \A n \in DOMAIN merchants : merchants'[n] = merchants[n]
      BY <1>2 DEF Settles
    <2> QED BY <2>1 DEF MerchantsOk, InOrder
  <1>3. CASE m \in DOMAIN merchants
    <2> DEFINE a == [y EXCEPT !.settles = how]
    <2>1. PICK r : r = [a EXCEPT !.payout = cur]
      OBVIOUS
    <2>2. merchants' = [merchants EXCEPT ![m] = r]
      <3>1. merchants' = [[merchants EXCEPT ![m] = a] EXCEPT ![m] = [([merchants EXCEPT ![m] = a])[m] EXCEPT !.payout = cur]]
        BY <1>1, Zenon DEF Settles
      <3>2. ([merchants EXCEPT ![m] = a])[m] = a
        BY <1>3
      <3> HIDE DEF a
      <3>3. merchants' = [[merchants EXCEPT ![m] = a] EXCEPT ![m] = r]
        BY <2>1, <3>1, <3>2
      <3> QED BY <3>3
    <2>3. MerchantRow(y) /\ y.active \in BOOLEAN
      BY <1>1, <1>3 DEF MerchantsOk
    <2>4. MerchantRow(a) /\ a.active = y.active /\ a.wallet = y.wallet
      BY <2>3 DEF MerchantRow
    <2> HIDE DEF a
    <2>5. MerchantRow(r) /\ r.active = y.active /\ r.wallet = y.wallet
      BY <2>1, <2>4 DEF MerchantRow
    <2>6. \A n \in DOMAIN merchants : merchants[n].wallet = r.wallet => n = m
      BY <1>1, <1>3, <2>5 DEF MerchantsOk
    <2> QED BY <2>2, <2>3, <2>5, <2>6, MerchantRowOk
  <1> QED BY <1>2, <1>3

LEMMA PatchMerchantOk ==
    ASSUME MerchantsOk, NEW m \in DOMAIN merchants, NEW w, NEW active \in BOOLEAN, PatchMerchant(m, w, active)
    PROVE  MerchantsOk'
  <1>1. PICK y : y = merchants[m]
    OBVIOUS
  <1> DEFINE a == [y EXCEPT !.wallet = w]
  <1>2. PICK r : r = [a EXCEPT !.active = active]
    OBVIOUS
  <1>3. merchants' = [merchants EXCEPT ![m] = r]
    <2>1. merchants' = [[merchants EXCEPT ![m] = a] EXCEPT ![m] = [([merchants EXCEPT ![m] = a])[m] EXCEPT !.active = active]]
      BY <1>1, Zenon DEF PatchMerchant
    <2>2. ([merchants EXCEPT ![m] = a])[m] = a
      OBVIOUS
    <2> HIDE DEF a
    <2>3. merchants' = [[merchants EXCEPT ![m] = a] EXCEPT ![m] = r]
      BY <1>2, <2>1, <2>2
    <2> QED BY <2>3
  <1>4. MerchantRow(y)
    BY <1>1 DEF MerchantsOk
  <1>5. MerchantRow(a) /\ a.wallet = w
    BY <1>4 DEF MerchantRow
  <1> HIDE DEF a
  <1>6. MerchantRow(r) /\ r.active = active /\ r.wallet = w
    BY <1>2, <1>5 DEF MerchantRow
  <1>7. \A n \in DOMAIN merchants : merchants[n].wallet = r.wallet => n = m
    BY <1>6 DEF PatchMerchant, MerchantOf
  <1> QED BY <1>3, <1>6, <1>7, MerchantRowOk

LEMMA RunningOk ==
    ASSUME OrgInv, Note, NEW p \in People, Running(p)
    PROVE  OrgInv'
  <1>1. crossed \subseteq crossed' /\ RacesOk'
    BY Noted
  <1>2. ASSUME NEW c \in Colleagues, NEW role, NEW scope, HandleInvite(p, c, role, scope)
        PROVE  OrgInv'
    <2>1. c \in People
      BY DEF People
    <2> QED BY <1>2, <2>1, InviteOk DEF HandleInvite
  <1>3. ASSUME UNCHANGED <<page, token, seats, passkeys, done, merchants, trusted, orgFaults>>, DOMAIN stores \subseteq DOMAIN stores'
        PROVE  OrgInv'
    <2>1. MerchantsOk'
      BY <1>3 DEF OrgInv, MerchantsOk, InOrder
    <2> QED BY <1>1, <1>3, <2>1, NobodyMoves
  <1>4. CASE ListMerchantStores(p)
    <2>1. DOMAIN stores \subseteq DOMAIN stores'
      BY <1>4 DEF ListMerchantStores, EnsureHeadOffice, Add
    <2> QED BY <1>3, <1>4, <2>1 DEF ListMerchantStores
  <1>5. ASSUME NEW code \in Codes, NEW c, NEW active,
               CreateMerchantStore(p, code, c) \/ UpdateMerchantStore(p, code, c, active)
        PROVE  OrgInv'
    <2>1. DOMAIN stores \subseteq DOMAIN stores'
      BY <1>5 DEF CreateMerchantStore, UpdateMerchantStore, Add
    <2> QED BY <1>3, <1>5, <2>1 DEF CreateMerchantStore, UpdateMerchantStore
  <1>6. ASSUME NEW how, SaveProfile(p, how)
        PROVE  OrgInv'
    <2>1. MerchantsOk'
      BY <1>6, SettlesOk DEF SaveProfile, PatchProfile, OrgInv
    <2> QED BY <1>1, <1>6, <2>1, NobodyMoves DEF SaveProfile, PatchProfile
  <1>7. ASSUME NEW code \in Codes, NEW c \in Countries, AddStore(p, code, c) \/ ToggleStore(p, code) \/ UpdateMerchantStore(p, code, c, TRUE)
        PROVE  OrgInv'
    <2>1. AddStore(p, code, c) => CreateMerchantStore(p, code, c)
      BY DEF AddStore
    <2>2. ToggleStore(p, code) => UpdateMerchantStore(p, code, stores[<<token[p].merchant, code>>].country, FALSE)
      BY DEF ToggleStore
    <2> QED BY <1>5, <1>7, <2>1, <2>2
  <1> QED BY <1>2, <1>4, <1>6, <1>7, Zenon DEF Running

LEMMA OperatingOk ==
    ASSUME OrgInv, Note, NEW m \in DOMAIN merchants,
           Operating(m) \/ /\ UNCHANGED <<nonce, page, orgTables, token, done, orgFaults>> /\ "chain" \in orgFaults
                           /\ \E ok : Trust(merchants[m].wallet, ok)
    PROVE  OrgInv'
  <1>1. crossed \subseteq crossed' /\ RacesOk'
    BY Noted
  <1>2. CASE /\ UNCHANGED <<nonce, page, orgTables, token, done>>
             /\ TrustWallet(merchants[m].wallet) \/ ("chain" \in orgFaults /\ orgFaults' = orgFaults /\ \E ok : Trust(merchants[m].wallet, ok))
    <2>1. PICK w : w = merchants[m].wallet
      OBVIOUS
    <2>2. /\ DOMAIN trusted' = DOMAIN trusted
          /\ \A c \in {"treasury", "vault"} : trusted[c] \subseteq trusted'[c]
          /\ "chain" \in orgFaults => "chain" \in orgFaults'
      BY <1>2, <2>1, TrustWalletOk DEF OrgInv
    <2>3. MerchantsOk'
      BY <1>2 DEF OrgInv, MerchantsOk, InOrder, orgTables
    <2> QED BY <1>1, <1>2, <2>2, <2>3, NobodyMoves DEF orgTables
  <1>3. ASSUME NEW w \in Wallets, NEW active \in BOOLEAN, PatchMerchant(m, w, active)
        PROVE  OrgInv'
    <2>1. MerchantsOk'
      BY <1>3, PatchMerchantOk DEF OrgInv
    <2> QED BY <1>1, <1>3, <2>1, NobodyMoves DEF PatchMerchant
  <1>4. ASSUME NEW how, PatchByOwner(merchants[m].wallet, how)
        PROVE  OrgInv'
    <2>1. MerchantsOk'
      BY <1>4, SettlesOk DEF PatchByOwner, OrgInv
    <2> QED BY <1>1, <1>4, <2>1, NobodyMoves DEF PatchByOwner
  <1>5. ASSUME NEW on, AcceptCurrency(m, "home", on)
        PROVE  OrgInv'
    <2>1. MerchantsOk'
      BY <1>5 DEF AcceptCurrency, OrgInv, MerchantsOk, InOrder
    <2> QED BY <1>1, <1>5, <2>1, NobodyMoves DEF AcceptCurrency
  <1>6. CASE Whitelist(m)
    BY <1>2, <1>6 DEF Whitelist
  <1>7. CASE Operating(m)
    BY <1>3, <1>4, <1>5, <1>6, <1>7, Zenon DEF Operating
  <1>8. CASE /\ UNCHANGED <<nonce, page, orgTables, token, done, orgFaults>> /\ "chain" \in orgFaults
             /\ \E ok : Trust(merchants[m].wallet, ok)
    BY <1>2, <1>8
  <1> QED BY <1>7, <1>8

LEMMA RegisteringOk ==
    ASSUME OrgInv, Note, NEW t \in Pages, Registering(t)
    PROVE  OrgInv'
  <1>1. t \in People
    BY DEF People
  <1>2. ASSUME NEW settles \in {"FIAT", "ONCHAIN"}, InsertMerchant(t, settles)
        PROVE  OrgInv'
    BY <1>1, <1>2, InsertOk
  <1>3. CASE GetNonce(t) \/ OpenForm(t)
    <2>1. /\ Turn(t, "signed") \/ Turn(t, "insert")
          /\ UNCHANGED <<seats, passkeys, stores, token, trusted, done, merchants, orgFaults>>
      BY <1>3 DEF GetNonce, OpenForm, orgTables
    <2> QED BY <1>1, <2>1, TurnWaits DEF Waiting
  <1>4. CASE SeedCurrency(t)
    <2>1. /\ Turn(t, "office") /\ orgFaults \subseteq orgFaults'
          /\ UNCHANGED <<seats, passkeys, stores, token, trusted, done, merchants>>
      BY <1>4, FaultKeeps DEF SeedCurrency
    <2> QED BY <1>1, <2>1, TurnWaits DEF Waiting
  <1>5. CASE BadSignature(t) \/ RegisterThrows(t)
    <2>1. /\ Refuse(t) /\ orgFaults \subseteq orgFaults'
          /\ UNCHANGED <<seats, passkeys, stores, token, trusted, done, merchants>>
      BY <1>5, FaultKeeps DEF BadSignature, RegisterThrows, orgTables
    <2> QED BY <1>1, <2>1, RefuseWaits
  <1>6. CASE RegisterMerchantOnchain(t)
    BY <1>6, ChainOk DEF RegisterMerchantOnchain
  <1>7. CASE PostRegister(t) \/ HeadOffice(t) \/ ReadSeat(t) \/ InsertSeat(t) \/ AnswerRegister(t)
    BY <1>1, <1>7, PostOk, OfficeOk, ReadSeatOk, InsertSeatOk, AnswerOk
  <1> QED BY <1>2, <1>3, <1>4, <1>5, <1>6, <1>7, Zenon DEF Registering

\* The invariant does not depend on what else failed.
LEMMA OrgStill ==
    ASSUME OrgInv, UNCHANGED <<page, orgTables, token, trusted, done, crossed>>, "chain" \in orgFaults => "chain" \in orgFaults'
    PROVE  OrgInv'
  <1>1. RacesOk' /\ MerchantsOk'
    BY DEF OrgInv, RacesOk, At, MerchantsOk, InOrder, orgTables
  <1> QED BY <1>1, NobodyMoves DEF orgTables

LEMMA OrgStarts == OrgInit => OrgInv
  <1> SUFFICES ASSUME OrgInit PROVE OrgInv
    OBVIOUS
  <1>1. DOMAIN seats = {} /\ DOMAIN merchants = {}
    BY DEF OrgInit
  <1>2. InOrder(seats) /\ InOrder(merchants)
    BY <1>1, FS_EmptySet DEF InOrder
  <1>3. SeatsOk /\ MerchantsOk
    BY <1>1, <1>2 DEF SeatsOk, MerchantsOk, OrgInit
  <1>4. PICK f : f = AtForm
    OBVIOUS
  <1>5. PICK g : g = [f EXCEPT !.pc = "none"]
    OBVIOUS
  <1>6. AtPage(f) /\ f.pc = "form"
    BY <1>4 DEF AtForm, AtPage
  <1>7. AtPage(g) /\ g.pc = "none"
    BY <1>5, <1>6 DEF AtPage
  <1>8. page = [p \in People |-> IF p \in Pages THEN f ELSE g]
    BY <1>4, <1>5 DEF OrgInit
  <1>9. \A p \in People : page[p] \in {f, g}
    BY <1>8
  <1>10. Stands(f) /\ Stands(g)
    BY <1>6, <1>7 DEF Stands
  <1>11. \A p \in People : Stands(page[p])
    BY <1>9, <1>10
  <1>12. \A p \in People : page[p].pc \in {"form", "none"}
    BY <1>6, <1>7, <1>9
  <1>13. PeopleOk
    BY <1>8, <1>11, <1>12 DEF PeopleOk, OrgInit
  <1>14. RacesOk
    BY <1>12 DEF RacesOk, At
  <1>15. DoneOk
    BY DEF DoneOk, OrgInit
  <1> QED BY <1>3, <1>13, <1>14, <1>15 DEF OrgInv

LEMMA AtMostOne ==
    ASSUME NEW S, \A x, y \in S : x = y
    PROVE  Cardinality(S) <= 1
  <1>1. CASE S = {}
    BY <1>1, FS_EmptySet
  <1>2. CASE S # {}
    <2>1. PICK x : S = {x}
      BY <1>2
    <2> QED BY <2>1, FS_Singleton
  <1> QED BY <1>1, <1>2

LEMMA OrgGood == OrgInv => OrgSound
  <1> SUFFICES ASSUME OrgInv PROVE OrgSound
    OBVIOUS
  <1>1. ASSUME NEW s \in DOMAIN seats
        PROVE  /\ (seats[s].status = "active") <=> (Holders(s) # {})
               /\ <<"claim", s>> \notin crossed => Cardinality(Holders(s)) <= 1
    <2>1. SeatOk(s)
      BY DEF OrgInv, SeatsOk
    <2>2. (seats[s].status = "active") <=> (Holders(s) # {})
      BY <2>1 DEF SeatOk, Holders
    <2> QED BY <2>1, <2>2, AtMostOne DEF SeatOk
  <1>2. ASSUME NEW m \in DOMAIN merchants
        PROVE  /\ WalletRole(merchants[m].wallet) = IF merchants[m].active THEN "merchant" ELSE "refused"
               /\ <<"seat", m>> \notin crossed => Cardinality({s \in Owners(m) : seats[s].by = "register"}) <= 1
    <2>1. MerchantOf(merchants[m].wallet) = {m}
      BY DEF OrgInv, MerchantsOk, MerchantOf
    <2>2. WalletRole(merchants[m].wallet) = IF merchants[m].active THEN "merchant" ELSE "refused"
      BY <2>1 DEF WalletRole
    <2>3. <<"seat", m>> \notin crossed => \A s, u \in {v \in Owners(m) : seats[v].by = "register"} : s = u
      BY DEF OrgInv, SeatsOk, SeatOk, Owners
    <2> QED BY <2>2, <2>3, AtMostOne
  <1>3. ASSUME NEW p \in People, At(p, "in")
        PROVE  /\ token[p].seat \in DOMAIN seats /\ \E q \in Device(p) : token[p].seat \in passkeys[q]
               /\ seats[token[p].seat].merchant = token[p].merchant /\ seats[token[p].seat].role = token[p].role
    BY <1>3 DEF OrgInv, PeopleOk, SignedIn, At
  <1>4. \A m \in done :
          /\ Owners(m) # {} /\ <<m, HO>> \in DOMAIN stores
          /\ "chain" \notin orgFaults => \E w \in Wallets : \A c \in DOMAIN trusted : w \in trusted[c]
    BY DEF OrgInv, DoneOk
  <1> QED BY <1>1, <1>2, <1>3, <1>4, Zenon DEF OrgSound

\* The invariant of a merchant's organisation: who holds a seat's passkey, what each page
\* in the middle of a registration or a claim relies on, and which requests raced
\* (merchants.routes, merchantOwnerBootstrap, memberAuth, storeService).
THEOREM OrgInvariant == OrgSpec => []OrgInv
  <1>1. ASSUME OrgInv, [OrgNext]_orgVars
        PROVE  OrgInv'
    <2>1. ASSUME Note, NEW t \in Pages, Registering(t)
          PROVE  OrgInv'
      BY <1>1, <2>1, RegisteringOk
    <2>2. ASSUME Note, NEW p \in People, Claiming(p) \/ Running(p)
          PROVE  OrgInv'
      BY <1>1, <2>2, RunningOk, ReadClaimOk, CommitOk, LoginOk DEF Claiming
    <2>3. ASSUME Note, NEW m \in DOMAIN merchants, Operating(m)
          PROVE  OrgInv'
      BY <1>1, <2>3, OperatingOk
    <2>4. ASSUME Note, ChainStillDown
          PROVE  OrgInv'
      <3>1. "chain" \in orgFaults /\ orgFaults' = orgFaults /\ UNCHANGED <<nonce, orgTables, token, done, orgFaults>>
        BY <2>4 DEF ChainStillDown
      <3>2. ASSUME NEW ok, NEW t \in Pages, At(t, "chain"), Turn(t, "answer"), Trust(WalletOf[t], ok)
            PROVE  OrgInv'
        BY <1>1, <2>4, <3>1, <3>2, ChainOk
      <3>3. ASSUME NEW ok, NEW m \in DOMAIN merchants, UNCHANGED page, Trust(merchants[m].wallet, ok)
            PROVE  OrgInv'
        BY <1>1, <2>4, <3>1, <3>3, OperatingOk
      <3> QED BY <2>4, <3>2, <3>3, Zenon DEF ChainStillDown
    <2>5. CASE OrgFaultsAgain
      BY <1>1, <2>5, OrgStill DEF OrgFaultsAgain
    <2>6. CASE UNCHANGED orgVars
      BY <1>1, <2>6, OrgStill DEF orgVars
    <2> QED BY <1>1, <2>1, <2>2, <2>3, <2>4, <2>5, <2>6, Zenon DEF OrgNext
  <1> QED BY <1>1, OrgStarts, PTL DEF OrgSpec

\* Whatever registrations, invites and claims overlap or break off, seats stay apart and
\* have holders, wallets sign in as one merchant, and an answered registration is usable
\* (merchantOwnerBootstrap, memberAuth).
THEOREM OrgTheorem == OrgSpec => []OrgSound
  <1> QED BY OrgInvariant, OrgGood, PTL
=============================================================================
