------------------------- MODULE Withdrawals_proofs -------------------------
(***************************************************************************)
(* Proofs about a consumer's withdrawals for any intents, limits, fee and  *)
(* number of handlers in flight: no value is created, and a challenge pays *)
(* for one withdrawal.                                                     *)
(***************************************************************************)
EXTENDS Withdrawals, ShareMath_proofs

Busy == [pc : Pcs, id : Ids]
JobType == {Idle} \cup Busy
RowStatus == {"none", "pending", "executed", "failed"}

(***************************************************************************)
(*                       The inductive invariant                           *)
(***************************************************************************)

\* The fee a handler has debited and not yet credited.
Carry(w) == IF worker[w].pc = "creditFee" THEN Fee(N(w)) ELSE 0
Carried == [w \in Workers |-> Carry(w)]

\* What left the consumer's claim covers all that was paid, and the fees on their way.
MoneyInv == claim + elsewhere + Total(sent) + fees + Total(Carried) <= Claim0

\* A payment of intent n: made, verified and still to be made, signed but not yet
\* verified; and what the prepared requests for n come to.
Got(i, n) == IF intent[i] = n THEN sent[i] ELSE 0
Pass(w, n) == IF worker[w].pc \in {"balance", "take", "withdraw"} /\ N(w) = n THEN Net(n) ELSE 0
Signed(n) == IF n \in challenges THEN Net(n) ELSE 0
Due(i, n) == IF intent[i] = n /\ i \in prepared THEN Net(n) ELSE 0
GotAll(n) == [i \in Ids |-> Got(i, n)]
PassAll(n) == [w \in Workers |-> Pass(w, n)]
DueAll(n) == [i \in Ids |-> Due(i, n)]

\* Registering a challenge adds one payment to what is due; verifying consumes the
\* challenge, and paying the verified handler.
PassInv == \A n \in Intents : Total(GotAll(n)) + Total(PassAll(n)) + Signed(n) <= Total(DueAll(n))

\* A request that was never made has left no trace; one shown as executed was paid.
IdOk(i) ==
    /\ intent[i] = NoIntent => sent[i] = 0 /\ i \notin prepared /\ row[i] = "none"
    /\ i \in pending => i \in prepared
    /\ row[i] = "executed" => sent[i] >= Net(intent[i]) /\ feeTaken[i] >= Fee(intent[i])
IdInv == \A i \in Ids : IdOk(i)

Prep == {"kyc", "quote", "register"}

\* A handler works for a request that was made; while it prepares it nothing is
\* registered, and past a transaction the money has moved.
JobOk(w) ==
    worker[w].pc # "idle" =>
       /\ N(w) \in Intents
       /\ worker[w].pc \in Prep => worker[w].id \notin prepared
       /\ worker[w].pc \in {"debitFee", "creditFee", "executed", "record"} =>
             sent[worker[w].id] >= Net(N(w))
       /\ worker[w].pc \in {"executed", "record"} => feeTaken[worker[w].id] >= Fee(N(w))
JobInv == \A w \in Workers : JobOk(w)

\* Two handlers never prepare the same request.
PrepInv == \A w, v \in Workers :
    /\ worker[w].pc \in Prep /\ worker[v].pc \in Prep
    /\ worker[w].id = worker[v].id
    => w = v

Inv == TypeOK /\ MoneyInv /\ PassInv /\ IdInv /\ JobInv /\ PrepInv
(***************************************************************************)
(*                          Handlers and fees                              *)
(***************************************************************************)

\* The fee never exceeds the amount: calcWithdrawalFeeUnits rounds up, but a rate is
\* at most the whole.
LEMMA FeeBounds ==
    ASSUME NEW n \in Intents
    PROVE  /\ Gross[n] \in Nat /\ Fee(n) \in Nat /\ Net(n) \in Nat
           /\ Fee(n) + Net(n) = Gross[n]
  <1>1. PICK g \in Nat : g = Gross[n]
    BY WithdrawalsAssumption
  <1>2. PICK b \in Nat : b = FeeBps /\ b <= 10000
    BY WithdrawalsAssumption
  <1>3. PICK p \in Nat : p = g * b /\ p <= 10000 * g
    BY <1>2, Multiply
  <1>4. (p + 9999) \div 10000 \in Nat /\ (p + 9999) \div 10000 <= g
    BY <1>3
  <1>5. Fee(n) \in Nat /\ Fee(n) <= g
    BY <1>1, <1>2, <1>3, <1>4 DEF Fee
  <1>6. QED
    BY <1>1, <1>5 DEF Net

\* A handler that is not idle has a job.
LEMMA BusyWorker ==
    ASSUME TypeOK, NEW w \in Workers
    PROVE  /\ worker \in [Workers -> JobType]
           /\ worker[w] = Idle <=> worker[w].pc = "idle"
           /\ worker[w].pc # "idle" => /\ worker[w] \in Busy /\ worker[w].pc \in Pcs
                                       /\ worker[w].id \in Ids
  <1>1. worker \in [Workers -> JobType]
    BY DEF TypeOK, JobType, Busy
  <1>2. worker[w] = Idle \/ worker[w] \in Busy
    BY <1>1 DEF JobType
  <1>3. Idle.pc = "idle"
    BY DEF Idle
  <1>4. ASSUME worker[w] \in Busy
        PROVE  worker[w].pc \in Pcs /\ worker[w].id \in Ids /\ worker[w].pc # "idle"
    BY <1>4 DEF Busy, Pcs
  <1>5. QED
    BY <1>1, <1>2, <1>3, <1>4

\* A job has its request.
LEMMA JobParts ==
    ASSUME NEW j \in JobType, j.pc # "idle"
    PROVE  j.pc \in Pcs /\ j.id \in Ids
  BY DEF JobType, Busy, Idle

\* Being idle.
LEMMA IdleParts == Idle \in JobType /\ Idle.pc = "idle"
  BY DEF Idle, JobType

\* Moving a handler on changes its program counter only.
LEMMA GotoWorker ==
    ASSUME TypeOK, NEW w \in Workers, worker[w].pc # "idle", NEW p \in Pcs, Goto(w, p)
    PROVE  /\ worker' \in [Workers -> JobType]
           /\ worker'[w].pc = p /\ worker'[w].id = worker[w].id
           /\ \A v \in Workers : v # w => worker'[v] = worker[v]
  <1>1. worker \in [Workers -> JobType]
    BY BusyWorker
  <1>2. PICK j \in Busy : j = worker[w]
    BY BusyWorker
  <1>3. PICK k : k = [j EXCEPT !.pc = p]
    OBVIOUS
  <1>4. worker' = [worker EXCEPT ![w] = k]
    BY <1>1, <1>2, <1>3 DEF Goto
  <1>5. k = [pc |-> p, id |-> j.id]
    BY <1>3, Zenon DEF Busy
  <1>6. k.pc = p /\ k.id = j.id /\ k \in JobType
    BY <1>5 DEF Busy, JobType
  <1>7. worker'[w] = k
    BY <1>1, <1>4
  <1>8. QED
    BY <1>1, <1>2, <1>4, <1>6, <1>7

\* Giving a handler a job, or none.
LEMMA BecomeWorker ==
    ASSUME TypeOK, NEW w \in Workers, NEW j \in JobType, Become(w, j)
    PROVE  /\ worker' \in [Workers -> JobType]
           /\ worker'[w] = j
           /\ \A v \in Workers : v # w => worker'[v] = worker[v]
  BY DEF TypeOK, Become, JobType, Busy

\* Fees on their way are numbers.
LEMMA CarryType ==
    ASSUME TypeOK, JobInv
    PROVE  Carried \in [Workers -> Nat]
  <1> SUFFICES ASSUME NEW w \in Workers, worker[w].pc = "creditFee"
               PROVE  Fee(N(w)) \in Nat
    BY DEF Carried, Carry
  <1>1. N(w) \in Intents
    BY DEF JobInv, JobOk
  <1>2. QED
    BY <1>1, FeeBounds

\* So are the three sides of a payment.
LEMMA PassType ==
    ASSUME TypeOK, NEW n \in Intents
    PROVE  /\ GotAll(n) \in [Ids -> Nat] /\ PassAll(n) \in [Workers -> Nat]
           /\ DueAll(n) \in [Ids -> Nat] /\ Signed(n) \in Nat
  <1>1. Net(n) \in Nat
    BY FeeBounds
  <1>2. QED
    BY <1>1 DEF TypeOK, GotAll, Got, PassAll, Pass, DueAll, Due, Signed

\* Intents differ from their absence.
LEMMA IntentIs ==
    ASSUME TypeOK, NEW i \in Ids
    PROVE  intent[i] \in Intents <=> intent[i] # NoIntent
  BY WithdrawalsAssumption DEF TypeOK

(***************************************************************************)
(* Frames.  A step of handler w for request i, with intent n.              *)
(***************************************************************************)

\* Money moves between what the invariant adds up.
LEMMA MoneyKept ==
    ASSUME TypeOK, MoneyInv, JobInv, NEW w \in Workers, NEW i \in Ids,
           Carried' \in [Workers -> Nat], sent' \in [Ids -> Nat],
           claim' \in Nat, elsewhere' \in Nat, fees' \in Nat,
           \A v \in Workers : v # w => Carry(v)' = Carry(v),
           \A j \in Ids : j # i => sent'[j] = sent[j],
           claim' + elsewhere' + sent'[i] + fees' + Carry(w)'
              <= claim + elsewhere + sent[i] + fees + Carry(w)
    PROVE  MoneyInv'
  <1>1. Carried \in [Workers -> Nat] /\ IsFiniteSet(Workers) /\ IsFiniteSet(Ids)
    BY CarryType, WithdrawalsAssumption
  <1>2. /\ sent \in [Ids -> Nat] /\ claim \in Nat /\ elsewhere \in Nat /\ fees \in Nat
        /\ Claim0 \in Nat
    <2>1. Claim0 \in Nat
      BY WithdrawalsAssumption
    <2>2. QED
      BY <2>1 DEF TypeOK
  <1>3. /\ Carried[w] = Carry(w) /\ Carried'[w] = Carry(w)'
        /\ \A v \in Workers : v # w => Carried'[v] = Carried[v]
    BY DEF Carried
  <1>4. PICK f \in [Workers -> Nat], g \in [Workers -> Nat] : f = Carried /\ g = Carried'
    BY <1>1
  <1>5. /\ Total(f) \in Nat /\ Total(g) \in Nat /\ f[w] \in Nat /\ g[w] \in Nat
        /\ Total(g) = Total(f) - f[w] + g[w]
    BY <1>1, <1>3, <1>4, TotalChange
  <1>6. /\ Total(sent) \in Nat /\ Total(sent') \in Nat /\ sent[i] \in Nat /\ sent'[i] \in Nat
        /\ Total(sent') = Total(sent) - sent[i] + sent'[i]
    BY <1>1, <1>2, TotalChange
  <1>7. claim + elsewhere + Total(sent) + fees + Total(f) <= Claim0
    BY <1>4 DEF MoneyInv
  <1>8. claim' + elsewhere' + Total(sent') + fees' + Total(g) <= Claim0
    BY <1>2, <1>3, <1>4, <1>5, <1>6, <1>7
  <1>9. QED
    BY <1>4, <1>8 DEF MoneyInv

\* Payments of other intents are not touched, and those of n stay covered.
LEMMA PassKept ==
    ASSUME TypeOK, TypeOK', PassInv, NEW w \in Workers, NEW i \in Ids, NEW n \in Intents,
           intent' = intent, intent[i] = n,
           \A v \in Workers : v # w => worker'[v] = worker[v],
           \A m \in Intents : m # n => Pass(w, m) = 0 /\ Pass(w, m)' = 0,
           \A j \in Ids : j # i => /\ sent'[j] = sent[j]
                                   /\ j \in prepared' <=> j \in prepared,
           challenges' \subseteq challenges \cup {n},
           Pass(w, n)' + sent'[i] + Signed(n)' + Due(i, n)
              <= Pass(w, n) + sent[i] + Signed(n) + Due(i, n)'
    PROVE  PassInv'
  <1> SUFFICES ASSUME NEW m \in Intents
               PROVE  Total(GotAll(m)') + Total(PassAll(m)') + Signed(m)' <= Total(DueAll(m)')
    BY DEF PassInv
  <1>1. IsFiniteSet(Workers) /\ IsFiniteSet(Ids)
    BY WithdrawalsAssumption
  <1>2. PICK f \in [Ids -> Nat], p \in [Workers -> Nat], d \in [Ids -> Nat], s \in Nat :
           f = GotAll(m) /\ p = PassAll(m) /\ d = DueAll(m) /\ s = Signed(m)
    BY PassType
  <1>3. PICK f2 \in [Ids -> Nat], p2 \in [Workers -> Nat], d2 \in [Ids -> Nat], s2 \in Nat :
           f2 = GotAll(m)' /\ p2 = PassAll(m)' /\ d2 = DueAll(m)' /\ s2 = Signed(m)'
    <2>1. Net(m) \in Nat
      BY FeeBounds
    <2>2. GotAll(m)' \in [Ids -> Nat]
      BY DEF TypeOK, GotAll, Got
    <2>3. PassAll(m)' \in [Workers -> Nat]
      BY <2>1 DEF PassAll, Pass, Net, Fee
    <2>4. DueAll(m)' \in [Ids -> Nat]
      BY <2>1 DEF DueAll, Due, Net, Fee
    <2>5. Signed(m)' \in Nat
      BY <2>1 DEF Signed, Net, Fee
    <2>6. QED
      BY <2>2, <2>3, <2>4, <2>5
  <1>4. /\ f[i] = Got(i, m) /\ f2[i] = Got(i, m)' /\ d[i] = Due(i, m) /\ d2[i] = Due(i, m)'
        /\ p[w] = Pass(w, m) /\ p2[w] = Pass(w, m)'
    BY <1>2, <1>3 DEF GotAll, PassAll, DueAll
  <1>5. \A j \in Ids : j # i => f2[j] = f[j]
    BY <1>2, <1>3 DEF GotAll, Got
  <1>6. \A j \in Ids : j # i => d2[j] = d[j]
    BY <1>2, <1>3 DEF DueAll, Due
  <1>7. \A v \in Workers : v # w => p2[v] = p[v]
    BY <1>2, <1>3 DEF PassAll, Pass, N
  <1>8. /\ Total(f) \in Nat /\ Total(f2) \in Nat /\ f[i] \in Nat /\ f2[i] \in Nat
        /\ Total(f2) = Total(f) - f[i] + f2[i]
    BY ONLY <1>1, <1>5, i \in Ids, f \in [Ids -> Nat], f2 \in [Ids -> Nat], TotalChange, SMTT(60)
  <1>9. /\ Total(d) \in Nat /\ Total(d2) \in Nat /\ d[i] \in Nat /\ d2[i] \in Nat
        /\ Total(d2) = Total(d) - d[i] + d2[i]
    BY <1>1, <1>6, TotalChange
  <1>10. /\ Total(p) \in Nat /\ Total(p2) \in Nat /\ p[w] \in Nat /\ p2[w] \in Nat
        /\ Total(p2) = Total(p) - p[w] + p2[w]
    BY <1>1, <1>7, TotalChange
  <1>11. Total(f) + Total(p) + s <= Total(d)
    BY <1>2 DEF PassInv
  <1>12. p2[w] + f2[i] + s2 + d[i] <= p[w] + f[i] + s + d2[i]
    <2>1. CASE m = n
      <3>1. f[i] = sent[i] /\ f2[i] = sent'[i]
        BY <1>4, <2>1 DEF Got
      <3>2. QED
        BY <1>2, <1>3, <1>4, <2>1, <3>1
    <2>2. CASE m # n
      <3>1. f[i] = 0 /\ f2[i] = 0 /\ d[i] = 0 /\ d2[i] = 0
        BY <1>4, <2>2 DEF Got, Due
      <3>2. p[w] = 0 /\ p2[w] = 0
        BY <1>4, <2>2
      <3>3. s2 <= s
        BY <1>2, <1>3, <2>2 DEF Signed, Net, Fee
      <3>4. QED
        BY <3>1, <3>2, <3>3
    <2>3. QED
      BY <2>1, <2>2
  <1>13. Total(f2) + Total(p2) + s2 <= Total(d2)
    BY <1>8, <1>9, <1>10, <1>11, <1>12
  <1>14. QED
    BY <1>3, <1>13
(***************************************************************************)
(* The invariant holds after a step of handler w for request i that keeps  *)
(* its parts for w and i.                                                  *)
(***************************************************************************)
LEMMA Kept ==
    ASSUME Inv, TypeOK', NEW w \in Workers, NEW i \in Ids, NEW n \in Intents,
           intent' = intent, intent[i] = n,
           \A v \in Workers : v # w => worker'[v] = worker[v],
           worker[w].pc # "idle" => worker[w].id = i,
           worker'[w].pc # "idle" => worker'[w].id = i,
           worker'[w].pc \in Prep => worker[w].pc \in Prep /\ prepared' = prepared,
           prepared' = prepared \/ (worker[w].pc \in Prep /\ prepared' = prepared \cup {i}),
           pending' \subseteq pending \cup {i}, i \in pending' => i \in prepared',
           challenges' \subseteq challenges \cup {n},
           \A j \in Ids : j # i => /\ sent'[j] = sent[j] /\ feeTaken'[j] = feeTaken[j]
                                   /\ row'[j] = row[j],
           sent'[i] >= sent[i], feeTaken'[i] >= feeTaken[i],
           row'[i] = "executed" => sent'[i] >= Net(n) /\ feeTaken'[i] >= Fee(n),
           claim' + elsewhere' + sent'[i] + fees' + Carry(w)'
              <= claim + elsewhere + sent[i] + fees + Carry(w),
           Pass(w, n)' + sent'[i] + Signed(n)' + Due(i, n)
              <= Pass(w, n) + sent[i] + Signed(n) + Due(i, n)',
           worker'[w].pc \in {"debitFee", "creditFee", "executed", "record"} => sent'[i] >= Net(n),
           worker'[w].pc \in {"executed", "record"} => feeTaken'[i] >= Fee(n)
    PROVE  Inv'
  <1>1. TypeOK /\ MoneyInv /\ PassInv /\ IdInv /\ JobInv /\ PrepInv
    BY DEF Inv
  <1>2. \A j \in Ids : /\ sent[j] \in Nat /\ sent'[j] \in Nat /\ sent'[j] >= sent[j]
                       /\ feeTaken[j] \in Nat /\ feeTaken'[j] \in Nat
                       /\ feeTaken'[j] >= feeTaken[j]
    <2>1. \A j \in Ids : /\ sent[j] \in Nat /\ sent'[j] \in Nat
                         /\ feeTaken[j] \in Nat /\ feeTaken'[j] \in Nat
      BY <1>1 DEF TypeOK
    <2>2. QED
      BY <2>1
  <1>3. IdInv'
    <2> SUFFICES ASSUME NEW j \in Ids
                 PROVE  IdOk(j)'
      BY DEF IdInv
    <2>1. IdOk(j) /\ intent'[j] = intent[j]
      BY <1>1 DEF IdInv
    <2>2. CASE j = i
      <3>1. n # NoIntent
        BY WithdrawalsAssumption
      <3>2. QED
        BY <2>2, <3>1 DEF IdOk, Net, Fee
    <2>3. CASE j # i
      <3>1. (j \in prepared' <=> j \in prepared) /\ (j \in pending' => j \in pending)
        BY <2>3
      <3>2. sent'[j] = sent[j] /\ feeTaken'[j] = feeTaken[j] /\ row'[j] = row[j]
        BY <2>3
      <3>3. QED
        BY <2>1, <3>1, <3>2 DEF IdOk, Net, Fee
    <2>4. QED
      BY <2>2, <2>3
  <1>4. JobInv'
    <2> SUFFICES ASSUME NEW v \in Workers, worker'[v].pc # "idle"
                 PROVE  JobOk(v)'
      BY DEF JobInv, JobOk
    <2>1. CASE v = w
      <3>1. worker'[w].id = i /\ N(w)' = n
        BY <2>1 DEF N
      <3>2. worker'[w].pc \in Prep => i \notin prepared'
        BY <1>1 DEF JobInv, JobOk, Prep
      <3>3. QED
        BY <2>1, <3>1, <3>2 DEF JobOk, Net, Fee
    <2>2. CASE v # w
      <3>1. worker'[v] = worker[v] /\ JobOk(v) /\ worker[v].pc # "idle" /\ N(v)' = N(v)
        BY <1>1, <2>2 DEF JobInv, N
      <3>2. worker[v].id \in Ids /\ N(v) \in Intents
        BY <1>1, <3>1, BusyWorker DEF JobOk
      <3>3. Net(N(v)) \in Nat /\ Fee(N(v)) \in Nat
        BY <3>2, FeeBounds
      <3>4. worker[v].pc \in Prep => worker[v].id \notin prepared'
        <4>1. CASE prepared' = prepared
          BY <3>1, <4>1 DEF JobOk
        <4>2. CASE worker[w].pc \in Prep /\ prepared' = prepared \cup {i}
          <5>1. worker[w].id = i
            BY <4>2 DEF Prep
          <5>2. worker[v].pc \in Prep => worker[v].id # i
            BY <1>1, <2>2, <4>2, <5>1 DEF PrepInv
          <5>3. QED
            BY <3>1, <4>2, <5>2 DEF JobOk
        <4>3. QED
          BY <4>1, <4>2
      <3>5. /\ worker[v].pc \in {"debitFee", "creditFee", "executed", "record"} =>
                  sent'[worker[v].id] >= Net(N(v))
            /\ worker[v].pc \in {"executed", "record"} =>
                  feeTaken'[worker[v].id] >= Fee(N(v))
        BY <1>2, <3>1, <3>2, <3>3 DEF JobOk
      <3>6. QED
        BY <3>1, <3>2, <3>4, <3>5 DEF JobOk, Net, Fee
    <2>3. QED
      BY <2>1, <2>2
  <1>5. PrepInv'
    <2> SUFFICES ASSUME NEW u \in Workers, NEW v \in Workers,
                        worker'[u].pc \in Prep, worker'[v].pc \in Prep,
                        worker'[u].id = worker'[v].id
                 PROVE  u = v
      BY DEF PrepInv
    <2>1. \A x \in Workers : worker'[x].pc \in Prep =>
             worker[x].pc \in Prep /\ worker[x].id = worker'[x].id
      BY DEF Prep
    <2>2. QED
      BY <1>1, <2>1 DEF PrepInv
  <1>6. MoneyInv'
    <2>1. \A v \in Workers : v # w => Carry(v)' = Carry(v)
      BY DEF Carry, N, Fee
    <2>2. \A v \in Workers : Carry(v)' \in Nat
      <3> SUFFICES ASSUME NEW v \in Workers, worker'[v].pc = "creditFee"
                   PROVE  Fee(N(v)') \in Nat
        BY DEF Carry, Fee
      <3>1. N(v)' \in Intents
        BY <1>4 DEF JobInv, JobOk
      <3>2. PICK m \in Intents : m = N(v)'
        BY <3>1
      <3>3. QED
        BY <3>2, FeeBounds
    <2>3. Carried' \in [Workers -> Nat]
      BY <2>2 DEF Carried
    <2>4. /\ sent' \in [Ids -> Nat] /\ claim' \in Nat /\ elsewhere' \in Nat /\ fees' \in Nat
          /\ \A j \in Ids : j # i => sent'[j] = sent[j]
      BY DEF TypeOK
    <2>5. QED
      BY <1>1, <2>1, <2>3, <2>4, MoneyKept
  <1>7. PassInv'
    <2>1. \A m \in Intents : m # n => Pass(w, m) = 0 /\ Pass(w, m)' = 0
      BY DEF Pass, N
    <2>2. \A j \in Ids : j # i => /\ sent'[j] = sent[j]
                                  /\ j \in prepared' <=> j \in prepared
      OBVIOUS
    <2>3. QED
      BY <1>1, <2>1, <2>2, PassKept
  <1>8. QED
    BY <1>3, <1>4, <1>5, <1>6, <1>7 DEF Inv
\* A step that moves no money: the handler goes on, or ends, with no more right to
\* pay than it had or the challenge gave it.
LEMMA Walk ==
    ASSUME Inv, NEW w \in Workers, NEW i \in Ids, NEW n \in Intents, intent[i] = n,
           worker' \in [Workers -> JobType],
           \A v \in Workers : v # w => worker'[v] = worker[v],
           worker[w].pc # "idle" => worker[w].id = i,
           worker'[w].pc # "idle" => worker'[w].id = i,
           worker'[w].pc \in Prep => worker[w].pc \in Prep,
           worker'[w].pc \notin {"debitFee", "creditFee", "executed"},
           worker'[w].pc = "record" => worker[w].pc = "executed",
           UNCHANGED <<ledger, intent, prepared>>,
           pending' \subseteq pending, challenges' \subseteq challenges,
           ready' \subseteq Ids, faults' \subseteq Faults, spent' \in Nat,
           row' \in [Ids -> RowStatus], \A j \in Ids : j # i => row'[j] = row[j],
           row'[i] = "executed" => row[i] = "executed" \/ worker[w].pc = "executed",
           Pass(w, n)' + Signed(n)' <= Pass(w, n) + Signed(n)
    PROVE  Inv'
  <1>1. TypeOK /\ IdOk(i) /\ JobOk(w)
    BY DEF Inv, IdInv, JobInv
  <1>2. UNCHANGED <<claim, fees, reserve, sent, feeTaken, elsewhere>>
    BY DEF ledger
  <1>3. TypeOK'
    BY <1>1, <1>2 DEF TypeOK, JobType, Busy, RowStatus
  <1>4. /\ sent[i] \in Nat /\ feeTaken[i] \in Nat /\ Net(n) \in Nat /\ Fee(n) \in Nat
        /\ claim \in Nat /\ elsewhere \in Nat /\ fees \in Nat
    BY <1>1, FeeBounds DEF TypeOK
  <1>5. Carry(w)' = 0 /\ Carry(w) \in Nat
    <2>1. Carry(w)' = 0
      BY DEF Carry
    <2>2. worker[w].pc = "creditFee" => N(w) = n
      BY DEF N
    <2>3. QED
      BY <1>4, <2>1, <2>2 DEF Carry
  <1>6. Due(i, n)' = Due(i, n) /\ Due(i, n) \in Nat
    BY <1>4 DEF Due, Net, Fee
  <1>7. Pass(w, n) \in Nat /\ Pass(w, n)' \in Nat /\ Signed(n) \in Nat /\ Signed(n)' \in Nat
    BY <1>4 DEF Pass, Signed, Net, Fee
  <1>8. worker[w].pc = "executed" => sent[i] >= Net(n) /\ feeTaken[i] >= Fee(n)
    BY <1>1 DEF JobOk, N
  <1>9. row'[i] = "executed" => sent'[i] >= Net(n) /\ feeTaken'[i] >= Fee(n)
    BY <1>1, <1>2, <1>8 DEF IdOk
  <1>10. i \in pending' => i \in prepared'
    BY <1>1 DEF IdOk
  <1>11. claim' + elsewhere' + sent'[i] + fees' + Carry(w)'
           <= claim + elsewhere + sent[i] + fees + Carry(w)
    BY <1>2, <1>4, <1>5
  <1>12. Pass(w, n)' + sent'[i] + Signed(n)' + Due(i, n)
           <= Pass(w, n) + sent[i] + Signed(n) + Due(i, n)'
    BY <1>2, <1>4, <1>6, <1>7
  <1>13. worker'[w].pc \in {"debitFee", "creditFee", "executed", "record"} =>
            sent'[i] >= Net(n) /\ feeTaken'[i] >= Fee(n)
    BY <1>2, <1>8
  <1>14. sent'[i] >= sent[i] /\ feeTaken'[i] >= feeTaken[i]
    BY <1>2, <1>4
  <1>15. /\ pending' \subseteq pending \cup {i} /\ challenges' \subseteq challenges \cup {n}
         /\ intent' = intent /\ prepared' = prepared
         /\ \A j \in Ids : j # i => /\ sent'[j] = sent[j] /\ feeTaken'[j] = feeTaken[j]
                                    /\ row'[j] = row[j]
    BY <1>2
  <1>16. QED
    BY <1>3, <1>9, <1>10, <1>11, <1>12, <1>13, <1>14, <1>15, Kept

\* A handler's request and intent.
LEMMA Owner ==
    ASSUME Inv, NEW w \in Workers, worker[w].pc # "idle"
    PROVE  \E i \in Ids, n \in Intents : /\ i = worker[w].id /\ n = N(w) /\ n = intent[i]
  <1>1. worker[w].id \in Ids
    BY BusyWorker DEF Inv
  <1>2. N(w) \in Intents
    BY DEF Inv, JobInv, JobOk
  <1>3. QED
    BY <1>1, <1>2 DEF N

\* The handler stops, or goes on without a right to pay; nothing else moves.
LEMMA Ends ==
    ASSUME Inv, NEW w \in Workers, worker[w].pc # "idle",
           NEW p \in {"idle", "failed", "quote", "register", "take", "withdraw"},
           \/ p = "idle" /\ Become(w, Idle)
           \/ p # "idle" /\ Goto(w, p),
           p \in {"quote", "register"} => worker[w].pc \in Prep,
           p \in {"take", "withdraw"} => worker[w].pc \in {"balance", "take"},
           UNCHANGED <<ledger, intent, prepared, ready, row, spent>>,
           pending' \subseteq pending, challenges' \subseteq challenges, faults' \subseteq Faults
    PROVE  Inv'
  <1>1. TypeOK
    BY DEF Inv
  <1>2. PICK i \in Ids, n \in Intents : i = worker[w].id /\ n = N(w) /\ n = intent[i]
    BY Owner
  <1>3. /\ worker' \in [Workers -> JobType] /\ worker'[w].pc = p
        /\ p # "idle" => worker'[w].id = i
        /\ \A v \in Workers : v # w => worker'[v] = worker[v]
    <2>1. CASE p = "idle" /\ Become(w, Idle)
      BY <1>1, <2>1, BecomeWorker, IdleParts
    <2>2. CASE p # "idle" /\ Goto(w, p)
      BY <1>1, <1>2, <2>2, GotoWorker DEF Pcs
    <2>3. QED
      BY <2>1, <2>2
  <1>4. Net(n) \in Nat
    BY FeeBounds
  <1>5. Pass(w, n)' <= Pass(w, n) /\ Signed(n)' <= Signed(n)
    <2>1. Signed(n)' <= Signed(n)
      BY <1>4 DEF Signed, Net, Fee
    <2>2. CASE p \in {"take", "withdraw"}
      <3>1. Pass(w, n) = Net(n)
        BY <1>2, <2>2 DEF Pass
      <3>2. Pass(w, n)' \in {0, Net(n)}
        BY DEF Pass, Net, Fee
      <3>3. QED
        BY <1>4, <2>1, <3>1, <3>2
    <2>3. CASE p \notin {"take", "withdraw"}
      <3>1. Pass(w, n)' = 0 /\ Pass(w, n) \in {0, Net(n)}
        BY <1>3, <2>3 DEF Pass
      <3>2. QED
        BY <1>4, <2>1, <3>1
    <2>4. QED
      BY <2>2, <2>3
  <1>6. Pass(w, n)' + Signed(n)' <= Pass(w, n) + Signed(n)
    <2>1. Pass(w, n) \in Nat /\ Pass(w, n)' \in Nat /\ Signed(n) \in Nat /\ Signed(n)' \in Nat
      BY <1>4 DEF Pass, Signed, Net, Fee
    <2>2. QED
      BY <1>5, <2>1
  <1>7. /\ ready' \subseteq Ids /\ spent' \in Nat /\ row' \in [Ids -> RowStatus] /\ row' = row
        /\ UNCHANGED <<ledger, intent, prepared>>
    BY <1>1 DEF TypeOK, RowStatus
  <1>8. worker'[w].pc \in Prep => worker[w].pc \in Prep
    BY <1>3 DEF Prep
  <1>9. QED
    BY <1>2, <1>3, <1>6, <1>7, <1>8, Walk
(***************************************************************************)
(*                              The steps                                  *)
(***************************************************************************)

\* A fault is one of those that may happen.
LEMMA FaultType ==
    ASSUME TypeOK, faults' = faults \/ \E kind \in {"throw", "lost", "db", "crash"} : Fault(kind)
    PROVE  faults' \subseteq Faults
  BY DEF TypeOK, Fault

\* The checks of prepareWithdrawal and submitWithdrawal, and a read that throws.
LEMMA ChecksKept ==
    ASSUME Inv, NEW w \in Workers,
           CheckKyc(w) \/ Quote(w) \/ CheckBalance(w) \/ Take(w) \/ ReadFails(w)
    PROVE  Inv'
  <1>1. TypeOK /\ faults \subseteq Faults
    BY DEF Inv, TypeOK
  <1>2. CASE CheckKyc(w)
    <2>1. worker[w].pc = "kyc" /\ (Goto(w, "quote") \/ Become(w, Idle))
      BY <1>2 DEF CheckKyc, At
    <2>2. UNCHANGED <<ledger, intent, pending, challenges, prepared, ready, row, spent, faults>>
      BY <1>2 DEF CheckKyc, maps
    <2>3. QED
      BY <1>1, <2>1, <2>2, Ends DEF Prep
  <1>3. CASE Quote(w)
    <2>1. worker[w].pc = "quote" /\ (Goto(w, "register") \/ Become(w, Idle))
      BY <1>3 DEF Quote, At
    <2>2. UNCHANGED <<ledger, intent, pending, challenges, prepared, ready, row, spent, faults>>
      BY <1>3 DEF Quote, maps
    <2>3. QED
      BY <1>1, <2>1, <2>2, Ends DEF Prep
  <1>4. CASE CheckBalance(w)
    <2>1. worker[w].pc = "balance" /\ (Goto(w, "take") \/ Become(w, Idle))
      BY <1>4 DEF CheckBalance, At
    <2>2. UNCHANGED <<ledger, intent, pending, challenges, prepared, ready, row, spent, faults>>
      BY <1>4 DEF CheckBalance, maps
    <2>3. QED
      BY <1>1, <2>1, <2>2, Ends
  <1>5. CASE Take(w)
    <2>1. worker[w].pc = "take" /\ (Goto(w, "withdraw") \/ Become(w, Idle))
      BY <1>5 DEF Take, At
    <2>2. UNCHANGED <<ledger, intent, challenges, prepared, ready, row, spent, faults>>
      BY <1>5 DEF Take
    <2>3. pending' \subseteq pending
      BY <1>5 DEF Take
    <2>4. QED
      BY <1>1, <2>1, <2>2, <2>3, Ends
  <1>6. CASE ReadFails(w)
    <2>1. worker[w].pc # "idle" /\ Become(w, Idle) /\ Fault("throw")
      BY <1>6 DEF ReadFails
    <2>2. UNCHANGED <<ledger, intent, pending, challenges, prepared, ready, row, spent>>
      BY <1>6 DEF ReadFails, maps
    <2>3. faults' \subseteq Faults
      BY <1>1, <2>1, FaultType
    <2>4. QED
      BY <2>1, <2>2, <2>3, Ends
  <1>7. QED
    BY <1>2, <1>3, <1>4, <1>5, <1>6

\* Registering adds a challenge, and what it may pay to what is due.
LEMMA RegisterKept ==
    ASSUME Inv, NEW w \in Workers, Register(w)
    PROVE  Inv'
  <1>1. TypeOK /\ faults \subseteq Faults /\ worker[w].pc = "register"
    BY DEF Inv, TypeOK, Register, At
  <1>2. PICK i \in Ids, n \in Intents : i = worker[w].id /\ n = N(w) /\ n = intent[i]
    BY <1>1, Owner
  <1>3. UNCHANGED <<ledger, intent, ready, row, spent, faults>>
    BY DEF Register
  <1>4. CASE ~(reserve >= Net(N(w)))
    <2>1. Become(w, Idle) /\ UNCHANGED <<challenges, pending, prepared>>
      BY <1>4 DEF Register
    <2>2. QED
      BY <1>1, <1>3, <2>1, Ends
  <1>5. CASE reserve >= Net(N(w))
    <2>1. /\ challenges' = challenges \cup {n} /\ pending' = pending \cup {i}
          /\ prepared' = prepared \cup {i} /\ Goto(w, "insert")
      BY <1>2, <1>5 DEF Register
    <2>2. /\ worker' \in [Workers -> JobType] /\ worker'[w].pc = "insert" /\ worker'[w].id = i
          /\ \A v \in Workers : v # w => worker'[v] = worker[v]
      BY <1>1, <1>2, <2>1, GotoWorker DEF Pcs
    <2>3. UNCHANGED <<claim, fees, reserve, sent, feeTaken, elsewhere>>
      BY <1>3 DEF ledger
    <2>4. TypeOK'
      BY <1>1, <1>3, <2>1, <2>2, <2>3 DEF TypeOK, JobType, Busy
    <2>5. /\ sent[i] \in Nat /\ feeTaken[i] \in Nat /\ Net(n) \in Nat /\ Fee(n) \in Nat
          /\ claim \in Nat /\ elsewhere \in Nat /\ fees \in Nat
      BY <1>1, FeeBounds DEF TypeOK
    <2>6. IdOk(i) /\ i \notin prepared
      BY <1>1, <1>2 DEF Inv, IdInv, JobInv, JobOk, Prep
    <2>7. Carry(w)' = 0 /\ Carry(w) = 0 /\ Pass(w, n)' = 0 /\ Pass(w, n) = 0
      BY <1>1, <2>2 DEF Carry, Pass
    <2>8. Due(i, n) = 0 /\ Due(i, n)' = Net(n) /\ Signed(n)' = Net(n) /\ Signed(n) \in {0, Net(n)}
      BY <1>2, <1>3, <2>1, <2>6 DEF Due, Signed, Net, Fee
    <2>9. row'[i] = "executed" => sent'[i] >= Net(n) /\ feeTaken'[i] >= Fee(n)
      BY <1>2, <1>3, <2>3, <2>6 DEF IdOk
    <2>10. claim' + elsewhere' + sent'[i] + fees' + Carry(w)'
             <= claim + elsewhere + sent[i] + fees + Carry(w)
      BY <2>3, <2>5, <2>7
    <2>11. Pass(w, n)' + sent'[i] + Signed(n)' + Due(i, n)
             <= Pass(w, n) + sent[i] + Signed(n) + Due(i, n)'
      BY <2>3, <2>5, <2>7, <2>8
    <2>12. sent'[i] >= sent[i] /\ feeTaken'[i] >= feeTaken[i]
      BY <2>3, <2>5
    <2>13. worker[w].pc \in Prep /\ worker'[w].pc \notin Prep
      BY <1>1, <2>2 DEF Prep
    <2>14. \A j \in Ids : j # i => /\ sent'[j] = sent[j] /\ feeTaken'[j] = feeTaken[j]
                                   /\ row'[j] = row[j]
      BY <1>3, <2>3
    <2>15. /\ pending' \subseteq pending \cup {i} /\ (i \in pending' => i \in prepared')
           /\ challenges' \subseteq challenges \cup {n}
           /\ intent' = intent
      BY <1>3, <2>1
    <2>16. QED
      BY <1>2, <2>1, <2>2, <2>4, <2>9, <2>10, <2>11, <2>12, <2>13, <2>14, <2>15, Kept
  <1>6. QED
    BY <1>4, <1>5

\* The client submits a prepared request.
LEMMA SubmitKept ==
    ASSUME Inv, NEW w \in Workers, NEW i \in Ids, Submit(w, i)
    PROVE  Inv'
  <1>1. TypeOK /\ faults \subseteq Faults /\ worker[w].pc = "idle" /\ worker[w] = Idle
    BY IdleParts DEF Inv, TypeOK, Submit
  <1>2. PICK n \in Intents : n = intent[i]
    BY <1>1, IntentIs DEF Inv, IdInv, IdOk, Submit
  <1>3. Job("verify", i) \in JobType /\ Job("verify", i).pc = "verify" /\ Job("verify", i).id = i
    BY DEF Job, JobType, Busy, Pcs
  <1>4. /\ worker' \in [Workers -> JobType] /\ worker'[w].pc = "verify" /\ worker'[w].id = i
        /\ \A v \in Workers : v # w => worker'[v] = worker[v]
    BY <1>1, <1>3, BecomeWorker DEF Submit
  <1>5. UNCHANGED <<ledger, intent, pending, challenges, prepared, ready, row, spent, faults>>
    BY DEF Submit, maps
  <1>6. Pass(w, n)' = 0 /\ Pass(w, n) = 0 /\ Signed(n)' = Signed(n) /\ Signed(n) \in Nat
    BY <1>1, <1>4, <1>5, FeeBounds DEF Pass, Signed, Net, Fee
  <1>7. /\ ready' \subseteq Ids /\ spent' \in Nat /\ row' \in [Ids -> RowStatus]
        /\ UNCHANGED <<ledger, intent, prepared>>
    BY <1>1, <1>5 DEF TypeOK, RowStatus
  <1>8. worker'[w].pc \notin Prep
    BY <1>4 DEF Prep
  <1>9. QED
    BY <1>1, <1>2, <1>4, <1>5, <1>6, <1>7, <1>8, Walk

\* verifyAssertion turns the challenge into the right to pay once.
LEMMA VerifyKept ==
    ASSUME Inv, NEW w \in Workers, Verify(w)
    PROVE  Inv'
  <1>1. TypeOK /\ faults \subseteq Faults /\ worker[w].pc = "verify"
    BY DEF Inv, TypeOK, Verify, At
  <1>2. PICK i \in Ids, n \in Intents : i = worker[w].id /\ n = N(w) /\ n = intent[i]
    BY <1>1, Owner
  <1>3. /\ UNCHANGED <<ledger, intent, pending, prepared, ready, row, spent, faults>>
        /\ challenges' = challenges \ {n}
    BY <1>2 DEF Verify
  <1>4. CASE n \notin challenges
    <2>1. Become(w, Idle)
      BY <1>2, <1>4 DEF Verify
    <2>2. QED
      BY <1>1, <1>3, <2>1, Ends
  <1>5. CASE n \in challenges
    <2>1. Goto(w, "balance")
      BY <1>2, <1>5 DEF Verify
    <2>2. /\ worker' \in [Workers -> JobType] /\ worker'[w].pc = "balance" /\ worker'[w].id = i
          /\ \A v \in Workers : v # w => worker'[v] = worker[v]
      BY <1>1, <1>2, <2>1, GotoWorker DEF Pcs
    <2>3. Net(n) \in Nat
      BY FeeBounds
    <2>4. Pass(w, n) = 0 /\ Signed(n) = Net(n) /\ Signed(n)' = 0 /\ Pass(w, n)' \in {0, Net(n)}
      BY <1>1, <1>3, <1>5 DEF Pass, Signed, Net, Fee
    <2>5. /\ ready' \subseteq Ids /\ spent' \in Nat /\ row' \in [Ids -> RowStatus]
          /\ UNCHANGED <<ledger, intent, prepared>>
      BY <1>1, <1>3 DEF TypeOK, RowStatus
    <2>6. worker'[w].pc \notin Prep
      BY <2>2 DEF Prep
    <2>7. Pass(w, n)' + Signed(n)' <= Pass(w, n) + Signed(n)
      BY <2>3, <2>4
    <2>8. QED
      BY <1>1, <1>2, <1>3, <2>2, <2>5, <2>6, <2>7, Walk
  <1>6. QED
    BY <1>4, <1>5
\* The history row and the spend event.
LEMMA RecordsKept ==
    ASSUME Inv, NEW w \in Workers,
           InsertRow(w) \/ SetExecuted(w) \/ RecordSpend(w) \/ SetFailed(w)
    PROVE  Inv'
  <1>1. TypeOK /\ faults \subseteq Faults /\ row \in [Ids -> RowStatus] /\ ready \subseteq Ids
        /\ spent \in Nat
    BY DEF Inv, TypeOK, RowStatus
  <1>2. worker[w].pc \in {"insert", "executed", "record", "failed"}
    BY DEF InsertRow, SetExecuted, RecordSpend, SetFailed, At
  <1>3. PICK i \in Ids, n \in Intents : i = worker[w].id /\ n = N(w) /\ n = intent[i]
    BY <1>2, Owner
  <1>4. PICK p \in {"idle", "record"} :
          /\ p = "record" <=> worker[w].pc = "executed"
          /\ \/ p = "idle" /\ Become(w, Idle)
             \/ p = "record" /\ Goto(w, "record")
    BY DEF InsertRow, SetExecuted, RecordSpend, SetFailed, At
  <1>5. /\ worker' \in [Workers -> JobType] /\ worker'[w].pc = p
        /\ p # "idle" => worker'[w].id = i
        /\ \A v \in Workers : v # w => worker'[v] = worker[v]
    <2>1. CASE p = "idle" /\ Become(w, Idle)
      BY <1>1, <2>1, BecomeWorker, IdleParts
    <2>2. CASE p = "record" /\ Goto(w, "record")
      BY <1>1, <1>2, <1>3, <2>2, GotoWorker DEF Pcs
    <2>3. QED
      BY <1>4, <2>1, <2>2
  <1>6. UNCHANGED <<ledger, intent, pending, challenges, prepared>>
    BY DEF InsertRow, SetExecuted, RecordSpend, SetFailed, maps
  <1>7. /\ row' \in [Ids -> RowStatus] /\ \A j \in Ids : j # i => row'[j] = row[j]
        /\ row'[i] = "executed" => row[i] = "executed" \/ worker[w].pc = "executed"
    <2>1. \/ row' = row
          \/ row' = [row EXCEPT ![i] = "pending"]
          \/ worker[w].pc = "executed" /\ row' = [row EXCEPT ![i] = IF @ = "none" THEN @ ELSE "executed"]
          \/ row' = [row EXCEPT ![i] = IF @ = "none" THEN @ ELSE "failed"]
      BY <1>3 DEF InsertRow, SetExecuted, RecordSpend, SetFailed, SetStatus, At
    <2>2. QED
      BY <1>1, <2>1 DEF RowStatus
  <1>8. ready' \subseteq Ids /\ spent' \in Nat
    <2>1. LimitUnits(n) \in Nat
      BY WithdrawalsAssumption, FeeBounds DEF LimitUnits
    <2>2. ready' = ready \/ ready' = ready \cup {i}
      BY <1>3 DEF InsertRow, SetExecuted, RecordSpend, SetFailed, maps
    <2>3. spent' = spent \/ spent' = spent + LimitUnits(n)
      BY <1>3 DEF InsertRow, SetExecuted, RecordSpend, SetFailed
    <2>4. QED
      BY <1>1, <2>1, <2>2, <2>3
  <1>9. faults' \subseteq Faults
    <2>1. faults' = faults \/ Fault("db")
      BY DEF InsertRow, SetExecuted, RecordSpend, SetFailed, SetStatus
    <2>2. QED
      BY <1>1, <2>1, FaultType
  <1>10. /\ Pass(w, n)' = 0 /\ Pass(w, n) = 0 /\ Signed(n)' = Signed(n) /\ Signed(n) \in Nat
    BY <1>2, <1>5, <1>6, FeeBounds DEF Pass, Signed, Net, Fee
  <1>11. worker'[w].pc \notin Prep
    BY <1>5 DEF Prep
  <1>12. UNCHANGED <<ledger, intent, prepared>>
    BY <1>6
  <1>13. QED
    BY <1>3, <1>4, <1>5, <1>6, <1>7, <1>8, <1>9, <1>10, <1>11, <1>12, Walk

\* A transaction that had no effect.
LEMMA FailKept ==
    ASSUME Inv, NEW w \in Workers, worker[w].pc # "idle", Goto(w, "failed"),
           faults' = faults \/ Fault("throw"), UNCHANGED <<ledger, maps, row, spent>>
    PROVE  Inv'
  <1>1. faults' \subseteq Faults
    BY FaultType DEF Inv
  <1>2. UNCHANGED <<ledger, intent, pending, challenges, prepared, ready, row, spent>>
    BY DEF maps
  <1>3. QED
    BY <1>1, <1>2, Ends

\* What the three transactions have in common: they go on, or to the error path with
\* their receipt lost.
LEMMA PaidKept ==
    ASSUME Inv, NEW w \in Workers, NEW i \in Ids, NEW n \in Intents,
           worker[w].pc \in {"withdraw", "debitFee", "creditFee"},
           i = worker[w].id, n = N(w), n = intent[i],
           NEW p \in {"debitFee", "creditFee", "executed", "failed"}, Goto(w, p),
           faults' = faults \/ Fault("lost"), UNCHANGED <<maps, row, spent>>,
           claim' \in Nat, fees' \in Nat, reserve' \in Nat, elsewhere' = elsewhere,
           sent' \in [Ids -> Nat], feeTaken' \in [Ids -> Nat],
           \A j \in Ids : j # i => sent'[j] = sent[j] /\ feeTaken'[j] = feeTaken[j],
           sent'[i] >= sent[i], feeTaken'[i] >= feeTaken[i],
           claim' + sent'[i] + fees' + (IF p = "creditFee" THEN Fee(n) ELSE 0)
              <= claim + sent[i] + fees + (IF worker[w].pc = "creditFee" THEN Fee(n) ELSE 0),
           sent'[i] <= sent[i] + (IF worker[w].pc = "withdraw" THEN Net(n) ELSE 0),
           p # "failed" => sent'[i] >= Net(n), p = "executed" => feeTaken'[i] >= Fee(n)
    PROVE  Inv'
  <1>1. TypeOK /\ IdOk(i)
    BY DEF Inv, IdInv
  <1>2. /\ worker' \in [Workers -> JobType] /\ worker'[w].pc = p /\ worker'[w].id = i
        /\ \A v \in Workers : v # w => worker'[v] = worker[v]
    BY <1>1, GotoWorker DEF Pcs
  <1>3. faults' \subseteq Faults
    BY <1>1, FaultType
  <1>4. /\ UNCHANGED <<intent, pending, challenges, ready, prepared, row, spent>>
    BY DEF maps
  <1>5. TypeOK'
    BY <1>1, <1>2, <1>3, <1>4 DEF TypeOK, JobType, Busy
  <1>6. /\ Net(n) \in Nat /\ Fee(n) \in Nat /\ claim \in Nat /\ elsewhere \in Nat /\ fees \in Nat
        /\ sent[i] \in Nat /\ sent'[i] \in Nat /\ feeTaken[i] \in Nat /\ feeTaken'[i] \in Nat
    BY <1>1, FeeBounds DEF TypeOK
  <1>7. /\ Carry(w) = IF worker[w].pc = "creditFee" THEN Fee(n) ELSE 0
        /\ Carry(w)' = IF p = "creditFee" THEN Fee(n) ELSE 0
    BY <1>2, <1>4 DEF Carry, N, Fee
  <1>8. /\ Pass(w, n) = IF worker[w].pc = "withdraw" THEN Net(n) ELSE 0
        /\ Pass(w, n)' = 0
    BY <1>2 DEF Pass
  <1>9. Signed(n)' = Signed(n) /\ Signed(n) \in Nat /\ Due(i, n)' = Due(i, n) /\ Due(i, n) \in Nat
    <2>1. Net(n)' = Net(n)
      BY DEF Net, Fee
    <2>2. Signed(n)' = Signed(n) /\ Due(i, n)' = Due(i, n)
      BY <1>4, <2>1 DEF Signed, Due
    <2>3. Signed(n) \in Nat /\ Due(i, n) \in Nat
      BY <1>6 DEF Signed, Due
    <2>4. QED
      BY <2>2, <2>3
  <1>10. claim' + elsewhere' + sent'[i] + fees' + Carry(w)'
           <= claim + elsewhere + sent[i] + fees + Carry(w)
    BY <1>6, <1>7
  <1>11. Pass(w, n)' + sent'[i] + Signed(n)' + Due(i, n)
           <= Pass(w, n) + sent[i] + Signed(n) + Due(i, n)'
    BY <1>6, <1>8, <1>9
  <1>12. row'[i] = "executed" => sent'[i] >= Net(n) /\ feeTaken'[i] >= Fee(n)
    BY <1>1, <1>4, <1>6 DEF IdOk
  <1>13. worker'[w].pc \notin Prep
    BY <1>2 DEF Prep
  <1>14. /\ worker'[w].pc \in {"debitFee", "creditFee", "executed", "record"} => sent'[i] >= Net(n)
         /\ worker'[w].pc \in {"executed", "record"} => feeTaken'[i] >= Fee(n)
    BY <1>2
  <1>15. /\ pending' \subseteq pending \cup {i} /\ (i \in pending' => i \in prepared')
         /\ challenges' \subseteq challenges \cup {n}
         /\ intent' = intent /\ prepared' = prepared
         /\ \A j \in Ids : j # i => /\ sent'[j] = sent[j] /\ feeTaken'[j] = feeTaken[j]
                                    /\ row'[j] = row[j]
    BY <1>1, <1>4 DEF IdOk
  <1>16. QED
    BY <1>2, <1>5, <1>10, <1>11, <1>12, <1>13, <1>14, <1>15, Kept
\* Vault.withdrawToExternal uses up the right to pay.
LEMMA WithdrawKept ==
    ASSUME Inv, NEW w \in Workers, Withdraw(w)
    PROVE  Inv'
  <1>1. TypeOK /\ worker[w].pc = "withdraw"
    BY DEF Inv, Withdraw, At
  <1>2. PICK i \in Ids, n \in Intents : i = worker[w].id /\ n = N(w) /\ n = intent[i]
    BY <1>1, Owner
  <1>3. PICK a \in Nat, b \in Nat : a = Net(n) /\ b = Fee(n)
    BY FeeBounds
  <1>4. UNCHANGED <<fees, feeTaken, elsewhere, maps, row, spent>>
    BY DEF Withdraw
  <1>5. CASE UNCHANGED <<claim, reserve, sent>> /\ Goto(w, "failed") /\ (faults' = faults \/ Fault("throw"))
    <2>1. UNCHANGED <<ledger, maps, row, spent>>
      BY <1>4, <1>5 DEF ledger
    <2>2. QED
      BY <1>1, <1>5, <2>1, FailKept
  <1>6. ASSUME claim >= a, reserve >= a, claim' = claim - a, reserve' = reserve - a,
               sent' = [sent EXCEPT ![i] = @ + a],
               NEW p \in {"debitFee", "executed", "failed"}, Goto(w, p),
               p = "executed" => b = 0, faults' = faults \/ Fault("lost")
        PROVE  Inv'
    <2>1. /\ claim \in Nat /\ reserve \in Nat /\ fees \in Nat /\ sent \in [Ids -> Nat]
          /\ feeTaken \in [Ids -> Nat] /\ sent[i] \in Nat /\ feeTaken[i] \in Nat
      BY <1>1 DEF TypeOK
    <2>2. /\ claim' \in Nat /\ reserve' \in Nat /\ sent' \in [Ids -> Nat] /\ sent'[i] = sent[i] + a
          /\ fees' = fees /\ feeTaken' = feeTaken
          /\ \A j \in Ids : j # i => sent'[j] = sent[j]
      BY <1>4, <1>6, <2>1
    <2>3. claim' + sent'[i] + fees' + (IF p = "creditFee" THEN Fee(n) ELSE 0)
             <= claim + sent[i] + fees + (IF worker[w].pc = "creditFee" THEN Fee(n) ELSE 0)
      BY <1>1, <1>6, <2>1, <2>2
    <2>4. /\ sent'[i] <= sent[i] + (IF worker[w].pc = "withdraw" THEN Net(n) ELSE 0)
          /\ sent'[i] >= sent[i] /\ feeTaken'[i] >= feeTaken[i] /\ sent'[i] >= Net(n)
          /\ p = "executed" => feeTaken'[i] >= Fee(n)
      BY <1>1, <1>3, <1>6, <2>1, <2>2
    <2>5. /\ fees' \in Nat /\ elsewhere' = elsewhere /\ feeTaken' \in [Ids -> Nat]
          /\ UNCHANGED <<maps, row, spent>>
          /\ \A j \in Ids : j # i => sent'[j] = sent[j] /\ feeTaken'[j] = feeTaken[j]
      BY <1>4, <2>1, <2>2
    <2>6. QED
      BY <1>1, <1>2, <1>6, <2>2, <2>3, <2>4, <2>5, PaidKept, ZenonT(90)
  <1>7. \/ UNCHANGED <<claim, reserve, sent>> /\ Goto(w, "failed") /\ (faults' = faults \/ Fault("throw"))
        \/ /\ claim >= a /\ reserve >= a /\ claim' = claim - a /\ reserve' = reserve - a
           /\ sent' = [sent EXCEPT ![i] = @ + a]
           /\ \/ Goto(w, IF b > 0 THEN "debitFee" ELSE "executed") /\ faults' = faults
              \/ Goto(w, "failed") /\ Fault("lost")
    BY <1>2, <1>3 DEF Withdraw, Chain
  <1>8. QED
    BY <1>5, <1>6, <1>7

\* Vault.adminDebit of the fee: on its way to the platform, or lost.
LEMMA DebitFeeKept ==
    ASSUME Inv, NEW w \in Workers, DebitFee(w)
    PROVE  Inv'
  <1>1. TypeOK /\ worker[w].pc = "debitFee"
    BY DEF Inv, DebitFee, At
  <1>2. PICK i \in Ids, n \in Intents : i = worker[w].id /\ n = N(w) /\ n = intent[i]
    BY <1>1, Owner
  <1>3. PICK b \in Nat : b = Fee(n)
    BY FeeBounds
  <1>4. UNCHANGED <<fees, reserve, sent, feeTaken, elsewhere, maps, row, spent>>
    BY DEF DebitFee
  <1>5. CASE claim' = claim /\ Goto(w, "failed") /\ (faults' = faults \/ Fault("throw"))
    <2>1. UNCHANGED <<ledger, maps, row, spent>>
      BY <1>4, <1>5 DEF ledger
    <2>2. QED
      BY <1>1, <1>5, <2>1, FailKept
  <1>6. ASSUME claim >= b, claim' = claim - b, NEW p \in {"creditFee", "failed"}, Goto(w, p),
               faults' = faults \/ Fault("lost")
        PROVE  Inv'
    <2>1. /\ claim \in Nat /\ reserve \in Nat /\ fees \in Nat /\ sent \in [Ids -> Nat]
          /\ feeTaken \in [Ids -> Nat] /\ sent[i] \in Nat /\ feeTaken[i] \in Nat
      BY <1>1 DEF TypeOK
    <2>2. sent[i] >= Net(n) /\ Net(n) \in Nat
      BY <1>1, <1>2, FeeBounds DEF Inv, JobInv, JobOk
    <2>3. /\ claim' \in Nat /\ reserve' \in Nat /\ sent' \in [Ids -> Nat] /\ sent' = sent
          /\ fees' = fees /\ feeTaken' = feeTaken /\ fees' \in Nat /\ elsewhere' = elsewhere
          /\ feeTaken' \in [Ids -> Nat] /\ UNCHANGED <<maps, row, spent>>
      BY <1>4, <1>6, <2>1
    <2>4. claim' + sent'[i] + fees' + (IF p = "creditFee" THEN Fee(n) ELSE 0)
             <= claim + sent[i] + fees + (IF worker[w].pc = "creditFee" THEN Fee(n) ELSE 0)
      BY <1>1, <1>3, <1>6, <2>1, <2>3
    <2>5. /\ sent'[i] <= sent[i] + (IF worker[w].pc = "withdraw" THEN Net(n) ELSE 0)
          /\ sent'[i] >= sent[i] /\ feeTaken'[i] >= feeTaken[i] /\ sent'[i] >= Net(n)
      BY <1>1, <2>1, <2>2, <2>3
    <2>6. QED
      BY <1>1, <1>2, <1>6, <2>3, <2>4, <2>5, PaidKept
  <1>7. \/ claim' = claim /\ Goto(w, "failed") /\ (faults' = faults \/ Fault("throw"))
        \/ /\ claim >= b /\ claim' = claim - b
           /\ \/ Goto(w, "creditFee") /\ faults' = faults
              \/ Goto(w, "failed") /\ Fault("lost")
    BY <1>2, <1>3 DEF DebitFee, Chain
  <1>8. QED
    BY <1>5, <1>6, <1>7

\* Vault.adminCredit of the fee.
LEMMA CreditFeeKept ==
    ASSUME Inv, NEW w \in Workers, CreditFee(w)
    PROVE  Inv'
  <1>1. TypeOK /\ worker[w].pc = "creditFee"
    BY DEF Inv, CreditFee, At
  <1>2. PICK i \in Ids, n \in Intents : i = worker[w].id /\ n = N(w) /\ n = intent[i]
    BY <1>1, Owner
  <1>3. PICK b \in Nat : b = Fee(n)
    BY FeeBounds
  <1>4. UNCHANGED <<claim, reserve, sent, elsewhere, maps, row, spent>>
    BY DEF CreditFee
  <1>5. CASE UNCHANGED <<fees, feeTaken>> /\ Goto(w, "failed") /\ (faults' = faults \/ Fault("throw"))
    <2>1. UNCHANGED <<ledger, maps, row, spent>>
      BY <1>4, <1>5 DEF ledger
    <2>2. QED
      BY <1>1, <1>5, <2>1, FailKept
  <1>6. ASSUME fees' = fees + b, feeTaken' = [feeTaken EXCEPT ![i] = @ + b],
               NEW p \in {"executed", "failed"}, Goto(w, p), faults' = faults \/ Fault("lost")
        PROVE  Inv'
    <2>1. /\ claim \in Nat /\ reserve \in Nat /\ fees \in Nat /\ sent \in [Ids -> Nat]
          /\ feeTaken \in [Ids -> Nat] /\ sent[i] \in Nat /\ feeTaken[i] \in Nat
      BY <1>1 DEF TypeOK
    <2>2. sent[i] >= Net(n) /\ Net(n) \in Nat
      BY <1>1, <1>2, FeeBounds DEF Inv, JobInv, JobOk
    <2>3. /\ claim' = claim /\ sent' = sent /\ fees' \in Nat /\ elsewhere' = elsewhere
          /\ claim' \in Nat /\ reserve' \in Nat /\ sent' \in [Ids -> Nat]
          /\ feeTaken' \in [Ids -> Nat] /\ feeTaken'[i] = feeTaken[i] + b
          /\ \A j \in Ids : j # i => sent'[j] = sent[j] /\ feeTaken'[j] = feeTaken[j]
          /\ UNCHANGED <<maps, row, spent>>
      BY <1>4, <1>6, <2>1
    <2>4. claim' + sent'[i] + fees' + (IF p = "creditFee" THEN Fee(n) ELSE 0)
             <= claim + sent[i] + fees + (IF worker[w].pc = "creditFee" THEN Fee(n) ELSE 0)
      BY <1>1, <1>3, <1>6, <2>1, <2>3
    <2>5. /\ sent'[i] <= sent[i] + (IF worker[w].pc = "withdraw" THEN Net(n) ELSE 0)
          /\ sent'[i] >= sent[i] /\ feeTaken'[i] >= feeTaken[i] /\ sent'[i] >= Net(n)
          /\ feeTaken'[i] >= Fee(n)
      BY <1>1, <1>3, <2>1, <2>2, <2>3
    <2>6. QED
      BY <1>1, <1>2, <1>6, <2>3, <2>4, <2>5, PaidKept, ZenonT(90)
  <1>7. \/ UNCHANGED <<fees, feeTaken>> /\ Goto(w, "failed") /\ (faults' = faults \/ Fault("throw"))
        \/ /\ fees' = fees + b /\ feeTaken' = [feeTaken EXCEPT ![i] = @ + b]
           /\ \/ Goto(w, "executed") /\ faults' = faults
              \/ Goto(w, "failed") /\ Fault("lost")
    BY <1>2, <1>3 DEF CreditFee, Chain
  <1>8. QED
    BY <1>5, <1>6, <1>7
\* A new request starts from nothing.
LEMMA PrepareKept ==
    ASSUME Inv, NEW w \in Workers, NEW i \in Ids, NEW n \in Intents, Prepare(w, i, n)
    PROVE  Inv'
  <1>1. /\ TypeOK /\ worker[w].pc = "idle" /\ intent[i] = NoIntent /\ n # NoIntent
        /\ intent' = [intent EXCEPT ![i] = n]
    BY IdleParts, WithdrawalsAssumption DEF Inv, Prepare
  <1>2. /\ UNCHANGED <<claim, fees, reserve, sent, feeTaken, elsewhere>>
        /\ UNCHANGED <<pending, challenges, ready, prepared, row, spent, faults>>
    BY DEF Prepare, ledger
  <1>3. Job("kyc", i) \in JobType /\ Job("kyc", i).pc = "kyc" /\ Job("kyc", i).id = i
    BY DEF Job, JobType, Busy, Pcs
  <1>4. /\ worker' \in [Workers -> JobType] /\ worker'[w].pc = "kyc" /\ worker'[w].id = i
        /\ \A v \in Workers : v # w => worker'[v] = worker[v]
    BY <1>1, <1>3, BecomeWorker DEF Prepare
  <1>5. /\ intent' \in [Ids -> Intents \cup {NoIntent}] /\ intent'[i] = n
        /\ \A j \in Ids : j # i => intent'[j] = intent[j]
    BY <1>1 DEF TypeOK
  <1>6. TypeOK'
    BY <1>1, <1>2, <1>4, <1>5 DEF TypeOK, JobType, Busy
  <1>7. sent[i] = 0 /\ i \notin prepared /\ i \notin pending /\ row[i] = "none"
    BY <1>1 DEF Inv, IdInv, IdOk
  <1>8. \A v \in Workers : worker[v].pc # "idle" => worker[v].id \in Ids /\ worker[v].id # i
    <2>1. ASSUME NEW v \in Workers, worker[v].pc # "idle"
          PROVE  worker[v].id \in Ids /\ worker[v].id # i
      <3>1. PICK k \in Ids, q \in Intents : k = worker[v].id /\ q = intent[k]
        BY <2>1, Owner
      <3>2. NoIntent \notin Intents
        BY WithdrawalsAssumption
      <3>3. QED
        BY <1>1, <3>1, <3>2
    <2>2. QED
      BY <2>1
  <1>9. \A v \in Workers : worker[v].pc # "idle" => worker'[v] = worker[v] /\ N(v)' = N(v)
    BY <1>1, <1>4, <1>5, <1>8 DEF N
  <1>10. IdInv'
    <2> SUFFICES ASSUME NEW j \in Ids
                 PROVE  IdOk(j)'
      BY DEF IdInv
    <2>1. CASE j = i
      BY <1>1, <1>2, <1>5, <1>7, <2>1 DEF IdOk
    <2>2. CASE j # i
      BY <1>2, <1>5, <2>2 DEF Inv, IdInv, IdOk, Net, Fee
    <2>3. QED
      BY <2>1, <2>2
  <1>11. JobInv'
    <2> SUFFICES ASSUME NEW v \in Workers, worker'[v].pc # "idle"
                 PROVE  JobOk(v)'
      BY DEF JobInv, JobOk
    <2>1. CASE v = w
      BY <1>2, <1>4, <1>5, <1>7, <2>1 DEF JobOk, N
    <2>2. CASE v # w
      <3>1. worker'[v] = worker[v] /\ N(v)' = N(v) /\ JobOk(v) /\ worker[v].pc # "idle"
        BY <1>4, <1>9, <2>2 DEF Inv, JobInv
      <3>2. QED
        BY <1>2, <3>1 DEF JobOk, Net, Fee
    <2>3. QED
      BY <2>1, <2>2
  <1>12. PrepInv'
    <2> SUFFICES ASSUME NEW u \in Workers, NEW v \in Workers, u # v,
                        worker'[u].pc \in Prep, worker'[v].pc \in Prep,
                        worker'[u].id = worker'[v].id
                 PROVE  FALSE
      BY DEF PrepInv
    <2>1. \A x \in Workers : worker[x].pc \in Prep => worker[x].pc # "idle"
      BY DEF Prep
    <2>2. CASE u # w /\ v # w
      BY <1>4, <2>2 DEF Inv, PrepInv
    <2>3. CASE u = w
      BY <1>4, <1>8, <2>1, <2>3
    <2>4. CASE v = w
      BY <1>4, <1>8, <2>1, <2>4
    <2>5. QED
      BY <2>2, <2>3, <2>4
  <1>13. MoneyInv'
    <2>1. \A v \in Workers : Carry(v)' = Carry(v)
      BY <1>1, <1>4, <1>9 DEF Carry, Fee
    <2>2. Carried' = Carried
      BY <2>1 DEF Carried
    <2>3. QED
      BY <1>2, <2>2 DEF Inv, MoneyInv
  <1>14. PassInv'
    <2> SUFFICES ASSUME NEW m \in Intents
                 PROVE  Total(GotAll(m)') + Total(PassAll(m)') + Signed(m)' <= Total(DueAll(m)')
      BY DEF PassInv
    <2>1. m # NoIntent
      BY WithdrawalsAssumption
    <2>2. \A j \in Ids : Got(j, m)' = Got(j, m) /\ Due(j, m)' = Due(j, m)
      BY <1>1, <1>2, <1>5, <1>7, <2>1 DEF Got, Due, Net, Fee
    <2>3. \A v \in Workers : Pass(v, m)' = Pass(v, m)
      <3> SUFFICES ASSUME NEW v \in Workers
                   PROVE  Pass(v, m)' = Pass(v, m)
        OBVIOUS
      <3>1. CASE v = w
        BY <1>1, <1>4, <3>1 DEF Pass
      <3>2. CASE v # w /\ worker[v].pc = "idle"
        BY <1>4, <3>2 DEF Pass
      <3>3. CASE v # w /\ worker[v].pc # "idle"
        BY <1>9, <3>3 DEF Pass, Net, Fee
      <3>4. QED
        BY <3>1, <3>2, <3>3
    <2>4. GotAll(m)' = GotAll(m) /\ PassAll(m)' = PassAll(m) /\ DueAll(m)' = DueAll(m)
      BY <2>2, <2>3 DEF GotAll, PassAll, DueAll
    <2>5. Signed(m)' = Signed(m)
      BY <1>2 DEF Signed, Net, Fee
    <2>6. QED
      BY <2>4, <2>5 DEF Inv, PassInv
  <1>15. QED
    BY <1>6, <1>10, <1>11, <1>12, <1>13, <1>14 DEF Inv

\* An entry or a challenge grows old; another route spends from the claim.
LEMMA AroundKept ==
    ASSUME Inv, Expire \/ SpendElsewhere
    PROVE  Inv'
  <1>1. /\ UNCHANGED <<intent, fees, reserve, sent, feeTaken, ready, prepared, row, spent, worker, faults>>
        /\ pending' \subseteq pending /\ challenges' \subseteq challenges
    BY DEF Expire, SpendElsewhere, ledger, maps
  <1>2. /\ claim' \in Nat /\ elsewhere' \in Nat /\ claim' + elsewhere' = claim + elsewhere
        /\ claim \in Nat /\ elsewhere \in Nat
    <2>1. claim \in Nat /\ elsewhere \in Nat
      BY DEF Inv, TypeOK
    <2>2. \/ claim' = claim /\ elsewhere' = elsewhere
          \/ claim > 0 /\ claim' = claim - 1 /\ elsewhere' = elsewhere + 1
      BY DEF Expire, SpendElsewhere, ledger
    <2>3. QED
      BY <2>1, <2>2
  <1>3. TypeOK'
    BY <1>1, <1>2 DEF Inv, TypeOK
  <1>4. MoneyInv'
    <2>1. Carried' = Carried
      BY <1>1 DEF Carried, Carry, N, Fee
    <2>2. QED
      BY <1>1, <1>2, <2>1 DEF Inv, MoneyInv
  <1>5. PassInv'
    <2> SUFFICES ASSUME NEW m \in Intents
                 PROVE  Total(GotAll(m)') + Total(PassAll(m)') + Signed(m)' <= Total(DueAll(m)')
      BY DEF PassInv
    <2>1. GotAll(m)' = GotAll(m) /\ PassAll(m)' = PassAll(m) /\ DueAll(m)' = DueAll(m)
      BY <1>1 DEF GotAll, Got, PassAll, Pass, DueAll, Due, N, Net, Fee
    <2>2. Signed(m)' \in Nat /\ Signed(m) \in Nat /\ Signed(m)' <= Signed(m)
      BY <1>1, FeeBounds DEF Signed, Net, Fee
    <2>3. IsFiniteSet(Ids) /\ IsFiniteSet(Workers) /\ GotAll(m) \in [Ids -> Nat]
          /\ PassAll(m) \in [Workers -> Nat] /\ DueAll(m) \in [Ids -> Nat]
      BY PassType, WithdrawalsAssumption DEF Inv
    <2>4. Total(GotAll(m)) \in Nat /\ Total(PassAll(m)) \in Nat /\ Total(DueAll(m)) \in Nat
      BY <2>3, TotalType
    <2>5. Total(GotAll(m)) + Total(PassAll(m)) + Signed(m) <= Total(DueAll(m))
      BY DEF Inv, PassInv
    <2>6. QED
      BY <2>1, <2>2, <2>4, <2>5
  <1>6. IdInv'
    BY <1>1 DEF Inv, IdInv, IdOk, Net, Fee
  <1>7. JobInv'
    BY <1>1 DEF Inv, JobInv, JobOk, N, Net, Fee
  <1>8. PrepInv'
    BY <1>1 DEF Inv, PrepInv
  <1>9. QED
    BY <1>3, <1>4, <1>5, <1>6, <1>7, <1>8 DEF Inv

\* A restart drops the handlers and both maps, and with them the right to pay.
LEMMA CrashKept ==
    ASSUME Inv, Crash
    PROVE  Inv'
  <1>1. /\ UNCHANGED <<claim, fees, reserve, sent, feeTaken, elsewhere>>
        /\ UNCHANGED <<intent, ready, prepared, row, spent>>
        /\ pending' = {} /\ challenges' = {} /\ Fault("crash")
        /\ worker' = [w \in Workers |-> Idle]
    BY DEF Crash, ledger
  <1>2. \A w \in Workers : worker'[w].pc = "idle" /\ worker'[w] = Idle
    BY <1>1, IdleParts
  <1>3. TypeOK'
    <2>1. faults' \subseteq Faults
      BY <1>1, FaultType DEF Inv
    <2>2. QED
      BY <1>1, <2>1 DEF Inv, TypeOK
  <1>4. MoneyInv'
    <2>1. Carried' = [w \in Workers |-> 0]
      BY <1>2 DEF Carried, Carry
    <2>2. Total(Carried') = 0
      BY <2>1, TotalZero
    <2>3. Carried \in [Workers -> Nat] /\ IsFiniteSet(Workers) /\ IsFiniteSet(Ids)
      BY CarryType, WithdrawalsAssumption DEF Inv
    <2>4. /\ Total(Carried) \in Nat /\ Total(sent) \in Nat /\ claim \in Nat /\ elsewhere \in Nat
          /\ fees \in Nat /\ Claim0 \in Nat
      BY <2>3, TotalType, WithdrawalsAssumption DEF Inv, TypeOK
    <2>5. QED
      BY <1>1, <2>2, <2>4 DEF Inv, MoneyInv
  <1>5. PassInv'
    <2> SUFFICES ASSUME NEW m \in Intents
                 PROVE  Total(GotAll(m)') + Total(PassAll(m)') + Signed(m)' <= Total(DueAll(m)')
      BY DEF PassInv
    <2>1. GotAll(m)' = GotAll(m) /\ DueAll(m)' = DueAll(m) /\ Signed(m)' = 0
      BY <1>1 DEF GotAll, Got, DueAll, Due, Signed, Net, Fee
    <2>2. PassAll(m)' = [w \in Workers |-> 0]
      BY <1>2 DEF PassAll, Pass
    <2>3. Total(PassAll(m)') = 0
      BY <2>2, TotalZero
    <2>4. IsFiniteSet(Ids) /\ IsFiniteSet(Workers) /\ GotAll(m) \in [Ids -> Nat]
          /\ PassAll(m) \in [Workers -> Nat] /\ DueAll(m) \in [Ids -> Nat] /\ Signed(m) \in Nat
      BY PassType, WithdrawalsAssumption DEF Inv
    <2>5. Total(GotAll(m)) \in Nat /\ Total(PassAll(m)) \in Nat /\ Total(DueAll(m)) \in Nat
      BY <2>4, TotalType
    <2>6. Total(GotAll(m)) + Total(PassAll(m)) + Signed(m) <= Total(DueAll(m))
      BY DEF Inv, PassInv
    <2>7. QED
      BY <2>1, <2>3, <2>4, <2>5, <2>6
  <1>6. IdInv'
    BY <1>1 DEF Inv, IdInv, IdOk, Net, Fee
  <1>7. JobInv'
    BY <1>2 DEF JobInv, JobOk
  <1>8. PrepInv'
    BY <1>2 DEF PrepInv, Prep
  <1>9. QED
    BY <1>3, <1>4, <1>5, <1>6, <1>7, <1>8 DEF Inv
\* The invariant holds at the start.
LEMMA InitInv == Init => Inv
  <1> SUFFICES ASSUME Init
               PROVE  Inv
    OBVIOUS
  <1>1. \A w \in Workers : worker[w] = Idle /\ worker[w].pc = "idle"
    BY IdleParts DEF Init
  <1>2. TypeOK
    BY WithdrawalsAssumption DEF Init, TypeOK
  <1>3. MoneyInv
    <2>1. Carried = [w \in Workers |-> 0]
      BY <1>1 DEF Carried, Carry
    <2>2. Total(Carried) = 0 /\ Total(sent) = 0
      BY <2>1, TotalZero DEF Init
    <2>3. Claim0 \in Nat
      BY WithdrawalsAssumption
    <2>4. claim = Claim0 /\ elsewhere = 0 /\ fees = 0
      BY DEF Init
    <2>5. QED
      BY <2>2, <2>3, <2>4 DEF MoneyInv
  <1>4. PassInv
    <2> SUFFICES ASSUME NEW m \in Intents
                 PROVE  Total(GotAll(m)) + Total(PassAll(m)) + Signed(m) <= Total(DueAll(m))
      BY DEF PassInv
    <2>1. /\ GotAll(m) = [i \in Ids |-> 0] /\ DueAll(m) = [i \in Ids |-> 0] /\ Signed(m) = 0
          /\ PassAll(m) = [w \in Workers |-> 0]
      BY <1>1 DEF Init, GotAll, Got, DueAll, Due, Signed, PassAll, Pass
    <2>2. Total(GotAll(m)) = 0 /\ Total(DueAll(m)) = 0 /\ Total(PassAll(m)) = 0
      BY <2>1, TotalZero
    <2>3. QED
      BY <2>1, <2>2
  <1>5. IdInv
    BY DEF Init, IdInv, IdOk
  <1>6. JobInv
    BY <1>1 DEF JobInv, JobOk
  <1>7. PrepInv
    BY <1>1 DEF PrepInv, Prep
  <1>8. QED
    BY <1>2, <1>3, <1>4, <1>5, <1>6, <1>7 DEF Inv

\* Every step keeps it.
LEMMA NextInv == Inv /\ [Next]_vars => Inv'
  <1> SUFFICES ASSUME Inv, [Next]_vars
               PROVE  Inv'
    OBVIOUS
  <1>1. CASE UNCHANGED vars
    <2>1. /\ UNCHANGED <<claim, fees, reserve, sent, feeTaken, elsewhere, row, spent, worker, faults>>
          /\ UNCHANGED <<intent, pending, challenges, ready, prepared>>
      BY <1>1 DEF vars, ledger, maps
    <2>2. TypeOK' /\ IdInv' /\ JobInv' /\ PrepInv'
      BY <2>1 DEF Inv, TypeOK, IdInv, IdOk, JobInv, JobOk, PrepInv, N, Net, Fee
    <2>3. MoneyInv'
      BY <2>1 DEF Inv, MoneyInv, Carried, Carry, N, Fee
    <2>4. PassInv'
      BY <2>1 DEF Inv, PassInv, GotAll, Got, PassAll, Pass, DueAll, Due, Signed, N, Net, Fee
    <2>5. QED
      BY <2>2, <2>3, <2>4 DEF Inv
  <1>2. CASE Next
    <2>1. CASE \E w \in Workers : Step(w) \/ ReadFails(w)
      <3>1. PICK w \in Workers : Step(w) \/ ReadFails(w)
        BY <2>1
      <3>2. QED
        BY <3>1, ChecksKept, RegisterKept, RecordsKept, VerifyKept, WithdrawKept, DebitFeeKept,
           CreditFeeKept DEF Step
    <2>2. CASE \E w \in Workers, i \in Ids : Submit(w, i)
      BY <2>2, SubmitKept
    <2>3. CASE \E w \in Workers, i \in Ids, n \in Intents : Prepare(w, i, n)
      BY <2>3, PrepareKept
    <2>4. CASE Expire \/ SpendElsewhere
      BY <2>4, AroundKept
    <2>5. CASE Crash
      BY <2>5, CrashKept
    <2>6. QED
      BY <1>2, <2>1, <2>2, <2>3, <2>4, <2>5 DEF Next
  <1>3. QED
    BY <1>1, <1>2

(***************************************************************************)
(*                              Theorems                                   *)
(***************************************************************************)

\* The invariant gives both properties.
LEMMA InvGives == Inv => NoValueCreated /\ PaidPerPrepare
  <1> SUFFICES ASSUME Inv
               PROVE  NoValueCreated /\ PaidPerPrepare
    OBVIOUS
  <1>1. TypeOK /\ IsFiniteSet(Ids) /\ IsFiniteSet(Workers)
    BY WithdrawalsAssumption DEF Inv
  <1>2. NoValueCreated
    <2>1. Carried \in [Workers -> Nat] /\ sent \in [Ids -> Nat]
      BY <1>1, CarryType DEF Inv, TypeOK
    <2>2. Total(Carried) \in Nat /\ Total(sent) \in Nat
      BY <1>1, <2>1, TotalType
    <2>3. QED
      BY <1>1, <2>2, WithdrawalsAssumption DEF Inv, TypeOK, MoneyInv, NoValueCreated
  <1>3. ASSUME NEW n \in Intents
        PROVE  Total([i \in {j \in Ids : intent[j] = n} |-> sent[i]])
                  <= Net(n) * Cardinality({j \in Ids : intent[j] = n} \cap prepared)
    <2> DEFINE ids == {j \in Ids : intent[j] = n}
    <2>1. PICK k \in Nat : k = Net(n)
      BY FeeBounds
    <2>2. PICK A \in SUBSET Ids, B \in SUBSET Ids : A = ids /\ B = ids \cap prepared
      OBVIOUS
    <2>3. PICK f \in [Ids -> Nat], g \in [Ids -> Nat] : f = sent /\ g = [i \in Ids |-> k]
      BY <1>1 DEF TypeOK
    <2>4. GotAll(n) = [i \in Ids |-> IF i \in A THEN f[i] ELSE 0]
      BY <2>2, <2>3 DEF GotAll, Got
    <2>5. DueAll(n) = [i \in Ids |-> IF i \in B THEN g[i] ELSE 0]
      BY <2>1, <2>2, <2>3 DEF DueAll, Due
    <2>6. Total([i \in Ids |-> IF i \in A THEN f[i] ELSE 0]) = Total([i \in A |-> f[i]])
      BY TotalSupport
    <2>7. Total([i \in Ids |-> IF i \in B THEN g[i] ELSE 0]) = Total([i \in B |-> g[i]])
      BY TotalSupport
    <2>8. [i \in B |-> g[i]] = [i \in B |-> k]
      BY <2>3
    <2>9. IsFiniteSet(B)
      BY <1>1, FS_Subset
    <2>10. Total([i \in B |-> k]) = k * Cardinality(B)
      BY <2>9, TotalEqual
    <2>11. Total(GotAll(n)) + Total(PassAll(n)) + Signed(n) <= Total(DueAll(n))
      BY DEF Inv, PassInv
    <2>12. /\ GotAll(n) \in [Ids -> Nat] /\ PassAll(n) \in [Workers -> Nat]
           /\ DueAll(n) \in [Ids -> Nat] /\ Signed(n) \in Nat
      BY <1>1, PassType
    <2>13. Total(GotAll(n)) \in Nat /\ Total(PassAll(n)) \in Nat /\ Total(DueAll(n)) \in Nat
      BY <1>1, <2>12, TotalType
    <2>14. Total(GotAll(n)) <= Total(DueAll(n))
      BY <2>11, <2>12, <2>13
    <2>15. Total([i \in A |-> f[i]]) <= k * Cardinality(B)
      BY <2>4, <2>5, <2>6, <2>7, <2>8, <2>10, <2>14
    <2>16. QED
      BY <2>1, <2>2, <2>3, <2>15
  <1>4. ASSUME NEW i \in Ids, row[i] = "executed"
        PROVE  sent[i] >= Net(intent[i]) /\ feeTaken[i] >= Fee(intent[i])
    BY <1>4 DEF Inv, IdInv, IdOk
  <1>5. QED
    BY <1>2, <1>3, <1>4 DEF PaidPerPrepare

\* submitWithdrawal debits before it credits: whatever overlaps, reverts or is lost,
\* what was sent out and taken as a fee left the consumer's claim first.
THEOREM ValueKept == FairSpec => []NoValueCreated
  BY InitInv, NextInv, InvGives, PTL DEF FairSpec

\* Each prepared withdrawal is good for one payment of its net amount, and one shown
\* as executed has been sent and its fee collected.
THEOREM OnePaymentPerPrepare == FairSpec => []PaidPerPrepare
  BY InitInv, NextInv, InvGives, PTL DEF FairSpec
=============================================================================
