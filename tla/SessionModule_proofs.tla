------------------------ MODULE SessionModule_proofs ------------------------
(***************************************************************************)
(* Proofs about SessionModule: a session key never spends more than its    *)
(* daily cap, and a signature pays at most once per registration, for any  *)
(* set of keys, amounts, caps and lifetimes and for any length of a day.   *)
(* And about the payments relayed above it: for any devices, payments and  *)
(* faults, what is paid is what was confirmed, once, and the rows say so.  *)
(***************************************************************************)
EXTENDS PaymentRelay, SequenceTheorems, FiniteSetTheorems, TLAPS

\* The inductive invariant: DailyCapHolds already carries the type invariant
\* and the agreement of the struct's counters with the history.
SessionInv == DailyCapHolds /\ SignaturePaysOnce

\* The current day is one of the days the history distinguishes.
LEMMA DayInDays ==
    ASSUME now \in DayLength..MaxTime
    PROVE  Day \in Days /\ Day \in Nat
  <1>1. DayLength \in Nat /\ DayLength > 0 /\ MaxTime \in Nat /\ now \in Nat /\ now <= MaxTime
    BY SessionAssumption
  <1>2. \A a, b \in Nat : a <= b => a \div DayLength <= b \div DayLength
    BY <1>1
  <1>3. \A a \in Nat : a \div DayLength \in Nat
    BY <1>1
  <1>4. QED
    BY <1>1, <1>2, <1>3 DEF Day, Days

\* The days never run backwards.
LEMMA DayMonotone ==
    ASSUME NEW m \in Nat
    PROVE  m \div DayLength <= (m + 1) \div DayLength /\ (m + 1) \div DayLength \in Nat
                                                      /\ m \div DayLength \in Nat
  <1>1. DayLength \in Nat /\ DayLength > 0
    BY SessionAssumption
  <1>2. QED
    BY <1>1

\* A logged payment is a signature and the number of its registration.
LEMMA LogEntry ==
    ASSUME TypeOK, NEW i \in DOMAIN log
    PROVE  log[i].sig \in Signature /\ log[i].gen \in Nat /\ log[i].sig.nonce \in Nat
  <1>1. log \in Seq([sig : Signature, gen : Nat]) /\ i \in 1..Len(log)
    BY DEF TypeOK
  <1>2. log[i] \in [sig : Signature, gen : Nat]
    BY <1>1, ElementOfSeq
  <1>3. QED
    BY <1>2 DEF Signature

\* Where the deployment starts: nothing registered, nothing spent.
LEMMA SessionInit == Init => SessionInv
  <1> SUFFICES ASSUME Init PROVE SessionInv
    OBVIOUS
  <1>1. TypeOK
    <2>1. now \in DayLength..MaxTime
      BY SessionAssumption DEF Init
    <2>2. sessions \in [Keys -> Session]
      BY DEF Init, NoSession, Session
    <2>3. QED
      BY <2>1, <2>2, SessionAssumption DEF Init, TypeOK
  <1>2. \A k \in Keys : ~sessions[k].active
    BY DEF Init, NoSession
  <1>3. DOMAIN log = {}
    BY DEF Init
  <1>4. QED
    BY <1>1, <1>2, <1>3 DEF SessionInv, DailyCapHolds, CountersAgree, SignaturePaysOnce

\* A new registration starts with an empty history: the overwritten struct has
\* nonce 0, and no logged payment carries the new registration's number.
LEMMA SessionAdd ==
    ASSUME SessionInv, NEW k \in Keys, NEW life \in Lifetimes, NEW cap \in Caps,
           AddSessionKey(k, life, cap)
    PROVE  SessionInv'
  <1>0. TypeOK /\ CountersAgree /\ SignaturePaysOnce
    BY DEF SessionInv, DailyCapHolds
  <1> DEFINE new == [expiry |-> now + life, maxPerTx |-> cap[1], dailyCap |-> cap[2],
                     dailySpent |-> 0, dayBucket |-> 0, nonce |-> 0, active |-> TRUE]
  <1>1. now \in Nat /\ life \in Nat /\ cap[1] \in Nat /\ cap[2] \in Nat
    BY <1>0, SessionAssumption DEF TypeOK
  <1>2. new \in Session
    BY <1>1 DEF Session
  <1>3. /\ sessions' = [sessions EXCEPT ![k] = new]
        /\ gen' = [gen EXCEPT ![k] = @ + 1]
        /\ spent' = [spent EXCEPT ![k] = [d \in Days |-> 0]]
        /\ UNCHANGED <<now, signed, funds, log>>
    BY DEF AddSessionKey
  <1>4. TypeOK'
    <2> HIDE DEF new
    <2> QED BY <1>0, <1>2, <1>3 DEF TypeOK
  <1>5. \A q \in Keys : gen'[q] = IF q = k THEN gen[q] + 1 ELSE gen[q]
    BY <1>0, <1>3 DEF TypeOK
  <1>6. /\ new.dayBucket = 0 /\ new.dailySpent = 0 /\ new.nonce = 0 /\ new.dailyCap \in Nat
        /\ \A q \in Keys : sessions'[q] = IF q = k THEN new ELSE sessions[q]
        /\ \A q \in Keys : spent'[q] = IF q = k THEN [d \in Days |-> 0] ELSE spent[q]
        /\ Day' = Day /\ log' = log
    <2>1. /\ new.dayBucket = 0 /\ new.dailySpent = 0 /\ new.nonce = 0 /\ new.dailyCap \in Nat
      BY <1>1
    <2>2. Day' = Day /\ log' = log
      BY <1>3 DEF Day
    <2> HIDE DEF new
    <2>3. QED
      BY <1>0, <1>3, <2>1, <2>2 DEF TypeOK
  <1> HIDE DEF new
  <1>7. Day \in Nat
    BY <1>0, DayInDays DEF TypeOK
  <1>8. \A i \in DOMAIN log : log[i].gen \in Nat
    BY <1>0, LogEntry
  <1>9. CountersAgree'
    <2> SUFFICES ASSUME NEW q \in Keys
                 PROVE  /\ \A i \in DOMAIN log : log[i].sig.key = q => log[i].gen <= gen'[q]
                        /\ sessions'[q].active =>
                            /\ \A i \in DOMAIN log :
                                  (log[i].sig.key = q /\ log[i].gen = gen'[q])
                                     => log[i].sig.nonce < sessions'[q].nonce
                            /\ sessions'[q].dayBucket <= Day
                            /\ \A d \in Days : d >= sessions'[q].dayBucket =>
                                  spent'[q][d] = IF d = sessions'[q].dayBucket
                                                 THEN sessions'[q].dailySpent ELSE 0
      BY <1>6 DEF CountersAgree
    <2>1. CASE q = k
      <3>1. gen[k] \in Nat /\ gen'[k] = gen[k] + 1
        BY <1>0, <1>5 DEF TypeOK
      <3>2. \A i \in DOMAIN log : log[i].sig.key = k => log[i].gen <= gen[k]
        BY <1>0 DEF CountersAgree
      <3>3. QED
        BY <2>1, <3>1, <3>2, <1>6, <1>7, <1>8
    <2>2. CASE q # k
      BY <1>0, <1>5, <1>6, <2>2 DEF CountersAgree
    <2>3. QED
      BY <2>1, <2>2
  <1>10. QED
    BY <1>4, <1>6, <1>9 DEF SessionInv, DailyCapHolds, SignaturePaysOnce

\* Removing a key leaves nothing active to be wrong about.
LEMMA SessionRemove ==
    ASSUME SessionInv, NEW k \in Keys, RemoveSessionKey(k)
    PROVE  SessionInv'
  <1>0. TypeOK /\ CountersAgree /\ SignaturePaysOnce
    BY DEF SessionInv, DailyCapHolds
  <1>1. NoSession \in Session /\ ~NoSession.active
    BY DEF NoSession, Session
  <1>2. /\ sessions' = [sessions EXCEPT ![k] = NoSession]
        /\ UNCHANGED <<now, signed, funds, gen, spent, log>>
    BY DEF RemoveSessionKey
  <1>3. TypeOK'
    BY <1>0, <1>1, <1>2 DEF TypeOK
  <1>4. /\ \A q \in Keys : sessions'[q].active => sessions'[q] = sessions[q]
        /\ Day' = Day
    BY <1>0, <1>1, <1>2 DEF TypeOK, Day
  <1>5. CountersAgree'
    BY <1>0, <1>2, <1>4 DEF CountersAgree
  <1>6. QED
    BY <1>2, <1>3, <1>4, <1>5 DEF SessionInv, DailyCapHolds, SignaturePaysOnce

\* Producing a signature changes no counter.
LEMMA SessionSign ==
    ASSUME SessionInv, NEW k \in Keys, NEW a \in Amounts, Sign(k, a)
    PROVE  SessionInv'
  <1>0. TypeOK
    BY DEF SessionInv, DailyCapHolds
  <1>1. now + Patience \in Nat /\ sessions[k].nonce \in Nat
    BY <1>0, SessionAssumption DEF TypeOK, Session
  <1>2. Digest(k, a, now + Patience) \in Signature
    BY <1>1 DEF Digest, Signature
  <1>3. TypeOK'
    BY <1>0, <1>2 DEF Sign, TypeOK
  <1>4. Day' = Day /\ UNCHANGED <<sessions, gen, spent, log>>
    BY DEF Sign, Day
  <1>5. QED
    BY <1>3, <1>4 DEF SessionInv, DailyCapHolds, CountersAgree, SignaturePaysOnce

\* A payment moves the bucket to today, adds to it and consumes the nonce.
LEMMA SessionExecute ==
    ASSUME SessionInv, NEW s \in signed, ExecuteTransfer(s)
    PROVE  SessionInv'
  <1> DEFINE k == s.key
             entry == [sig |-> s, gen |-> gen[k]]
  <1>0. TypeOK /\ CountersAgree /\ SignaturePaysOnce
        /\ \A q \in Keys : sessions[q].active =>
              \A d \in Days : spent[q][d] <= sessions[q].dailyCap
    BY DEF SessionInv, DailyCapHolds
  <1>1. /\ s \in Signature /\ k \in Keys /\ s.amount \in Nat /\ s.nonce \in Nat
        /\ sessions[k] \in Session /\ gen[k] \in Nat
        /\ spent[k] \in [Days -> Nat]
    BY <1>0, SessionAssumption DEF TypeOK, Signature
  <1>2. Day \in Days /\ Day \in Nat
    BY <1>0, DayInDays DEF TypeOK
  <1>3. /\ sessions[k].active /\ SpentToday(k) + s.amount <= sessions[k].dailyCap
        /\ s.amount <= funds /\ s.nonce = sessions[k].nonce
    BY DEF ExecuteTransfer, Admits, Digest
  <1>4. SpentToday(k) \in Nat /\ spent[k][Day] = SpentToday(k)
    <2>1. /\ sessions[k].dayBucket <= Day /\ sessions[k].dayBucket \in Nat
          /\ sessions[k].dailySpent \in Nat
          /\ Day >= sessions[k].dayBucket =>
               spent[k][Day] = IF Day = sessions[k].dayBucket
                               THEN sessions[k].dailySpent ELSE 0
      BY <1>0, <1>1, <1>2, <1>3 DEF CountersAgree, Session
    <2>2. QED
      BY <1>2, <2>1 DEF SpentToday
  <1>5. /\ sessions' = [sessions EXCEPT ![k].dayBucket = Day,
                                        ![k].dailySpent = SpentToday(k) + s.amount,
                                        ![k].nonce = @ + 1]
        /\ funds' = funds - s.amount
        /\ spent' = [spent EXCEPT ![k] = [spent[k] EXCEPT ![Day] = spent[k][Day] + s.amount]]
        /\ log' = Append(log, entry)
        /\ UNCHANGED <<now, signed, gen>>
    BY <1>0, <1>1 DEF ExecuteTransfer, TypeOK
  <1>6. /\ sessions' \in [Keys -> Session]
        /\ \A q \in Keys : q # k => sessions'[q] = sessions[q]
        /\ sessions'[k].active = sessions[k].active
        /\ sessions'[k].dailyCap = sessions[k].dailyCap
        /\ sessions'[k].dayBucket = Day
        /\ sessions'[k].dailySpent = SpentToday(k) + s.amount
        /\ sessions'[k].nonce = s.nonce + 1
    <2>1. /\ sessions \in [Keys -> Session] /\ SpentToday(k) + s.amount \in Nat
          /\ sessions[k].nonce = s.nonce
      BY <1>0, <1>1, <1>3, <1>4 DEF TypeOK
    <2>2. PICK kk \in Keys : kk = k
      BY <1>1
    <2>3. PICK t \in Nat : t = SpentToday(k) + s.amount
      BY <2>1
    <2>4. PICK b \in Nat : b = Day
      BY <1>2
    <2>5. sessions' = [sessions EXCEPT ![kk].dayBucket = b, ![kk].dailySpent = t,
                                       ![kk].nonce = @ + 1]
      BY <1>5, <2>2, <2>3, <2>4
    <2>6. QED
      <3> HIDE DEF k
      <3>1. sessions' \in [Keys -> Session]
        BY <2>1, <2>5 DEF Session
      <3>2. \A q \in Keys : q # kk => sessions'[q] = sessions[q]
        BY <2>1, <2>5 DEF Session
      <3>3. /\ sessions'[kk].active = sessions[kk].active
            /\ sessions'[kk].dailyCap = sessions[kk].dailyCap
            /\ sessions'[kk].dayBucket = b
            /\ sessions'[kk].dailySpent = t
            /\ sessions'[kk].nonce = sessions[kk].nonce + 1
        BY <2>1, <2>5 DEF Session
      <3>4. QED
        BY <2>1, <2>2, <2>3, <2>4, <3>1, <3>2, <3>3
  <1>7. entry \in [sig : Signature, gen : Nat] /\ entry.sig = s /\ entry.gen = gen[k]
    BY <1>1
  <1>8. log \in Seq([sig : Signature, gen : Nat])
    BY <1>0 DEF TypeOK
  <1> HIDE DEF entry
  <1>9. TypeOK'
    <2>1. funds' \in Nat
      BY <1>0, <1>1, <1>3, <1>5 DEF TypeOK
    <2>2. spent' \in [Keys -> [Days -> Nat]]
      BY <1>0, <1>1, <1>2, <1>5, SMTT(60) DEF TypeOK
    <2>3. log' \in Seq([sig : Signature, gen : Nat])
      BY <1>5, <1>7, <1>8
    <2>4. QED
      BY <1>0, <1>5, <1>6, <2>1, <2>2, <2>3 DEF TypeOK
  <1>10. /\ \A q \in Keys : q # k => spent'[q] = spent[q]
         /\ \A d \in Days : spent'[k][d] = IF d = Day THEN SpentToday(k) + s.amount
                                                      ELSE spent[k][d]
         /\ Day' = Day /\ gen' = gen
    BY <1>0, <1>1, <1>2, <1>4, <1>5 DEF TypeOK, Day
  <1>11. /\ DOMAIN log' = 1..(Len(log) + 1) /\ DOMAIN log = 1..Len(log)
         /\ \A i \in DOMAIN log : log'[i] = log[i]
         /\ log'[Len(log) + 1] = entry
         /\ Len(log) \in Nat
    BY <1>5, <1>8
  <1>12. \A i \in DOMAIN log' : i \in DOMAIN log \/ i = Len(log) + 1
    BY <1>11
  <1>13. \A i \in DOMAIN log : (log[i].sig.key = k /\ log[i].gen = gen[k])
                                  => log[i].sig.nonce < s.nonce
    BY <1>0, <1>1, <1>3 DEF CountersAgree
  <1>14. \A i \in DOMAIN log : log[i].sig.nonce \in Nat
    BY <1>0, LogEntry
  <1>15. CountersAgree'
    <2> SUFFICES ASSUME NEW q \in Keys
                 PROVE  /\ \A i \in DOMAIN log' : log'[i].sig.key = q => log'[i].gen <= gen[q]
                        /\ sessions'[q].active =>
                            /\ \A i \in DOMAIN log' :
                                  (log'[i].sig.key = q /\ log'[i].gen = gen[q])
                                     => log'[i].sig.nonce < sessions'[q].nonce
                            /\ sessions'[q].dayBucket <= Day
                            /\ \A d \in Days : d >= sessions'[q].dayBucket =>
                                  spent'[q][d] = IF d = sessions'[q].dayBucket
                                                 THEN sessions'[q].dailySpent ELSE 0
      BY <1>10 DEF CountersAgree
    <2>1. \A i \in DOMAIN log' : log'[i].sig.key = q => log'[i].gen <= gen[q]
      BY <1>0, <1>1, <1>7, <1>11, <1>12 DEF CountersAgree
    <2>2. CASE q # k
      <3>1. sessions'[q] = sessions[q] /\ spent'[q] = spent[q]
        BY <1>6, <1>10, <2>2
      <3>2. \A i \in DOMAIN log' : log'[i].sig.key = q => i \in DOMAIN log /\ log'[i] = log[i]
        BY <1>7, <1>11, <1>12, <2>2
      <3>3. QED
        BY <1>0, <2>1, <3>1, <3>2 DEF CountersAgree
    <2>3. CASE q = k
      <3>1. \A i \in DOMAIN log' : (log'[i].sig.key = k /\ log'[i].gen = gen[k])
                                      => log'[i].sig.nonce < sessions'[k].nonce
        BY <1>1, <1>6, <1>7, <1>11, <1>12, <1>13, <1>14, SMTT(60)
      <3>2. \A d \in Days : d >= Day /\ d # Day => spent[k][d] = 0
        <4>1. sessions[k].dayBucket \in Nat /\ sessions[k].dayBucket <= Day
          BY <1>0, <1>1, <1>3 DEF CountersAgree, Session
        <4>2. \A d \in Days : d \in Nat
          BY SessionAssumption DEF Days
        <4>3. \A d \in Days : d >= sessions[k].dayBucket =>
                 spent[k][d] = IF d = sessions[k].dayBucket THEN sessions[k].dailySpent ELSE 0
          <5>1. CountersAgree /\ k \in Keys /\ sessions[k].active
            BY <1>0, <1>1, <1>3
          <5>2. QED
            BY <5>1, Zenon DEF CountersAgree
        <4>4. Day \in Nat
          BY <1>2
        <4>5. ASSUME NEW d \in Days, d >= Day, d # Day
              PROVE  d >= sessions[k].dayBucket /\ d # sessions[k].dayBucket
          <5>1. PICK x \in Nat, y \in Nat, z \in Nat : x = d /\ y = Day /\ z = sessions[k].dayBucket
            BY <4>1, <4>2, <4>4
          <5>2. x >= y /\ x # y /\ z <= y
            BY <4>1, <4>5, <5>1
          <5>3. QED
            BY <5>1, <5>2
        <4>6. QED
          BY <4>3, <4>5
      <3>3. \A d \in Days : d >= Day =>
                spent'[k][d] = IF d = Day THEN sessions'[k].dailySpent ELSE 0
        BY <1>6, <1>10, <3>2
      <3>4. QED
        BY <1>2, <1>6, <2>1, <2>3, <3>1, <3>3
    <2>4. QED
      BY <2>2, <2>3
  <1>16. SignaturePaysOnce'
    <2> SUFFICES ASSUME NEW i \in DOMAIN log', NEW j \in DOMAIN log', log'[i] = log'[j]
                 PROVE  i = j
      BY DEF SignaturePaysOnce
    <2>1. \A n \in DOMAIN log : log[n] # entry
      BY <1>1, <1>7, <1>13
    <2>2. QED
      BY <1>0, <1>11, <1>12, <2>1 DEF SignaturePaysOnce
  <1>17. \A q \in Keys : sessions'[q].active =>
            \A d \in Days : spent'[q][d] <= sessions'[q].dailyCap
    BY <1>0, <1>1, <1>3, <1>6, <1>10
  <1>18. QED
    BY <1>9, <1>15, <1>16, <1>17 DEF SessionInv, DailyCapHolds

\* The clock only moves forward, so a bucket never lies in the future.
LEMMA SessionTick ==
    ASSUME SessionInv, Tick
    PROVE  SessionInv'
  <1>0. TypeOK /\ CountersAgree
    BY DEF SessionInv, DailyCapHolds
  <1>1. now \in Nat /\ now' = now + 1 /\ UNCHANGED <<sessions, signed, funds, gen, spent, log>>
    BY <1>0, SessionAssumption DEF TypeOK, Tick
  <1>2. TypeOK'
    BY <1>0, <1>1, SessionAssumption DEF TypeOK, Tick
  <1>3. Day <= Day' /\ Day \in Nat /\ Day' \in Nat
    BY <1>1, DayMonotone DEF Day
  <1>4. \A k \in Keys : sessions[k].dayBucket \in Nat
    BY <1>0 DEF TypeOK, Session
  <1>5. CountersAgree'
    BY <1>0, <1>1, <1>3, <1>4 DEF CountersAgree
  <1>6. QED
    BY <1>1, <1>2, <1>5 DEF SessionInv, DailyCapHolds, SignaturePaysOnce

\* Every step of the module keeps the invariant.
LEMMA SessionNext ==
    ASSUME SessionInv, [Next]_vars
    PROVE  SessionInv'
  <1>1. CASE Next
    BY <1>1, SessionAdd, SessionRemove, SessionSign, SessionExecute, SessionTick DEF Next
  <1>2. CASE UNCHANGED vars
    BY <1>2 DEF vars, SessionInv, DailyCapHolds, TypeOK, CountersAgree, SignaturePaysOnce, Day
  <1>3. QED
    BY <1>1, <1>2

\* SessionTransferModule's daily cap: on no day does a registered session key
\* spend more than the cap it was registered with, whatever days the struct's
\* single bucket has rolled over and in whatever order signatures are relayed.
THEOREM DailyCap == Spec => []DailyCapHolds
  <1>1. Spec => []SessionInv
    BY SessionInit, SessionNext, PTL DEF Spec
  <1>2. SessionInv => DailyCapHolds
    BY DEF SessionInv
  <1>3. QED
    BY <1>1, <1>2, PTL

\* SessionTransferModule's replay protection: one signature is executed at most
\* once while its key stays registered, though anyone may relay it any number
\* of times and a re-registration starts the nonces again.
THEOREM PaysOnce == Spec => []SignaturePaysOnce
  <1>1. Spec => []SessionInv
    BY SessionInit, SessionNext, PTL DEF Spec
  <1>2. SessionInv => SignaturePaysOnce
    BY DEF SessionInv
  <1>3. QED
    BY <1>1, <1>2, PTL

(***************************************************************************)
(*                           Payments relayed                              *)
(***************************************************************************)

\* The fields of what a device is doing.
Fields(a) == [pc |-> a.pc, key |-> a.key, tx |-> a.tx, nonce |-> a.nonce, amount |-> a.amount,
              deadline |-> a.deadline, shown |-> a.shown, ctx |-> a.ctx]
Shape == app = [d \in Devices |-> Fields(app[d])]

PaidType == [dev : Devices, pay : Payments, amount : Nat, shown : Nat]
RelayType ==
    /\ want \in [Devices -> Payments] /\ price \in Prices
    /\ paid \in Seq(PaidType) /\ hurt \in [Devices -> Nat]
    /\ \A d \in Devices : app[d].amount \in Nat /\ app[d].shown \in Nat

\* A device whose payment is on the chain and whose user has not heard an error.
Recording == {"record", "spend", "paid"}
Counted(d) == Cardinality(PaidBy(d)) <= hurt[d] + (IF app[d].pc \in Recording THEN 1 ELSE 0)

\* What a device is about to pay is what its page showed.  A send never registers a key.
Bound == {"signPasskey", "relaySafe", "signSession", "relaySession"}
Priced(d) ==
    /\ app[d].pc \in Bound => Gap(app[d].amount, app[d].shown) <= Tolerance
    /\ want[d].kind = "send" =>
          /\ app[d].pc = "prepare" => app[d].shown = 1
          /\ app[d].pc \notin {"startPrepare", "startInsert"}
          /\ app[d].pc \in {"startSign", "startRelay"} => app[d].tx.op = "remove"

\* The context recorded leads where the transaction does.
Fits(d, p) == /\ p \in Payments /\ Destination(p) = Destination(want[d])
              /\ p = want[d] \/ d \in crossed
InContext(d) ==
    /\ Fits(d, Context(d))
    /\ app[d].pc = "signPasskey" =>
          /\ app[d].tx = Tx("pay", Destination(want[d]), app[d].amount)
          /\ \A e \in Entries(app[d].tx, app[d].nonce) : e.ctx = want[d] \/ d \in crossed

\* The last payment of a device, and the rows it has.
IsLast(d, i) == /\ i \in DOMAIN paid /\ paid[i].dev = d
                /\ \A j \in DOMAIN paid : paid[j].dev = d => j <= i
Booked(d) ==
    /\ app[d].pc \in Recording => \E i \in DOMAIN paid : IsLast(d, i)
    /\ app[d].pc = "record" => \A r \in sales \cup claims : r.tx # TxOf(d)
    /\ app[d].pc \in {"spend", "paid"} /\ d \notin crossed /\ "db" \notin faults =>
          LET row == [tx |-> TxOf(d), pay |-> want[d]] IN
          /\ want[d].kind = "sale" => row \in sales
          /\ want[d].kind = "send" => row \in claims
          /\ app[d].pc = "paid" => TxOf(d) \in spends

DeviceOk(d) == Counted(d) /\ Priced(d) /\ InContext(d) /\ Booked(d)

PendingOk(e) == e.tx.op = "pay" => e.ctx \in Payments /\ Destination(e.ctx) = e.tx.arg
PaidOk(i) == paid[i].pay = want[paid[i].dev] /\ Gap(paid[i].amount, paid[i].shown) <= Tolerance
RowOk(r) == /\ r.tx \in DOMAIN paid /\ Destination(paid[r.tx].pay) = "escrow"
            /\ paid[r.tx].dev \in crossed \/ paid[r.tx].pay = r.pay

Rows == sales \cup claims
RelayInv ==
    /\ RelayType /\ Shape
    /\ \A d \in Devices : DeviceOk(d)
    /\ \A e \in pending : PendingOk(e)
    /\ \A i \in DOMAIN paid : PaidOk(i)
    /\ \A r \in Rows : RowOk(r)
    /\ \A r, q \in Rows : r.tx = q.tx => r = q
(***************************************************************************)
(* What the steps do to a device.                                          *)
(***************************************************************************)

LEMMA IdleFields == /\ Fields(Idle) = Idle /\ Idle.pc = "idle" /\ Idle.amount = 0 /\ Idle.shown = 0
                    /\ Idle.ctx = <<>>
  BY DEF Fields, Idle

\* A device has its fields and no others.
LEMMA DeviceFields ==
    ASSUME Shape, NEW d \in Devices
    PROVE  Fields(app[d]) = app[d]
  BY Zenon DEF Shape

\* One device goes on.
LEMMA DeviceMoves ==
    ASSUME Shape, NEW d \in Devices, NEW a, Fields(a) = a, app' = [app EXCEPT ![d] = a]
    PROVE  /\ Shape' /\ app'[d] = a
           /\ \A e \in Devices : e # d => app'[e] = app[e]
  <1>1. app = [e \in Devices |-> Fields(app[e])]
    BY DEF Shape
  <1>2. app' = [e \in Devices |-> IF e = d THEN a ELSE app[e]]
    BY <1>1
  <1>3. app'[d] = a /\ \A e \in Devices : e # d => app'[e] = app[e]
    BY <1>2
  <1>4. \A e \in Devices : Fields(app'[e]) = app'[e]
    BY <1>3, DeviceFields
  <1>5. app' = [e \in Devices |-> app'[e]]
    BY <1>2
  <1>6. app' = [e \in Devices |-> Fields(app'[e])]
    BY <1>4, <1>5
  <1>7. QED
    BY <1>3, <1>6 DEF Shape

LEMMA AtPc ==
    ASSUME Shape, NEW d \in Devices, NEW p, Goto(d, p)
    PROVE  \E a : /\ app' = [app EXCEPT ![d] = a] /\ Fields(a) = a
                  /\ a.pc = p /\ a.tx = app[d].tx /\ a.amount = app[d].amount
                  /\ a.shown = app[d].shown /\ a.ctx = app[d].ctx /\ a.nonce = app[d].nonce
  <1>1. PICK b : b = app[d]
    OBVIOUS
  <1>2. Fields(b) = b
    BY <1>1, DeviceFields
  <1>3. PICK a : a = [b EXCEPT !.pc = p]
    OBVIOUS
  <1>4. a = [pc |-> p, key |-> b.key, tx |-> b.tx, nonce |-> b.nonce, amount |-> b.amount,
             deadline |-> b.deadline, shown |-> b.shown, ctx |-> b.ctx]
    BY <1>2, <1>3 DEF Fields
  <1>5. app' = [app EXCEPT ![d] = a]
    BY <1>1, <1>3 DEF Shape, Goto
  <1>6. /\ Fields(a) = a /\ a.pc = p /\ a.tx = b.tx /\ a.amount = b.amount
        /\ a.shown = b.shown /\ a.ctx = b.ctx /\ a.nonce = b.nonce
    BY <1>4 DEF Fields
  <1>7. QED
    BY <1>1, <1>5, <1>6

SetsUp(d, p, tx, n) == app' = [app EXCEPT ![d].pc = p, ![d].tx = tx, ![d].nonce = n]
Prepares(d, p, tx, n, m) ==
    app' = [app EXCEPT ![d].pc = p, ![d].tx = tx, ![d].nonce = n, ![d].amount = m]
Digests(d, p, k, m, n, t) ==
    app' = [app EXCEPT ![d].pc = p, ![d].key = k, ![d].amount = m, ![d].nonce = n, ![d].deadline = t]

\* A setup transaction is prepared.
LEMMA AtTx ==
    ASSUME Shape, NEW d \in Devices, NEW p, NEW tx, NEW n,
           SetsUp(d, p, tx, n)
    PROVE  \E a : /\ app' = [app EXCEPT ![d] = a] /\ Fields(a) = a
                  /\ a.pc = p /\ a.tx = tx /\ a.amount = app[d].amount
                  /\ a.shown = app[d].shown /\ a.ctx = app[d].ctx /\ a.nonce = n
  <1>1. PICK b : b = app[d]
    OBVIOUS
  <1>2. Fields(b) = b
    BY <1>1, DeviceFields
  <1>3. PICK a : a = [b EXCEPT !.pc = p, !.tx = tx, !.nonce = n]
    OBVIOUS
  <1>4. a = [pc |-> p, key |-> b.key, tx |-> tx, nonce |-> n, amount |-> b.amount,
             deadline |-> b.deadline, shown |-> b.shown, ctx |-> b.ctx]
    BY <1>2, <1>3 DEF Fields
  <1>5. app' = [app EXCEPT ![d] = a]
    BY <1>1, <1>3 DEF Shape, SetsUp
  <1>6. /\ Fields(a) = a /\ a.pc = p /\ a.tx = tx /\ a.amount = b.amount
        /\ a.shown = b.shown /\ a.ctx = b.ctx /\ a.nonce = n
    BY <1>4 DEF Fields
  <1>7. QED
    BY <1>1, <1>5, <1>6

\* A payment is prepared: by passkey ...
LEMMA AtHold ==
    ASSUME Shape, NEW d \in Devices, NEW p, NEW tx, NEW n, NEW m,
           Prepares(d, p, tx, n, m)
    PROVE  \E a : /\ app' = [app EXCEPT ![d] = a] /\ Fields(a) = a
                  /\ a.pc = p /\ a.tx = tx /\ a.amount = m
                  /\ a.shown = app[d].shown /\ a.ctx = app[d].ctx /\ a.nonce = n
  <1>1. PICK b : b = app[d]
    OBVIOUS
  <1>2. Fields(b) = b
    BY <1>1, DeviceFields
  <1>3. PICK a : a = [b EXCEPT !.pc = p, !.tx = tx, !.nonce = n, !.amount = m]
    OBVIOUS
  <1>4. a = [pc |-> p, key |-> b.key, tx |-> tx, nonce |-> n, amount |-> m,
             deadline |-> b.deadline, shown |-> b.shown, ctx |-> b.ctx]
    BY <1>2, <1>3 DEF Fields
  <1>5. app' = [app EXCEPT ![d] = a]
    BY <1>1, <1>3 DEF Shape, Prepares
  <1>6. /\ Fields(a) = a /\ a.pc = p /\ a.tx = tx /\ a.amount = m
        /\ a.shown = b.shown /\ a.ctx = b.ctx /\ a.nonce = n
    BY <1>4 DEF Fields
  <1>7. QED
    BY <1>1, <1>5, <1>6

\* ... or by session key.
LEMMA AtDigest ==
    ASSUME Shape, NEW d \in Devices, NEW p, NEW k, NEW n, NEW m, NEW t,
           Digests(d, p, k, m, n, t)
    PROVE  \E a : /\ app' = [app EXCEPT ![d] = a] /\ Fields(a) = a
                  /\ a.pc = p /\ a.tx = app[d].tx /\ a.amount = m
                  /\ a.shown = app[d].shown /\ a.ctx = app[d].ctx
  <1>1. PICK b : b = app[d]
    OBVIOUS
  <1>2. Fields(b) = b
    BY <1>1, DeviceFields
  <1>3. PICK a : a = [b EXCEPT !.pc = p, !.key = k, !.amount = m, !.nonce = n, !.deadline = t]
    OBVIOUS
  <1>4. a = [pc |-> p, key |-> k, tx |-> b.tx, nonce |-> n, amount |-> m,
             deadline |-> t, shown |-> b.shown, ctx |-> b.ctx]
    BY <1>2, <1>3 DEF Fields
  <1>5. app' = [app EXCEPT ![d] = a]
    BY <1>1, <1>3 DEF Shape, Digests
  <1>6. /\ Fields(a) = a /\ a.pc = p /\ a.tx = b.tx /\ a.amount = m
        /\ a.shown = b.shown /\ a.ctx = b.ctx
    BY <1>4 DEF Fields
  <1>7. QED
    BY <1>1, <1>5, <1>6

\* The passkey's signature is accepted.
LEMMA AtAccept ==
    ASSUME Shape, NEW d \in Devices, NEW e, Accept(d, e)
    PROVE  \E a : /\ app' = [app EXCEPT ![d] = a] /\ Fields(a) = a
                  /\ a.pc = "relaySafe" /\ a.tx = app[d].tx /\ a.amount = app[d].amount
                  /\ a.shown = app[d].shown /\ a.ctx = e.ctx
  <1>1. PICK b : b = app[d]
    OBVIOUS
  <1>2. Fields(b) = b
    BY <1>1, DeviceFields
  <1>3. PICK c : c = e.ctx
    OBVIOUS
  <1>4. PICK a : a = [b EXCEPT !.pc = "relaySafe", !.ctx = c]
    OBVIOUS
  <1>5. a = [pc |-> "relaySafe", key |-> b.key, tx |-> b.tx, nonce |-> b.nonce, amount |-> b.amount,
             deadline |-> b.deadline, shown |-> b.shown, ctx |-> c]
    BY <1>2, <1>4 DEF Fields
  <1>6. app' = [app EXCEPT ![d] = a]
    BY <1>1, <1>3, <1>4 DEF Shape, Accept
  <1>7. /\ Fields(a) = a /\ a.pc = "relaySafe" /\ a.tx = b.tx /\ a.amount = b.amount
        /\ a.shown = b.shown /\ a.ctx = c
    BY <1>5 DEF Fields
  <1>8. QED
    BY <1>1, <1>3, <1>6, <1>7
(***************************************************************************)
(* Frames.                                                                 *)
(***************************************************************************)

LEMMA TxFields == \A o, g, m : Tx(o, g, m).op = o /\ Tx(o, g, m).arg = g /\ Tx(o, g, m).amount = m
  BY DEF Tx

\* What is paid for is among the payments, at a natural price.
LEMMA WantType ==
    ASSUME RelayType, NEW d \in Devices
    PROVE  /\ want[d] \in Payments /\ Quote(want[d]) \in Nat
           /\ want[d].kind = "send" => Quote(want[d]) = 1 /\ Destination(want[d]) = "escrow"
           /\ want[d].kind = "sale" => Destination(want[d]) = "escrow"
  <1>1. want[d] \in Payments /\ price \in Nat
    BY RelayAssumption DEF RelayType
  <1>2. want[d].kind = "send" => ~want[d].cross
    BY <1>1, RelayAssumption
  <1>3. QED
    BY <1>1, <1>2 DEF Quote, Destination

\* A payment on the chain is well typed.
LEMMA PaidEntry ==
    ASSUME RelayType, NEW i \in DOMAIN paid
    PROVE  paid[i] \in PaidType /\ paid[i].dev \in Devices /\ i \in Nat /\ DOMAIN paid = 1..Len(paid)
  <1>1. paid \in Seq(PaidType) /\ DOMAIN paid = 1..Len(paid) /\ Len(paid) \in Nat
    BY DEF RelayType
  <1>2. paid[i] \in PaidType
    BY <1>1, ElementOfSeq
  <1>3. QED
    BY <1>1, <1>2 DEF PaidType

\* The hash a handler holds is that of its last payment.
LEMMA LastTx ==
    ASSUME RelayType, NEW d \in Devices, NEW i, IsLast(d, i)
    PROVE  TxOf(d) = i
  <1>1. \A j \in DOMAIN paid : j \in Nat
    BY PaidEntry
  <1>2. \A k \in DOMAIN paid :
           (paid[k].dev = d /\ \A j \in DOMAIN paid : paid[j].dev = d => j <= k) => k = i
    BY <1>1 DEF IsLast
  <1>3. QED
    BY <1>2, Zenon DEF IsLast, TxOf

LEMMA LastTxNow == \A e \in Devices : \A i : RelayType /\ IsLast(e, i) => TxOf(e) = i
  BY LastTx

\* Nothing happens to device e while another one, or nobody, acts without paying.
LEMMA OtherKept ==
    ASSUME RelayInv, NEW e \in Devices, app'[e] = app[e], UNCHANGED <<want, paid>>,
           hurt'[e] = hurt[e], crossed \subseteq crossed', faults \subseteq faults',
           sales \subseteq sales', claims \subseteq claims', spends \subseteq spends',
           app[e].pc = "record" => \A r \in Rows' \ Rows : r.tx # TxOf(e),
           app[e].pc = "signPasskey" =>
              \A x \in pending' \ pending :
                 x.tx = app[e].tx /\ x.nonce = app[e].nonce => x.ctx = want[e] \/ e \in crossed'
    PROVE  DeviceOk(e)'
  <1>1. DeviceOk(e) /\ want' = want /\ paid' = paid
    BY DEF RelayInv
  <1>2. TxOf(e)' = TxOf(e) /\ PaidBy(e)' = PaidBy(e) /\ \A i : IsLast(e, i)' = IsLast(e, i)
    BY <1>1 DEF TxOf, PaidBy, IsLast
  <1>3. Counted(e)'
    BY <1>1, <1>2 DEF DeviceOk, Counted
  <1>4. Priced(e)'
    BY <1>1 DEF DeviceOk, Priced
  <1>5. InContext(e)'
    <2>1. InContext(e)
      BY <1>1 DEF DeviceOk
    <2>2. Fits(e, Context(e))'
      BY <1>1, <2>1 DEF InContext, Fits, Context
    <2>3. ASSUME app[e].pc = "signPasskey", NEW x \in pending', x.tx = app[e].tx, x.nonce = app[e].nonce
          PROVE  x.ctx = want[e] \/ e \in crossed'
      <3>1. CASE x \in pending
        BY <2>1, <2>3, <3>1 DEF InContext, Entries
      <3>2. CASE x \notin pending
        BY <2>3, <3>2
      <3>3. QED
        BY <3>1, <3>2
    <2>4. QED
      BY <1>1, <2>1, <2>2, <2>3 DEF InContext, Entries
  <1>6. Booked(e)'
    <2>1. Booked(e)
      BY <1>1 DEF DeviceOk
    <2>2. app'[e].pc \in Recording => \E i \in DOMAIN paid' : IsLast(e, i)'
      BY <1>1, <1>2, <2>1 DEF Booked
    <2>3. app'[e].pc = "record" => \A r \in (sales \cup claims)' : r.tx # TxOf(e)'
      BY <1>2, <2>1 DEF Booked, Rows
    <2>4. app'[e].pc \in {"spend", "paid"} /\ e \notin crossed' /\ "db" \notin faults' =>
             LET row == [tx |-> TxOf(e)', pay |-> want'[e]] IN
             /\ want'[e].kind = "sale" => row \in sales'
             /\ want'[e].kind = "send" => row \in claims'
             /\ app'[e].pc = "paid" => TxOf(e)' \in spends'
      BY <1>1, <1>2, <2>1 DEF Booked
    <2>5. QED
      BY <2>2, <2>3, <2>4 DEF Booked
  <1>7. QED
    BY <1>3, <1>4, <1>5, <1>6 DEF DeviceOk

\* The rows and the payments they stand for are untouched.
LEMMA RowsStill ==
    ASSUME RelayInv, UNCHANGED <<want, paid, sales, claims>>, crossed \subseteq crossed'
    PROVE  /\ \A i \in DOMAIN paid' : PaidOk(i)'
           /\ \A r \in Rows' : RowOk(r)'
           /\ \A r, q \in Rows' : r.tx = q.tx => r = q
  <1>1. /\ \A i \in DOMAIN paid : PaidOk(i)
        /\ \A r \in Rows : RowOk(r)
        /\ \A r, q \in Rows : r.tx = q.tx => r = q
        /\ want' = want /\ paid' = paid /\ Rows' = Rows
    BY DEF RelayInv, Rows
  <1>2. \A i \in DOMAIN paid : PaidOk(i)'
    BY <1>1 DEF PaidOk
  <1>3. \A r \in Rows : RowOk(r)'
    BY <1>1 DEF RowOk
  <1>4. QED
    BY <1>1, <1>2, <1>3

\* A device that neither pays nor records moves on to a.
LEMMA MoveKept ==
    ASSUME RelayInv, NEW d \in Devices, NEW a, Fields(a) = a, app' = [app EXCEPT ![d] = a],
           app[d].pc \notin Recording, a.pc \notin Recording, a.amount \in Nat, a.shown \in Nat,
           UNCHANGED <<want, price, paid, hurt, sales, claims, spends>>,
           crossed \subseteq crossed', faults \subseteq faults',
           \A x \in pending' : PendingOk(x),
           \A e \in Devices \ {d} : app[e].pc = "signPasskey" =>
              \A x \in pending' \ pending :
                 x.tx = app[e].tx /\ x.nonce = app[e].nonce => x.ctx = want[e] \/ e \in crossed',
           Priced(d)', InContext(d)'
    PROVE  RelayInv'
  <1>1. RelayType /\ Shape
    BY DEF RelayInv
  <1>2. /\ Shape' /\ app'[d] = a
        /\ \A e \in Devices : e # d => app'[e] = app[e]
    BY <1>1, DeviceMoves
  <1>3. RelayType'
    <2>1. \A e \in Devices : app'[e].amount \in Nat /\ app'[e].shown \in Nat
      BY <1>1, <1>2 DEF RelayType
    <2>2. QED
      BY <1>1, <2>1 DEF RelayType
  <1>4. \A e \in Devices \ {d} : DeviceOk(e)'
    <2> SUFFICES ASSUME NEW e \in Devices \ {d} PROVE DeviceOk(e)'
      OBVIOUS
    <2>1. app'[e] = app[e] /\ hurt'[e] = hurt[e] /\ Rows' = Rows
      BY <1>2 DEF Rows
    <2>2. QED
      BY <2>1, OtherKept
  <1>5. DeviceOk(d)'
    <2>1. DeviceOk(d) /\ PaidBy(d)' = PaidBy(d)
      BY DEF RelayInv, PaidBy
    <2>2. Counted(d)'
      BY <1>2, <2>1 DEF DeviceOk, Counted
    <2>3. Booked(d)'
      BY <1>2 DEF Booked, Recording
    <2>4. QED
      BY <2>2, <2>3 DEF DeviceOk
  <1>6. /\ \A i \in DOMAIN paid' : PaidOk(i)'
        /\ \A r \in Rows' : RowOk(r)'
        /\ \A r, q \in Rows' : r.tx = q.tx => r = q
    BY RowsStill
  <1>7. \A x \in pending' : PendingOk(x)'
    BY DEF PendingOk, Destination
  <1>8. QED
    BY <1>2, <1>3, <1>4, <1>5, <1>6, <1>7 DEF RelayInv

\* The same, for a device that goes on with what it had, or starts anew.
LEMMA PlainMove ==
    ASSUME RelayInv, NEW d \in Devices, NEW a, Fields(a) = a, app' = [app EXCEPT ![d] = a],
           app[d].pc \notin Recording, a.pc \notin Recording \cup {"signPasskey"},
           a.amount \in Nat, a.shown \in Nat, a.ctx \in {<<>>, app[d].ctx},
           UNCHANGED <<want, price, paid, hurt, sales, claims, spends, crossed>>,
           faults \subseteq faults', pending' \subseteq pending, Priced(d)'
    PROVE  RelayInv'
  <1>1. app'[d] = a
    BY DeviceMoves DEF RelayInv
  <1>2. InContext(d)'
    <2>1. Fits(d, Context(d)) /\ want[d] \in Payments
      BY DEF RelayInv, DeviceOk, InContext, RelayType
    <2>2. Context(d)' \in {want[d], Context(d)}
      BY <1>1 DEF Context
    <2>3. QED
      BY <1>1, <2>1, <2>2 DEF InContext, Fits
  <1>3. \A x \in pending' : PendingOk(x)
    BY DEF RelayInv
  <1>4. QED
    BY <1>2, <1>3, MoveKept

LEMMA FailKept ==
    ASSUME RelayInv, NEW d \in Devices, Fail(d), app[d].pc \notin Recording,
           UNCHANGED <<want, price, paid, hurt, sales, claims, spends, crossed>>,
           faults \subseteq faults', pending' \subseteq pending
    PROVE  RelayInv'
  <1>1. app' = [app EXCEPT ![d] = Idle]
    BY DEF Fail
  <1>2. app'[d] = Idle
    BY <1>1, IdleFields, DeviceMoves DEF RelayInv
  <1>3. Priced(d)'
    BY <1>2, IdleFields DEF Priced, Bound
  <1>4. PICK a : /\ a = Idle /\ Fields(a) = a /\ a.pc = "idle" /\ a.amount = 0 /\ a.shown = 0
                 /\ a.ctx = <<>>
    BY IdleFields
  <1>5. a.pc \notin Recording \cup {"signPasskey"} /\ a.amount \in Nat /\ a.shown \in Nat
        /\ a.ctx \in {<<>>, app[d].ctx} /\ app' = [app EXCEPT ![d] = a]
    BY <1>1, <1>4 DEF Recording
  <1>6. QED
    BY <1>3, <1>4, <1>5, PlainMove

\* A device goes on to p with what it had.
LEMMA GotoKept ==
    ASSUME RelayInv, NEW d \in Devices, NEW p, Goto(d, p), app[d].pc \notin Recording,
           p \notin Recording \cup {"signPasskey"},
           UNCHANGED <<want, price, paid, hurt, sales, claims, spends, crossed>>,
           faults \subseteq faults', pending' \subseteq pending,
           p \in Bound => app[d].pc \in Bound,
           want[d].kind = "send" =>
              /\ p \notin {"startPrepare", "startInsert", "prepare"}
              /\ p \in {"startSign", "startRelay"} => app[d].tx.op = "remove"
    PROVE  RelayInv'
  <1>1. PICK a : /\ app' = [app EXCEPT ![d] = a] /\ Fields(a) = a
                 /\ a.pc = p /\ a.tx = app[d].tx /\ a.amount = app[d].amount
                 /\ a.shown = app[d].shown /\ a.ctx = app[d].ctx
    <2>1. Shape
      BY DEF RelayInv
    <2>2. QED
      BY <2>1, AtPc
  <1>2. app'[d] = a /\ app[d].amount \in Nat /\ app[d].shown \in Nat
    BY <1>1, DeviceMoves DEF RelayInv, RelayType
  <1>3. Priced(d)
    BY DEF RelayInv, DeviceOk
  <1>4. Priced(d)'
    BY <1>1, <1>2, <1>3 DEF Priced, Bound
  <1>5. QED
    BY <1>1, <1>2, <1>4, PlainMove
(***************************************************************************)
(* Sessions.                                                               *)
(***************************************************************************)

LEMMA ConfirmKept ==
    ASSUME RelayInv, NEW d \in Devices, Confirm(d)
    PROVE  RelayInv'
  <1> DEFINE start == UsesSession(d) /\ (ActiveKey = NoKey \/ StoredKey(d) = NoKey)
  <1>a. want[d].kind = "send" => ~start
    BY DEF UsesSession
  <1>b. app' = [app EXCEPT ![d] =
           [Idle EXCEPT !.shown = Quote(want[d]),
                        !.pc = IF start THEN "startPrepare" ELSE "prepare",
                        !.key = IF start THEN CHOOSE k \in FreshKeys : TRUE ELSE NoKey]]
    BY DEF Confirm
  <1> HIDE DEF start
  <1>c. PICK p : p = IF start THEN "startPrepare" ELSE "prepare"
    OBVIOUS
  <1>d. PICK k : k = IF start THEN CHOOSE f \in FreshKeys : TRUE ELSE NoKey
    OBVIOUS
  <1>1. p \in {"startPrepare", "prepare"} /\ (want[d].kind = "send" => p = "prepare")
    BY <1>a, <1>c
  <1>2. PICK q : q = Quote(want[d])
    OBVIOUS
  <1>3. PICK a : a = [Idle EXCEPT !.shown = q, !.pc = p, !.key = k]
    OBVIOUS
  <1>4. a = [pc |-> p, key |-> k, tx |-> <<>>, nonce |-> 0, amount |-> 0,
             deadline |-> 0, shown |-> q, ctx |-> <<>>]
    BY <1>3 DEF Idle
  <1>5. Fields(a) = a /\ a.pc = p /\ a.shown = q /\ a.amount = 0 /\ a.ctx = <<>>
    BY <1>4 DEF Fields
  <1>6. RelayType /\ app[d].pc = "idle"
    BY DEF RelayInv, Confirm, At
  <1>7. q \in Nat /\ (want[d].kind = "send" => q = 1)
    BY <1>2, <1>6, WantType
  <1>8. app' = [app EXCEPT ![d] = a]
    BY <1>b, <1>c, <1>d, <1>2, <1>3
  <1>9. app'[d] = a /\ want' = want
    BY <1>5, <1>8, DeviceMoves DEF RelayInv, Confirm
  <1>10. Priced(d)'
    BY <1>1, <1>5, <1>7, <1>9 DEF Priced, Bound
  <1>11. UNCHANGED <<want, price, paid, hurt, sales, claims, spends, crossed>>
         /\ faults' = faults /\ pending' = pending
    BY DEF Confirm, chain, tables, memory
  <1>12. a.pc \notin Recording \cup {"signPasskey"} /\ a.amount \in Nat /\ a.shown \in Nat
         /\ a.ctx \in {<<>>, app[d].ctx} /\ app[d].pc \notin Recording
    BY <1>1, <1>5, <1>6, <1>7 DEF Recording
  <1>13. faults \subseteq faults' /\ pending' \subseteq pending
    BY <1>11
  <1>14. QED
    BY <1>5, <1>8, <1>10, <1>11, <1>12, <1>13, PlainMove

\* An entry that is not for a payment matters to no payment.
LEMMA PutSetup ==
    ASSUME RelayInv, NEW tx, tx.op # "pay", NEW n, NEW c, Put(tx, n, c)
    PROVE  /\ \A x \in pending' : PendingOk(x)
           /\ \A e \in Devices : app[e].pc = "signPasskey" =>
                 \A x \in pending' \ pending : x.tx # app[e].tx
  <1>1. PICK y : y = [tx |-> tx, nonce |-> n, ctx |-> c]
    OBVIOUS
  <1>2. y.tx = tx
    BY <1>1
  <1>3. \A x \in pending' : x \in pending \/ x = y
    BY <1>1 DEF Put
  <1>4. \A x \in pending : PendingOk(x)
    BY DEF RelayInv
  <1>5. PendingOk(y)
    BY <1>2 DEF PendingOk
  <1>6. \A e \in Devices : app[e].pc = "signPasskey" => app[e].tx.op = "pay"
    BY TxFields DEF RelayInv, DeviceOk, InContext
  <1>7. QED
    BY <1>2, <1>3, <1>4, <1>5, <1>6

\* The move of a device that prepares a setup transaction.
LEMMA SetupKept ==
    ASSUME RelayInv, NEW d \in Devices, NEW tx, tx.op # "pay", SetsUp(d, "startSign", tx, safeNonce),
           Put(tx, safeNonce, <<>>), app[d].pc \notin Recording,
           want[d].kind = "send" => tx.op = "remove",
           UNCHANGED <<want, price, paid, hurt, sales, claims, spends, crossed>>,
           faults \subseteq faults'
    PROVE  RelayInv'
  <1>1. Shape /\ app[d].amount \in Nat /\ app[d].shown \in Nat
    BY DEF RelayInv, RelayType
  <1>2. PICK a : /\ app' = [app EXCEPT ![d] = a] /\ Fields(a) = a
                 /\ a.pc = "startSign" /\ a.tx = tx /\ a.amount = app[d].amount
                 /\ a.shown = app[d].shown /\ a.ctx = app[d].ctx
    BY <1>1, AtTx
  <1>3. app'[d] = a
    BY <1>1, <1>2, DeviceMoves
  <1>4. Priced(d)'
    BY <1>2, <1>3 DEF Priced, Bound
  <1>5. InContext(d)'
    <2>1. Fits(d, Context(d))
      BY DEF RelayInv, DeviceOk, InContext
    <2>2. Context(d)' = Context(d)
      BY <1>2, <1>3 DEF Context
    <2>3. QED
      BY <1>2, <1>3, <2>1, <2>2 DEF InContext, Fits
  <1>6. a.pc \notin Recording /\ crossed \subseteq crossed'
    BY <1>2 DEF Recording
  <1>7. QED
    BY <1>1, <1>2, <1>4, <1>5, <1>6, PutSetup, MoveKept

LEMMA StartPrepareKept ==
    ASSUME RelayInv, NEW d \in Devices, StartPrepare(d)
    PROVE  RelayInv'
  <1>1. PICK tx : tx = SetupTx(d)
    OBVIOUS
  <1>2. tx.op # "pay"
    BY <1>1, TxFields DEF SetupTx
  <1>3. app[d].pc = "startPrepare" /\ want[d].kind # "send"
    BY DEF StartPrepare, At, RelayInv, DeviceOk, Priced
  <1>4. SetsUp(d, "startSign", tx, safeNonce) /\ Put(tx, safeNonce, <<>>)
    BY <1>1 DEF StartPrepare, SetsUp
  <1>5. UNCHANGED <<want, price, paid, hurt, sales, claims, spends, crossed>> /\ faults' = faults
    BY DEF StartPrepare, chain, tables, world
  <1>6. app[d].pc \notin Recording /\ faults \subseteq faults'
    BY <1>3, <1>5 DEF Recording
  <1>7. QED
    BY <1>2, <1>3, <1>4, <1>5, <1>6, SetupKept

LEMMA RevokePrepareKept ==
    ASSUME RelayInv, NEW d \in Devices, RevokePrepare(d)
    PROVE  RelayInv'
  <1>1. PICK tx : tx = Tx("remove", stored[d], 0)
    OBVIOUS
  <1>2. tx.op = "remove"
    BY <1>1, TxFields
  <1>3. app[d].pc = "idle"
    BY DEF RevokePrepare, At
  <1>4. SetsUp(d, "startSign", tx, safeNonce) /\ Put(tx, safeNonce, <<>>)
    BY <1>1 DEF RevokePrepare, SetsUp
  <1>5. UNCHANGED <<want, price, paid, hurt, sales, claims, spends, crossed>>
    BY DEF RevokePrepare, chain, tables, world
  <1>6. app[d].pc \notin Recording /\ faults \subseteq faults'
    BY <1>3 DEF Recording, RevokePrepare, Fault
  <1>7. tx.op # "pay"
    BY <1>2
  <1>8. QED
    BY <1>2, <1>4, <1>5, <1>6, <1>7, SetupKept

LEMMA StartSubmitKept ==
    ASSUME RelayInv, NEW d \in Devices, StartSubmit(d)
    PROVE  RelayInv'
  <1>1. app[d].pc = "startSign" /\ (want[d].kind = "send" => app[d].tx.op = "remove")
    BY DEF StartSubmit, At, RelayInv, DeviceOk, Priced
  <1>2. /\ UNCHANGED <<want, price, paid, hurt, sales, claims, spends, crossed>>
        /\ faults \subseteq faults' /\ pending' \subseteq pending
    BY DEF StartSubmit, chain, tables, world, memory
  <1>3. app[d].pc \notin Recording
    BY <1>1 DEF Recording
  <1>4. Fail(d) \/ Goto(d, "startRelay")
    BY DEF StartSubmit
  <1>5. "startRelay" \notin Recording \cup {"signPasskey"} /\ "startRelay" \notin Bound
    BY DEF Recording, Bound
  <1>6. QED
    BY <1>1, <1>2, <1>3, <1>4, <1>5, FailKept, GotoKept

LEMMA StartRelayKept ==
    ASSUME RelayInv, NEW d \in Devices, StartRelay(d)
    PROVE  RelayInv'
  <1>1. app[d].pc = "startRelay" /\ (want[d].kind = "send" => app[d].tx.op = "remove")
    BY DEF StartRelay, At, RelayInv, DeviceOk, Priced
  <1>2. app[d].pc \notin Recording
    BY <1>1 DEF Recording
  <1>3. /\ UNCHANGED <<want, price, paid, hurt, sales, claims, spends, crossed>>
        /\ faults \subseteq faults' /\ pending' \subseteq pending
    BY DEF StartRelay, chain, tables, world, ExecSetup, Drop, Fault
  <1>4. \/ Fail(d)
        \/ app[d].tx.op = "enable" /\ Goto(d, "startPrepare")
        \/ app[d].tx.op = "add" /\ Goto(d, "startInsert")
        \/ app[d].tx.op = "remove" /\ Goto(d, "revokeMark")
    BY DEF StartRelay
  <1>5. \A p \in {"startPrepare", "startInsert", "revokeMark"} :
           p \notin Recording \cup {"signPasskey"} /\ p \notin Bound
    BY DEF Recording, Bound
  <1>6. ASSUME NEW p \in {"startPrepare", "startInsert", "revokeMark"}, Goto(d, p),
               want[d].kind = "send" => p = "revokeMark"
        PROVE  RelayInv'
    BY <1>2, <1>3, <1>5, <1>6, GotoKept
  <1>7. QED
    BY <1>1, <1>2, <1>3, <1>4, <1>6, FailKept

LEMMA StartInsertKept ==
    ASSUME RelayInv, NEW d \in Devices, StartInsert(d)
    PROVE  RelayInv'
  <1>1. app[d].pc = "startInsert" /\ want[d].kind # "send"
    BY DEF StartInsert, At, RelayInv, DeviceOk, Priced
  <1>2. app[d].pc \notin Recording
    BY <1>1 DEF Recording
  <1>3. /\ UNCHANGED <<want, price, paid, hurt, sales, claims, spends, crossed>>
        /\ faults \subseteq faults' /\ pending' \subseteq pending
    BY DEF StartInsert, chain, tables, world, Drop, Fault
  <1>4. Fail(d) \/ Goto(d, "prepare")
    BY DEF StartInsert
  <1>5. "prepare" \notin Recording \cup {"signPasskey"} /\ "prepare" \notin Bound
    BY DEF Recording, Bound
  <1>6. QED
    BY <1>1, <1>2, <1>3, <1>4, <1>5, FailKept, GotoKept

LEMMA RevokeMarkKept ==
    ASSUME RelayInv, NEW d \in Devices, RevokeMark(d)
    PROVE  RelayInv'
  <1>1. app[d].pc \notin Recording
    BY DEF RevokeMark, At, Recording
  <1>2. /\ UNCHANGED <<want, price, paid, hurt, sales, claims, spends, crossed>>
        /\ faults \subseteq faults' /\ pending' \subseteq pending
    BY DEF RevokeMark, chain, tables, world, Drop
  <1>3. QED
    BY <1>1, <1>2, FailKept DEF RevokeMark

\* Refusals and relays that throw.
LEMMA RefuseKept ==
    ASSUME RelayInv, NEW d \in Devices, Refuse(d) \/ RelayThrows(d)
    PROVE  RelayInv'
  <1>1. app[d].pc \notin Recording /\ Fail(d)
    BY DEF Refuse, RelayThrows, Recording
  <1>2. /\ UNCHANGED <<want, price, paid, hurt, sales, claims, spends, crossed>>
        /\ faults \subseteq faults' /\ pending' \subseteq pending
    BY DEF Refuse, RelayThrows, chain, tables, world, memory, Fault
  <1>3. QED
    BY <1>1, <1>2, FailKept

(***************************************************************************)
(* Preparing and signing.                                                  *)
(***************************************************************************)

\* A payment's Safe transaction is held.
LEMMA HoldKept ==
    ASSUME RelayInv, NEW d \in Devices, app[d].pc = "prepare", HoldSafeTx(d),
           Gap(Quote(want[d]), app[d].shown) <= Tolerance,
           UNCHANGED <<want, price, paid, hurt, sales, claims, spends, faults>>
    PROVE  RelayInv'
  <1>1. Shape /\ app[d].shown \in Nat /\ want[d] \in Payments /\ Quote(want[d]) \in Nat
    BY WantType DEF RelayInv, RelayType
  <1>2. PICK tx : tx = PayTx(d)
    OBVIOUS
  <1>3. PICK m : m = tx.amount
    OBVIOUS
  <1>4. /\ tx = Tx("pay", Destination(want[d]), m) /\ m = Quote(want[d])
        /\ tx.op = "pay" /\ tx.arg = Destination(want[d])
    BY <1>2, <1>3, TxFields DEF PayTx
  <1>5. Prepares(d, "signPasskey", tx, safeNonce, m)
    BY <1>2, <1>3 DEF HoldSafeTx, Prepares
  <1>6. PICK a : /\ app' = [app EXCEPT ![d] = a] /\ Fields(a) = a
                 /\ a.pc = "signPasskey" /\ a.tx = tx /\ a.amount = m
                 /\ a.shown = app[d].shown /\ a.ctx = app[d].ctx /\ a.nonce = safeNonce
    BY <1>1, <1>5, AtHold
  <1>7. app'[d] = a
    BY <1>1, <1>6, DeviceMoves
  <1>8. PICK y : y = [tx |-> tx, nonce |-> safeNonce, ctx |-> want[d]]
    OBVIOUS
  <1>9. y.tx = tx /\ y.nonce = safeNonce /\ y.ctx = want[d]
    BY <1>8
  <1>10. \A x \in pending' : x = y \/ (x \in pending /\ ~(x.tx = tx /\ x.nonce = safeNonce))
    BY <1>2, <1>8 DEF HoldSafeTx, Put, Entries
  <1>11. /\ crossed \subseteq crossed'
         /\ \A e \in Devices \ {d} : app[e].tx = tx /\ app[e].nonce = safeNonce => e \in crossed'
    BY <1>2 DEF HoldSafeTx
  <1>12. \A x \in pending' : PendingOk(x)
    BY <1>1, <1>4, <1>9, <1>10 DEF RelayInv, PendingOk
  <1>13. Priced(d)'
    BY <1>4, <1>6, <1>7 DEF Priced, Bound
  <1>14. InContext(d)'
    <2>1. Fits(d, Context(d))
      BY DEF RelayInv, DeviceOk, InContext
    <2>2. Context(d)' = Context(d) /\ Destination(want[d])' = Destination(want[d])
      BY <1>6, <1>7 DEF Context, Destination
    <2>3. Fits(d, Context(d))'
      BY <1>11, <2>1, <2>2 DEF Fits, Destination
    <2>4. \A x \in pending' : x.tx = tx /\ x.nonce = safeNonce => x.ctx = want[d]
      BY <1>9, <1>10
    <2>5. app'[d].tx = tx /\ app'[d].nonce = safeNonce /\ app'[d].amount = m /\ want' = want
      BY <1>6, <1>7
    <2>6. (\A e \in Entries(app[d].tx, app[d].nonce) : e.ctx = want[d] \/ d \in crossed)'
      BY <2>4, <2>5 DEF Entries
    <2>7. (app[d].tx = Tx("pay", Destination(want[d]), app[d].amount))'
      BY <1>4, <2>2, <2>5 DEF Destination, Tx
    <2>8. QED
      BY <2>3, <2>6, <2>7 DEF InContext
  <1>15. \A e \in Devices \ {d} : app[e].pc = "signPasskey" =>
            \A x \in pending' \ pending :
               x.tx = app[e].tx /\ x.nonce = app[e].nonce => x.ctx = want[e] \/ e \in crossed'
    BY <1>9, <1>10, <1>11
  <1>16. /\ app[d].pc \notin Recording /\ a.pc \notin Recording /\ a.amount \in Nat /\ a.shown \in Nat
         /\ faults \subseteq faults'
    BY <1>1, <1>4, <1>6 DEF Recording
  <1>17. QED
    BY <1>6, <1>11, <1>12, <1>13, <1>14, <1>15, <1>16, MoveKept

\* A digest for the session's key is held.
LEMMA DigestKept ==
    ASSUME RelayInv, NEW d \in Devices, app[d].pc = "prepare", want[d].kind # "send", HoldDigest(d),
           Gap(Quote(want[d]), app[d].shown) <= Tolerance,
           UNCHANGED <<want, price, paid, hurt, sales, claims, spends, faults>>
    PROVE  RelayInv'
  <1>1. Shape /\ app[d].shown \in Nat /\ Quote(want[d]) \in Nat
    BY WantType DEF RelayInv, RelayType
  <1>2. PICK k, m, n, t : k = ActiveKey /\ m = Quote(want[d]) /\ n = sessions[ActiveKey].nonce
                          /\ t = now + Patience
    OBVIOUS
  <1>3. Digests(d, "signSession", k, m, n, t)
    BY <1>2 DEF HoldDigest, Digests
  <1>4. PICK a : /\ app' = [app EXCEPT ![d] = a] /\ Fields(a) = a
                 /\ a.pc = "signSession" /\ a.tx = app[d].tx /\ a.amount = m
                 /\ a.shown = app[d].shown /\ a.ctx = app[d].ctx
    BY <1>1, <1>3, AtDigest
  <1>5. app'[d] = a
    BY <1>1, <1>4, DeviceMoves
  <1>6. Priced(d)'
    BY <1>2, <1>4, <1>5 DEF Priced, Bound
  <1>7. /\ app[d].pc \notin Recording /\ a.pc \notin Recording \cup {"signPasskey"}
        /\ a.amount \in Nat /\ a.shown \in Nat /\ a.ctx \in {<<>>, app[d].ctx}
        /\ faults \subseteq faults' /\ pending' \subseteq pending /\ crossed' = crossed
    BY <1>1, <1>2, <1>4 DEF Recording, HoldDigest
  <1>8. QED
    BY <1>4, <1>6, <1>7, PlainMove

LEMMA PrepareKept ==
    ASSUME RelayInv, NEW d \in Devices, Prepare(d)
    PROVE  RelayInv'
  <1>1. app[d].pc = "prepare" /\ want[d].kind # "send"
    BY DEF Prepare, At
  <1>2. UNCHANGED <<want, price, paid, hurt, sales, claims, spends, faults>>
    BY DEF Prepare, chain, tables, world
  <1>3. CASE Allowed(d) /\ (HoldDigest(d) \/ HoldSafeTx(d))
    <2>1. app[d].shown \in Nat /\ Quote(want[d]) \in Nat
      BY WantType DEF RelayInv, RelayType
    <2>2. Gap(Quote(want[d]), app[d].shown) <= Tolerance
      <3>1. PICK x \in Nat, y \in Nat : x = app[d].shown /\ y = Quote(want[d])
        BY <2>1
      <3>2. IF x > y THEN x - y <= Tolerance ELSE y - x <= Tolerance
        BY <1>3, <3>1 DEF Allowed, QuoteHolds
      <3>3. Gap(y, x) <= Tolerance
        BY <3>2, RelayAssumption DEF Gap
      <3>4. QED
        BY <3>1, <3>3
    <2>3. QED
      BY <1>1, <1>2, <1>3, <2>2, DigestKept, HoldKept
  <1>4. CASE Fail(d) /\ UNCHANGED <<memory, crossed>>
    <2>1. app[d].pc \notin Recording /\ faults \subseteq faults' /\ pending' \subseteq pending
      BY <1>1, <1>2, <1>4 DEF Recording, memory
    <2>2. QED
      BY <1>2, <1>4, <2>1, FailKept
  <1>5. \/ Allowed(d) /\ HoldDigest(d)
        \/ Allowed(d) /\ HoldSafeTx(d)
        \/ Fail(d) /\ UNCHANGED <<memory, crossed>>
    BY DEF Prepare
  <1>6. QED
    BY <1>3, <1>4, <1>5

LEMMA PrepareEscrowKept ==
    ASSUME RelayInv, NEW d \in Devices, PrepareEscrow(d)
    PROVE  RelayInv'
  <1>1. app[d].pc = "prepare" /\ want[d].kind = "send"
    BY DEF PrepareEscrow, At
  <1>2. UNCHANGED <<want, price, paid, hurt, sales, claims, spends, faults>>
    BY DEF PrepareEscrow, chain, tables, world
  <1>3. CASE HoldSafeTx(d)
    <2>1. app[d].shown = 1 /\ Quote(want[d]) = 1
      BY <1>1, WantType DEF RelayInv, DeviceOk, Priced
    <2>2. Gap(1, 1) <= Tolerance
      BY RelayAssumption DEF Gap
    <2>3. Gap(Quote(want[d]), app[d].shown) <= Tolerance
      BY <2>1, <2>2
    <2>4. QED
      BY <1>1, <1>2, <1>3, <2>3, HoldKept
  <1>4. CASE Fail(d) /\ UNCHANGED <<memory, crossed>>
    <2>1. app[d].pc \notin Recording /\ faults \subseteq faults' /\ pending' \subseteq pending
      BY <1>1, <1>2, <1>4 DEF Recording, memory
    <2>2. QED
      BY <1>2, <1>4, <2>1, FailKept
  <1>5. QED
    BY <1>3, <1>4 DEF PrepareEscrow

LEMMA SignSessionKept ==
    ASSUME RelayInv, NEW d \in Devices, SignSession(d)
    PROVE  RelayInv'
  <1>1. app[d].pc = "signSession"
    BY DEF SignSession, At
  <1>2. /\ UNCHANGED <<want, price, paid, hurt, sales, claims, spends, crossed>>
        /\ faults \subseteq faults' /\ pending' \subseteq pending
    BY DEF SignSession, chain, tables, world, memory
  <1>3. Fail(d) \/ Goto(d, "relaySession")
    BY DEF SignSession
  <1>4. /\ app[d].pc \notin Recording /\ app[d].pc \in Bound
        /\ "relaySession" \notin Recording \cup {"signPasskey"}
    BY <1>1 DEF Recording, Bound
  <1>5. QED
    BY <1>2, <1>3, <1>4, FailKept, GotoKept

\* The passkey signs what was prepared; the context is that of the entry found.
LEMMA SignPasskeyKept ==
    ASSUME RelayInv, NEW d \in Devices, SignPasskey(d) \/ SignEscrow(d)
    PROVE  RelayInv'
  <1>1. app[d].pc = "signPasskey"
    BY DEF SignPasskey, SignEscrow, At
  <1>2. /\ UNCHANGED <<want, price, paid, hurt, sales, claims, spends, crossed>>
        /\ faults' = faults /\ pending' = pending
    BY DEF SignPasskey, SignEscrow, chain, tables, world, memory
  <1>3. app[d].pc \notin Recording /\ faults \subseteq faults' /\ pending' \subseteq pending
    BY <1>1, <1>2 DEF Recording
  <1>4. CASE Fail(d)
    BY <1>2, <1>3, <1>4, FailKept
  <1>5. ASSUME NEW e \in Entries(app[d].tx, app[d].nonce), Accept(d, e)
        PROVE  RelayInv'
    <2>1. Shape /\ app[d].amount \in Nat /\ app[d].shown \in Nat /\ want[d] \in Payments
      BY DEF RelayInv, RelayType
    <2>2. PICK a : /\ app' = [app EXCEPT ![d] = a] /\ Fields(a) = a
                   /\ a.pc = "relaySafe" /\ a.tx = app[d].tx /\ a.amount = app[d].amount
                   /\ a.shown = app[d].shown /\ a.ctx = e.ctx
      BY <1>5, <2>1, AtAccept
    <2>3. app'[d] = a
      BY <2>1, <2>2, DeviceMoves
    <2>4. Priced(d)
      BY DEF RelayInv, DeviceOk
    <2>5. Priced(d)'
      BY <1>1, <1>2, <2>2, <2>3, <2>4 DEF Priced, Bound
    <2>6. e \in pending /\ e.tx = app[d].tx /\ PendingOk(e)
      BY <1>5 DEF Entries, RelayInv
    <2>7. /\ app[d].tx = Tx("pay", Destination(want[d]), app[d].amount)
          /\ e.ctx = want[d] \/ d \in crossed
      BY <1>1, <1>5 DEF RelayInv, DeviceOk, InContext
    <2>8. e.tx.op = "pay" /\ e.tx.arg = Destination(want[d])
      BY <2>6, <2>7, TxFields
    <2>9. e.ctx \in Payments /\ Destination(e.ctx) = Destination(want[d])
      BY <2>6, <2>8 DEF PendingOk
    <2>10. Context(d)' \in {want[d], e.ctx}
      BY <1>2, <2>2, <2>3 DEF Context
    <2>11. Fits(d, want[d]) /\ Fits(d, e.ctx)
      BY <2>1, <2>7, <2>9 DEF Fits
    <2>12. Fits(d, Context(d))'
      BY <1>2, <2>10, <2>11 DEF Fits, Destination
    <2>13. InContext(d)'
      BY <2>2, <2>3, <2>12 DEF InContext
    <2>14. /\ a.pc \notin Recording /\ crossed \subseteq crossed'
           /\ \A x \in pending' : PendingOk(x)
      BY <1>2, <2>2 DEF Recording, RelayInv
    <2>15. \A f \in Devices \ {d} : app[f].pc = "signPasskey" =>
              \A x \in pending' \ pending :
                 x.tx = app[f].tx /\ x.nonce = app[f].nonce => x.ctx = want[f] \/ f \in crossed'
      BY <1>2
    <2>16. QED
      BY <1>2, <1>3, <2>1, <2>2, <2>5, <2>13, <2>14, <2>15, MoveKept
  <1>6. QED
    BY <1>4, <1>5 DEF SignPasskey, SignEscrow

(***************************************************************************)
(* Paying.                                                                 *)
(***************************************************************************)

\* What the next payment is.
LEMMA PaymentEntry ==
    ASSUME RelayType, NEW d \in Devices
    PROVE  Payment(d) \in PaidType /\ Payment(d).dev = d /\ Payment(d).pay = want[d]
           /\ Payment(d).amount = app[d].amount /\ Payment(d).shown = app[d].shown
  <1>1. want[d] \in Payments /\ app[d].amount \in Nat /\ app[d].shown \in Nat
    BY DEF RelayType
  <1>2. QED
    BY <1>1 DEF Payment, PaidType

LEMMA Appended ==
    ASSUME RelayType, NEW x \in PaidType, paid' = Append(paid, x)
    PROVE  \E n \in Nat : /\ n = Len(paid) + 1 /\ DOMAIN paid = 1..(n - 1) /\ DOMAIN paid' = 1..n
                          /\ n \notin DOMAIN paid /\ DOMAIN paid' = DOMAIN paid \cup {n}
                          /\ paid' \in Seq(PaidType) /\ paid'[n] = x
                          /\ \A i \in DOMAIN paid : paid'[i] = paid[i] /\ i < n
  <1>1. paid \in Seq(PaidType)
    BY DEF RelayType
  <1>2. PICK l \in Nat : l = Len(paid)
    BY <1>1
  <1>3. PICK n \in Nat : n = l + 1
    BY <1>2
  <1>4. DOMAIN paid = 1..l /\ DOMAIN paid' = 1..n /\ paid' \in Seq(PaidType) /\ paid'[n] = x
        /\ \A i \in 1..l : paid'[i] = paid[i]
    BY <1>1, <1>2, <1>3
  <1>5. 1..n = (1..l) \cup {n} /\ n \notin 1..l /\ (\A i \in 1..l : i < n) /\ n - 1 = l
    BY <1>2, <1>3
  <1>6. QED
    BY <1>2, <1>3, <1>4, <1>5

\* The payments of a device can be counted.
LEMMA PaidByFinite ==
    ASSUME RelayType, NEW d \in Devices
    PROVE  IsFiniteSet(PaidBy(d)) /\ Cardinality(PaidBy(d)) \in Nat /\ hurt[d] \in Nat
  <1>1. Len(paid) \in Nat /\ DOMAIN paid = 1..Len(paid) /\ hurt[d] \in Nat
    BY SMTT(60) DEF RelayType
  <1>2. PICK l \in Nat : l = Len(paid)
    BY <1>1
  <1>3. IsFiniteSet(1..l)
    BY <1>2, FS_Interval
  <1>4. PaidBy(d) \subseteq 1..l
    BY <1>1, <1>2 DEF PaidBy
  <1>5. IsFiniteSet(PaidBy(d))
    BY <1>3, <1>4, FS_Subset
  <1>6. QED
    BY <1>1, <1>5, FS_CardinalityType

\* Another device's payment changes nothing for device e.
LEMMA OtherMined ==
    ASSUME RelayInv, NEW x \in PaidType, paid' = Append(paid, x), NEW e \in Devices, x.dev # e,
           app'[e] = app[e], hurt'[e] = hurt[e],
           UNCHANGED <<want, pending, sales, claims, spends, crossed>>, faults \subseteq faults'
    PROVE  DeviceOk(e)'
  <1>1. DeviceOk(e) /\ RelayType
    BY DEF RelayInv
  <1>2. PICK n \in Nat : /\ n \notin DOMAIN paid /\ DOMAIN paid' = DOMAIN paid \cup {n}
                         /\ paid'[n] = x /\ \A i \in DOMAIN paid : paid'[i] = paid[i]
    BY <1>1, Appended
  <1>3. PaidBy(e)' = PaidBy(e)
    BY <1>2 DEF PaidBy
  <1>4. \A i : IsLast(e, i)' <=> IsLast(e, i)
    BY <1>2 DEF IsLast
  <1>5. TxOf(e)' = TxOf(e)
    <2>1. \A i : (i \in DOMAIN paid' /\ paid'[i].dev = e /\ \A j \in DOMAIN paid' : paid'[j].dev = e => j <= i)
                 <=> (i \in DOMAIN paid /\ paid[i].dev = e /\ \A j \in DOMAIN paid : paid[j].dev = e => j <= i)
      BY <1>4 DEF IsLast
    <2>2. TxOf(e) = CHOOSE i : i \in DOMAIN paid /\ paid[i].dev = e
                               /\ \A j \in DOMAIN paid : paid[j].dev = e => j <= i
      BY Zenon DEF TxOf
    <2>3. TxOf(e)' = CHOOSE i : i \in DOMAIN paid' /\ paid'[i].dev = e
                               /\ \A j \in DOMAIN paid' : paid'[j].dev = e => j <= i
      BY Zenon DEF TxOf
    <2>4. QED
      BY <2>1, <2>2, <2>3
  <1>6. Counted(e)'
    BY <1>1, <1>3 DEF DeviceOk, Counted
  <1>7. Priced(e)'
    BY <1>1 DEF DeviceOk, Priced
  <1>8. InContext(e)'
    BY <1>1 DEF DeviceOk, InContext, Fits, Context, Entries, Destination
  <1>9. Booked(e)'
    <2>1. Booked(e)
      BY <1>1 DEF DeviceOk
    <2>2. app'[e].pc \in Recording => \E i \in DOMAIN paid' : IsLast(e, i)'
      BY <1>2, <1>4, <2>1 DEF Booked
    <2>3. app'[e].pc = "record" => \A r \in (sales \cup claims)' : r.tx # TxOf(e)'
      BY <1>5, <2>1 DEF Booked
    <2>4. app'[e].pc \in {"spend", "paid"} /\ e \notin crossed' /\ "db" \notin faults' =>
             LET row == [tx |-> TxOf(e)', pay |-> want'[e]] IN
             /\ want'[e].kind = "sale" => row \in sales'
             /\ want'[e].kind = "send" => row \in claims'
             /\ app'[e].pc = "paid" => TxOf(e)' \in spends'
      BY <1>5, <2>1 DEF Booked
    <2>5. QED
      BY <2>2, <2>3, <2>4 DEF Booked
  <1>10. QED
    BY <1>6, <1>7, <1>8, <1>9 DEF DeviceOk

\* A payment is mined: the handler goes on to record it, or its answer is lost.
LEMMA MinedKept ==
    ASSUME RelayInv, NEW d \in Devices, app[d].pc \in {"relaySafe", "relaySession"}, Mined(d),
           UNCHANGED <<want, price, pending, sales, claims, spends, crossed>>
    PROVE  RelayInv'
  <1>1. RelayType /\ Shape /\ DeviceOk(d)
    BY DEF RelayInv
  <1>2. PICK x : x = Payment(d)
    OBVIOUS
  <1>3. /\ x \in PaidType /\ x.dev = d /\ x.pay = want[d]
        /\ x.amount = app[d].amount /\ x.shown = app[d].shown
    BY <1>1, <1>2, PaymentEntry
  <1>4. paid' = Append(paid, x) /\ faults \subseteq faults'
    BY <1>2 DEF Mined, Fault
  <1>5. PICK n \in Nat : /\ n \notin DOMAIN paid /\ DOMAIN paid' = DOMAIN paid \cup {n}
                         /\ paid'[n] = x /\ paid' \in Seq(PaidType)
                         /\ \A i \in DOMAIN paid : paid'[i] = paid[i] /\ i < n
    BY <1>1, <1>3, <1>4, Appended
  <1>6. PICK a, h : /\ app' = [app EXCEPT ![d] = a] /\ Fields(a) = a
                    /\ hurt' = [hurt EXCEPT ![d] = h]
                    /\ a.amount \in Nat /\ a.shown \in Nat /\ a.ctx \in {<<>>, app[d].ctx}
                    /\ \/ a.pc = "record" /\ h = hurt[d]
                       \/ a.pc = "idle" /\ h = hurt[d] + 1
    <2>1. app[d].amount \in Nat /\ app[d].shown \in Nat /\ hurt \in [Devices -> Nat]
      BY <1>1 DEF RelayType
    <2>2. CASE Goto(d, "record") /\ UNCHANGED <<hurt, faults>>
      <3>1. PICK a : /\ app' = [app EXCEPT ![d] = a] /\ Fields(a) = a
                     /\ a.pc = "record" /\ a.amount = app[d].amount
                     /\ a.shown = app[d].shown /\ a.ctx = app[d].ctx
        BY <1>1, <2>2, AtPc
      <3>2. hurt' = [hurt EXCEPT ![d] = hurt[d]]
        BY <2>1, <2>2
      <3>3. QED
        BY <2>1, <3>1, <3>2
    <2>3. CASE Fault("lost") /\ Fail(d) /\ Hurt(d)
      <3>1. PICK a : /\ a = Idle /\ Fields(a) = a /\ a.pc = "idle" /\ a.amount = 0 /\ a.shown = 0
                     /\ a.ctx = <<>>
        BY IdleFields
      <3>2. PICK h : h = hurt[d] + 1
        OBVIOUS
      <3>3. app' = [app EXCEPT ![d] = a]
        BY <2>3, <3>1 DEF Fail
      <3>4. hurt' = [hurt EXCEPT ![d] = h]
        BY <2>3, <3>2 DEF Hurt
      <3>5. a.amount \in Nat /\ a.shown \in Nat /\ a.ctx \in {<<>>, app[d].ctx} /\ Fields(a) = a
        BY <3>1
      <3>6. QED
        BY <3>1, <3>2, <3>3, <3>4, <3>5
    <2>4. QED
      BY <2>2, <2>3 DEF Mined
  <1>7. /\ Shape' /\ app'[d] = a
        /\ \A e \in Devices : e # d => app'[e] = app[e]
    BY <1>1, <1>6, DeviceMoves
  <1>8. /\ hurt[d] \in Nat /\ h \in Nat /\ hurt' \in [Devices -> Nat] /\ hurt'[d] = h
        /\ \A e \in Devices : e # d => hurt'[e] = hurt[e]
    BY <1>1, <1>6 DEF RelayType
  <1>9. RelayType'
    <2>1. \A e \in Devices : app'[e].amount \in Nat /\ app'[e].shown \in Nat
      BY <1>1, <1>6, <1>7 DEF RelayType
    <2>2. QED
      BY <1>1, <1>5, <1>8, <2>1 DEF RelayType
  <1>10. \A e \in Devices \ {d} : DeviceOk(e)'
    BY <1>3, <1>4, <1>7, <1>8, OtherMined
  <1>11. \A i \in DOMAIN paid' : PaidOk(i)'
    <2>1. Gap(app[d].amount, app[d].shown) <= Tolerance
      BY <1>1 DEF DeviceOk, Priced, Bound
    <2>2. PaidOk(n)'
      BY <1>3, <1>5, <2>1 DEF PaidOk
    <2>3. \A i \in DOMAIN paid : PaidOk(i)'
      BY <1>5 DEF RelayInv, PaidOk
    <2>4. QED
      BY <1>5, <2>2, <2>3
  <1>12. /\ \A r \in Rows' : RowOk(r)' /\ r.tx \in DOMAIN paid
         /\ \A r, q \in Rows' : r.tx = q.tx => r = q
    <2>1. Rows' = Rows /\ \A r \in Rows : RowOk(r)
      BY DEF Rows, RelayInv
    <2>2. \A r \in Rows : RowOk(r)' /\ r.tx \in DOMAIN paid
      BY <1>5, <2>1 DEF RowOk, Destination
    <2>3. QED
      BY <2>1, <2>2 DEF RelayInv
  <1>13. DeviceOk(d)'
    <2>1. IsLast(d, n)' /\ (\A j \in DOMAIN paid' : j <= n)
      BY <1>3, <1>5, PaidEntry, <1>1 DEF IsLast
    <2>2. TxOf(d)' = n
      <3>1. (\A e \in Devices : \A i : RelayType /\ IsLast(e, i) => TxOf(e) = i)'
        BY LastTxNow, PTL
      <3>2. QED
        BY <1>9, <2>1, <3>1
    <2>3. Counted(d)'
      <3>1. PaidBy(d)' = PaidBy(d) \cup {n} /\ n \notin PaidBy(d)
        BY <1>3, <1>5 DEF PaidBy
      <3>2. IsFiniteSet(PaidBy(d)) /\ Cardinality(PaidBy(d)) \in Nat
        BY <1>1, PaidByFinite
      <3>3. PICK c \in Nat : c = Cardinality(PaidBy(d))
        BY <3>2
      <3>4. Cardinality(PaidBy(d)') = c + 1
        BY <3>1, <3>2, <3>3, FS_AddElement
      <3>5. c <= hurt[d]
        BY <1>1, <1>8, <3>3 DEF DeviceOk, Counted, Recording
      <3>6. c + 1 <= h + (IF a.pc \in Recording THEN 1 ELSE 0)
        BY <1>6, <1>8, <3>5 DEF Recording
      <3>7. QED
        BY <1>7, <1>8, <3>4, <3>6 DEF Counted
    <2>4. Priced(d)'
      BY <1>6, <1>7 DEF Priced, Bound
    <2>5. InContext(d)'
      <3>1. Fits(d, Context(d)) /\ want[d] \in Payments
        BY <1>1 DEF DeviceOk, InContext, RelayType
      <3>2. Context(d)' \in {want[d], Context(d)}
        BY <1>6, <1>7 DEF Context
      <3>3. Fits(d, Context(d))'
        BY <3>1, <3>2 DEF Fits, Destination
      <3>4. QED
        BY <1>6, <1>7, <3>3 DEF InContext
    <2>6. Booked(d)'
      <3>1. app'[d].pc \in {"record", "idle"} /\ n \in DOMAIN paid'
        BY <1>5, <1>6, <1>7
      <3>2. \A r \in (sales \cup claims)' : r.tx # n
        BY <1>5, <1>12 DEF Rows
      <3>3. QED
        BY <2>1, <2>2, <3>1, <3>2 DEF Booked, Recording
    <2>7. QED
      BY <2>3, <2>4, <2>5, <2>6 DEF DeviceOk
  <1>14. \A y \in pending' : PendingOk(y)'
    BY DEF PendingOk, Destination, RelayInv
  <1>15. QED
    BY <1>7, <1>9, <1>10, <1>11, <1>12, <1>13, <1>14 DEF RelayInv

LEMMA RelaySafeKept ==
    ASSUME RelayInv, NEW d \in Devices, RelaySafe(d)
    PROVE  RelayInv'
  <1>1. /\ app[d].pc = "relaySafe"
        /\ UNCHANGED <<want, price, pending, sales, claims, spends, crossed>>
    BY DEF RelaySafe, At, tables, memory, world
  <1>2. CASE Mined(d)
    BY <1>1, <1>2, MinedKept
  <1>3. CASE Fail(d) /\ UNCHANGED <<chain, hurt, faults>>
    <2>1. /\ app[d].pc \notin Recording /\ UNCHANGED <<paid, hurt>>
          /\ faults \subseteq faults' /\ pending' \subseteq pending
      BY <1>1, <1>3 DEF Recording, chain
    <2>2. QED
      BY <1>1, <1>3, <2>1, FailKept
  <1>4. QED
    BY <1>2, <1>3 DEF RelaySafe

LEMMA RelaySessionKept ==
    ASSUME RelayInv, NEW d \in Devices, RelaySession(d)
    PROVE  RelayInv'
  <1>1. /\ app[d].pc = "relaySession"
        /\ UNCHANGED <<want, price, pending, sales, claims, spends, crossed>>
    BY DEF RelaySession, At, tables, memory, world
  <1>2. CASE Mined(d)
    BY <1>1, <1>2, MinedKept
  <1>3. CASE Fail(d) /\ UNCHANGED <<chain, hurt, faults>>
    <2>1. /\ app[d].pc \notin Recording /\ UNCHANGED <<paid, hurt>>
          /\ faults \subseteq faults' /\ pending' \subseteq pending
      BY <1>1, <1>3 DEF Recording, chain
    <2>2. QED
      BY <1>1, <1>3, <2>1, FailKept
  <1>4. QED
    BY <1>2, <1>3 DEF RelaySession

(***************************************************************************)
(* Recording.                                                              *)
(***************************************************************************)

\* A device that has paid goes on to a; the only rows added are for its payment.
LEMMA RecordMove ==
    ASSUME RelayInv, NEW d \in Devices, NEW a, Fields(a) = a, app' = [app EXCEPT ![d] = a],
           app[d].pc \in {"record", "spend"}, a.amount \in Nat, a.shown \in Nat,
           a.ctx \in {<<>>, app[d].ctx}, a.pc \in {"idle", "spend", "paid"},
           UNCHANGED <<want, price, paid, crossed>>, hurt' \in [Devices -> Nat],
           \A e \in Devices : e # d => hurt'[e] = hurt[e],
           hurt'[d] = hurt[d] + (IF a.pc = "idle" THEN 1 ELSE 0),
           sales \subseteq sales', claims \subseteq claims', spends \subseteq spends',
           faults \subseteq faults', pending' \subseteq pending,
           \A r \in Rows' \ Rows : app[d].pc = "record" /\ r.tx = TxOf(d) /\ RowOk(r),
           \A r, q \in Rows' \ Rows : r = q,
           Booked(d)'
    PROVE  RelayInv'
  <1>1. RelayType /\ Shape /\ DeviceOk(d)
    BY DEF RelayInv
  <1>2. /\ Shape' /\ app'[d] = a
        /\ \A e \in Devices : e # d => app'[e] = app[e]
    BY <1>1, DeviceMoves
  <1>3. RelayType'
    <2>1. \A e \in Devices : app'[e].amount \in Nat /\ app'[e].shown \in Nat
      BY <1>1, <1>2 DEF RelayType
    <2>2. QED
      BY <1>1, <2>1 DEF RelayType
  <1>4. PICK i : i \in DOMAIN paid /\ paid[i].dev = d /\ TxOf(d) = i
    <2>1. PICK i : IsLast(d, i)
      BY <1>1 DEF DeviceOk, Booked, Recording
    <2>2. TxOf(d) = i
      BY <1>1, <2>1, LastTx
    <2>3. QED
      BY <2>1, <2>2 DEF IsLast
  <1>5. \A e \in Devices \ {d} : DeviceOk(e)'
    <2> SUFFICES ASSUME NEW e \in Devices \ {d} PROVE DeviceOk(e)'
      OBVIOUS
    <2>1. app'[e] = app[e] /\ hurt'[e] = hurt[e]
      BY <1>2
    <2>2. ASSUME app[e].pc = "record", NEW r \in Rows' \ Rows PROVE r.tx # TxOf(e)
      <3>1. PICK j : IsLast(e, j)
        BY <2>2 DEF RelayInv, DeviceOk, Booked, Recording
      <3>2. TxOf(e) = j /\ paid[j].dev = e
        BY <1>1, <3>1, LastTx DEF IsLast
      <3>3. QED
        BY <1>4, <3>2
    <2>3. crossed \subseteq crossed' /\ \A x \in pending' \ pending : FALSE
      OBVIOUS
    <2>4. QED
      BY <2>1, <2>2, <2>3, OtherKept
  <1>6. DeviceOk(d)'
    <2>1. PaidBy(d)' = PaidBy(d)
      BY DEF PaidBy
    <2>2. Counted(d)'
      <3>1. PICK c \in Nat, h \in Nat : c = Cardinality(PaidBy(d)) /\ h = hurt[d]
        BY <1>1, PaidByFinite
      <3>2. c <= h + 1
        BY <1>1, <3>1 DEF DeviceOk, Counted, Recording
      <3>3. c <= hurt'[d] + (IF a.pc \in Recording THEN 1 ELSE 0)
        BY <3>1, <3>2 DEF Recording
      <3>4. QED
        BY <1>2, <2>1, <3>1, <3>3 DEF Counted
    <2>3. Priced(d)'
      BY <1>2 DEF Priced, Bound
    <2>4. InContext(d)'
      <3>1. Fits(d, Context(d)) /\ want[d] \in Payments
        BY <1>1 DEF DeviceOk, InContext, RelayType
      <3>2. Context(d)' \in {want[d], Context(d)}
        BY <1>2 DEF Context
      <3>3. Fits(d, Context(d))'
        BY <3>1, <3>2 DEF Fits, Destination
      <3>4. QED
        BY <1>2, <3>3 DEF InContext
    <2>5. QED
      BY <2>2, <2>3, <2>4 DEF DeviceOk
  <1>7. \A j \in DOMAIN paid' : PaidOk(j)'
    BY DEF RelayInv, PaidOk
  <1>8. \A r \in Rows' : RowOk(r)'
    <2>1. \A r \in Rows' : RowOk(r)
      BY DEF RelayInv
    <2>2. QED
      BY <2>1 DEF RowOk, Destination
  <1>9. \A r, q \in Rows' : r.tx = q.tx => r = q
    <2>1. app[d].pc = "record" => \A r \in Rows : r.tx # TxOf(d)
      BY <1>1 DEF DeviceOk, Booked, Rows
    <2>2. \A r, q \in Rows : r.tx = q.tx => r = q
      BY DEF RelayInv
    <2>3. QED
      BY <2>1, <2>2
  <1>10. \A x \in pending' : PendingOk(x)'
    BY DEF PendingOk, Destination, RelayInv
  <1>11. QED
    BY <1>2, <1>3, <1>5, <1>6, <1>7, <1>8, <1>9, <1>10 DEF RelayInv

\* The row a handler adds is for its payment.
LEMMA NewRow ==
    ASSUME RelayInv, NEW d \in Devices, app[d].pc = "record", NEW r,
           r = [tx |-> TxOf(d), pay |-> Context(d)],
           Context(d).kind = "sale" \/ want[d].kind = "send"
    PROVE  r.tx = TxOf(d) /\ RowOk(r) /\ (d \notin crossed => r = [tx |-> TxOf(d), pay |-> want[d]])
  <1>1. RelayType /\ DeviceOk(d) /\ Fits(d, Context(d))
    BY DEF RelayInv, DeviceOk, InContext
  <1>2. PICK i : IsLast(d, i)
    BY <1>1 DEF DeviceOk, Booked, Recording
  <1>3. TxOf(d) = i /\ i \in DOMAIN paid /\ paid[i].dev = d
    BY <1>1, <1>2, LastTx DEF IsLast
  <1>4. paid[i].pay = want[d]
    BY <1>3 DEF RelayInv, PaidOk
  <1>5. Destination(want[d]) = "escrow"
    <2>1. CASE want[d].kind = "send"
      BY <1>1, <2>1, WantType
    <2>2. CASE Context(d).kind = "sale"
      <3>1. Destination(Context(d)) = "escrow"
        BY <2>2 DEF Destination
      <3>2. QED
        BY <1>1, <3>1 DEF Fits
    <2>3. QED
      BY <2>1, <2>2
  <1>6. r.tx = TxOf(d) /\ r.pay = Context(d)
    OBVIOUS
  <1>7. Context(d) = want[d] \/ d \in crossed
    BY <1>1 DEF Fits
  <1>8. RowOk(r)
    BY <1>3, <1>4, <1>5, <1>6, <1>7 DEF RowOk
  <1>9. QED
    BY <1>6, <1>7, <1>8

LEMMA RecordKept ==
    ASSUME RelayInv, NEW d \in Devices, Record(d)
    PROVE  RelayInv'
  <1>1. app[d].pc = "record" /\ want[d].kind # "send" /\ Shape /\ RelayType
    BY DEF Record, At, RelayInv
  <1>2. /\ UNCHANGED <<want, price, paid, hurt, claims, spends, crossed>>
        /\ faults \subseteq faults' /\ pending' \subseteq pending
    BY DEF Record, chain, world, Fault, Forget, Drop
  <1>3. PICK row : row = [tx |-> TxOf(d), pay |-> Context(d)]
    OBVIOUS
  <1>4. \/ Context(d).kind # "sale" /\ sales' = sales /\ faults' = faults
        \/ Context(d).kind = "sale" /\ sales' = sales \cup {row} /\ faults' = faults
        \/ "db" \in faults' /\ sales' = sales
    BY <1>3 DEF Record, Fault
  <1>5. PICK a : /\ app' = [app EXCEPT ![d] = a] /\ Fields(a) = a
                 /\ a.pc = "spend" /\ a.amount = app[d].amount
                 /\ a.shown = app[d].shown /\ a.ctx = app[d].ctx
    BY <1>1, AtPc DEF Record
  <1>6. app'[d] = a /\ app[d].amount \in Nat /\ app[d].shown \in Nat /\ hurt \in [Devices -> Nat]
    BY <1>1, <1>5, DeviceMoves DEF RelayType
  <1>7. \A r \in Rows' \ Rows : r = row /\ Context(d).kind = "sale"
    BY <1>2, <1>4 DEF Rows
  <1>8. Context(d).kind = "sale" =>
           /\ row.tx = TxOf(d) /\ RowOk(row)
           /\ d \notin crossed => row = [tx |-> TxOf(d), pay |-> want[d]]
    BY <1>1, <1>3, NewRow
  <1>9. Booked(d)'
    <2>1. TxOf(d)' = TxOf(d) /\ \A i : IsLast(d, i)' = IsLast(d, i)
      BY <1>2 DEF TxOf, IsLast
    <2>2. \E i \in DOMAIN paid : IsLast(d, i)
      BY <1>1 DEF RelayInv, DeviceOk, Booked, Recording
    <2>3. ASSUME d \notin crossed', "db" \notin faults', want[d].kind = "sale"
          PROVE  [tx |-> TxOf(d), pay |-> want[d]] \in sales'
      <3>1. Context(d) = want[d]
        BY <1>2, <2>3 DEF RelayInv, DeviceOk, InContext, Fits
      <3>2. sales' = sales \cup {row} /\ row = [tx |-> TxOf(d), pay |-> want[d]]
        BY <1>2, <1>4, <1>8, <2>3, <3>1
      <3>3. QED
        BY <3>2
    <2>4. QED
      BY <1>1, <1>2, <1>5, <1>6, <2>1, <2>2, <2>3 DEF Booked
  <1>10. /\ hurt' \in [Devices -> Nat] /\ hurt'[d] = hurt[d] + (IF a.pc = "idle" THEN 1 ELSE 0)
         /\ \A e \in Devices : e # d => hurt'[e] = hurt[e]
    BY <1>2, <1>5, <1>6
  <1>11. /\ sales \subseteq sales' /\ claims \subseteq claims' /\ spends \subseteq spends'
         /\ a.amount \in Nat /\ a.shown \in Nat /\ a.ctx \in {<<>>, app[d].ctx}
         /\ a.pc \in {"idle", "spend", "paid"}
    BY <1>2, <1>4, <1>5, <1>6
  <1>12. /\ \A r \in Rows' \ Rows : app[d].pc = "record" /\ r.tx = TxOf(d) /\ RowOk(r)
         /\ \A r, q \in Rows' \ Rows : r = q
    BY <1>1, <1>7, <1>8
  <1>13. app[d].pc \in {"record", "spend"}
    BY <1>1
  <1>14. QED
    BY <1>2, <1>5, <1>9, <1>10, <1>11, <1>12, <1>13, RecordMove

LEMMA RecordClaimKept ==
    ASSUME RelayInv, NEW d \in Devices, RecordClaim(d)
    PROVE  RelayInv'
  <1>1. app[d].pc = "record" /\ want[d].kind = "send" /\ Shape /\ RelayType
    BY DEF RecordClaim, At, RelayInv
  <1>2. /\ UNCHANGED <<want, price, paid, sales, spends, crossed>>
        /\ faults \subseteq faults' /\ pending' \subseteq pending
    BY DEF RecordClaim, chain, world, memory, Fault, Forget, Drop
  <1>3. PICK row : row = [tx |-> TxOf(d), pay |-> Context(d)]
    OBVIOUS
  <1>4. app[d].amount \in Nat /\ app[d].shown \in Nat /\ hurt \in [Devices -> Nat]
    BY <1>1 DEF RelayType
  <1>5. CASE claims' = claims \cup {row} /\ Goto(d, "spend") /\ UNCHANGED <<faults, hurt>>
    <2>1. PICK a : /\ app' = [app EXCEPT ![d] = a] /\ Fields(a) = a
                   /\ a.pc = "spend" /\ a.amount = app[d].amount
                   /\ a.shown = app[d].shown /\ a.ctx = app[d].ctx
      BY <1>1, <1>5, AtPc
    <2>2. app'[d] = a
      BY <1>1, <2>1, DeviceMoves
    <2>3. \A r \in Rows' \ Rows : r = row
      BY <1>2, <1>5 DEF Rows
    <2>4. /\ row.tx = TxOf(d) /\ RowOk(row)
          /\ d \notin crossed => row = [tx |-> TxOf(d), pay |-> want[d]]
      BY <1>1, <1>3, NewRow
    <2>5. Booked(d)'
      <3>1. TxOf(d)' = TxOf(d) /\ \A i : IsLast(d, i)' = IsLast(d, i)
        BY <1>2 DEF TxOf, IsLast
      <3>2. \E i \in DOMAIN paid : IsLast(d, i)
        BY <1>1 DEF RelayInv, DeviceOk, Booked, Recording
      <3>3. d \notin crossed' => [tx |-> TxOf(d), pay |-> want[d]] \in claims'
        BY <1>2, <1>5, <2>4
      <3>4. QED
        BY <1>1, <1>2, <2>1, <2>2, <3>1, <3>2, <3>3 DEF Booked
    <2>6. /\ hurt' \in [Devices -> Nat] /\ hurt'[d] = hurt[d] + (IF a.pc = "idle" THEN 1 ELSE 0)
          /\ \A e \in Devices : e # d => hurt'[e] = hurt[e]
      BY <1>4, <1>5, <2>1
    <2>7. /\ sales \subseteq sales' /\ claims \subseteq claims' /\ spends \subseteq spends'
          /\ a.amount \in Nat /\ a.shown \in Nat /\ a.ctx \in {<<>>, app[d].ctx}
          /\ a.pc \in {"idle", "spend", "paid"}
      BY <1>2, <1>4, <1>5, <2>1
    <2>8. /\ \A r \in Rows' \ Rows : app[d].pc = "record" /\ r.tx = TxOf(d) /\ RowOk(r)
          /\ \A r, q \in Rows' \ Rows : r = q
      BY <1>1, <2>3, <2>4
    <2>9. app[d].pc \in {"record", "spend"}
      BY <1>1
    <2>10. QED
      BY <1>2, <2>1, <2>5, <2>6, <2>7, <2>8, <2>9, RecordMove
  <1>6. CASE Fail(d) /\ Hurt(d) /\ UNCHANGED claims
    <2>1. PICK a : /\ a = Idle /\ Fields(a) = a /\ a.pc = "idle" /\ a.amount = 0 /\ a.shown = 0
                   /\ a.ctx = <<>>
      BY IdleFields
    <2>2. app' = [app EXCEPT ![d] = a]
      BY <1>6, <2>1 DEF Fail
    <2>3. app'[d] = a
      BY <1>1, <2>1, <2>2, DeviceMoves
    <2>4. Booked(d)'
      BY <2>1, <2>3 DEF Booked, Recording
    <2>5. /\ hurt' \in [Devices -> Nat] /\ hurt'[d] = hurt[d] + (IF a.pc = "idle" THEN 1 ELSE 0)
          /\ \A e \in Devices : e # d => hurt'[e] = hurt[e]
      BY <1>4, <1>6, <2>1 DEF Hurt
    <2>6. /\ sales \subseteq sales' /\ claims \subseteq claims' /\ spends \subseteq spends'
          /\ a.amount \in Nat /\ a.shown \in Nat /\ a.ctx \in {<<>>, app[d].ctx}
          /\ a.pc \in {"idle", "spend", "paid"}
      BY <1>2, <1>6, <2>1
    <2>7. /\ \A r \in Rows' \ Rows : app[d].pc = "record" /\ r.tx = TxOf(d) /\ RowOk(r)
          /\ \A r, q \in Rows' \ Rows : r = q
      BY <1>2, <1>6 DEF Rows
    <2>8. app[d].pc \in {"record", "spend"}
      BY <1>1
    <2>9. QED
      BY <1>2, <2>1, <2>2, <2>4, <2>5, <2>6, <2>7, <2>8, RecordMove
  <1>7. QED
    BY <1>3, <1>5, <1>6 DEF RecordClaim

LEMMA RecordSpendKept ==
    ASSUME RelayInv, NEW d \in Devices, RecordSpend(d)
    PROVE  RelayInv'
  <1>1. app[d].pc = "spend" /\ Shape /\ RelayType
    BY DEF RecordSpend, At, RelayInv
  <1>2. /\ UNCHANGED <<want, price, paid, hurt, sales, claims, crossed>>
        /\ faults \subseteq faults' /\ pending' \subseteq pending /\ spends \subseteq spends'
        /\ TxOf(d) \in spends' \/ "db" \in faults'
    BY DEF RecordSpend, chain, world, memory, Fault
  <1>3. PICK a : a = [Idle EXCEPT !.pc = "paid"]
    OBVIOUS
  <1>4. a = [pc |-> "paid", key |-> NoKey, tx |-> <<>>, nonce |-> 0, amount |-> 0,
             deadline |-> 0, shown |-> 0, ctx |-> <<>>]
    BY <1>3 DEF Idle
  <1>5. Fields(a) = a /\ a.pc = "paid" /\ a.amount = 0 /\ a.shown = 0 /\ a.ctx = <<>>
    BY <1>4 DEF Fields
  <1>6. app' = [app EXCEPT ![d] = a]
    BY <1>3 DEF RecordSpend
  <1>7. app'[d] = a /\ hurt \in [Devices -> Nat]
    BY <1>1, <1>5, <1>6, DeviceMoves DEF RelayType
  <1>8. Booked(d)'
    <2>1. TxOf(d)' = TxOf(d) /\ \A i : IsLast(d, i)' = IsLast(d, i)
      BY <1>2 DEF TxOf, IsLast
    <2>2. Booked(d)
      BY DEF RelayInv, DeviceOk
    <2>3. QED
      BY <1>1, <1>2, <1>5, <1>7, <2>1, <2>2 DEF Booked, Recording
  <1>9. /\ hurt' \in [Devices -> Nat] /\ hurt'[d] = hurt[d] + (IF a.pc = "idle" THEN 1 ELSE 0)
        /\ \A e \in Devices : e # d => hurt'[e] = hurt[e]
    BY <1>2, <1>5, <1>7
  <1>10. /\ sales \subseteq sales' /\ claims \subseteq claims'
         /\ a.amount \in Nat /\ a.shown \in Nat /\ a.ctx \in {<<>>, app[d].ctx}
         /\ a.pc \in {"idle", "spend", "paid"} /\ app[d].pc \in {"record", "spend"}
    BY <1>1, <1>2, <1>5
  <1>11. /\ \A r \in Rows' \ Rows : app[d].pc = "record" /\ r.tx = TxOf(d) /\ RowOk(r)
         /\ \A r, q \in Rows' \ Rows : r = q
    BY <1>2 DEF Rows
  <1>12. QED
    BY <1>2, <1>5, <1>6, <1>8, <1>9, <1>10, <1>11, RecordMove

(***************************************************************************)
(* The environment, and the theorem.                                       *)
(***************************************************************************)

\* Nobody acts: an entry expires, the rate moves, time passes, or nothing happens.
LEMMA NobodyKept ==
    ASSUME RelayInv, UNCHANGED <<want, app, paid, hurt, sales, claims, spends, crossed>>,
           price' \in Prices, pending' \subseteq pending, faults \subseteq faults'
    PROVE  RelayInv'
  <1>1. RelayType' /\ Shape'
    BY DEF RelayInv, RelayType, Shape
  <1>2. \A e \in Devices : DeviceOk(e)'
    <2> SUFFICES ASSUME NEW e \in Devices PROVE DeviceOk(e)'
      OBVIOUS
    <2>1. /\ app'[e] = app[e] /\ hurt'[e] = hurt[e] /\ Rows' = Rows /\ crossed \subseteq crossed'
          /\ \A x \in pending' \ pending : FALSE
      BY DEF Rows
    <2>2. QED
      BY <2>1, OtherKept
  <1>3. /\ \A i \in DOMAIN paid' : PaidOk(i)'
        /\ \A r \in Rows' : RowOk(r)'
        /\ \A r, q \in Rows' : r.tx = q.tx => r = q
    BY RowsStill
  <1>4. \A x \in pending' : PendingOk(x)'
    BY DEF PendingOk, Destination, RelayInv
  <1>5. QED
    BY <1>1, <1>2, <1>3, <1>4 DEF RelayInv

LEMMA CrashKept ==
    ASSUME RelayInv, Crash
    PROVE  RelayInv'
  <1>1. /\ UNCHANGED <<want, price, paid, sales, claims, spends, crossed>>
        /\ faults \subseteq faults' /\ pending' = {} /\ RelayType /\ Shape
    BY DEF Crash, chain, tables, world, Fault, RelayInv
  <1>2. \A e \in Devices :
           /\ app'[e] = IF app[e].pc \in InServer THEN Idle ELSE app[e]
           /\ hurt'[e] = IF app[e].pc \in {"record", "spend"} THEN hurt[e] + 1 ELSE hurt[e]
    BY DEF Crash
  <1>3. hurt \in [Devices -> Nat] /\ hurt' \in [Devices -> Nat]
    BY <1>1 DEF Crash, RelayType
  <1>4. Shape'
    <2>1. \A e \in Devices : Fields(app'[e]) = app'[e]
      BY <1>1, <1>2, IdleFields, DeviceFields
    <2>2. app' = [e \in Devices |-> app'[e]]
      BY DEF Crash
    <2>3. app' = [e \in Devices |-> Fields(app'[e])]
      BY <2>1, <2>2
    <2>4. QED
      BY <2>3 DEF Shape
  <1>5. RelayType'
    <2>1. \A e \in Devices : app'[e].amount \in Nat /\ app'[e].shown \in Nat
      BY <1>1, <1>2, IdleFields DEF RelayType
    <2>2. QED
      BY <1>1, <1>3, <2>1 DEF RelayType
  <1>6. ASSUME NEW e \in Devices PROVE DeviceOk(e)'
    <2>1. CASE app[e].pc \notin InServer
      <3>1. /\ app'[e] = app[e] /\ hurt'[e] = hurt[e] /\ Rows' = Rows /\ crossed \subseteq crossed'
            /\ \A x \in pending' \ pending : FALSE
        BY <1>1, <1>2, <2>1 DEF InServer, Rows
      <3>2. QED
        BY <1>1, <3>1, OtherKept
    <2>2. CASE app[e].pc \in InServer
      <3>1. app'[e] = Idle /\ DeviceOk(e) /\ PaidBy(e)' = PaidBy(e) /\ want[e] \in Payments
        BY <1>1, <1>2, <2>2 DEF RelayInv, PaidBy, RelayType
      <3>2. PICK a : /\ a = Idle /\ a.pc = "idle" /\ a.ctx = <<>> /\ app'[e] = a
        BY <3>1, IdleFields
      <3>3. Counted(e)'
        <4>1. PICK c \in Nat, h \in Nat : c = Cardinality(PaidBy(e)) /\ h = hurt[e]
          BY <1>1, PaidByFinite
        <4>2. c <= h + (IF app[e].pc \in {"record", "spend"} THEN 1 ELSE 0)
          BY <2>2, <3>1, <4>1 DEF DeviceOk, Counted, Recording, InServer
        <4>3. c <= hurt'[e] + 0
          BY <1>2, <4>1, <4>2
        <4>4. QED
          BY <3>1, <3>2, <4>1, <4>3 DEF Counted, Recording
      <3>4. Priced(e)'
        BY <3>2 DEF Priced, Bound
      <3>5. InContext(e)'
        BY <1>1, <3>1, <3>2 DEF InContext, Context, Fits
      <3>6. Booked(e)'
        BY <3>2 DEF Booked, Recording
      <3>7. QED
        BY <3>3, <3>4, <3>5, <3>6 DEF DeviceOk
    <2>3. QED
      BY <2>1, <2>2
  <1>7. /\ \A i \in DOMAIN paid' : PaidOk(i)'
        /\ \A r \in Rows' : RowOk(r)'
        /\ \A r, q \in Rows' : r.tx = q.tx => r = q
    BY <1>1, RowsStill
  <1>8. \A x \in pending' : PendingOk(x)'
    BY <1>1
  <1>9. QED
    BY <1>4, <1>5, <1>6, <1>7, <1>8 DEF RelayInv

LEMMA RelayStarts == RelayInit => RelayInv
  <1> SUFFICES ASSUME RelayInit PROVE RelayInv
    OBVIOUS
  <1>1. /\ want \in [Devices -> Payments] /\ price \in Prices /\ pending = {}
        /\ app = [d \in Devices |-> Idle] /\ paid = <<>> /\ sales = {} /\ claims = {}
        /\ hurt = [d \in Devices |-> 0]
    BY DEF RelayInit
  <1>2. \A d \in Devices : app[d] = Idle /\ hurt[d] = 0
    BY <1>1
  <1>3. RelayType
    BY <1>1, <1>2, IdleFields DEF RelayType
  <1>4. Shape
    <2>1. app = [d \in Devices |-> Fields(Idle)]
      BY <1>1, IdleFields
    <2>2. QED
      BY <1>2, <2>1 DEF Shape
  <1>5. DOMAIN paid = {}
    BY <1>1
  <1>6. ASSUME NEW d \in Devices PROVE DeviceOk(d)
    <2>1. PICK a : a = Idle /\ a.pc = "idle" /\ a.ctx = <<>> /\ app[d] = a
      BY <1>2, IdleFields
    <2>2. PaidBy(d) = {}
      BY <1>5 DEF PaidBy
    <2>3. Counted(d)
      BY <1>2, <2>1, <2>2, FS_EmptySet DEF Counted, Recording
    <2>4. Priced(d)
      BY <2>1 DEF Priced, Bound
    <2>5. InContext(d)
      BY <1>1, <2>1 DEF InContext, Context, Fits
    <2>6. Booked(d)
      BY <2>1 DEF Booked, Recording
    <2>7. QED
      BY <2>3, <2>4, <2>5, <2>6 DEF DeviceOk
  <1>7. Rows = {}
    BY <1>1 DEF Rows
  <1>8. QED
    BY <1>1, <1>3, <1>4, <1>5, <1>6, <1>7 DEF RelayInv

LEMMA RelayStep ==
    ASSUME RelayInv, RelayNext
    PROVE  RelayInv'
  <1>1. ASSUME NEW d \in Devices, Step(d)
        PROVE  RelayInv'
    BY <1>1, ConfirmKept, StartPrepareKept, StartSubmitKept, StartRelayKept, StartInsertKept,
       RevokeMarkKept, PrepareKept, PrepareEscrowKept, SignSessionKept, SignPasskeyKept,
       RelaySafeKept, RelaySessionKept, RecordKept, RecordClaimKept, RecordSpendKept DEF Step
  <1>2. ASSUME NEW d \in Devices, Refuse(d) \/ RelayThrows(d) \/ RevokePrepare(d)
        PROVE  RelayInv'
    BY <1>2, RefuseKept, RevokePrepareKept
  <1>3. price \in Prices
    BY DEF RelayInv, RelayType
  <1>4. CASE Expire
    <2>1. /\ UNCHANGED <<want, app, paid, hurt, sales, claims, spends, crossed, price>>
          /\ pending' \subseteq pending /\ faults \subseteq faults'
      BY <1>4 DEF Expire, chain, tables, world, Fault
    <2>2. QED
      BY <1>3, <2>1, NobodyKept
  <1>5. CASE PriceMoves
    <2>1. /\ UNCHANGED <<want, app, paid, hurt, sales, claims, spends, crossed>>
          /\ pending' \subseteq pending /\ faults \subseteq faults' /\ price' \in Prices
      BY <1>5 DEF PriceMoves, chain, tables, world, memory, Fault
    <2>2. QED
      BY <2>1, NobodyKept
  <1>6. CASE TimePasses
    <2>1. /\ UNCHANGED <<want, app, paid, hurt, sales, claims, spends, crossed, price>>
          /\ pending' \subseteq pending /\ faults \subseteq faults'
      BY <1>6 DEF TimePasses, tables, world, memory, Fault
    <2>2. QED
      BY <1>3, <2>1, NobodyKept
  <1>7. QED
    BY <1>1, <1>2, <1>4, <1>5, <1>6, CrashKept DEF RelayNext

LEMMA RelayConfirmed == RelayInv => PaidAsConfirmed
  <1> SUFFICES ASSUME RelayInv PROVE PaidAsConfirmed
    OBVIOUS
  <1>1. RelayType
    BY DEF RelayInv
  <1>2. ASSUME NEW d \in Devices PROVE Cardinality(PaidBy(d)) <= 1 + hurt[d]
    <2>1. PICK c \in Nat, h \in Nat : c = Cardinality(PaidBy(d)) /\ h = hurt[d]
      BY <1>1, PaidByFinite
    <2>2. Counted(d)
      BY DEF RelayInv, DeviceOk
    <2>3. c <= 1 + h
      BY <2>1, <2>2 DEF Counted
    <2>4. QED
      BY <2>1, <2>3
  <1>3. PaidOnceAsShown
    BY <1>2 DEF PaidOnceAsShown, RelayInv, PaidOk
  <1>4. ASSUME NEW d \in Devices, At(d, "paid"), d \notin crossed, "db" \notin faults
        PROVE  LET row == [tx |-> TxOf(d), pay |-> want[d]] IN
               /\ TxOf(d) \in spends
               /\ want[d].kind = "sale" => row \in sales
               /\ want[d].kind = "send" => row \in claims
    BY <1>4 DEF RelayInv, DeviceOk, Booked, At
  <1>5. /\ \A r \in sales \cup claims : RowOk(r)
        /\ \A r, q \in sales \cup claims : r.tx = q.tx => r = q
    BY DEF RelayInv, Rows
  <1>6. BooksMatchChain
    BY <1>4, <1>5 DEF BooksMatchChain, RowOk
  <1>7. QED
    BY <1>3, <1>6 DEF PaidAsConfirmed

\* However the devices of an account, the server's restarts, lost answers and
\* failing writes interleave, a payment is made once, within the tolerance of
\* the price its page showed, and the rows of merchant_sales, pending_claims and
\* consumer_spend_events stand for what is on the chain.
THEOREM PaymentsConfirmed == RelaySpec => []PaidAsConfirmed
  <1>1. Init /\ RelayInit => RelayInv
    BY RelayStarts
  <1>2. RelayInv /\ [RelayNext]_rvars => RelayInv'
    <2> SUFFICES ASSUME RelayInv, [RelayNext]_rvars PROVE RelayInv'
      OBVIOUS
    <2>1. CASE RelayNext
      BY <2>1, RelayStep
    <2>2. CASE UNCHANGED rvars
      <3>1. /\ UNCHANGED <<want, app, paid, hurt, sales, claims, spends, crossed, price>>
            /\ pending' \subseteq pending /\ faults \subseteq faults' /\ price \in Prices
        BY <2>2 DEF rvars, chain, tables, world, memory, RelayInv, RelayType
      <3>2. QED
        BY <3>1, NobodyKept
    <2>3. QED
      BY <2>1, <2>2
  <1>3. QED
    BY <1>1, <1>2, RelayConfirmed, PTL DEF RelaySpec
=============================================================================
