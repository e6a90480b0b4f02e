------------------------ MODULE PlatformEscrow_proofs ------------------------
(***************************************************************************)
(* Proofs about the escrow account.  A claim and a sale go through the same *)
(* stages, so the proofs speak of rows: who has been paid for a row, what   *)
(* its table shows, and how far each handler has got with it.               *)
(***************************************************************************)
EXTENDS PlatformEscrow, ShareMath_proofs, TLAPS

Rows == Claims \cup Sales

\* What a row is about, what its two parties hold, and what its table shows.
Payer(x) == IF x \in Claims THEN sender[x] ELSE consumer[x]
Payee(x) == IF x \in Claims THEN recipient[x] ELSE merchant[x]
Phase(x) ==
    IF x \in Claims
    THEN CASE row[x] = "none" -> "none"
           [] row[x] = "pending" -> "pending"
           [] row[x] = "claimed" -> "payee"
           [] OTHER -> "payer"
    ELSE CASE status[x] = "none" -> "none"
           [] status[x] = "pending_fulfilment" -> "pending"
           [] status[x] = "paid" -> "payee"
           [] OTHER -> "payer"

\* How far a handler has got with its row: about to write it, about to debit, with
\* the money in flight, or with one of the parties paid.
ClaimWork == {"debitClaim", "creditClaim", "update"}
SaleRuns  == {"record", "mark", "call"}
SaleEnds  == {"outcome", "debitSale", "creditSale", "settle"}
StageOf(j) ==
    CASE j.pc \in {"insert", "record"} -> "open"
      [] j.pc \in {"debitClaim", "mark", "call", "outcome", "debitSale"} -> "due"
      [] j.pc \in {"creditClaim", "creditSale"} -> "flight"
      [] j.pc = "update" -> IF j.op = "redeem" THEN "payee" ELSE "payer"
      [] j.pc = "settle" -> IF j.ok THEN "payee" ELSE "payer"
HandOf(j) ==
    IF j.pc \in {"insert"} \cup ClaimWork THEN j.rows
    ELSE IF j.pc \in SaleRuns \cup SaleEnds THEN {j.sale} ELSE {}
SelOf(j) == IF j.pc \in {"insert", "next"} \cup ClaimWork THEN j.todo ELSE {}
HoldOf(x, j) == IF x \in HandOf(j) THEN StageOf(j) ELSE "no"
FlightOf(j) ==
    IF j.pc = "creditClaim" THEN Total([c \in j.rows |-> Amount[c]])
    ELSE IF j.pc = "creditSale" THEN Price[j.sale] ELSE 0

Holding(x) == [w \in Workers |-> HoldOf(x, worker[w])]
Chosen(x)  == {w \in Workers : x \in SelOf(worker[w])}
Flight     == [w \in Workers |-> FlightOf(worker[w])]

\* The handlers' records.
Insertion(c)             == C!Handler("submit", "insert", {c}, {})
Payment(op, pc, c, todo) == C!Handler(op, pc, {c}, todo)
Sweeping(todo)           == C!Handler("sweep", "next", {}, todo)
IsJob(j) ==
    \/ j = Idle
    \/ \E c \in Claims : j = Insertion(c)
    \/ \E op \in {"redeem", "sweep"}, pc \in ClaimWork, c \in Claims, todo \in SUBSET Claims :
          c \notin todo /\ j = Payment(op, pc, c, todo)
    \/ \E todo \in SUBSET Claims : j = Sweeping(todo)
    \/ \E pc \in SaleRuns, s \in Sales : j = S!Job(pc, s)
    \/ \E pc \in SaleEnds, s \in Sales, ok \in BOOLEAN : j = S!Release(pc, s, ok)

-----------------------------------------------------------------------------
Stages == {"no", "open", "due", "flight", "payee", "payer"}

\* Nobody else holds or has selected a row that a handler holds.
Alone(hold, sel) ==
    \A w, v \in Workers : w # v /\ hold[w] # "no" => hold[v] = "no" /\ v \notin sel

\* What is true of every row x, whatever has happened to it; F are the funded ones.
Truthful(amt, x, F, ph, a, b, hold, sel) ==
    /\ x \notin F => ph = "none" /\ a = 0 /\ b = 0 /\ \A w \in Workers : hold[w] = "no"
    /\ ph = "none" => /\ b = 0 /\ a \in {0, amt}
                      /\ \A w \in Workers : w \notin sel /\ hold[w] \in {"no", "open"}
    /\ \A w \in Workers : hold[w] = "open" =>
          ph = "none" /\ a = 0 /\ \A v \in Workers : hold[v] = "open" => v = w
    /\ ph = "payee" \/ (\E w \in Workers : hold[w] = "payee") => b >= amt
    /\ ph = "payer" \/ (\E w \in Workers : hold[w] = "payer") => a >= amt

\* What is true of a row that was not disturbed.
Clean(amt, ph, a, b, hold, sel) ==
    /\ Alone(hold, sel)
    /\ \A w \in Workers : hold[w] \notin {"no", "open"} \/ w \in sel => ph = "pending"
    /\ \A w \in Workers : hold[w] \in {"open", "due", "flight"} => a + b = 0
    /\ ph = "pending" /\ (\A w \in Workers : hold[w] = "no") => a + b = 0
    /\ a + b <= amt

Ok(amt, x, F, D, ph, a, b, hold, sel) ==
    /\ ph \in {"none", "pending", "payee", "payer"} /\ a \in Nat /\ b \in Nat
    /\ hold \in [Workers -> Stages] /\ sel \subseteq Workers
    /\ Truthful(amt, x, F, ph, a, b, hold, sel)
    /\ x \notin D => Clean(amt, ph, a, b, hold, sel)

\* What the account keeps for a row that was not disturbed: its amount, once the payer
\* has paid it in and until a handler takes it out.
Kept(amt, x, F, a, b, hold) ==
    IF x \in F /\ a + b = 0 /\ \A w \in Workers : hold[w] # "flight" THEN amt ELSE 0

Sound(x) == Ok(Amt(x), x, funded, disturbed, Phase(x), Payer(x), Payee(x), Holding(x), Chosen(x))
KeptFor(x) == Kept(Amt(x), x, funded, Payer(x), Payee(x), Holding(x))

-----------------------------------------------------------------------------
Types ==
    /\ C!TypeOK /\ S!TypeOK /\ escrow \in Nat /\ faults \in Nat
    /\ worker = [w \in Workers |-> worker[w]] /\ \A w \in Workers : IsJob(worker[w])
    /\ funded \subseteq Rows

Money ==
    /\ escrow + Total([x \in Rows |-> Payer(x)]) + Total([x \in Rows |-> Payee(x)]) + Total(Flight)
          <= Total([x \in Rows |-> IF x \in funded THEN Amt(x) ELSE 0])
    /\ disturbed = {} => escrow = Total([x \in Rows |-> KeptFor(x)])

\* The inductive invariant.
Inv == Types /\ Money /\ \A x \in Rows : Sound(x)

-----------------------------------------------------------------------------
(* What a handler's step does to the row it holds.                          *)

Replaces(g, hold, w, v) == g = [hold EXCEPT ![w] = v]

\* The payer's money arrives on the account, with or without a handler that knows.
LEMMA PaidIn ==
    ASSUME NEW amt \in Nat \ {0}, NEW x, NEW F, NEW D, NEW ph, NEW a, NEW b, NEW hold, NEW sel,
           Ok(amt, x, F, D, ph, a, b, hold, sel), NEW w \in Workers, NEW D2, D \subseteq D2,
           ph = "none", a >= amt, hold[w] = "no",
           NEW g, g = hold \/ Replaces(g, hold, w, "open"),
           NEW a2, a2 = a - amt, x \notin D2 => Alone(g, sel)
    PROVE  /\ Ok(amt, x, F, D2, ph, a2, b, g, sel)
           /\ Kept(amt, x, F, a, b, hold) = 0
           /\ Kept(amt, x, F, a2, b, g) = amt
  <1>1. x \in F /\ a = amt /\ b = 0 /\ \A v \in Workers : hold[v] = "no" /\ v \notin sel
    BY DEF Ok, Truthful
  <1>2. g \in [Workers -> Stages] /\ \A v \in Workers : g[v] # "no" => g[v] = "open" /\ v = w
    BY <1>1 DEF Replaces, Ok, Stages
  <1>3. Truthful(amt, x, F, ph, a2, b, g, sel)
    BY <1>1, <1>2 DEF Truthful, Ok
  <1>4. x \notin D2 => Clean(amt, ph, a2, b, g, sel)
    BY <1>1, <1>2 DEF Clean
  <1>5. QED
    BY <1>1, <1>2, <1>3, <1>4 DEF Ok, Kept

\* The row is written.
LEMMA Opened ==
    ASSUME NEW amt \in Nat \ {0}, NEW x, NEW F, NEW D, NEW ph, NEW a, NEW b, NEW hold, NEW sel,
           Ok(amt, x, F, D, ph, a, b, hold, sel), NEW w \in Workers, NEW D2, D \subseteq D2,
           hold[w] = "open", NEW g, Replaces(g, hold, w, "no"),
           NEW p2, p2 = "pending", x \notin D2 => Alone(g, sel)
    PROVE  /\ Ok(amt, x, F, D2, p2, a, b, g, sel)
           /\ Kept(amt, x, F, a, b, g) = Kept(amt, x, F, a, b, hold)
  <1>1. ph = "none" /\ x \in F /\ a = 0 /\ b = 0 /\ sel = {}
    BY DEF Ok, Truthful
  <1>2. g \in [Workers -> Stages] /\ \A v \in Workers : g[v] = "no"
    BY <1>1 DEF Replaces, Ok, Truthful, Stages
  <1>3. Truthful(amt, x, F, p2, a, b, g, sel)
    BY <1>1, <1>2 DEF Truthful
  <1>4. x \notin D2 => Clean(amt, p2, a, b, g, sel)
    BY <1>1, <1>2 DEF Clean
  <1>5. \A v \in Workers : hold[v] # "flight"
    BY <1>1 DEF Ok, Truthful
  <1>6. QED
    BY <1>1, <1>2, <1>3, <1>4, <1>5 DEF Ok, Kept

\* A fault ends the handler, before or after the money has been paid out.
LEMMA Dropped ==
    ASSUME NEW amt \in Nat \ {0}, NEW x, NEW F, NEW D, NEW ph, NEW a, NEW b, NEW hold, NEW sel,
           Ok(amt, x, F, D, ph, a, b, hold, sel), NEW w \in Workers, NEW D2, x \in D2,
           hold[w] # "no", NEW g, Replaces(g, hold, w, "no"),
           NEW a2 \in Nat, NEW b2 \in Nat, a2 >= a, b2 >= b,
           hold[w] = "open" => a2 = a /\ b2 = b
    PROVE  Ok(amt, x, F, D2, ph, a2, b2, g, sel)
  <1>1. x \in F /\ (ph = "none" => a2 = a /\ b2 = b)
    BY DEF Ok, Truthful
  <1>2. g \in [Workers -> Stages] /\ \A v \in Workers : g[v] = hold[v] \/ g[v] = "no"
    BY DEF Replaces, Ok, Stages
  <1>2a. \A v \in Workers : hold[v] = "open" => a2 = 0
    BY <1>1 DEF Ok, Truthful
  <1>3. Truthful(amt, x, F, ph, a2, b2, g, sel)
    BY <1>1, <1>2, <1>2a DEF Truthful, Ok
  <1>4. QED
    BY <1>2, <1>3 DEF Ok

\* A handler takes up a pending row.
LEMMA Begun ==
    ASSUME NEW amt \in Nat \ {0}, NEW x, NEW F, NEW D, NEW ph, NEW a, NEW b, NEW hold, NEW sel,
           Ok(amt, x, F, D, ph, a, b, hold, sel), NEW w \in Workers, NEW D2, D \subseteq D2,
           ph = "pending" \/ w \in sel, hold[w] = "no", NEW g, Replaces(g, hold, w, "due"),
           NEW s2, s2 = sel \ {w}, x \notin D2 => Alone(g, s2)
    PROVE  /\ Ok(amt, x, F, D2, ph, a, b, g, s2)
           /\ x \notin D2 => Kept(amt, x, F, a, b, g) = Kept(amt, x, F, a, b, hold)
  <1>1. ph # "none" /\ x \in F
    BY DEF Ok, Truthful
  <1>2. g \in [Workers -> Stages] /\ g[w] = "due" /\ \A v \in Workers : v # w => g[v] = hold[v]
    BY DEF Replaces, Ok, Stages
  <1>3. Truthful(amt, x, F, ph, a, b, g, s2)
    BY <1>1, <1>2 DEF Truthful, Ok
  <1>4. ASSUME x \notin D2 PROVE Clean(amt, ph, a, b, g, s2)
    <2>1. Clean(amt, ph, a, b, hold, sel)
      BY <1>4 DEF Ok
    <2>2. ph = "pending" /\ \A v \in Workers : hold[v] = "no"
      BY <1>2, <1>4, <2>1 DEF Clean, Alone
    <2>3. QED
      BY <1>2, <1>4, <2>1, <2>2 DEF Clean
  <1>5. Kept(amt, x, F, a, b, g) = Kept(amt, x, F, a, b, hold)
    BY <1>2 DEF Kept
  <1>6. QED
    BY <1>2, <1>3, <1>4, <1>5 DEF Ok

\* The account is debited.
LEMMA Debited ==
    ASSUME NEW amt \in Nat \ {0}, NEW x, NEW F, NEW D, NEW ph, NEW a, NEW b, NEW hold, NEW sel,
           Ok(amt, x, F, D, ph, a, b, hold, sel), NEW w \in Workers, NEW D2, D \subseteq D2,
           hold[w] = "due", NEW g, Replaces(g, hold, w, "flight"), x \notin D2 => Alone(g, sel)
    PROVE  /\ Ok(amt, x, F, D2, ph, a, b, g, sel)
           /\ x \notin D2 => /\ Kept(amt, x, F, a, b, hold) = amt
                             /\ Kept(amt, x, F, a, b, g) = 0
  <1>1. ph # "none" /\ x \in F
    BY DEF Ok, Truthful
  <1>2. g \in [Workers -> Stages] /\ g[w] = "flight" /\ \A v \in Workers : v # w => g[v] = hold[v]
    BY DEF Replaces, Ok, Stages
  <1>3. Truthful(amt, x, F, ph, a, b, g, sel)
    BY <1>1, <1>2 DEF Truthful, Ok
  <1>4. ASSUME x \notin D2
        PROVE  Clean(amt, ph, a, b, g, sel) /\ a + b = 0 /\ \A v \in Workers : hold[v] # "flight"
    <2>1. Clean(amt, ph, a, b, hold, sel)
      BY <1>4 DEF Ok
    <2>2. QED
      BY <1>2, <1>4, <2>1 DEF Clean, Alone
  <1>5. QED
    BY <1>1, <1>2, <1>3, <1>4 DEF Ok, Kept

\* The account cannot pay: the handler gives up, the row stays pending.
LEMMA GivenUp ==
    ASSUME NEW amt \in Nat \ {0}, NEW x, NEW F, NEW D, NEW ph, NEW a, NEW b, NEW hold, NEW sel,
           Ok(amt, x, F, D, ph, a, b, hold, sel), NEW w \in Workers, NEW D2, D \subseteq D2,
           hold[w] = "due", NEW g, Replaces(g, hold, w, "no"), x \notin D2 => Alone(g, sel)
    PROVE  /\ Ok(amt, x, F, D2, ph, a, b, g, sel)
           /\ Kept(amt, x, F, a, b, g) = Kept(amt, x, F, a, b, hold)
  <1>1. ph # "none" /\ x \in F
    BY DEF Ok, Truthful
  <1>2. g \in [Workers -> Stages] /\ g[w] = "no" /\ \A v \in Workers : v # w => g[v] = hold[v]
    BY DEF Replaces, Ok, Stages
  <1>3. Truthful(amt, x, F, ph, a, b, g, sel)
    BY <1>1, <1>2 DEF Truthful, Ok
  <1>4. ASSUME x \notin D2 PROVE Clean(amt, ph, a, b, g, sel)
    <2>1. Clean(amt, ph, a, b, hold, sel)
      BY <1>4 DEF Ok
    <2>2. QED
      BY <1>2, <1>4, <2>1 DEF Clean, Alone
  <1>5. Kept(amt, x, F, a, b, g) = Kept(amt, x, F, a, b, hold)
    BY <1>2 DEF Kept
  <1>6. QED
    BY <1>1, <1>2, <1>3, <1>4, <1>5 DEF Ok

\* One of the parties is paid.
LEMMA Credited ==
    ASSUME NEW amt \in Nat \ {0}, NEW x, NEW F, NEW D, NEW ph, NEW a, NEW b, NEW hold, NEW sel,
           Ok(amt, x, F, D, ph, a, b, hold, sel), NEW w \in Workers, NEW D2, D \subseteq D2,
           hold[w] = "flight", NEW to \in {"payee", "payer"}, NEW g, Replaces(g, hold, w, to),
           NEW a2, a2 = a + (IF to = "payer" THEN amt ELSE 0),
           NEW b2, b2 = b + (IF to = "payee" THEN amt ELSE 0),
           x \notin D2 => Alone(g, sel)
    PROVE  /\ Ok(amt, x, F, D2, ph, a2, b2, g, sel)
           /\ Kept(amt, x, F, a, b, hold) = 0 /\ Kept(amt, x, F, a2, b2, g) = 0
  <1>1. ph # "none" /\ x \in F /\ a \in Nat /\ b \in Nat
    BY DEF Ok, Truthful
  <1>2. g \in [Workers -> Stages] /\ g[w] = to /\ \A v \in Workers : v # w => g[v] = hold[v]
    BY DEF Replaces, Ok, Stages
  <1>2a. a2 \in Nat /\ b2 \in Nat /\ a2 >= a /\ b2 >= b /\ a2 + b2 = a + b + amt
         /\ (to = "payee" => b2 >= amt) /\ (to = "payer" => a2 >= amt)
    BY <1>1
  <1>3. Truthful(amt, x, F, ph, a2, b2, g, sel)
    BY <1>1, <1>2, <1>2a DEF Truthful, Ok
  <1>4. ASSUME x \notin D2 PROVE Clean(amt, ph, a2, b2, g, sel)
    <2>1. Clean(amt, ph, a, b, hold, sel)
      BY <1>4 DEF Ok
    <2>2. a + b = 0 /\ ph = "pending" /\ \A v \in Workers : v # w => g[v] = "no" /\ v \notin sel
      BY <1>2, <2>1 DEF Clean, Alone
    <2>3. QED
      BY <1>2, <1>2a, <1>4, <2>1, <2>2 DEF Clean
  <1>5. QED
    BY <1>1, <1>2, <1>2a, <1>3, <1>4 DEF Ok, Kept

\* The row is closed, unless it was closed before.
LEMMA Closed ==
    ASSUME NEW amt \in Nat \ {0}, NEW x, NEW F, NEW D, NEW ph, NEW a, NEW b, NEW hold, NEW sel,
           Ok(amt, x, F, D, ph, a, b, hold, sel), NEW w \in Workers, NEW D2, D \subseteq D2,
           hold[w] \in {"payee", "payer"}, w \notin sel,
           NEW g, Replaces(g, hold, w, "no"),
           NEW p2, p2 = IF ph = "pending" THEN hold[w] ELSE ph, x \notin D2 => Alone(g, sel)
    PROVE  /\ Ok(amt, x, F, D2, p2, a, b, g, sel)
           /\ Kept(amt, x, F, a, b, g) = Kept(amt, x, F, a, b, hold)
  <1>1. ph # "none" /\ p2 \in {"payee", "payer"} /\ x \in F /\ a \in Nat /\ b \in Nat
    BY DEF Ok, Truthful
  <1>2. g \in [Workers -> Stages] /\ g[w] = "no" /\ \A v \in Workers : v # w => g[v] = hold[v]
    BY DEF Replaces, Ok, Stages
  <1>3. Truthful(amt, x, F, p2, a, b, g, sel)
    BY <1>1, <1>2 DEF Truthful, Ok
  <1>4. ASSUME x \notin D2 PROVE Clean(amt, p2, a, b, g, sel)
    <2>1. Clean(amt, ph, a, b, hold, sel)
      BY <1>4 DEF Ok
    <2>2. \A v \in Workers : g[v] = "no" /\ v \notin sel
      BY <1>2, <2>1 DEF Clean, Alone
    <2>3. QED
      BY <1>1, <1>4, <2>1, <2>2 DEF Clean
  <1>5. Kept(amt, x, F, a, b, g) = Kept(amt, x, F, a, b, hold)
    BY <1>1, <1>2 DEF Kept
  <1>6. QED
    BY <1>1, <1>2, <1>3, <1>4, <1>5 DEF Ok

\* A sweep selects a pending row.
LEMMA Picked ==
    ASSUME NEW amt \in Nat \ {0}, NEW x, NEW F, NEW D, NEW ph, NEW a, NEW b, NEW hold, NEW sel,
           Ok(amt, x, F, D, ph, a, b, hold, sel), NEW w \in Workers, NEW D2, D \subseteq D2,
           ph = "pending", NEW s2, s2 = sel \cup {w}, x \notin D2 => Alone(hold, s2)
    PROVE  Ok(amt, x, F, D2, ph, a, b, hold, s2)
  <1>3. Truthful(amt, x, F, ph, a, b, hold, s2)
    BY DEF Truthful, Ok
  <1>4. ASSUME x \notin D2 PROVE Clean(amt, ph, a, b, hold, s2)
    BY <1>4 DEF Clean, Ok
  <1>6. QED
    BY <1>3, <1>4 DEF Ok

\* A row of which nothing changes, but that others may now be disturbed.
LEMMA Untouched ==
    ASSUME NEW amt \in Nat \ {0}, NEW x, NEW F, NEW D, NEW ph, NEW a, NEW b, NEW hold, NEW sel,
           Ok(amt, x, F, D, ph, a, b, hold, sel), NEW D2, D \subseteq D2
    PROVE  Ok(amt, x, F, D2, ph, a, b, hold, sel)
  BY DEF Ok

\* A restart drops every handler.
LEMMA Restarted ==
    ASSUME NEW amt \in Nat \ {0}, NEW x, NEW F, NEW D, NEW ph, NEW a, NEW b, NEW hold, NEW sel,
           Ok(amt, x, F, D, ph, a, b, hold, sel), NEW D2, D \subseteq D2,
           (\E w \in Workers : hold[w] # "no") => x \in D2,
           NEW g, g = [w \in Workers |-> "no"]
    PROVE  /\ Ok(amt, x, F, D2, ph, a, b, g, {})
           /\ x \notin D2 => Kept(amt, x, F, a, b, g) = Kept(amt, x, F, a, b, hold)
  <1>1. g \in [Workers -> Stages] /\ \A v \in Workers : g[v] = "no"
    BY DEF Stages
  <1>2. Truthful(amt, x, F, ph, a, b, g, {})
    BY <1>1 DEF Truthful, Ok
  <1>3. ASSUME x \notin D2
        PROVE  Clean(amt, ph, a, b, g, {}) /\ \A v \in Workers : hold[v] = g[v]
    BY <1>1, <1>3 DEF Clean, Ok, Alone
  <1>4. QED
    BY <1>1, <1>2, <1>3 DEF Ok, Kept

-----------------------------------------------------------------------------
(* What the handlers' records say.                                          *)

\* A handler at a known await has a known shape.
LEMMA InsertShape ==
    ASSUME NEW j, IsJob(j), j.pc = "insert"
    PROVE  \E c \in Claims : j = Insertion(c)
  BY DEF IsJob, ClaimWork, SaleRuns, SaleEnds, Insertion, Payment, Sweeping, C!Handler, S!Job, S!Release, Idle

\* A sweep between two rows.
LEMMA NextShape ==
    ASSUME NEW j, IsJob(j), j.pc = "next"
    PROVE  \E todo \in SUBSET Claims : j = Sweeping(todo)
  BY DEF IsJob, ClaimWork, SaleRuns, SaleEnds, Insertion, Payment, Sweeping, C!Handler, S!Job, S!Release, Idle

\* A redeem, or a sweep that works on a row.
LEMMA WorkShape ==
    ASSUME NEW j, IsJob(j), NEW pc \in ClaimWork, j.pc = pc
    PROVE  \E op \in {"redeem", "sweep"}, c \in Claims, todo \in SUBSET Claims :
              c \notin todo /\ j = Payment(op, pc, c, todo)
  BY DEF IsJob, ClaimWork, SaleRuns, SaleEnds, Insertion, Payment, Sweeping, C!Handler, S!Job, S!Release, Idle

\* A sale before the answer of the API.
LEMMA RunShape ==
    ASSUME NEW j, IsJob(j), NEW pc \in SaleRuns, j.pc = pc
    PROVE  \E s \in Sales : j = S!Job(pc, s)
  BY DEF IsJob, ClaimWork, SaleRuns, SaleEnds, Insertion, Payment, Sweeping, C!Handler, S!Job, S!Release, Idle

\* A sale after the answer of the API.
LEMMA EndShape ==
    ASSUME NEW j, IsJob(j), NEW pc \in SaleEnds, j.pc = pc
    PROVE  \E s \in Sales, ok \in BOOLEAN : j = S!Release(pc, s, ok)
  BY DEF IsJob, ClaimWork, SaleRuns, SaleEnds, Insertion, Payment, Sweeping, C!Handler, S!Job, S!Release, Idle

\* An idle handler holds nothing.
LEMMA IdleRecord ==
    /\ IsJob(Idle) /\ HandOf(Idle) = {} /\ SelOf(Idle) = {} /\ FlightOf(Idle) = 0
    /\ Idle = C!Idle /\ Idle = S!Idle
  BY DEF IsJob, HandOf, SelOf, FlightOf, Idle, C!Idle, S!Idle, ClaimWork, SaleRuns, SaleEnds

\* What a handler about to write a claim holds.
LEMMA InsertRecord ==
    ASSUME NEW c \in Claims, NEW j, j = Insertion(c)
    PROVE  /\ IsJob(j) /\ HandOf(j) = {c} /\ SelOf(j) = {} /\ FlightOf(j) = 0
           /\ StageOf(j) = "open" /\ j.todo = {} /\ j.rows = {c}
  <1>1. j.pc = "insert" /\ j.todo = {} /\ j.rows = {c}
    BY DEF C!Handler, Insertion, Payment, Sweeping
  <1>2. IsJob(j)
    BY DEF IsJob
  <1>3. QED
    BY <1>1, <1>2 DEF HandOf, SelOf, FlightOf, StageOf, ClaimWork, SaleRuns, SaleEnds

\* What a sweep between two rows holds.
LEMMA NextRecord ==
    ASSUME NEW todo \in SUBSET Claims, NEW j, j = Sweeping(todo)
    PROVE  /\ IsJob(j) /\ HandOf(j) = {} /\ SelOf(j) = todo /\ FlightOf(j) = 0 /\ j.todo = todo
  <1>1. j.pc = "next" /\ j.todo = todo
    BY DEF C!Handler, Insertion, Payment, Sweeping
  <1>2. IsJob(j)
    BY DEF IsJob
  <1>3. QED
    BY <1>1, <1>2 DEF HandOf, SelOf, FlightOf, ClaimWork, SaleRuns, SaleEnds

\* What a redeem or a sweep at work holds.
LEMMA WorkRecord ==
    ASSUME NEW op \in {"redeem", "sweep"}, NEW pc \in ClaimWork, NEW c \in Claims,
           NEW todo \in SUBSET Claims, c \notin todo, NEW j, j = Payment(op, pc, c, todo)
    PROVE  /\ IsJob(j) /\ HandOf(j) = {c} /\ SelOf(j) = todo
           /\ FlightOf(j) = (IF pc = "creditClaim" THEN Amount[c] ELSE 0)
           /\ StageOf(j) = (CASE pc = "debitClaim" -> "due"
                              [] pc = "creditClaim" -> "flight"
                              [] pc = "update" -> IF op = "redeem" THEN "payee" ELSE "payer")
           /\ j.op = op /\ j.pc = pc /\ j.todo = todo /\ j.rows = {c}
  <1>1. j.op = op /\ j.pc = pc /\ j.todo = todo /\ j.rows = {c}
    BY DEF C!Handler, Insertion, Payment, Sweeping
  <1>2. IsJob(j)
    BY DEF IsJob
  <1>3. Total([d \in {c} |-> Amount[d]]) = Amount[c]
    <2>1. [d \in {c} |-> Amount[d]] = [d \in {c} |-> Amount[c]]
      OBVIOUS
    <2>2. IsFiniteSet({c}) /\ Cardinality({c}) = 1 /\ Amount[c] \in Nat
      BY FS_Singleton, EscrowAssumption
    <2>3. Total([d \in {c} |-> Amount[c]]) = Amount[c] * 1
      BY <2>2, TotalEqual
    <2>4. QED
      BY <2>1, <2>2, <2>3
  <1>4. QED
    BY <1>1, <1>2, <1>3 DEF HandOf, SelOf, FlightOf, StageOf, ClaimWork, SaleRuns, SaleEnds

\* What a sale before the answer of the API holds.
LEMMA RunRecord ==
    ASSUME NEW pc \in SaleRuns, NEW s \in Sales, NEW j, j = S!Job(pc, s)
    PROVE  /\ IsJob(j) /\ HandOf(j) = {s} /\ SelOf(j) = {} /\ FlightOf(j) = 0
           /\ StageOf(j) = (IF pc = "record" THEN "open" ELSE "due")
           /\ j.pc = pc /\ j.sale = s
  <1>1. j.pc = pc /\ j.sale = s
    BY DEF S!Job
  <1>2. IsJob(j)
    BY DEF IsJob
  <1>3. QED
    BY <1>1, <1>2 DEF HandOf, SelOf, FlightOf, StageOf, ClaimWork, SaleRuns, SaleEnds

\* What a sale after the answer of the API holds.
LEMMA EndRecord ==
    ASSUME NEW pc \in SaleEnds, NEW s \in Sales, NEW ok \in BOOLEAN, NEW j, j = S!Release(pc, s, ok)
    PROVE  /\ IsJob(j) /\ HandOf(j) = {s} /\ SelOf(j) = {}
           /\ FlightOf(j) = (IF pc = "creditSale" THEN Price[s] ELSE 0)
           /\ StageOf(j) = (CASE pc = "outcome" -> "due"
                              [] pc = "debitSale" -> "due"
                              [] pc = "creditSale" -> "flight"
                              [] pc = "settle" -> IF ok THEN "payee" ELSE "payer")
           /\ j.pc = pc /\ j.sale = s /\ j.ok = ok
  <1>1. j.pc = pc /\ j.sale = s /\ j.ok = ok
    BY DEF S!Release
  <1>2. IsJob(j)
    BY DEF IsJob
  <1>3. QED
    BY <1>1, <1>2 DEF HandOf, SelOf, FlightOf, StageOf, ClaimWork, SaleRuns, SaleEnds

\* The two components sum up as this module does.
LEMMA SameTotal ==
    ASSUME NEW f
    PROVE  C!Total(f) = Total(f) /\ S!Total(f) = Total(f)
  <1>1. C!Units(f) = Units(f) /\ S!Units(f) = Units(f)
    BY DEF C!Units, S!Units, Units
  <1>2. QED
    BY <1>1 DEF C!Total, S!Total, Total, C!Cardinality, S!Cardinality, Cardinality

\* Money in flight is a natural number.
LEMMA FlightType ==
    ASSUME NEW j, IsJob(j)
    PROVE  FlightOf(j) \in Nat
  <1>1. CASE j.pc = "creditClaim"
    <2>1. PICK pc \in ClaimWork : pc = j.pc
      BY <1>1 DEF ClaimWork
    <2>2. PICK op \in {"redeem", "sweep"}, c \in Claims, todo \in SUBSET Claims :
             c \notin todo /\ j = Payment(op, pc, c, todo)
      BY <2>1, WorkShape
    <2>3. FlightOf(j) = IF pc = "creditClaim" THEN Amount[c] ELSE 0
      BY <2>2, WorkRecord
    <2>4. QED
      BY <2>3, EscrowAssumption
  <1>2. CASE j.pc = "creditSale"
    <2>1. PICK pc \in SaleEnds : pc = j.pc
      BY <1>2 DEF SaleEnds
    <2>2. PICK s \in Sales, ok \in BOOLEAN : j = S!Release(pc, s, ok)
      BY <2>1, EndShape
    <2>3. j.sale \in Sales
      BY <2>2 DEF S!Release
    <2>4. QED
      BY <1>2, <2>3, EscrowAssumption DEF FlightOf
  <1>3. CASE j.pc \notin {"creditClaim", "creditSale"}
    BY <1>3 DEF FlightOf
  <1>4. QED
    BY <1>1, <1>2, <1>3

\* Where the model speaks of handlers, the proofs speak of their records.
LEMMA Records ==
    ASSUME NEW w \in Workers
    PROVE  /\ InHand(w) = HandOf(worker[w])
           /\ IsJob(worker[w]) => C!Selected(w) = SelOf(worker[w])
           /\ IsJob(worker[w]) => C!InFlight(w) + S!InFlight(w) = FlightOf(worker[w])
  <1>1. InHand(w) = HandOf(worker[w])
    BY DEF InHand, C!InHand, S!InHand, HandOf, S!Running, S!Releasing, ClaimWork, SaleRuns, SaleEnds
  <1>2. ASSUME IsJob(worker[w]) PROVE C!Selected(w) = SelOf(worker[w])
    <2>1. ASSUME worker[w].pc \in ClaimWork \cup {"insert"}, NEW c, worker[w].rows = {c}
          PROVE  C!Selected(w) = SelOf(worker[w])
      <3>1. C!InHand(w) # {}
        BY <2>1 DEF C!InHand, ClaimWork
      <3>2. QED
        BY <2>1, <3>1 DEF C!Selected, SelOf
    <2>2. ASSUME worker[w].pc \notin ClaimWork \cup {"insert"}
          PROVE  C!Selected(w) = SelOf(worker[w])
      BY <2>2 DEF C!Selected, SelOf, C!InHand, ClaimWork
    <2>3. worker[w].pc \in ClaimWork \cup {"insert"} => \E c \in Claims : worker[w].rows = {c}
      <3>1. IsJob(worker[w])
        BY <1>2
      <3>2. QED
        BY <3>1, InsertShape, WorkShape DEF C!Handler, Insertion, Payment, Sweeping
    <2>4. QED
      BY <2>1, <2>2, <2>3
  <1>3. ASSUME IsJob(worker[w]) PROVE C!InFlight(w) + S!InFlight(w) = FlightOf(worker[w])
    <2>1. CASE worker[w].pc = "creditClaim"
      <3>2. FlightOf(worker[w]) \in Nat
        BY <1>3, FlightType
      <3>3. C!InFlight(w) = FlightOf(worker[w]) /\ S!InFlight(w) = 0
        BY <2>1, SameTotal DEF C!InFlight, S!InFlight, FlightOf
      <3>4. QED
        BY <3>2, <3>3
    <2>2. CASE worker[w].pc = "creditSale"
      <3>2. FlightOf(worker[w]) \in Nat
        BY <1>3, FlightType
      <3>3. S!InFlight(w) = FlightOf(worker[w]) /\ C!InFlight(w) = 0
        BY <2>2 DEF C!InFlight, S!InFlight, FlightOf
      <3>4. QED
        BY <3>2, <3>3
    <2>3. CASE worker[w].pc \notin {"creditClaim", "creditSale"}
      BY <2>3 DEF C!InFlight, S!InFlight, FlightOf
    <2>4. QED
      BY <2>1, <2>2, <2>3
  <1>4. QED
    BY <1>1, <1>2, <1>3

\* The same for all handlers, in this state ...
LEMMA RecordsNow ==
    \A w \in Workers : IsJob(worker[w]) =>
        /\ InHand(w) = HandOf(worker[w]) /\ C!Selected(w) = SelOf(worker[w])
        /\ C!InFlight(w) + S!InFlight(w) = FlightOf(worker[w])
  BY Records

\* ... and in the next.
LEMMA RecordsNext ==
    (\A w \in Workers : IsJob(worker[w]) =>
        /\ InHand(w) = HandOf(worker[w]) /\ C!Selected(w) = SelOf(worker[w])
        /\ C!InFlight(w) + S!InFlight(w) = FlightOf(worker[w]))'
  BY RecordsNow, PTL

-----------------------------------------------------------------------------
(* One step of one handler on one row.                                      *)

\* Amounts are positive.
LEMMA AmtType == \A x \in Rows : Amt(x) \in Nat \ {0}
  BY EscrowAssumption DEF Rows, Amt

\* There are finitely many rows.
LEMMA RowsFinite == IsFiniteSet(Rows)
  BY EscrowAssumption, FS_Union DEF Rows

\* A step that replaces the record of one handler, which holds and picks no row but x,
\* changes only what is seen of x.
LEMMA Seen ==
    ASSUME Types, NEW w \in Workers, NEW x \in Rows, NEW j, S!Become(w, j),
           IsJob(j), HandOf(worker[w]) \subseteq {x}, HandOf(j) \subseteq {x},
           SelOf(j) \ {x} = SelOf(worker[w]) \ {x}
    PROVE  /\ worker' = [v \in Workers |-> worker'[v]] /\ \A v \in Workers : IsJob(worker[v]')
           /\ \A y \in Rows \ {x} : Holding(y)' = Holding(y) /\ Chosen(y)' = Chosen(y)
           /\ Holding(x)' = [Holding(x) EXCEPT ![w] = HoldOf(x, j)]
           /\ Chosen(x)' = IF x \in SelOf(j) THEN Chosen(x) \cup {w} ELSE Chosen(x) \ {w}
           /\ Flight' = [Flight EXCEPT ![w] = FlightOf(j)]
           /\ Holding(x)[w] = HoldOf(x, worker[w])
  <1>1. worker'[w] = j /\ \A v \in Workers : v # w => worker'[v] = worker[v]
    BY DEF Types, S!Become
  <1>2. worker' = [v \in Workers |-> worker'[v]]
    BY DEF Types, S!Become
  <1>3. \A v \in Workers : IsJob(worker[v]')
    <2>1. \A v \in Workers : IsJob(worker'[v])
      BY <1>1 DEF Types
    <2>2. QED
      BY <2>1
  <1>4. ASSUME NEW y \in Rows \ {x} PROVE Holding(y)' = Holding(y) /\ Chosen(y)' = Chosen(y)
    <2>1. \A v \in Workers : HoldOf(y, worker'[v]) = HoldOf(y, worker[v])
      BY <1>1 DEF HoldOf
    <2>2. \A v \in Workers : y \in SelOf(worker'[v]) <=> y \in SelOf(worker[v])
      BY <1>1
    <2>3. QED
      BY <2>1, <2>2 DEF Holding, Chosen
  <1>5. Holding(x)' = [Holding(x) EXCEPT ![w] = HoldOf(x, j)]
    <2>1. \A v \in Workers : HoldOf(x, worker'[v]) = IF v = w THEN HoldOf(x, j) ELSE HoldOf(x, worker[v])
      BY <1>1
    <2>2. QED
      BY <2>1 DEF Holding
  <1>6. Chosen(x)' = IF x \in SelOf(j) THEN Chosen(x) \cup {w} ELSE Chosen(x) \ {w}
    BY <1>1 DEF Chosen
  <1>7. Flight' = [Flight EXCEPT ![w] = FlightOf(j)]
    <2>1. \A v \in Workers : FlightOf(worker'[v]) = IF v = w THEN FlightOf(j) ELSE FlightOf(worker[v])
      BY <1>1
    <2>2. QED
      BY <2>1 DEF Flight
  <1>8. Holding(x)[w] = HoldOf(x, worker[w])
    BY DEF Holding
  <1>9. QED
    BY <1>2, <1>3, <1>4, <1>5, <1>6, <1>7, <1>8

\* The history: what was disturbed stays so, a row that two handlers hold is, and so
\* is one that a fault drops.
LEMMA Recorded ==
    ASSUME Types, worker' = [v \in Workers |-> worker'[v]], \A v \in Workers : IsJob(worker[v]'), Record
    PROVE  /\ disturbed \subseteq disturbed' /\ funded' = funded
           /\ \A x \in Rows : x \notin disturbed' => Alone(Holding(x)', Chosen(x)')
           /\ \A w \in Workers : faults' # faults /\ worker'[w] # worker[w]
                                  => HandOf(worker[w]) \subseteq disturbed'
           /\ faults' # faults => queue \ queue' \subseteq disturbed'
  <1>1. disturbed \subseteq disturbed' /\ funded' = funded /\ Overlapped' \subseteq disturbed' /\ Hit \subseteq disturbed'
    BY DEF Record
  <1>2. \A v \in Workers : InHand(v)' = HandOf(worker[v])' /\ C!Selected(v)' = SelOf(worker[v])'
    BY RecordsNext
  <1>3. ASSUME NEW x \in Rows, x \notin disturbed' PROVE Alone(Holding(x)', Chosen(x)')
    <2>1. SUFFICES ASSUME NEW w \in Workers, NEW v \in Workers, w # v, Holding(x)'[w] # "no"
                   PROVE  Holding(x)'[v] = "no" /\ v \notin Chosen(x)'
      BY DEF Alone
    <2>2. x \in HandOf(worker[w])'
      BY <2>1 DEF Holding, HoldOf
    <2>3. x \notin HandOf(worker[v])' /\ x \notin SelOf(worker[v])'
      BY <1>1, <1>2, <1>3, <2>1, <2>2 DEF Overlapped
    <2>4. QED
      BY <2>3 DEF Holding, HoldOf, Chosen
  <1>4. ASSUME NEW w \in Workers, faults' # faults, worker'[w] # worker[w]
        PROVE  HandOf(worker[w]) \subseteq disturbed'
    <2>1. InHand(w) \subseteq Hit
      BY <1>4 DEF Hit
    <2>2. QED
      BY <1>1, <2>1, Records DEF Types
  <1>5. ASSUME faults' # faults PROVE queue \ queue' \subseteq disturbed'
    <2>1. queue \ queue' \subseteq Hit
      BY <1>5 DEF Hit
    <2>2. QED
      BY <1>1, <2>1
  <1>6. QED
    BY <1>1, <1>3, <1>4, <1>5

\* The invariant is kept when one row and one handler change, the row stays sound, no
\* money appears and, while nothing is disturbed, the account keeps what is due.
LEMMA RowStep ==
    ASSUME Inv, Types', NEW x \in Rows, NEW w \in Workers,
           disturbed \subseteq disturbed', funded' = funded,
           \A y \in Rows \ {x} : /\ Phase(y)' = Phase(y) /\ Payer(y)' = Payer(y) /\ Payee(y)' = Payee(y)
                                 /\ Holding(y)' = Holding(y) /\ Chosen(y)' = Chosen(y),
           Sound(x)', NEW n \in Nat, FlightOf(worker[w]) \in Nat, Flight' = [Flight EXCEPT ![w] = n],
           escrow' + Payer(x)' + Payee(x)' + n
              <= escrow + Payer(x) + Payee(x) + FlightOf(worker[w]),
           disturbed' = {} => escrow' - KeptFor(x)' = escrow - KeptFor(x)
    PROVE  Inv'
  <1> DEFINE p == [y \in Rows |-> Payer(y)]
             q == [y \in Rows |-> Payee(y)]
             k == [y \in Rows |-> KeptFor(y)]
  <1>1. \A y \in Rows : Amt(y)' = Amt(y)
    BY DEF Amt
  <1>2. ASSUME NEW y \in Rows \ {x} PROVE Sound(y)' /\ KeptFor(y)' = KeptFor(y)
    <2>1. Sound(y) /\ Amt(y) \in Nat \ {0}
      BY AmtType DEF Inv
    <2>2. Ok(Amt(y), y, funded, disturbed', Phase(y), Payer(y), Payee(y), Holding(y), Chosen(y))
      BY <2>1, Untouched DEF Sound
    <2>3. Sound(y)'
      BY <1>1, <2>2 DEF Sound
    <2>4. KeptFor(y)' = KeptFor(y)
      BY <1>1 DEF KeptFor
    <2>5. QED
      BY <2>3, <2>4
  <1>3. \A y \in Rows : Sound(y) /\ Sound(y)'
    BY <1>2 DEF Inv
  <1>4. \A y \in Rows : /\ Payer(y) \in Nat /\ Payee(y) \in Nat /\ KeptFor(y) \in Nat
                         /\ Payer(y)' \in Nat /\ Payee(y)' \in Nat /\ KeptFor(y)' \in Nat
    <2>1. \A y \in Rows : Payer(y) \in Nat /\ Payee(y) \in Nat /\ Payer(y)' \in Nat /\ Payee(y)' \in Nat
      BY <1>3 DEF Sound, Ok
    <2>2. \A y \in Rows : KeptFor(y) \in Nat
      BY AmtType DEF KeptFor, Kept
    <2>3. \A y \in Rows : KeptFor(y)' \in Nat
      BY AmtType, <1>1 DEF KeptFor, Kept
    <2>4. QED
      BY <2>1, <2>2, <2>3
  <1>5. Total(p)' = Total(p) - Payer(x) + Payer(x)' /\ Total(p) \in Nat
    <2>1. PICK f \in [Rows -> Nat] : f = p
      BY <1>4
    <2>2. PICK g \in [Rows -> Nat] : g = p'
      BY <1>4
    <2>3. \A y \in Rows : f[y] = Payer(y) /\ g[y] = Payer(y)'
      BY <2>1, <2>2
    <2>4. Total(f) \in Nat /\ Total(g) = Total(f) - f[x] + g[x]
      BY <2>3, RowsFinite, TotalChange
    <2>5. Total(p)' = Total(g)
      BY <2>2
    <2>6. QED
      BY <2>1, <2>3, <2>4, <2>5
  <1>6. Total(q)' = Total(q) - Payee(x) + Payee(x)' /\ Total(q) \in Nat
    <2>1. PICK f \in [Rows -> Nat] : f = q
      BY <1>4
    <2>2. PICK g \in [Rows -> Nat] : g = q'
      BY <1>4
    <2>3. \A y \in Rows : f[y] = Payee(y) /\ g[y] = Payee(y)'
      BY <2>1, <2>2
    <2>4. Total(f) \in Nat /\ Total(g) = Total(f) - f[x] + g[x]
      BY <2>3, RowsFinite, TotalChange
    <2>5. Total(q)' = Total(g)
      BY <2>2
    <2>6. QED
      BY <2>1, <2>3, <2>4, <2>5
  <1>7. Total(k)' = Total(k) - KeptFor(x) + KeptFor(x)' /\ Total(k) \in Nat
    <2>1. PICK f \in [Rows -> Nat] : f = k
      BY <1>4
    <2>2. PICK g \in [Rows -> Nat] : g = k'
      BY <1>4
    <2>3. \A y \in Rows : f[y] = KeptFor(y) /\ g[y] = KeptFor(y)'
      BY <2>1, <2>2
    <2>4. Total(f) \in Nat /\ Total(g) = Total(f) - f[x] + g[x]
      BY <1>2, <2>3, RowsFinite, TotalChange
    <2>5. Total(k)' = Total(g)
      BY <2>2
    <2>6. QED
      BY <2>1, <2>3, <2>4, <2>5
  <1>8. Total(Flight)' = Total(Flight) - FlightOf(worker[w]) + n /\ Total(Flight) \in Nat
    <2>1. Flight \in [Workers -> Nat] /\ Flight[w] = FlightOf(worker[w])
      BY FlightType DEF Inv, Types, Flight
    <2>2. IsFiniteSet(Workers)
      BY EscrowAssumption
    <2>3. PICK f \in [Workers -> Nat] : f = Flight
      BY <2>1
    <2>4. Total([f EXCEPT ![w] = n]) = Total(f) - f[w] + n /\ Total(f) \in Nat
      BY <2>2, TotalExcept, TotalType
    <2>5. Total(Flight)' = Total([f EXCEPT ![w] = n])
      BY <2>3
    <2>6. QED
      BY <2>1, <2>3, <2>4, <2>5
  <1>9. Money'
    <2>1. escrow \in Nat /\ escrow' \in Nat
      BY DEF Inv, Types
    <2>2. PICK m : m = Total([y \in Rows |-> IF y \in funded THEN Amt(y) ELSE 0])
      OBVIOUS
    <2>3. Total([y \in Rows |-> IF y \in funded THEN Amt(y) ELSE 0])' = m
      BY <1>1, <2>2
    <2>4. m \in Nat
      <3>1. [y \in Rows |-> IF y \in funded THEN Amt(y) ELSE 0] \in [Rows -> Nat]
        BY AmtType
      <3>2. QED
        BY <2>2, <3>1, RowsFinite, TotalType
    <2>5. escrow' + Total(p)' + Total(q)' + Total(Flight)' <= m
      <3>1. escrow + Total(p) + Total(q) + Total(Flight) <= m
        BY <2>2 DEF Inv, Money
      <3>2. QED
        BY <1>3, <1>4, <1>5, <1>6, <1>8, <2>1, <2>4, <3>1
    <2>6. disturbed' = {} => escrow' = Total(k)'
      <3>1. disturbed' = {} => escrow = Total(k)
        BY DEF Inv, Money
      <3>2. QED
        BY <1>4, <1>7, <2>1, <3>1
    <2>7. QED
      BY <2>3, <2>5, <2>6 DEF Money
  <1>10. QED
    BY <1>3, <1>9 DEF Inv

\* Before a step of handler w, which works on row x and on no other.
LEMMA Before ==
    ASSUME Inv, Record, NEW w \in Workers, NEW x \in Rows, NEW j,
           S!Become(w, j), IsJob(j),
           HandOf(worker[w]) \subseteq {x}, HandOf(j) \subseteq {x},
           SelOf(j) \ {x} = SelOf(worker[w]) \ {x}
    PROVE  /\ Ok(Amt(x), x, funded, disturbed, Phase(x), Payer(x), Payee(x), Holding(x), Chosen(x))
           /\ Amt(x) \in Nat \ {0} /\ disturbed \subseteq disturbed'
           /\ Holding(x)[w] = HoldOf(x, worker[w])
           /\ Replaces(Holding(x)', Holding(x), w, HoldOf(x, j))
           /\ HoldOf(x, j) = HoldOf(x, worker[w]) => Holding(x)' = Holding(x)
           /\ (x \in SelOf(j) <=> x \in SelOf(worker[w])) => Chosen(x)' = Chosen(x)
           /\ x \notin SelOf(j) => Chosen(x)' = Chosen(x) \ {w}
           /\ x \in SelOf(worker[w]) => w \in Chosen(x)
           /\ x \notin SelOf(worker[w]) => w \notin Chosen(x)
           /\ x \notin disturbed' => Alone(Holding(x)', Chosen(x)')
           /\ faults' # faults /\ j # worker[w] => HandOf(worker[w]) \subseteq disturbed'
  <1>1. Types /\ Sound(x)
    BY DEF Inv
  <1>2. /\ worker' = [v \in Workers |-> worker'[v]] /\ \A v \in Workers : IsJob(worker[v]')
        /\ Holding(x)' = [Holding(x) EXCEPT ![w] = HoldOf(x, j)]
        /\ Chosen(x)' = IF x \in SelOf(j) THEN Chosen(x) \cup {w} ELSE Chosen(x) \ {w}
        /\ Holding(x)[w] = HoldOf(x, worker[w])
    BY <1>1, Seen
  <1>3. /\ disturbed \subseteq disturbed'
        /\ x \notin disturbed' => Alone(Holding(x)', Chosen(x)')
        /\ faults' # faults /\ worker'[w] # worker[w] => HandOf(worker[w]) \subseteq disturbed'
    BY <1>1, <1>2, Recorded
  <1>4. worker'[w] = j
    BY <1>1 DEF Types, S!Become
  <1>5. w \in Chosen(x) <=> x \in SelOf(worker[w])
    BY DEF Chosen
  <1>6. HoldOf(x, j) = HoldOf(x, worker[w]) => Holding(x)' = Holding(x)
    BY <1>2 DEF Holding
  <1>7. QED
    BY <1>1, <1>2, <1>3, <1>4, <1>5, <1>6, AmtType DEF Sound, Replaces

\* After it.
LEMMA After ==
    ASSUME Inv, Record, NEW w \in Workers, NEW x \in Rows, NEW j,
           S!Become(w, j), IsJob(j),
           HandOf(worker[w]) \subseteq {x}, HandOf(j) \subseteq {x},
           SelOf(j) \ {x} = SelOf(worker[w]) \ {x},
           C!TypeOK', S!TypeOK', escrow' \in Nat, faults' \in Nat,
           \A y \in Rows \ {x} : Phase(y)' = Phase(y) /\ Payer(y)' = Payer(y) /\ Payee(y)' = Payee(y),
           Ok(Amt(x), x, funded, disturbed', Phase(x)', Payer(x)', Payee(x)', Holding(x)', Chosen(x)'),
           escrow' + Payer(x)' + Payee(x)' + FlightOf(j)
              <= escrow + Payer(x) + Payee(x) + FlightOf(worker[w]),
           disturbed' = {} =>
              escrow' - Kept(Amt(x), x, funded, Payer(x)', Payee(x)', Holding(x)')
                 = escrow - Kept(Amt(x), x, funded, Payer(x), Payee(x), Holding(x))
    PROVE  Inv'
  <1>1. Types
    BY DEF Inv
  <1>2. /\ worker' = [v \in Workers |-> worker'[v]] /\ \A v \in Workers : IsJob(worker[v]')
        /\ \A y \in Rows \ {x} : Holding(y)' = Holding(y) /\ Chosen(y)' = Chosen(y)
        /\ Flight' = [Flight EXCEPT ![w] = FlightOf(j)]
    BY <1>1, Seen
  <1>3. disturbed \subseteq disturbed' /\ funded' = funded
    BY <1>1, <1>2, Recorded
  <1>4. Types'
    BY <1>1, <1>2, <1>3 DEF Types, Rows
  <1>5. Amt(x)' = Amt(x)
    BY DEF Amt
  <1>6. Sound(x)'
    BY <1>3, <1>5 DEF Sound
  <1>7. KeptFor(x)' = Kept(Amt(x), x, funded, Payer(x)', Payee(x)', Holding(x)')
    BY <1>3, <1>5 DEF KeptFor
  <1>8. FlightOf(j) \in Nat /\ FlightOf(worker[w]) \in Nat
    BY <1>1, FlightType DEF Types
  <1>9. QED
    BY <1>2, <1>3, <1>4, <1>6, <1>7, <1>8, RowStep DEF KeptFor

\* A claim's handler touches its own claim only.
LEMMA OtherClaims ==
    ASSUME NEW c \in Claims, UNCHANGED saleVars,
           \A d \in Claims \ {c} : row'[d] = row[d] /\ sender'[d] = sender[d] /\ recipient'[d] = recipient[d]
    PROVE  \A y \in Rows \ {c} : Phase(y)' = Phase(y) /\ Payer(y)' = Payer(y) /\ Payee(y)' = Payee(y)
  <1>1. ASSUME NEW y \in Claims, y # c
        PROVE  Phase(y)' = Phase(y) /\ Payer(y)' = Payer(y) /\ Payee(y)' = Payee(y)
    <2>1. row'[y] = row[y] /\ sender'[y] = sender[y] /\ recipient'[y] = recipient[y]
      BY <1>1
    <2>2. QED
      BY <2>1 DEF Phase, Payer, Payee
  <1>2. ASSUME NEW y, y \notin Claims
        PROVE  Phase(y)' = Phase(y) /\ Payer(y)' = Payer(y) /\ Payee(y)' = Payee(y)
    BY <1>2 DEF Phase, Payer, Payee, saleVars
  <1>3. QED
    BY <1>1, <1>2

\* A sale's handler touches its own sale only.
LEMMA OtherSales ==
    ASSUME NEW s \in Sales, UNCHANGED claimVars,
           \A r \in Sales \ {s} : status'[r] = status[r] /\ consumer'[r] = consumer[r] /\ merchant'[r] = merchant[r]
    PROVE  \A y \in Rows \ {s} : Phase(y)' = Phase(y) /\ Payer(y)' = Payer(y) /\ Payee(y)' = Payee(y)
  <1>1. ASSUME NEW y \in Sales, y # s
        PROVE  Phase(y)' = Phase(y) /\ Payer(y)' = Payer(y) /\ Payee(y)' = Payee(y)
    <2>1. status'[y] = status[y] /\ consumer'[y] = consumer[y] /\ merchant'[y] = merchant[y] /\ y \notin Claims
      BY <1>1, EscrowAssumption
    <2>2. QED
      BY <2>1 DEF Phase, Payer, Payee
  <1>2. ASSUME NEW y \in Claims
        PROVE  Phase(y)' = Phase(y) /\ Payer(y)' = Payer(y) /\ Payee(y)' = Payee(y)
    BY DEF Phase, Payer, Payee, claimVars
  <1>3. QED
    BY <1>1, <1>2 DEF Rows

\* C!Leave ends a handler: idle, or on to the next row of its sweep.
LEMMA LeaveRecord ==
    ASSUME Types, NEW w \in Workers, NEW todo \in SUBSET Claims, worker[w].todo = todo, C!Leave(w)
    PROVE  \E j : /\ S!Become(w, j) /\ IsJob(j)
                  /\ HandOf(j) = {} /\ SelOf(j) = todo /\ FlightOf(j) = 0
  <1>1. S!Become(w, IF worker[w].todo = {} THEN C!Idle ELSE Sweeping(worker[w].todo))
    BY DEF C!Leave, Sweeping, S!Become
  <1>2. CASE todo = {}
    BY <1>1, <1>2, IdleRecord
  <1>3. CASE todo # {}
    BY <1>1, <1>3, NextRecord
  <1>4. QED
    BY <1>2, <1>3

\* C!Goto moves a handler to another await.
LEMMA GotoRecord ==
    ASSUME Types, NEW w \in Workers, NEW op, NEW pc, NEW c, NEW todo, NEW pc2,
           worker[w] = Payment(op, pc, c, todo), C!Goto(w, pc2)
    PROVE  S!Become(w, Payment(op, pc2, c, todo))
  <1>1. [Payment(op, pc, c, todo) EXCEPT !.pc = pc2] = Payment(op, pc2, c, todo)
    BY DEF Payment, C!Handler
  <1>2. worker' = [worker EXCEPT ![w] = [worker[w] EXCEPT !.pc = pc2]]
    BY DEF C!Goto
  <1>3. QED
    BY <1>1, <1>2 DEF S!Become

-----------------------------------------------------------------------------
(* The steps a handler may take with its row, for claims and sales alike.   *)

\* Types are kept, and no other row's books or table change.
Framed(x) ==
    /\ C!TypeOK' /\ S!TypeOK' /\ faults' \in Nat
    /\ \A y \in Rows \ {x} : Phase(y)' = Phase(y) /\ Payer(y)' = Payer(y) /\ Payee(y)' = Payee(y)
Still(x) == Phase(x)' = Phase(x) /\ Payer(x)' = Payer(x) /\ Payee(x)' = Payee(x)

\* The payer pays in; a handler may know of it.
LEMMA PayInStep ==
    ASSUME Inv, Record, NEW w \in Workers, NEW x \in Rows, NEW j, S!Become(w, j), IsJob(j), Framed(x),
           HandOf(worker[w]) = {}, SelOf(worker[w]) = {}, FlightOf(worker[w]) = 0,
           HandOf(j) = {} \/ (HandOf(j) = {x} /\ StageOf(j) = "open"), SelOf(j) = {}, FlightOf(j) = 0,
           Phase(x) = "none", Phase(x)' = "none", Payer(x) >= Amt(x), Payer(x)' = Payer(x) - Amt(x),
           Payee(x)' = Payee(x), escrow' = escrow + Amt(x)
    PROVE  Inv'
  <1>1. HoldOf(x, worker[w]) = "no" /\ (HoldOf(x, j) = "no" \/ HoldOf(x, j) = "open")
    BY DEF HoldOf
  <1>2. /\ Ok(Amt(x), x, funded, disturbed, Phase(x), Payer(x), Payee(x), Holding(x), Chosen(x))
        /\ Amt(x) \in Nat \ {0} /\ disturbed \subseteq disturbed' /\ Holding(x)[w] = "no"
        /\ Replaces(Holding(x)', Holding(x), w, HoldOf(x, j))
        /\ HoldOf(x, j) = "no" => Holding(x)' = Holding(x)
        /\ Chosen(x)' = Chosen(x)
        /\ x \notin disturbed' => Alone(Holding(x)', Chosen(x)')
    BY <1>1, Before
  <1>3. Holding(x)' = Holding(x) \/ Replaces(Holding(x)', Holding(x), w, "open")
    BY <1>1, <1>2
  <1>4. /\ Ok(Amt(x), x, funded, disturbed', Phase(x)', Payer(x)', Payee(x)', Holding(x)', Chosen(x)')
        /\ Kept(Amt(x), x, funded, Payer(x), Payee(x), Holding(x)) = 0
        /\ Kept(Amt(x), x, funded, Payer(x)', Payee(x)', Holding(x)') = Amt(x)
    <2>1. PICK g, a2 : g = Holding(x)' /\ a2 = Payer(x)'
      OBVIOUS
    <2>2. /\ g = Holding(x) \/ Replaces(g, Holding(x), w, "open")
          /\ a2 = Payer(x) - Amt(x)
          /\ x \notin disturbed' => Alone(g, Chosen(x))
      BY <1>2, <1>3, <2>1
    <2>3. /\ Ok(Amt(x), x, funded, disturbed', Phase(x), a2, Payee(x), g, Chosen(x))
          /\ Kept(Amt(x), x, funded, Payer(x), Payee(x), Holding(x)) = 0
          /\ Kept(Amt(x), x, funded, a2, Payee(x), g) = Amt(x)
      BY <1>2, <2>2, PaidIn
    <2>4. QED
      BY <1>2, <2>1, <2>3
  <1>5. escrow \in Nat /\ Payer(x) \in Nat /\ Payee(x) \in Nat
    BY <1>2 DEF Inv, Types, Ok
  <1>6. escrow' \in Nat
        /\ escrow' + Payer(x)' + Payee(x)' + FlightOf(j) <= escrow + Payer(x) + Payee(x) + FlightOf(worker[w])
    BY <1>2, <1>5
  <1>7. disturbed' = {} => escrow' - Kept(Amt(x), x, funded, Payer(x)', Payee(x)', Holding(x)')
                             = escrow - Kept(Amt(x), x, funded, Payer(x), Payee(x), Holding(x))
    BY <1>2, <1>4, <1>5
  <1>8. QED
    BY <1>2, <1>4, <1>5, <1>6, <1>7, After DEF Framed

\* The row is written, and its handler ends.
LEMMA OpenStep ==
    ASSUME Inv, Record, NEW w \in Workers, NEW x \in Rows, NEW j, S!Become(w, j), IsJob(j), Framed(x),
           HandOf(worker[w]) = {x}, StageOf(worker[w]) = "open", SelOf(worker[w]) = {}, FlightOf(worker[w]) = 0,
           HandOf(j) = {}, SelOf(j) = {}, FlightOf(j) = 0, Phase(x)' = "pending",
           Payer(x)' = Payer(x), Payee(x)' = Payee(x), escrow' = escrow
    PROVE  Inv'
  <1>1. HoldOf(x, worker[w]) = "open" /\ HoldOf(x, j) = "no"
    BY DEF HoldOf
  <1>2. /\ Ok(Amt(x), x, funded, disturbed, Phase(x), Payer(x), Payee(x), Holding(x), Chosen(x))
        /\ Amt(x) \in Nat \ {0} /\ disturbed \subseteq disturbed' /\ Holding(x)[w] = "open"
        /\ Replaces(Holding(x)', Holding(x), w, "no")
        /\ Chosen(x)' = Chosen(x)
        /\ x \notin disturbed' => Alone(Holding(x)', Chosen(x)')
    BY <1>1, Before
  <1>3. /\ Ok(Amt(x), x, funded, disturbed', Phase(x)', Payer(x)', Payee(x)', Holding(x)', Chosen(x)')
        /\ x \notin disturbed' => Kept(Amt(x), x, funded, Payer(x)', Payee(x)', Holding(x)')
                                   = Kept(Amt(x), x, funded, Payer(x), Payee(x), Holding(x))
    BY <1>2, Opened DEF Still
  <1>4. escrow \in Nat /\ Payer(x) \in Nat /\ Payee(x) \in Nat
    BY <1>2 DEF Inv, Types, Ok
  <1>5. escrow' \in Nat
        /\ escrow' + Payer(x)' + Payee(x)' + FlightOf(j) <= escrow + Payer(x) + Payee(x) + FlightOf(worker[w])
    BY <1>2, <1>4 DEF Still
  <1>6. disturbed' = {} => escrow' - Kept(Amt(x), x, funded, Payer(x)', Payee(x)', Holding(x)')
                             = escrow - Kept(Amt(x), x, funded, Payer(x), Payee(x), Holding(x))
    BY <1>2, <1>3, <1>4
  <1>7. QED
    BY <1>2, <1>3, <1>4, <1>5, <1>6, After DEF Framed, Still

\* A handler takes up a pending row, or one its sweep selected.
LEMMA BeginStep ==
    ASSUME Inv, Record, NEW w \in Workers, NEW x \in Rows, NEW j, S!Become(w, j), IsJob(j), Framed(x),
           HandOf(worker[w]) = {}, x \in SelOf(worker[w]) \/ Phase(x) = "pending",
           HandOf(j) = {x}, StageOf(j) = "due", SelOf(j) = SelOf(worker[w]) \ {x},
           FlightOf(worker[w]) = 0, FlightOf(j) = 0, Still(x), escrow' = escrow
    PROVE  Inv'
  <1>1. HoldOf(x, worker[w]) = "no" /\ HoldOf(x, j) = "due"
    BY DEF HoldOf
  <1>2. /\ Ok(Amt(x), x, funded, disturbed, Phase(x), Payer(x), Payee(x), Holding(x), Chosen(x))
        /\ Amt(x) \in Nat \ {0} /\ disturbed \subseteq disturbed' /\ Holding(x)[w] = "no"
        /\ Replaces(Holding(x)', Holding(x), w, "due")
        /\ Chosen(x)' = Chosen(x) \ {w} /\ (x \in SelOf(worker[w]) => w \in Chosen(x))
        /\ x \notin disturbed' => Alone(Holding(x)', Chosen(x)')
    BY <1>1, Before
  <1>3. /\ Ok(Amt(x), x, funded, disturbed', Phase(x)', Payer(x)', Payee(x)', Holding(x)', Chosen(x)')
        /\ x \notin disturbed' => Kept(Amt(x), x, funded, Payer(x)', Payee(x)', Holding(x)')
                                   = Kept(Amt(x), x, funded, Payer(x), Payee(x), Holding(x))
    BY <1>2, Begun DEF Still
  <1>4. escrow \in Nat /\ Payer(x) \in Nat /\ Payee(x) \in Nat
    BY <1>2 DEF Inv, Types, Ok
  <1>5. escrow' \in Nat
        /\ escrow' + Payer(x)' + Payee(x)' + FlightOf(j) <= escrow + Payer(x) + Payee(x) + FlightOf(worker[w])
    BY <1>2, <1>4 DEF Still
  <1>6. disturbed' = {} => escrow' - Kept(Amt(x), x, funded, Payer(x)', Payee(x)', Holding(x)')
                             = escrow - Kept(Amt(x), x, funded, Payer(x), Payee(x), Holding(x))
    BY <1>2, <1>3, <1>4
  <1>7. QED
    BY <1>2, <1>3, <1>4, <1>5, <1>6, After DEF Framed, Still

\* The account is debited.
LEMMA DebitStep ==
    ASSUME Inv, Record, NEW w \in Workers, NEW x \in Rows, NEW j, S!Become(w, j), IsJob(j), Framed(x),
           HandOf(worker[w]) = {x}, StageOf(worker[w]) = "due", SelOf(j) = SelOf(worker[w]),
           HandOf(j) = {x}, StageOf(j) = "flight", FlightOf(worker[w]) = 0, FlightOf(j) = Amt(x),
           Still(x), escrow >= Amt(x), escrow' = escrow - Amt(x)
    PROVE  Inv'
  <1>1. HoldOf(x, worker[w]) = "due" /\ HoldOf(x, j) = "flight"
    BY DEF HoldOf
  <1>2. /\ Ok(Amt(x), x, funded, disturbed, Phase(x), Payer(x), Payee(x), Holding(x), Chosen(x))
        /\ Amt(x) \in Nat \ {0} /\ disturbed \subseteq disturbed' /\ Holding(x)[w] = "due"
        /\ Replaces(Holding(x)', Holding(x), w, "flight")
        /\ Chosen(x)' = Chosen(x)
        /\ x \notin disturbed' => Alone(Holding(x)', Chosen(x)')
    BY <1>1, Before
  <1>3. /\ Ok(Amt(x), x, funded, disturbed', Phase(x)', Payer(x)', Payee(x)', Holding(x)', Chosen(x)')
        /\ x \notin disturbed' => /\ Kept(Amt(x), x, funded, Payer(x), Payee(x), Holding(x)) = Amt(x)
                               /\ Kept(Amt(x), x, funded, Payer(x)', Payee(x)', Holding(x)') = 0
    BY <1>2, Debited DEF Still
  <1>4. escrow \in Nat /\ Payer(x) \in Nat /\ Payee(x) \in Nat
    BY <1>2 DEF Inv, Types, Ok
  <1>5. escrow' \in Nat
        /\ escrow' + Payer(x)' + Payee(x)' + FlightOf(j) <= escrow + Payer(x) + Payee(x) + FlightOf(worker[w])
    BY <1>2, <1>4 DEF Still
  <1>6. disturbed' = {} => escrow' - Kept(Amt(x), x, funded, Payer(x)', Payee(x)', Holding(x)')
                             = escrow - Kept(Amt(x), x, funded, Payer(x), Payee(x), Holding(x))
    BY <1>2, <1>3, <1>4
  <1>7. QED
    BY <1>2, <1>3, <1>4, <1>5, <1>6, After DEF Framed, Still

\* The account cannot pay, and the handler goes on without the row.
LEMMA GiveUpStep ==
    ASSUME Inv, Record, NEW w \in Workers, NEW x \in Rows, NEW j, S!Become(w, j), IsJob(j), Framed(x),
           HandOf(worker[w]) = {x}, StageOf(worker[w]) = "due", SelOf(j) = SelOf(worker[w]),
           HandOf(j) = {}, FlightOf(worker[w]) = 0, FlightOf(j) = 0, Still(x), escrow' = escrow
    PROVE  Inv'
  <1>1. HoldOf(x, worker[w]) = "due" /\ HoldOf(x, j) = "no"
    BY DEF HoldOf
  <1>2. /\ Ok(Amt(x), x, funded, disturbed, Phase(x), Payer(x), Payee(x), Holding(x), Chosen(x))
        /\ Amt(x) \in Nat \ {0} /\ disturbed \subseteq disturbed' /\ Holding(x)[w] = "due"
        /\ Replaces(Holding(x)', Holding(x), w, "no")
        /\ Chosen(x)' = Chosen(x)
        /\ x \notin disturbed' => Alone(Holding(x)', Chosen(x)')
    BY <1>1, Before
  <1>3. /\ Ok(Amt(x), x, funded, disturbed', Phase(x)', Payer(x)', Payee(x)', Holding(x)', Chosen(x)')
        /\ x \notin disturbed' => Kept(Amt(x), x, funded, Payer(x)', Payee(x)', Holding(x)')
                                   = Kept(Amt(x), x, funded, Payer(x), Payee(x), Holding(x))
    BY <1>2, GivenUp DEF Still
  <1>4. escrow \in Nat /\ Payer(x) \in Nat /\ Payee(x) \in Nat
    BY <1>2 DEF Inv, Types, Ok
  <1>5. escrow' \in Nat
        /\ escrow' + Payer(x)' + Payee(x)' + FlightOf(j) <= escrow + Payer(x) + Payee(x) + FlightOf(worker[w])
    BY <1>2, <1>4 DEF Still
  <1>6. disturbed' = {} => escrow' - Kept(Amt(x), x, funded, Payer(x)', Payee(x)', Holding(x)')
                             = escrow - Kept(Amt(x), x, funded, Payer(x), Payee(x), Holding(x))
    BY <1>2, <1>3, <1>4
  <1>7. QED
    BY <1>2, <1>3, <1>4, <1>5, <1>6, After DEF Framed, Still

\* One of the parties is credited.
LEMMA CreditStep ==
    ASSUME Inv, Record, NEW w \in Workers, NEW x \in Rows, NEW j, S!Become(w, j), IsJob(j), Framed(x),
           NEW to \in {"payee", "payer"},
           HandOf(worker[w]) = {x}, StageOf(worker[w]) = "flight", SelOf(j) = SelOf(worker[w]),
           HandOf(j) = {x}, StageOf(j) = to, FlightOf(worker[w]) = Amt(x), FlightOf(j) = 0,
           Phase(x)' = Phase(x), Payer(x)' = Payer(x) + (IF to = "payer" THEN Amt(x) ELSE 0),
           Payee(x)' = Payee(x) + (IF to = "payee" THEN Amt(x) ELSE 0), escrow' = escrow
    PROVE  Inv'
  <1>1. HoldOf(x, worker[w]) = "flight" /\ HoldOf(x, j) = to
    BY DEF HoldOf
  <1>2. /\ Ok(Amt(x), x, funded, disturbed, Phase(x), Payer(x), Payee(x), Holding(x), Chosen(x))
        /\ Amt(x) \in Nat \ {0} /\ disturbed \subseteq disturbed' /\ Holding(x)[w] = "flight"
        /\ Replaces(Holding(x)', Holding(x), w, to)
        /\ Chosen(x)' = Chosen(x)
        /\ x \notin disturbed' => Alone(Holding(x)', Chosen(x)')
    BY <1>1, Before
  <1>3. /\ Ok(Amt(x), x, funded, disturbed', Phase(x)', Payer(x)', Payee(x)', Holding(x)', Chosen(x)')
        /\ Kept(Amt(x), x, funded, Payer(x), Payee(x), Holding(x)) = 0
        /\ Kept(Amt(x), x, funded, Payer(x)', Payee(x)', Holding(x)') = 0
    BY <1>2, Credited
  <1>4. escrow \in Nat /\ Payer(x) \in Nat /\ Payee(x) \in Nat
    BY <1>2 DEF Inv, Types, Ok
  <1>5. escrow' + Payer(x)' + Payee(x)' + FlightOf(j) <= escrow + Payer(x) + Payee(x) + FlightOf(worker[w])
    BY <1>2, <1>4
  <1>6. QED
    BY <1>2, <1>3, <1>4, <1>5, After DEF Framed

\* The row is closed, unless it was closed before.
LEMMA CloseStep ==
    ASSUME Inv, Record, NEW w \in Workers, NEW x \in Rows, NEW j, S!Become(w, j), IsJob(j), Framed(x),
           NEW to \in {"payee", "payer"},
           HandOf(worker[w]) = {x}, StageOf(worker[w]) = to, SelOf(j) = SelOf(worker[w]),
           x \notin SelOf(j), HandOf(j) = {}, FlightOf(worker[w]) = 0, FlightOf(j) = 0,
           Phase(x)' = (IF Phase(x) = "pending" THEN to ELSE Phase(x)),
           Payer(x)' = Payer(x), Payee(x)' = Payee(x), escrow' = escrow
    PROVE  Inv'
  <1>1. HoldOf(x, worker[w]) = to /\ HoldOf(x, j) = "no"
    BY DEF HoldOf
  <1>2. /\ Ok(Amt(x), x, funded, disturbed, Phase(x), Payer(x), Payee(x), Holding(x), Chosen(x))
        /\ Amt(x) \in Nat \ {0} /\ disturbed \subseteq disturbed' /\ Holding(x)[w] = to
        /\ Replaces(Holding(x)', Holding(x), w, "no")
        /\ Chosen(x)' = Chosen(x) /\ w \notin Chosen(x)
        /\ x \notin disturbed' => Alone(Holding(x)', Chosen(x)')
    BY <1>1, Before
  <1>3. /\ Ok(Amt(x), x, funded, disturbed', Phase(x)', Payer(x)', Payee(x)', Holding(x)', Chosen(x)')
        /\ Kept(Amt(x), x, funded, Payer(x)', Payee(x)', Holding(x)')
              = Kept(Amt(x), x, funded, Payer(x), Payee(x), Holding(x))
    BY <1>2, Closed
  <1>4. escrow \in Nat /\ Payer(x) \in Nat /\ Payee(x) \in Nat
    BY <1>2 DEF Inv, Types, Ok
  <1>5. escrow' \in Nat
        /\ escrow' + Payer(x)' + Payee(x)' + FlightOf(j) <= escrow + Payer(x) + Payee(x) + FlightOf(worker[w])
    BY <1>4
  <1>6. QED
    BY <1>2, <1>3, <1>4, <1>5, After DEF Framed

\* A fault ends the handler; it may have debited the account or paid a party first.
LEMMA DropStep ==
    ASSUME Inv, Record, NEW w \in Workers, NEW x \in Rows, NEW j, S!Become(w, j), IsJob(j), Framed(x),
           faults' # faults, HandOf(worker[w]) = {x}, StageOf(worker[w]) \in Stages \ {"no"},
           SelOf(j) = SelOf(worker[w]), HandOf(j) = {}, FlightOf(j) = 0,
           Phase(x)' = Phase(x), Payer(x)' \in Nat, Payee(x)' \in Nat,
           Payer(x)' >= Payer(x), Payee(x)' >= Payee(x),
           StageOf(worker[w]) = "open" => Payer(x)' = Payer(x) /\ Payee(x)' = Payee(x),
           escrow' \in Nat,
           escrow' + Payer(x)' + Payee(x)' <= escrow + Payer(x) + Payee(x) + FlightOf(worker[w])
    PROVE  Inv'
  <1>1. HoldOf(x, worker[w]) = StageOf(worker[w]) /\ HoldOf(x, j) = "no" /\ j # worker[w]
    BY DEF HoldOf
  <1>2. /\ Ok(Amt(x), x, funded, disturbed, Phase(x), Payer(x), Payee(x), Holding(x), Chosen(x))
        /\ Amt(x) \in Nat \ {0} /\ disturbed \subseteq disturbed'
        /\ Holding(x)[w] = StageOf(worker[w])
        /\ Replaces(Holding(x)', Holding(x), w, "no")
        /\ Chosen(x)' = Chosen(x) /\ x \in disturbed'
    BY <1>1, Before
  <1>3. Ok(Amt(x), x, funded, disturbed', Phase(x)', Payer(x)', Payee(x)', Holding(x)', Chosen(x)')
    BY <1>2, Dropped
  <1>4. escrow' + Payer(x)' + Payee(x)' + FlightOf(j) <= escrow + Payer(x) + Payee(x) + FlightOf(worker[w])
    OBVIOUS
  <1>5. QED
    BY <1>2, <1>3, <1>4, After DEF Framed

\* A step that is not seen in the row.
LEMMA StayStep ==
    ASSUME Inv, Record, NEW w \in Workers, NEW x \in Rows, NEW j, S!Become(w, j), IsJob(j), Framed(x),
           HandOf(j) = HandOf(worker[w]), HandOf(j) \subseteq {x}, SelOf(j) = SelOf(worker[w]),
           HandOf(j) = {x} => StageOf(j) = StageOf(worker[w]), FlightOf(j) = FlightOf(worker[w]),
           Still(x), escrow' = escrow
    PROVE  Inv'
  <1>1. HoldOf(x, worker[w]) = HoldOf(x, j)
    BY DEF HoldOf
  <1>2. /\ Ok(Amt(x), x, funded, disturbed, Phase(x), Payer(x), Payee(x), Holding(x), Chosen(x))
        /\ Amt(x) \in Nat \ {0} /\ disturbed \subseteq disturbed'
        /\ Holding(x)' = Holding(x) /\ Chosen(x)' = Chosen(x)
    BY <1>1, Before
  <1>3. Ok(Amt(x), x, funded, disturbed', Phase(x)', Payer(x)', Payee(x)', Holding(x)', Chosen(x)')
    BY <1>2, Untouched DEF Still
  <1>4. escrow \in Nat /\ Payer(x) \in Nat /\ Payee(x) \in Nat /\ FlightOf(j) \in Nat
    BY <1>2, FlightType DEF Inv, Types, Ok
  <1>5. QED
    BY <1>2, <1>3, <1>4, After DEF Framed, Still

-----------------------------------------------------------------------------
(* EscrowClaims, step by step.                                              *)

\* What the proofs say of a row, read off the columns and balances of a claim.
LEMMA ClaimView ==
    ASSUME Types, NEW c \in Claims
    PROVE  /\ c \in Rows /\ Amt(c) = Amount[c] /\ Amount[c] \in Nat \ {0}
           /\ Payer(c) = sender[c] /\ Payee(c) = recipient[c]
           /\ Payer(c)' = sender'[c] /\ Payee(c)' = recipient'[c]
           /\ row[c] = "none" <=> Phase(c) = "none"
           /\ row[c] = "pending" <=> Phase(c) = "pending"
           /\ row[c] = "claimed" <=> Phase(c) = "payee"
           /\ row[c] = "reclaimed" <=> Phase(c) = "payer"
           /\ sender[c] \in Nat /\ recipient[c] \in Nat
           /\ worker = [v \in Workers |-> worker[v]] /\ \A v \in Workers : IsJob(worker[v])
  <1>1. row[c] \in {"none", "pending", "claimed", "reclaimed"} /\ sender[c] \in Nat /\ recipient[c] \in Nat
    BY DEF Types, C!TypeOK
  <1>2. QED
    BY <1>1, EscrowAssumption DEF Types, Rows, Amt, Payer, Payee, Phase

\* A step on one claim leaves every other row alone.
LEMMA ClaimFrame ==
    ASSUME Types, NEW c \in Claims, UNCHANGED saleVars, C!TypeOK', faults' \in Nat,
           \A d \in Claims \ {c} : row'[d] = row[d] /\ sender'[d] = sender[d] /\ recipient'[d] = recipient[d]
    PROVE  Framed(c)
  <1>1. S!TypeOK'
    BY DEF Types, S!TypeOK, saleVars
  <1>2. QED
    BY <1>1, OtherClaims DEF Framed

\* A claim of which neither the books nor the table change.
LEMMA ClaimStill ==
    ASSUME Types, NEW c \in Claims, UNCHANGED saleVars, faults' \in Nat,
           UNCHANGED <<row, sender, recipient, expired>>
    PROVE  Framed(c) /\ Still(c)
  <1>1. C!TypeOK'
    BY DEF Types, C!TypeOK
  <1>2. QED
    BY <1>1, ClaimFrame DEF Still, Phase, Payer, Payee, saleVars

\* A fault is counted.
LEMMA FaultType ==
    ASSUME Types, NEW kind, C!Fault(kind) \/ S!Fault(kind)
    PROVE  faults' \in Nat /\ faults' # faults
  BY DEF Types, C!Fault, S!Fault

\* transfer/escrow/submit: the sender pays in.
LEMMA SubmitInv ==
    ASSUME Inv, Record, UNCHANGED saleVars, NEW w \in Workers, NEW c \in Claims, C!Submit(w, c)
    PROVE  Inv'
  <1>1. Types
    BY DEF Inv
  <1>2. PICK j : /\ S!Become(w, j) /\ IsJob(j) /\ SelOf(j) = {} /\ FlightOf(j) = 0
                 /\ HandOf(j) = {} \/ (HandOf(j) = {c} /\ StageOf(j) = "open")
    <2>1. CASE worker' = [worker EXCEPT ![w] = C!Handler("submit", "insert", {c}, {})]
      <3>1. S!Become(w, Insertion(c))
        BY <2>1 DEF S!Become, Insertion
      <3>2. QED
        BY <3>1, InsertRecord
    <2>2. CASE UNCHANGED worker
      <3>1. worker[w] = Idle
        BY IdleRecord DEF C!Submit
      <3>2. S!Become(w, Idle)
        BY <1>1, <2>2, <3>1 DEF S!Become, Types
      <3>3. QED
        BY <3>2, IdleRecord
    <2>3. QED
      BY <2>1, <2>2 DEF C!Submit
  <1>3. HandOf(worker[w]) = {} /\ SelOf(worker[w]) = {} /\ FlightOf(worker[w]) = 0
    BY IdleRecord DEF C!Submit
  <1>4. faults' \in Nat
    BY <1>1, FaultType DEF C!Submit, Types
  <1>5. sender[c] >= Amount[c] /\ row[c] = "none" /\ row' = row /\ recipient' = recipient /\ expired' = expired
        /\ escrow' = escrow + Amount[c] /\ sender' = [sender EXCEPT ![c] = sender[c] - Amount[c]]
    BY DEF C!Submit
  <1>6. C!TypeOK'
    BY <1>1, <1>5, ClaimView DEF Types, C!TypeOK
  <1>7. Framed(c)
    BY <1>1, <1>4, <1>5, <1>6, ClaimFrame
  <1>8. sender'[c] = sender[c] - Amount[c] /\ recipient'[c] = recipient[c]
    BY <1>1, <1>5 DEF Types, C!TypeOK
  <1>9. Phase(c) = "none" /\ Phase(c)' = "none"
    BY <1>5 DEF Phase
  <1>10. QED
    BY <1>1, <1>2, <1>3, <1>5, <1>7, <1>8, <1>9, ClaimView, PayInStep

\* The INSERT of a claim, which may fail.
LEMMA CreateClaimInv ==
    ASSUME Inv, Record, UNCHANGED saleVars, NEW w \in Workers, NEW c \in Claims, C!CreateClaim(w, c)
    PROVE  Inv'
  <1>1. Types
    BY DEF Inv
  <1>2. worker[w] = Insertion(c)
    <2>1. worker[w].pc = "insert" /\ c \in worker[w].rows /\ IsJob(worker[w])
      BY <1>1 DEF C!CreateClaim, Types
    <2>2. PICK d \in Claims : worker[w] = Insertion(d)
      BY <2>1, InsertShape
    <2>3. QED
      BY <2>1, <2>2, InsertRecord
  <1>3. /\ HandOf(worker[w]) = {c} /\ SelOf(worker[w]) = {} /\ FlightOf(worker[w]) = 0
        /\ StageOf(worker[w]) = "open" /\ worker[w].todo = {}
    BY <1>2, InsertRecord
  <1>4. PICK j : S!Become(w, j) /\ IsJob(j) /\ HandOf(j) = {} /\ SelOf(j) = {} /\ FlightOf(j) = 0
    <2>1. C!Leave(w) /\ {} \in SUBSET Claims
      BY DEF C!CreateClaim
    <2>2. QED
      BY <1>1, <1>3, <2>1, LeaveRecord
  <1>5. sender' = sender /\ recipient' = recipient /\ escrow' = escrow /\ expired' = expired
    BY DEF C!CreateClaim, C!balances
  <1>6. CASE row' = [row EXCEPT ![c] = "pending"] /\ UNCHANGED faults
    <2>1. C!TypeOK' /\ faults' \in Nat /\ row'[c] = "pending"
      BY <1>1, <1>5, <1>6 DEF Types, C!TypeOK
    <2>2. Framed(c)
      BY <1>1, <1>5, <1>6, <2>1, ClaimFrame
    <2>3. Phase(c)' = "pending"
      BY <2>1 DEF Phase
    <2>4. QED
      BY <1>1, <1>3, <1>4, <1>5, <2>2, <2>3, ClaimView, OpenStep
  <1>7. CASE C!Fault("throw") /\ UNCHANGED row
    <2>1. faults' \in Nat /\ faults' # faults
      BY <1>1, <1>7, FaultType
    <2>2. Framed(c) /\ Still(c)
      BY <1>1, <1>5, <1>7, <2>1, ClaimStill
    <2>3. escrow \in Nat
      BY <1>1 DEF Types
    <2>4. /\ c \in Rows /\ StageOf(worker[w]) \in Stages \ {"no"}
          /\ Phase(c)' = Phase(c) /\ Payer(c)' = Payer(c) /\ Payee(c)' = Payee(c)
          /\ Payer(c)' \in Nat /\ Payee(c)' \in Nat /\ Payer(c)' >= Payer(c) /\ Payee(c)' >= Payee(c)
          /\ escrow' \in Nat
          /\ escrow' + Payer(c)' + Payee(c)' <= escrow + Payer(c) + Payee(c) + FlightOf(worker[w])
      BY <1>1, <1>3, <1>5, <2>2, <2>3, ClaimView DEF Still, Stages
    <2>5. QED
      BY <1>3, <1>4, <2>1, <2>2, <2>4, DropStep
  <1>8. QED
    BY <1>6, <1>7 DEF C!CreateClaim

\* redeemClaim starts.
LEMMA RedeemInv ==
    ASSUME Inv, Record, UNCHANGED saleVars, NEW w \in Workers, NEW c \in Claims, C!Redeem(w, c)
    PROVE  Inv'
  <1>1. Types
    BY DEF Inv
  <1>2. PICK j : j = Payment("redeem", "debitClaim", c, {})
    OBVIOUS
  <1>3. S!Become(w, j)
    BY <1>2 DEF C!Redeem, S!Become, Payment
  <1>4. IsJob(j) /\ HandOf(j) = {c} /\ SelOf(j) = {} /\ FlightOf(j) = 0 /\ StageOf(j) = "due"
    BY <1>2, WorkRecord DEF ClaimWork
  <1>5. HandOf(worker[w]) = {} /\ SelOf(worker[w]) = {} /\ FlightOf(worker[w]) = 0
    BY IdleRecord DEF C!Redeem
  <1>6. row[c] = "pending" /\ UNCHANGED <<row, sender, recipient, expired>> /\ escrow' = escrow /\ faults' = faults
    BY DEF C!Redeem, C!balances
  <1>7. Framed(c) /\ Still(c)
    BY <1>1, <1>6, ClaimStill DEF Types
  <1>8. QED
    BY <1>1, <1>3, <1>4, <1>5, <1>6, <1>7, ClaimView, BeginStep

\* The sweep takes up its next row.
LEMMA SweepRowInv ==
    ASSUME Inv, Record, UNCHANGED saleVars, NEW w \in Workers, NEW c \in Claims, C!SweepRow(w, c)
    PROVE  Inv'
  <1>1. Types
    BY DEF Inv
  <1>2. PICK todo \in SUBSET Claims : worker[w] = Sweeping(todo)
    BY <1>1, NextShape DEF C!SweepRow, Types
  <1>3. HandOf(worker[w]) = {} /\ SelOf(worker[w]) = todo /\ FlightOf(worker[w]) = 0 /\ c \in todo
    BY <1>2, NextRecord DEF C!SweepRow
  <1>4. PICK j : j = Payment("sweep", "debitClaim", c, todo \ {c})
    OBVIOUS
  <1>5. S!Become(w, j)
    <2>1. [Sweeping(todo) EXCEPT !.pc = "debitClaim", !.rows = {c}, !.todo = todo \ {c}] = j
      <3>1. PICK rows : rows = {c}
        OBVIOUS
      <3>2. PICK left : left = todo \ {c}
        OBVIOUS
      <3>3. \A r : [r EXCEPT !.pc = "debitClaim", !.rows = rows, !.todo = left]
                     = [[[r EXCEPT !.pc = "debitClaim"] EXCEPT !.rows = rows] EXCEPT !.todo = left]
        BY Zenon
      <3>4. [Sweeping(todo) EXCEPT !.pc = "debitClaim"]
               = [op |-> "sweep", pc |-> "debitClaim", rows |-> {}, todo |-> todo]
        BY DEF Sweeping, C!Handler
      <3>5. [[op |-> "sweep", pc |-> "debitClaim", rows |-> {}, todo |-> todo] EXCEPT !.rows = rows]
               = [op |-> "sweep", pc |-> "debitClaim", rows |-> rows, todo |-> todo]
        OBVIOUS
      <3>6. [[op |-> "sweep", pc |-> "debitClaim", rows |-> rows, todo |-> todo] EXCEPT !.todo = left]
               = [op |-> "sweep", pc |-> "debitClaim", rows |-> rows, todo |-> left]
        OBVIOUS
      <3>7. j = [op |-> "sweep", pc |-> "debitClaim", rows |-> rows, todo |-> left]
        BY <1>4, <3>1, <3>2 DEF Payment, C!Handler
      <3>8. QED
        BY <3>1, <3>2, <3>3, <3>4, <3>5, <3>6, <3>7
    <2>2. worker' = [worker EXCEPT ![w] = [worker[w] EXCEPT !.pc = "debitClaim", !.rows = {c},
                                                              !.todo = worker[w].todo \ {c}]]
      BY DEF C!SweepRow
    <2>3. worker[w].todo = todo
      BY <1>2, NextRecord
    <2>4. QED
      BY <1>2, <2>1, <2>2, <2>3 DEF S!Become
  <1>6. IsJob(j) /\ HandOf(j) = {c} /\ SelOf(j) = todo \ {c} /\ FlightOf(j) = 0 /\ StageOf(j) = "due"
    BY <1>4, WorkRecord DEF ClaimWork
  <1>7. UNCHANGED <<row, sender, recipient, expired>> /\ escrow' = escrow /\ faults' = faults
    BY DEF C!SweepRow, C!balances
  <1>8. Framed(c) /\ Still(c)
    BY <1>1, <1>7, ClaimStill DEF Types
  <1>9. QED
    BY <1>1, <1>3, <1>5, <1>6, <1>7, <1>8, ClaimView, BeginStep

\* A handler that pays out a claim.
LEMMA AtWork ==
    ASSUME Types, NEW w \in Workers, NEW c \in Claims, NEW pc \in ClaimWork,
           worker[w].pc = pc, c \in worker[w].rows
    PROVE  \E op \in {"redeem", "sweep"}, todo \in SUBSET Claims :
              c \notin todo /\ worker[w] = Payment(op, pc, c, todo)
  <1>1. IsJob(worker[w])
    BY DEF Types
  <1>2. PICK op \in {"redeem", "sweep"}, d \in Claims, todo \in SUBSET Claims :
           d \notin todo /\ worker[w] = Payment(op, pc, d, todo)
    BY <1>1, WorkShape
  <1>3. d = c
    BY <1>2, WorkRecord
  <1>4. QED
    BY <1>2, <1>3

\* A fault that leaves both parties as they are; the account may have been debited.
LEMMA ClaimFault ==
    ASSUME Inv, Record, UNCHANGED saleVars, NEW w \in Workers, NEW c \in Claims,
           NEW todo \in SUBSET Claims, worker[w].todo = todo, SelOf(worker[w]) = todo,
           HandOf(worker[w]) = {c}, StageOf(worker[w]) \in Stages \ {"no"},
           C!Leave(w), NEW kind, C!Fault(kind),
           UNCHANGED <<row, sender, recipient, expired>>, escrow' \in Nat, escrow' <= escrow
    PROVE  Inv'
  <1>1. Types
    BY DEF Inv
  <1>2. PICK j : S!Become(w, j) /\ IsJob(j) /\ HandOf(j) = {} /\ SelOf(j) = todo /\ FlightOf(j) = 0
    BY <1>1, LeaveRecord
  <1>3. faults' \in Nat /\ faults' # faults
    BY <1>1, FaultType
  <1>4. Framed(c) /\ Still(c)
    BY <1>1, <1>3, ClaimStill
  <1>5. FlightOf(worker[w]) \in Nat /\ escrow \in Nat
    BY <1>1, FlightType DEF Types
  <1>6. /\ c \in Rows /\ Phase(c)' = Phase(c) /\ Payer(c)' = Payer(c) /\ Payee(c)' = Payee(c)
        /\ Payer(c)' \in Nat /\ Payee(c)' \in Nat /\ Payer(c)' >= Payer(c) /\ Payee(c)' >= Payee(c)
        /\ escrow' + Payer(c)' + Payee(c)' <= escrow + Payer(c) + Payee(c) + FlightOf(worker[w])
    BY <1>1, <1>4, <1>5, ClaimView DEF Still
  <1>7. QED
    BY <1>2, <1>3, <1>4, <1>6, DropStep

\* The debit of the escrow account for a claim, with its faults.
LEMMA DebitClaimInv ==
    ASSUME Inv, Record, UNCHANGED saleVars, NEW w \in Workers, NEW c \in Claims, C!DebitEscrow(w, c)
    PROVE  Inv'
  <1>1. Types
    BY DEF Inv
  <1>2. PICK pc \in ClaimWork : pc = "debitClaim"
    BY DEF ClaimWork
  <1>3. PICK op \in {"redeem", "sweep"}, todo \in SUBSET Claims :
           c \notin todo /\ worker[w] = Payment(op, pc, c, todo)
    BY <1>1, <1>2, AtWork DEF C!DebitEscrow
  <1>4. /\ HandOf(worker[w]) = {c} /\ SelOf(worker[w]) = todo /\ FlightOf(worker[w]) = 0
        /\ StageOf(worker[w]) = "due" /\ worker[w].todo = todo
    BY <1>2, <1>3, WorkRecord
  <1>5. UNCHANGED <<row, sender, recipient, expired>>
    BY DEF C!DebitEscrow
  <1>6. escrow \in Nat /\ Amount[c] \in Nat \ {0}
    BY <1>1, ClaimView DEF Types
  <1>7. CASE escrow >= Amount[c] /\ escrow' = escrow - Amount[c] /\ C!Goto(w, "creditClaim") /\ UNCHANGED faults
    <2>1. PICK p2 \in ClaimWork : p2 = "creditClaim"
      BY DEF ClaimWork
    <2>2. PICK j : j = Payment(op, p2, c, todo)
      OBVIOUS
    <2>3. S!Become(w, j)
      BY <1>1, <1>3, <1>7, <2>1, <2>2, GotoRecord
    <2>4. IsJob(j) /\ HandOf(j) = {c} /\ SelOf(j) = todo /\ FlightOf(j) = Amount[c] /\ StageOf(j) = "flight"
      BY <1>3, <2>1, <2>2, WorkRecord
    <2>5. Framed(c) /\ Still(c)
      BY <1>1, <1>5, <1>7, ClaimStill DEF Types
    <2>6. QED
      BY <1>1, <1>4, <1>7, <2>3, <2>4, <2>5, ClaimView, DebitStep
  <1>8. CASE escrow >= Amount[c] /\ escrow' = escrow - Amount[c] /\ C!Fault("lost") /\ C!Leave(w)
    <2>1. escrow' \in Nat /\ escrow' <= escrow
      BY <1>6, <1>8
    <2>2. QED
      BY <1>4, <1>5, <1>8, <2>1, ClaimFault DEF Stages
  <1>9. CASE escrow < Amount[c] /\ C!Leave(w) /\ UNCHANGED <<escrow, faults>>
    <2>1. PICK j : S!Become(w, j) /\ IsJob(j) /\ HandOf(j) = {} /\ SelOf(j) = todo /\ FlightOf(j) = 0
      BY <1>1, <1>4, <1>9, LeaveRecord
    <2>2. Framed(c) /\ Still(c)
      BY <1>1, <1>5, <1>9, ClaimStill DEF Types
    <2>3. QED
      BY <1>1, <1>4, <1>9, <2>1, <2>2, ClaimView, GiveUpStep
  <1>10. CASE C!Fault("throw") /\ C!Leave(w) /\ UNCHANGED escrow
    <2>1. escrow' \in Nat /\ escrow' <= escrow
      BY <1>6, <1>10
    <2>2. QED
      BY <1>4, <1>5, <1>10, <2>1, ClaimFault DEF Stages
  <1>11. QED
    BY <1>7, <1>8, <1>9, <1>10 DEF C!DebitEscrow

\* The credit of the recipient or the sender, with its faults.
LEMMA CreditClaimInv ==
    ASSUME Inv, Record, UNCHANGED saleVars, NEW w \in Workers, NEW c \in Claims, C!CreditBeneficiary(w, c)
    PROVE  Inv'
  <1>1. Types
    BY DEF Inv
  <1>2. PICK pc \in ClaimWork : pc = "creditClaim"
    BY DEF ClaimWork
  <1>3. PICK op \in {"redeem", "sweep"}, todo \in SUBSET Claims :
           c \notin todo /\ worker[w] = Payment(op, pc, c, todo)
    BY <1>1, <1>2, AtWork DEF C!CreditBeneficiary
  <1>4. /\ HandOf(worker[w]) = {c} /\ SelOf(worker[w]) = todo /\ FlightOf(worker[w]) = Amount[c]
        /\ StageOf(worker[w]) = "flight" /\ worker[w].todo = todo /\ worker[w].op = op
    BY <1>2, <1>3, WorkRecord
  <1>5. escrow' = escrow /\ row' = row /\ expired' = expired
    BY DEF C!CreditBeneficiary
  <1>6. PICK to \in {"payee", "payer"} : to = IF op = "redeem" THEN "payee" ELSE "payer"
    OBVIOUS
  <1>7. escrow \in Nat /\ Amount[c] \in Nat \ {0} /\ sender[c] \in Nat /\ recipient[c] \in Nat
        /\ sender \in [Claims -> Nat] /\ recipient \in [Claims -> Nat] /\ faults \in Nat
    BY <1>1, ClaimView DEF Types, C!TypeOK
  <1>8. ASSUME C!Pay(w, c), faults' \in Nat
        PROVE  /\ Framed(c) /\ Phase(c)' = Phase(c)
               /\ Payer(c)' = Payer(c) + (IF to = "payer" THEN Amt(c) ELSE 0)
               /\ Payee(c)' = Payee(c) + (IF to = "payee" THEN Amt(c) ELSE 0)
    <2>1. PICK up \in Nat : up = IF op = "redeem" THEN Amount[c] ELSE 0
      BY <1>7
    <2>2. PICK back \in Nat : back = IF op = "sweep" THEN Amount[c] ELSE 0
      BY <1>7
    <2>3. recipient' = [recipient EXCEPT ![c] = recipient[c] + up] /\ sender' = [sender EXCEPT ![c] = sender[c] + back]
      BY <1>4, <1>8, <2>1, <2>2 DEF C!Pay
    <2>4. C!TypeOK' /\ recipient'[c] = recipient[c] + up /\ sender'[c] = sender[c] + back
      BY <1>1, <1>5, <1>7, <2>3 DEF C!TypeOK, Types
    <2>5. Framed(c)
      BY <1>1, <1>5, <1>8, <2>3, <2>4, ClaimFrame
    <2>6. Phase(c)' = Phase(c)
      BY <1>5 DEF Phase
    <2>7. back = (IF to = "payer" THEN Amt(c) ELSE 0) /\ up = (IF to = "payee" THEN Amt(c) ELSE 0)
      BY <1>1, <1>6, <2>1, <2>2, ClaimView
    <2>8. QED
      BY <1>1, <2>4, <2>5, <2>6, <2>7, ClaimView
  <1>9. CASE C!Pay(w, c) /\ C!Goto(w, "update") /\ UNCHANGED faults
    <2>1. PICK p2 \in ClaimWork : p2 = "update"
      BY DEF ClaimWork
    <2>2. PICK j : j = Payment(op, p2, c, todo)
      OBVIOUS
    <2>3. S!Become(w, j)
      BY <1>1, <1>3, <1>9, <2>1, <2>2, GotoRecord
    <2>4. IsJob(j) /\ HandOf(j) = {c} /\ SelOf(j) = todo /\ FlightOf(j) = 0 /\ StageOf(j) = to
      BY <1>3, <1>6, <2>1, <2>2, WorkRecord
    <2>5. /\ Framed(c) /\ Phase(c)' = Phase(c)
          /\ Payer(c)' = Payer(c) + (IF to = "payer" THEN Amt(c) ELSE 0)
          /\ Payee(c)' = Payee(c) + (IF to = "payee" THEN Amt(c) ELSE 0)
      BY <1>7, <1>8, <1>9
    <2>6. QED
      BY <1>1, <1>4, <1>5, <2>3, <2>4, <2>5, ClaimView, CreditStep
  <1>10. CASE C!Pay(w, c) /\ C!Fault("lost") /\ C!Leave(w)
    <2>1. PICK j : S!Become(w, j) /\ IsJob(j) /\ HandOf(j) = {} /\ SelOf(j) = todo /\ FlightOf(j) = 0
      BY <1>1, <1>4, <1>10, LeaveRecord
    <2>2. faults' \in Nat /\ faults' # faults
      BY <1>1, <1>10, FaultType
    <2>3. /\ Framed(c) /\ Phase(c)' = Phase(c)
          /\ Payer(c)' = Payer(c) + (IF to = "payer" THEN Amt(c) ELSE 0)
          /\ Payee(c)' = Payee(c) + (IF to = "payee" THEN Amt(c) ELSE 0)
      BY <1>8, <1>10, <2>2
    <2>4. /\ c \in Rows /\ escrow' \in Nat
          /\ Payer(c)' \in Nat /\ Payee(c)' \in Nat /\ Payer(c)' >= Payer(c) /\ Payee(c)' >= Payee(c)
          /\ escrow' + Payer(c)' + Payee(c)' <= escrow + Payer(c) + Payee(c) + FlightOf(worker[w])
      BY <1>1, <1>4, <1>5, <1>7, <2>3, ClaimView
    <2>5. QED
      BY <1>4, <2>1, <2>2, <2>3, <2>4, DropStep DEF Stages
  <1>11. CASE C!Fault("throw") /\ C!Leave(w) /\ UNCHANGED <<sender, recipient>>
    <2>1. escrow' \in Nat /\ escrow' <= escrow
      BY <1>5, <1>7
    <2>2. QED
      BY <1>4, <1>5, <1>11, <2>1, ClaimFault DEF Stages
  <1>12. QED
    BY <1>9, <1>10, <1>11 DEF C!CreditBeneficiary

\* The guarded UPDATE of a claim.
LEMMA SetStatusInv ==
    ASSUME Inv, Record, UNCHANGED saleVars, NEW w \in Workers, NEW c \in Claims, C!SetStatus(w, c)
    PROVE  Inv'
  <1>1. Types
    BY DEF Inv
  <1>2. PICK pc \in ClaimWork : pc = "update"
    BY DEF ClaimWork
  <1>3. PICK op \in {"redeem", "sweep"}, todo \in SUBSET Claims :
           c \notin todo /\ worker[w] = Payment(op, pc, c, todo)
    BY <1>1, <1>2, AtWork DEF C!SetStatus
  <1>4. PICK to \in {"payee", "payer"} : to = IF op = "redeem" THEN "payee" ELSE "payer"
    OBVIOUS
  <1>5. /\ HandOf(worker[w]) = {c} /\ SelOf(worker[w]) = todo /\ FlightOf(worker[w]) = 0
        /\ StageOf(worker[w]) = to /\ worker[w].todo = todo /\ worker[w].op = op
    BY <1>2, <1>3, <1>4, WorkRecord
  <1>6. escrow' = escrow /\ sender' = sender /\ recipient' = recipient /\ expired' = expired /\ C!Leave(w)
    BY DEF C!SetStatus, C!balances
  <1>7. CASE row' = [row EXCEPT ![c] = IF row[c] = "pending" THEN C!Outcome(w) ELSE row[c]] /\ UNCHANGED faults
    <2>1. PICK j : S!Become(w, j) /\ IsJob(j) /\ HandOf(j) = {} /\ SelOf(j) = todo /\ FlightOf(j) = 0
      BY <1>1, <1>5, <1>6, LeaveRecord
    <2>2. PICK out \in {"claimed", "reclaimed"} : out = C!Outcome(w)
      BY DEF C!Outcome
    <2>3. C!TypeOK' /\ faults' \in Nat /\ row'[c] = IF row[c] = "pending" THEN out ELSE row[c]
      BY <1>1, <1>6, <1>7, <2>2 DEF Types, C!TypeOK
    <2>4. Framed(c)
      BY <1>1, <1>6, <1>7, <2>3, ClaimFrame
    <2>5. out = IF to = "payee" THEN "claimed" ELSE "reclaimed"
      BY <1>4, <1>5, <2>2 DEF C!Outcome
    <2>6. Phase(c)' = IF Phase(c) = "pending" THEN to ELSE Phase(c)
      <3>1. row[c] \in {"none", "pending", "claimed", "reclaimed"}
        BY <1>1 DEF Types, C!TypeOK
      <3>2. QED
        BY <2>3, <2>5, <3>1 DEF Phase
    <2>7. QED
      BY <1>1, <1>3, <1>5, <1>6, <2>1, <2>4, <2>6, ClaimView, CloseStep
  <1>8. CASE C!Fault("throw") /\ UNCHANGED row
    <2>1. escrow' \in Nat /\ escrow' <= escrow
      BY <1>1, <1>6 DEF Types
    <2>2. QED
      BY <1>5, <1>6, <1>8, <2>1, ClaimFault DEF Stages
  <1>9. QED
    BY <1>7, <1>8 DEF C!SetStatus

\* A step that moves no money: the rows stay sound, and nothing more is in flight.
LEMMA RowsStep ==
    ASSUME Inv, Types', disturbed \subseteq disturbed', funded' = funded, escrow' = escrow,
           \A y \in Rows : /\ Payer(y)' = Payer(y) /\ Payee(y)' = Payee(y) /\ Sound(y)'
                           /\ y \notin disturbed' => KeptFor(y)' = KeptFor(y),
           Total(Flight)' \in Nat, Total(Flight)' <= Total(Flight)
    PROVE  Inv'
  <1> DEFINE p == [y \in Rows |-> Payer(y)]
             q == [y \in Rows |-> Payee(y)]
             k == [y \in Rows |-> KeptFor(y)]
             f == [y \in Rows |-> IF y \in funded THEN Amt(y) ELSE 0]
  <1>1. p' = p /\ q' = q /\ f' = f
    BY DEF Amt
  <1>2. disturbed' = {} => k' = k /\ disturbed = {}
    OBVIOUS
  <1>3. Total(p) \in Nat /\ Total(q) \in Nat /\ Total(f) \in Nat
    <2>1. \A y \in Rows : Payer(y) \in Nat /\ Payee(y) \in Nat
      BY DEF Inv, Sound, Ok
    <2>2. p \in [Rows -> Nat] /\ q \in [Rows -> Nat] /\ f \in [Rows -> Nat]
      BY <2>1, AmtType
    <2>3. QED
      BY <2>2, RowsFinite, TotalType
  <1>4. Total(Flight) \in Nat
    <2>1. Flight \in [Workers -> Nat]
      BY FlightType DEF Flight, Inv, Types
    <2>2. IsFiniteSet(Workers)
      BY EscrowAssumption
    <2>3. QED
      BY <2>1, <2>2, TotalType
  <1>5. escrow \in Nat
    BY DEF Inv, Types
  <1>6. escrow + Total(p) + Total(q) + Total(Flight) <= Total(f) /\ (disturbed = {} => escrow = Total(k))
    BY DEF Inv, Money
  <1>7. Total(p)' = Total(p) /\ Total(q)' = Total(q) /\ Total(f)' = Total(f) /\ (disturbed' = {} => Total(k)' = Total(k))
    BY <1>1, <1>2
  <1>8. escrow' + Total(p)' + Total(q)' + Total(Flight)' <= Total(f)' /\ (disturbed' = {} => escrow' = Total(k)')
    BY <1>2, <1>3, <1>4, <1>5, <1>6, <1>7
  <1>9. Money'
    BY <1>8 DEF Money
  <1>10. QED
    BY <1>9 DEF Inv

\* reclaimExpiredClaims selects its rows: none of them is held by another.
LEMMA SweepInv ==
    ASSUME Inv, Record, UNCHANGED saleVars, NEW w \in Workers, C!Sweep(w)
    PROVE  Inv'
  <1>1. Types
    BY DEF Inv
  <1>2. PICK todo \in SUBSET Claims : todo = C!ExpiredRows
    BY DEF C!ExpiredRows
  <1>3. PICK j : j = Sweeping(todo)
    OBVIOUS
  <1>4. worker'[w] = j /\ \A v \in Workers : v # w => worker'[v] = worker[v]
    BY <1>1, <1>2, <1>3 DEF C!Sweep, Sweeping, Types
  <1>5. IsJob(j) /\ HandOf(j) = {} /\ SelOf(j) = todo /\ FlightOf(j) = 0
    BY <1>3, NextRecord
  <1>6. HandOf(worker[w]) = {} /\ SelOf(worker[w]) = {} /\ FlightOf(worker[w]) = 0
    BY IdleRecord DEF C!Sweep
  <1>7. worker' = [v \in Workers |-> worker'[v]] /\ \A v \in Workers : IsJob(worker[v]')
    <2>1. worker' = [v \in Workers |-> worker'[v]]
      BY <1>1 DEF C!Sweep, Types
    <2>2. \A v \in Workers : IsJob(worker'[v])
      BY <1>1, <1>4, <1>5 DEF Types
    <2>3. QED
      BY <2>1, <2>2
  <1>8. /\ disturbed \subseteq disturbed' /\ funded' = funded
        /\ \A x \in Rows : x \notin disturbed' => Alone(Holding(x)', Chosen(x)')
    BY <1>1, <1>7, Recorded
  <1>9. UNCHANGED <<escrow, row, sender, recipient, expired, faults>>
    BY DEF C!Sweep, C!balances
  <1>10. Types'
    BY <1>1, <1>7, <1>8, <1>9 DEF Types, C!TypeOK, S!TypeOK, saleVars, Rows
  <1>11. Flight' = Flight
    <2>1. \A v \in Workers : FlightOf(worker'[v]) = FlightOf(worker[v])
      BY <1>4, <1>5, <1>6
    <2>2. QED
      BY <2>1 DEF Flight
  <1>12. ASSUME NEW x \in Rows
         PROVE  /\ Payer(x)' = Payer(x) /\ Payee(x)' = Payee(x) /\ Sound(x)' /\ KeptFor(x)' = KeptFor(x)
    <2>1. Amt(x)' = Amt(x) /\ Amt(x) \in Nat \ {0} /\ Sound(x)
      BY AmtType DEF Amt, Inv
    <2>2. Phase(x)' = Phase(x) /\ Payer(x)' = Payer(x) /\ Payee(x)' = Payee(x)
      BY <1>9 DEF Phase, Payer, Payee, saleVars
    <2>3. Holding(x)' = Holding(x)
      <3>1. \A v \in Workers : HoldOf(x, worker'[v]) = HoldOf(x, worker[v])
        BY <1>4, <1>5, <1>6 DEF HoldOf
      <3>2. QED
        BY <3>1 DEF Holding
    <2>4. Chosen(x)' = IF x \in todo THEN Chosen(x) \cup {w} ELSE Chosen(x)
      BY <1>4, <1>5, <1>6 DEF Chosen
    <2>5. x \notin disturbed' => Alone(Holding(x), Chosen(x)')
      BY <1>8, <2>3
    <2>6. Ok(Amt(x), x, funded, disturbed', Phase(x), Payer(x), Payee(x), Holding(x), Chosen(x)')
      <3>1. CASE x \in todo
        <4>1. Phase(x) = "pending"
          BY <1>2, <3>1 DEF C!ExpiredRows, Phase
        <4>2. QED
          BY <1>8, <2>1, <2>4, <2>5, <3>1, <4>1, Picked DEF Sound
      <3>2. CASE x \notin todo
        BY <1>8, <2>1, <2>4, <3>2, Untouched DEF Sound
      <3>3. QED
        BY <3>1, <3>2
    <2>7. Sound(x)'
      BY <1>8, <2>1, <2>2, <2>3, <2>6 DEF Sound
    <2>8. KeptFor(x)' = KeptFor(x)
      BY <1>8, <2>1, <2>2, <2>3 DEF KeptFor
    <2>9. QED
      BY <2>2, <2>7, <2>8
  <1>13. Total(Flight)' = Total(Flight) /\ Total(Flight) \in Nat
    <2>1. Flight \in [Workers -> Nat]
      BY <1>1, FlightType DEF Flight, Types
    <2>2. IsFiniteSet(Workers)
      BY EscrowAssumption
    <2>3. Total(Flight) \in Nat
      BY <2>1, <2>2, TotalType
    <2>4. QED
      BY <1>11, <2>3
  <1>14. QED
    BY <1>8, <1>9, <1>10, <1>12, <1>13, RowsStep

\* A step that leaves handlers, books and tables alone.
LEMMA QuietStep ==
    ASSUME Inv, disturbed \subseteq disturbed', funded' = funded,
           UNCHANGED <<escrow, worker, faults, sender, recipient, row, saleVars>>,
           expired' \in [Claims -> BOOLEAN]
    PROVE  Inv'
  <1>1. Types
    BY DEF Inv
  <1>2. Types'
    BY <1>1 DEF Types, C!TypeOK, S!TypeOK, saleVars, Rows
  <1>3. ASSUME NEW x \in Rows
        PROVE  /\ Payer(x)' = Payer(x) /\ Payee(x)' = Payee(x) /\ Sound(x)' /\ KeptFor(x)' = KeptFor(x)
    <2>1. Amt(x)' = Amt(x) /\ Amt(x) \in Nat \ {0} /\ Sound(x)
      BY AmtType DEF Amt, Inv
    <2>2. Phase(x)' = Phase(x) /\ Payer(x)' = Payer(x) /\ Payee(x)' = Payee(x)
      BY DEF Phase, Payer, Payee, saleVars
    <2>3. Holding(x)' = Holding(x) /\ Chosen(x)' = Chosen(x)
      BY DEF Holding, Chosen
    <2>4. Ok(Amt(x), x, funded, disturbed', Phase(x), Payer(x), Payee(x), Holding(x), Chosen(x))
      BY <2>1, Untouched DEF Sound
    <2>5. Sound(x)'
      BY <2>1, <2>2, <2>3, <2>4 DEF Sound
    <2>6. KeptFor(x)' = KeptFor(x)
      BY <2>1, <2>2, <2>3 DEF KeptFor
    <2>7. QED
      BY <2>2, <2>5, <2>6
  <1>4. Total(Flight)' = Total(Flight) /\ Total(Flight) \in Nat
    <2>1. Flight \in [Workers -> Nat] /\ Flight' = Flight
      BY <1>1, FlightType DEF Flight, Types
    <2>2. IsFiniteSet(Workers)
      BY EscrowAssumption
    <2>3. Total(Flight) \in Nat
      BY <2>1, <2>2, TotalType
    <2>4. QED
      BY <2>1, <2>3
  <1>5. QED
    BY <1>2, <1>3, <1>4, RowsStep

\* The time of a claim runs out.
LEMMA ExpireInv ==
    ASSUME Inv, Record, UNCHANGED saleVars, NEW c \in Claims, C!Expire(c)
    PROVE  Inv'
  <1>1. Types /\ expired \in [Claims -> BOOLEAN]
    BY DEF Inv, Types, C!TypeOK
  <1>2. expired' \in [Claims -> BOOLEAN]
    BY <1>1 DEF C!Expire
  <1>3. disturbed \subseteq disturbed' /\ funded' = funded
    BY DEF Record
  <1>4. QED
    BY <1>2, <1>3, QuietStep DEF C!Expire, C!balances

\* A restart of the server.
LEMMA CrashInv ==
    ASSUME Inv, Record, Crash
    PROVE  Inv'
  <1>1. Types
    BY DEF Inv
  <1>2. worker' = [v \in Workers |-> Idle] /\ \A v \in Workers : worker'[v] = Idle
    BY DEF Crash
  <1>3. worker' = [v \in Workers |-> worker'[v]] /\ \A v \in Workers : IsJob(worker[v]')
    <2>1. \A v \in Workers : IsJob(worker'[v])
      BY <1>2, IdleRecord
    <2>2. QED
      BY <1>2, <2>1
  <1>4. UNCHANGED <<escrow, row, sender, recipient, expired, consumer, merchant, status, fulfilment, retries>>
        /\ queue' = {} /\ faults' \in Nat /\ faults' # faults
    BY <1>1 DEF Crash, claimVars, Types
  <1>5. /\ disturbed \subseteq disturbed' /\ funded' = funded
        /\ \A w \in Workers : worker'[w] # worker[w] => HandOf(worker[w]) \subseteq disturbed'
    BY <1>1, <1>3, <1>4, Recorded
  <1>6. Types'
    BY <1>1, <1>3, <1>4, <1>5 DEF Types, C!TypeOK, S!TypeOK, Rows
  <1>7. ASSUME NEW x \in Rows
        PROVE  /\ Payer(x)' = Payer(x) /\ Payee(x)' = Payee(x) /\ Sound(x)'
               /\ x \notin disturbed' => KeptFor(x)' = KeptFor(x)
    <2>1. Amt(x)' = Amt(x) /\ Amt(x) \in Nat \ {0} /\ Sound(x)
      BY AmtType DEF Amt, Inv
    <2>2. Phase(x)' = Phase(x) /\ Payer(x)' = Payer(x) /\ Payee(x)' = Payee(x)
      BY <1>4 DEF Phase, Payer, Payee
    <2>3. Holding(x)' = [v \in Workers |-> "no"]
      <3>1. \A v \in Workers : HoldOf(x, worker'[v]) = "no"
        BY <1>2, IdleRecord DEF HoldOf
      <3>2. QED
        BY <3>1 DEF Holding
    <2>4. Chosen(x)' = {}
      BY <1>2, IdleRecord DEF Chosen
    <2>5. (\E w \in Workers : Holding(x)[w] # "no") => x \in disturbed'
      <3>1. SUFFICES ASSUME NEW w \in Workers, Holding(x)[w] # "no" PROVE x \in disturbed'
        OBVIOUS
      <3>2. x \in HandOf(worker[w])
        BY <3>1 DEF Holding, HoldOf
      <3>3. worker'[w] # worker[w]
        BY <1>2, <3>2, IdleRecord
      <3>4. QED
        BY <1>5, <3>2, <3>3
    <2>6. /\ Ok(Amt(x), x, funded, disturbed', Phase(x), Payer(x), Payee(x), Holding(x)', {})
          /\ x \notin disturbed' => Kept(Amt(x), x, funded, Payer(x), Payee(x), Holding(x)')
                                     = Kept(Amt(x), x, funded, Payer(x), Payee(x), Holding(x))
      BY <1>5, <2>1, <2>3, <2>5, Restarted DEF Sound
    <2>7. Sound(x)'
      BY <1>5, <2>1, <2>2, <2>4, <2>6 DEF Sound
    <2>8. x \notin disturbed' => KeptFor(x)' = KeptFor(x)
      BY <1>5, <2>1, <2>2, <2>6 DEF KeptFor
    <2>9. QED
      BY <2>2, <2>7, <2>8
  <1>8. Total(Flight)' = 0 /\ Total(Flight) \in Nat
    <2>1. Flight \in [Workers -> Nat] /\ Flight' = [v \in Workers |-> 0]
      BY <1>1, <1>2, FlightType, IdleRecord DEF Flight, Types
    <2>2. IsFiniteSet(Workers)
      BY EscrowAssumption
    <2>3. Total(Flight) \in Nat /\ Total([v \in Workers |-> 0]) = 0
      BY <2>1, <2>2, TotalType, TotalZero
    <2>4. QED
      BY <2>1, <2>3
  <1>9. QED
    BY <1>4, <1>5, <1>6, <1>7, <1>8, RowsStep

-----------------------------------------------------------------------------
(* SaleFulfilment, step by step.                                            *)

\* What the proofs say of a row, read off the columns and balances of a sale.
LEMMA SaleView ==
    ASSUME Types, NEW s \in Sales
    PROVE  /\ s \in Rows /\ Amt(s) = Price[s] /\ Price[s] \in Nat \ {0}
           /\ Payer(s) = consumer[s] /\ Payee(s) = merchant[s]
           /\ Payer(s)' = consumer'[s] /\ Payee(s)' = merchant'[s]
           /\ status[s] = "none" <=> Phase(s) = "none"
           /\ status[s] = "pending_fulfilment" <=> Phase(s) = "pending"
           /\ status[s] = "paid" <=> Phase(s) = "payee"
           /\ status[s] = "refunded" <=> Phase(s) = "payer"
           /\ consumer[s] \in Nat /\ merchant[s] \in Nat
  <1>1. /\ status[s] \in {"none", "pending_fulfilment", "paid", "refunded"}
        /\ consumer[s] \in Nat /\ merchant[s] \in Nat /\ s \notin Claims
    BY EscrowAssumption DEF Types, S!TypeOK
  <1>2. QED
    BY <1>1, EscrowAssumption DEF Rows, Amt, Payer, Payee, Phase

\* A step on one sale leaves every other row alone.
LEMMA SaleFrame ==
    ASSUME Types, NEW s \in Sales, UNCHANGED claimVars, S!TypeOK', faults' \in Nat,
           \A r \in Sales \ {s} : status'[r] = status[r] /\ consumer'[r] = consumer[r] /\ merchant'[r] = merchant[r]
    PROVE  Framed(s)
  <1>1. C!TypeOK'
    BY DEF Types, C!TypeOK, claimVars
  <1>2. QED
    BY <1>1, OtherSales DEF Framed

\* A sale of which neither the books nor the status change.
LEMMA SaleStill ==
    ASSUME Types, NEW s \in Sales, UNCHANGED claimVars, faults' \in Nat,
           UNCHANGED <<status, consumer, merchant>>, queue' \subseteq Sales, retries' \in 0..MaxRetries,
           fulfilment' \in [Sales -> {"none", "pending", "success", "failed"}]
    PROVE  Framed(s) /\ Still(s)
  <1>1. S!TypeOK'
    BY DEF Types, S!TypeOK
  <1>2. QED
    BY <1>1, SaleFrame DEF Still, Phase, Payer, Payee, claimVars

\* The types of what a release does not touch.
LEMMA SaleTypes ==
    ASSUME Types
    PROVE  /\ queue \subseteq Sales /\ retries \in 0..MaxRetries /\ faults \in Nat /\ escrow \in Nat
           /\ fulfilment \in [Sales -> {"none", "pending", "success", "failed"}]
           /\ \A w \in Workers : IsJob(worker[w]) /\ FlightOf(worker[w]) \in Nat
  BY FlightType DEF Types, S!TypeOK

\* A handler of a sale at one of the two kinds of await.
LEMMA AtRun ==
    ASSUME Types, NEW w \in Workers, NEW pc \in SaleRuns, worker[w].pc = pc
    PROVE  \E s \in Sales : worker[w] = S!Job(pc, s) /\ worker[w].sale = s
  BY RunShape, RunRecord DEF Types

\* The second kind.
LEMMA AtEnd ==
    ASSUME Types, NEW w \in Workers, NEW pc \in SaleEnds, worker[w].pc = pc
    PROVE  \E s \in Sales, ok \in BOOLEAN :
              worker[w] = S!Release(pc, s, ok) /\ worker[w].sale = s /\ worker[w].ok = ok
  BY EndShape, EndRecord DEF Types

\* A fault that leaves both parties as they are; the account may have been debited.
LEMMA SaleFault ==
    ASSUME Inv, Record, UNCHANGED claimVars, NEW w \in Workers, NEW s \in Sales, SelOf(worker[w]) = {},
           HandOf(worker[w]) = {s}, StageOf(worker[w]) \in Stages \ {"no"},
           S!Become(w, S!Idle), NEW kind, S!Fault(kind),
           UNCHANGED <<status, fulfilment, consumer, merchant, queue, retries>>,
           escrow' \in Nat, escrow' <= escrow
    PROVE  Inv'
  <1>1. Types
    BY DEF Inv
  <1>2. PICK j : S!Become(w, j) /\ IsJob(j) /\ HandOf(j) = {} /\ SelOf(j) = {} /\ FlightOf(j) = 0
    BY IdleRecord
  <1>3. faults' \in Nat /\ faults' # faults
    BY <1>1, FaultType
  <1>4. Framed(s) /\ Still(s)
    BY <1>1, <1>3, SaleStill, SaleTypes
  <1>5. FlightOf(worker[w]) \in Nat /\ escrow \in Nat
    BY <1>1, SaleTypes
  <1>6. /\ s \in Rows /\ Phase(s)' = Phase(s) /\ Payer(s)' = Payer(s) /\ Payee(s)' = Payee(s)
        /\ Payer(s)' \in Nat /\ Payee(s)' \in Nat /\ Payer(s)' >= Payer(s) /\ Payee(s)' >= Payee(s)
        /\ escrow' + Payer(s)' + Payee(s)' <= escrow + Payer(s) + Payee(s) + FlightOf(worker[w])
    BY <1>1, <1>4, <1>5, SaleView DEF Still
  <1>7. QED
    BY <1>2, <1>3, <1>4, <1>6, DropStep

\* The consumer pays in.
LEMMA PurchaseInv ==
    ASSUME Inv, Record, UNCHANGED claimVars, NEW w \in Workers, NEW s \in Sales, S!Purchase(w, s)
    PROVE  Inv'
  <1>1. Types
    BY DEF Inv
  <1>2. PICK j : /\ S!Become(w, j) /\ IsJob(j) /\ SelOf(j) = {} /\ FlightOf(j) = 0
                 /\ HandOf(j) = {} \/ (HandOf(j) = {s} /\ StageOf(j) = "open")
    <2>1. CASE S!Become(w, S!Job("record", s))
      <3>1. PICK pc \in SaleRuns : pc = "record"
        BY DEF SaleRuns
      <3>2. S!Become(w, S!Job(pc, s))
        BY <2>1, <3>1
      <3>3. QED
        BY <3>1, <3>2, RunRecord
    <2>2. CASE UNCHANGED worker
      <3>1. worker[w] = Idle
        BY IdleRecord DEF S!Purchase
      <3>2. S!Become(w, Idle)
        BY <1>1, <2>2, <3>1 DEF S!Become, Types
      <3>3. QED
        BY <3>2, IdleRecord
    <2>3. QED
      BY <2>1, <2>2 DEF S!Purchase
  <1>3. HandOf(worker[w]) = {} /\ SelOf(worker[w]) = {} /\ FlightOf(worker[w]) = 0
    BY IdleRecord DEF S!Purchase
  <1>4. faults' \in Nat
    BY <1>1, FaultType DEF S!Purchase, Types
  <1>5. /\ consumer[s] >= Price[s] /\ status[s] = "none" /\ escrow' = escrow + Price[s]
        /\ consumer' = [consumer EXCEPT ![s] = consumer[s] - Price[s]]
        /\ UNCHANGED <<merchant, status, fulfilment, queue, retries>>
    BY DEF S!Purchase, S!table
  <1>6. S!TypeOK'
    BY <1>1, <1>5, SaleView DEF Types, S!TypeOK
  <1>7. Framed(s)
    BY <1>1, <1>4, <1>5, <1>6, SaleFrame
  <1>8. consumer'[s] = consumer[s] - Price[s] /\ merchant'[s] = merchant[s]
    BY <1>1, <1>5 DEF Types, S!TypeOK
  <1>9. Phase(s) = "none" /\ Phase(s)' = "none"
    BY <1>1, <1>5, EscrowAssumption DEF Phase
  <1>10. QED
    BY <1>1, <1>2, <1>3, <1>5, <1>7, <1>8, <1>9, SaleView, PayInStep

\* The INSERT of a sale, which may fail.
LEMMA RecordSaleInv ==
    ASSUME Inv, Record, UNCHANGED claimVars, NEW w \in Workers, S!RecordMerchantSale(w)
    PROVE  Inv'
  <1>1. Types
    BY DEF Inv
  <1>2. PICK pc \in SaleRuns : pc = "record"
    BY DEF SaleRuns
  <1>3. PICK s \in Sales : worker[w] = S!Job(pc, s) /\ worker[w].sale = s
    BY <1>1, <1>2, AtRun DEF S!RecordMerchantSale
  <1>4. /\ HandOf(worker[w]) = {s} /\ SelOf(worker[w]) = {} /\ FlightOf(worker[w]) = 0
        /\ StageOf(worker[w]) = "open"
    BY <1>2, <1>3, RunRecord
  <1>5. UNCHANGED <<consumer, merchant, retries, escrow>> /\ S!Become(w, S!Idle)
    BY DEF S!RecordMerchantSale, S!balances
  <1>6. CASE /\ status' = [status EXCEPT ![s] = "pending_fulfilment"]
             /\ fulfilment' = [fulfilment EXCEPT ![s] = "pending"]
             /\ queue' = queue \cup {s} /\ UNCHANGED faults
    <2>1. PICK j : S!Become(w, j) /\ IsJob(j) /\ HandOf(j) = {} /\ SelOf(j) = {} /\ FlightOf(j) = 0
      BY <1>5, IdleRecord
    <2>2. S!TypeOK' /\ faults' \in Nat /\ status'[s] = "pending_fulfilment"
      BY <1>1, <1>5, <1>6 DEF Types, S!TypeOK
    <2>3. Framed(s)
      BY <1>1, <1>5, <1>6, <2>2, SaleFrame
    <2>4. Phase(s)' = "pending"
      BY <2>2, EscrowAssumption DEF Phase
    <2>5. QED
      BY <1>1, <1>4, <1>5, <2>1, <2>3, <2>4, SaleView, OpenStep
  <1>7. CASE S!Fault("throw") /\ UNCHANGED <<status, fulfilment, queue>>
    <2>1. escrow' \in Nat /\ escrow' <= escrow
      BY <1>1, <1>5, SaleTypes
    <2>2. QED
      BY <1>4, <1>5, <1>7, <2>1, SaleFault DEF Stages
  <1>8. QED
    BY <1>3, <1>6, <1>7 DEF S!RecordMerchantSale, S!table

\* Dequeue and Retry run processSaleFulfilment, which refuses a row it need not process.
LEMMA BeginInv ==
    ASSUME Inv, Record, UNCHANGED claimVars, NEW w \in Workers, NEW s \in Sales,
           worker[w] = S!Idle, S!Begin(w, s), queue' \subseteq Sales, retries' \in 0..MaxRetries,
           UNCHANGED <<escrow, consumer, merchant, status, fulfilment, faults>>
    PROVE  Inv'
  <1>1. Types
    BY DEF Inv
  <1>2. HandOf(worker[w]) = {} /\ SelOf(worker[w]) = {} /\ FlightOf(worker[w]) = 0 /\ worker[w] = Idle
    BY IdleRecord
  <1>3. Framed(s) /\ Still(s)
    BY <1>1, SaleStill, SaleTypes
  <1>4. CASE S!Processable(s)
    <2>1. PICK pc \in SaleRuns : pc = "mark"
      BY DEF SaleRuns
    <2>2. PICK j : j = S!Job(pc, s)
      OBVIOUS
    <2>3. S!Become(w, j)
      BY <1>4, <2>1, <2>2 DEF S!Begin
    <2>4. IsJob(j) /\ HandOf(j) = {s} /\ SelOf(j) = {} /\ FlightOf(j) = 0 /\ StageOf(j) = "due"
      BY <2>1, <2>2, RunRecord
    <2>5. Phase(s) = "pending"
      BY <1>1, <1>4, SaleView DEF S!Processable
    <2>6. QED
      BY <1>1, <1>2, <1>3, <2>3, <2>4, <2>5, SaleView, BeginStep
  <1>5. CASE ~S!Processable(s)
    <2>1. S!Become(w, Idle)
      BY <1>5, IdleRecord DEF S!Begin
    <2>2. QED
      BY <1>1, <1>2, <1>3, <2>1, IdleRecord, SaleView, StayStep
  <1>6. QED
    BY <1>4, <1>5

\* The queued callback of a sale runs.
LEMMA DequeueInv ==
    ASSUME Inv, Record, UNCHANGED claimVars, NEW w \in Workers, NEW s \in Sales, S!Dequeue(w, s)
    PROVE  Inv'
  <1>1. queue' \subseteq Sales /\ retries' \in 0..MaxRetries
    BY SaleTypes DEF Inv, S!Dequeue
  <1>2. QED
    BY <1>1, BeginInv DEF S!Dequeue, S!balances, S!table

\* The merchant retries a sale.
LEMMA RetryInv ==
    ASSUME Inv, Record, UNCHANGED claimVars, NEW w \in Workers, NEW s \in Sales, S!Retry(w, s)
    PROVE  Inv'
  <1>1. queue' \subseteq Sales /\ retries' \in 0..MaxRetries
    BY SaleTypes, EscrowAssumption DEF Inv, S!Retry
  <1>2. QED
    BY <1>1, BeginInv DEF S!Retry, S!balances, S!table

\* A guarded UPDATE keeps the column typed.
LEMMA FulfilmentType ==
    ASSUME Types, NEW s \in Sales, NEW v \in {"pending", "success", "failed"}, S!SetFulfilment(s, v)
    PROVE  fulfilment' \in [Sales -> {"none", "pending", "success", "failed"}]
  <1>1. PICK u : u = IF status[s] = "pending_fulfilment" THEN v ELSE fulfilment[s]
    OBVIOUS
  <1>2. u \in {"none", "pending", "success", "failed"} /\ fulfilment' = [fulfilment EXCEPT ![s] = u]
    BY <1>1, SaleTypes DEF S!SetFulfilment
  <1>3. QED
    BY <1>2, SaleTypes

\* The sale is marked as being fulfilled.
LEMMA MarkInv ==
    ASSUME Inv, Record, UNCHANGED claimVars, NEW w \in Workers, S!Mark(w)
    PROVE  Inv'
  <1>1. Types
    BY DEF Inv
  <1>2. PICK pc \in SaleRuns : pc = "mark"
    BY DEF SaleRuns
  <1>3. PICK s \in Sales : worker[w] = S!Job(pc, s) /\ worker[w].sale = s
    BY <1>1, <1>2, AtRun DEF S!Mark
  <1>4. /\ HandOf(worker[w]) = {s} /\ SelOf(worker[w]) = {} /\ FlightOf(worker[w]) = 0
        /\ StageOf(worker[w]) = "due"
    BY <1>2, <1>3, RunRecord
  <1>5. UNCHANGED <<escrow, consumer, merchant, status, queue, retries>>
    BY DEF S!Mark, S!balances
  <1>6. CASE S!SetFulfilment(s, "pending") /\ S!Goto(w, "call") /\ UNCHANGED faults
    <2>1. PICK p2 \in SaleRuns : p2 = "call"
      BY DEF SaleRuns
    <2>2. PICK j : j = S!Job(p2, s)
      OBVIOUS
    <2>3. S!Become(w, j)
      <3>1. [S!Job(pc, s) EXCEPT !.pc = p2] = j
        BY <2>2 DEF S!Job
      <3>2. QED
        BY <1>3, <1>6, <2>1, <3>1 DEF S!Goto, S!Become
    <2>4. IsJob(j) /\ HandOf(j) = {s} /\ SelOf(j) = {} /\ FlightOf(j) = 0 /\ StageOf(j) = "due"
      BY <2>1, <2>2, RunRecord
    <2>5. Framed(s) /\ Still(s)
      <3>1. fulfilment' \in [Sales -> {"none", "pending", "success", "failed"}]
        BY <1>1, <1>6, FulfilmentType
      <3>2. QED
        BY <1>1, <1>5, <1>6, <3>1, SaleStill, SaleTypes
    <2>6. QED
      BY <1>1, <1>4, <1>5, <2>3, <2>4, <2>5, SaleView, StayStep
  <1>7. CASE S!Fault("throw") /\ S!Become(w, S!Idle) /\ UNCHANGED fulfilment
    <2>1. escrow' \in Nat /\ escrow' <= escrow
      BY <1>1, <1>5, SaleTypes
    <2>2. QED
      BY <1>4, <1>5, <1>7, <2>1, SaleFault DEF Stages
  <1>8. QED
    BY <1>3, <1>6, <1>7 DEF S!Mark

\* The API answers or times out.
LEMMA CallInv ==
    ASSUME Inv, Record, UNCHANGED claimVars, NEW w \in Workers, S!CallFulfilmentApi(w)
    PROVE  Inv'
  <1>1. Types
    BY DEF Inv
  <1>2. PICK pc \in SaleRuns : pc = "call"
    BY DEF SaleRuns
  <1>3. PICK s \in Sales : worker[w] = S!Job(pc, s) /\ worker[w].sale = s
    BY <1>1, <1>2, AtRun DEF S!CallFulfilmentApi
  <1>4. /\ HandOf(worker[w]) = {s} /\ SelOf(worker[w]) = {} /\ FlightOf(worker[w]) = 0
        /\ StageOf(worker[w]) = "due"
    BY <1>2, <1>3, RunRecord
  <1>5. UNCHANGED <<escrow, consumer, merchant, status, fulfilment, queue, retries, faults>>
    BY DEF S!CallFulfilmentApi, S!balances, S!table
  <1>6. PICK p2 \in SaleEnds : p2 = "outcome"
    BY DEF SaleEnds
  <1>7. PICK ok \in BOOLEAN : S!Become(w, S!Release(p2, s, ok))
    BY <1>3, <1>6 DEF S!CallFulfilmentApi
  <1>8. PICK j : j = S!Release(p2, s, ok)
    OBVIOUS
  <1>9. IsJob(j) /\ HandOf(j) = {s} /\ SelOf(j) = {} /\ FlightOf(j) = 0 /\ StageOf(j) = "due"
    BY <1>6, <1>8, EndRecord
  <1>10. Framed(s) /\ Still(s)
    BY <1>1, <1>5, SaleStill, SaleTypes
  <1>11. QED
    BY <1>1, <1>4, <1>5, <1>7, <1>8, <1>9, <1>10, SaleView, StayStep

\* A job that knows the answer moves to another await.
LEMMA ReleaseRecord ==
    ASSUME NEW w \in Workers, NEW pc, NEW s, NEW ok, NEW p2,
           worker[w] = S!Release(pc, s, ok), S!Goto(w, p2)
    PROVE  S!Become(w, S!Release(p2, s, ok))
  <1>1. [S!Release(pc, s, ok) EXCEPT !.pc = p2] = S!Release(p2, s, ok)
    BY DEF S!Release
  <1>2. QED
    BY <1>1 DEF S!Goto, S!Become

\* The outcome is published.
LEMMA PublishInv ==
    ASSUME Inv, Record, UNCHANGED claimVars, NEW w \in Workers, S!PublishOutcome(w)
    PROVE  Inv'
  <1>1. Types
    BY DEF Inv
  <1>2. PICK pc \in SaleEnds : pc = "outcome"
    BY DEF SaleEnds
  <1>3. PICK s \in Sales, ok \in BOOLEAN :
           worker[w] = S!Release(pc, s, ok) /\ worker[w].sale = s /\ worker[w].ok = ok
    BY <1>1, <1>2, AtEnd DEF S!PublishOutcome
  <1>4. /\ HandOf(worker[w]) = {s} /\ SelOf(worker[w]) = {} /\ FlightOf(worker[w]) = 0
        /\ StageOf(worker[w]) = "due"
    BY <1>2, <1>3, EndRecord
  <1>5. UNCHANGED <<escrow, consumer, merchant, status, queue, retries>>
    BY DEF S!PublishOutcome, S!balances
  <1>6. ASSUME NEW v \in {"success", "failed"}, S!SetFulfilment(s, v), S!Goto(w, "debitSale"), UNCHANGED faults
        PROVE  Inv'
    <2>1. PICK p2 \in SaleEnds : p2 = "debitSale"
      BY DEF SaleEnds
    <2>2. PICK j : j = S!Release(p2, s, ok)
      OBVIOUS
    <2>3. S!Become(w, j)
      BY <1>3, <1>6, <2>1, <2>2, ReleaseRecord
    <2>4. IsJob(j) /\ HandOf(j) = {s} /\ SelOf(j) = {} /\ FlightOf(j) = 0 /\ StageOf(j) = "due"
      BY <2>1, <2>2, EndRecord
    <2>5. Framed(s) /\ Still(s)
      <3>1. fulfilment' \in [Sales -> {"none", "pending", "success", "failed"}]
        BY <1>1, <1>6, FulfilmentType
      <3>2. QED
        BY <1>1, <1>5, <1>6, <3>1, SaleStill, SaleTypes
    <2>6. QED
      BY <1>1, <1>4, <1>5, <2>3, <2>4, <2>5, SaleView, StayStep
  <1>7. CASE S!Fault("throw") /\ S!Become(w, S!Idle) /\ UNCHANGED fulfilment
    <2>1. escrow' \in Nat /\ escrow' <= escrow
      BY <1>1, <1>5, SaleTypes
    <2>2. QED
      BY <1>4, <1>5, <1>7, <2>1, SaleFault DEF Stages
  <1>8. PICK v \in {"success", "failed"} : v = IF worker[w].ok THEN "success" ELSE "failed"
    OBVIOUS
  <1>9. (S!SetFulfilment(s, v) /\ S!Goto(w, "debitSale") /\ UNCHANGED faults)
        \/ (S!Fault("throw") /\ S!Become(w, S!Idle) /\ UNCHANGED fulfilment)
    BY <1>3, <1>8 DEF S!PublishOutcome
  <1>10. QED
    BY <1>6, <1>7, <1>9

\* The debit of the escrow account for a sale, with its faults.
LEMMA DebitSaleInv ==
    ASSUME Inv, Record, UNCHANGED claimVars, NEW w \in Workers, S!DebitEscrow(w)
    PROVE  Inv'
  <1>1. Types
    BY DEF Inv
  <1>2. PICK pc \in SaleEnds : pc = "debitSale"
    BY DEF SaleEnds
  <1>3. PICK s \in Sales, ok \in BOOLEAN :
           worker[w] = S!Release(pc, s, ok) /\ worker[w].sale = s /\ worker[w].ok = ok
    BY <1>1, <1>2, AtEnd DEF S!DebitEscrow
  <1>4. /\ HandOf(worker[w]) = {s} /\ SelOf(worker[w]) = {} /\ FlightOf(worker[w]) = 0
        /\ StageOf(worker[w]) = "due"
    BY <1>2, <1>3, EndRecord
  <1>5. UNCHANGED <<consumer, merchant, status, fulfilment, queue, retries>>
    BY DEF S!DebitEscrow, S!table
  <1>6. escrow \in Nat /\ Price[s] \in Nat \ {0}
    BY <1>1, SaleView, SaleTypes
  <1>7. CASE escrow >= Price[s] /\ escrow' = escrow - Price[s] /\ S!Goto(w, "creditSale") /\ UNCHANGED faults
    <2>1. PICK p2 \in SaleEnds : p2 = "creditSale"
      BY DEF SaleEnds
    <2>2. PICK j : j = S!Release(p2, s, ok)
      OBVIOUS
    <2>3. S!Become(w, j)
      BY <1>3, <1>7, <2>1, <2>2, ReleaseRecord
    <2>4. IsJob(j) /\ HandOf(j) = {s} /\ SelOf(j) = {} /\ FlightOf(j) = Price[s] /\ StageOf(j) = "flight"
      BY <2>1, <2>2, EndRecord
    <2>5. Framed(s) /\ Still(s)
      BY <1>1, <1>5, <1>7, SaleStill, SaleTypes
    <2>6. QED
      BY <1>1, <1>4, <1>7, <2>3, <2>4, <2>5, SaleView, DebitStep
  <1>8. CASE escrow >= Price[s] /\ escrow' = escrow - Price[s] /\ S!Fault("lost") /\ S!Become(w, S!Idle)
    <2>1. escrow' \in Nat /\ escrow' <= escrow
      BY <1>6, <1>8
    <2>2. QED
      BY <1>4, <1>5, <1>8, <2>1, SaleFault DEF Stages
  <1>9. CASE escrow < Price[s] /\ S!Become(w, S!Idle) /\ UNCHANGED <<escrow, faults>>
    <2>1. PICK j : S!Become(w, j) /\ IsJob(j) /\ HandOf(j) = {} /\ SelOf(j) = {} /\ FlightOf(j) = 0
      BY <1>9, IdleRecord
    <2>2. Framed(s) /\ Still(s)
      BY <1>1, <1>5, <1>9, SaleStill, SaleTypes
    <2>3. QED
      BY <1>1, <1>4, <1>9, <2>1, <2>2, SaleView, GiveUpStep
  <1>10. CASE S!Fault("throw") /\ S!Become(w, S!Idle) /\ UNCHANGED escrow
    <2>1. escrow' \in Nat /\ escrow' <= escrow
      BY <1>6, <1>10
    <2>2. QED
      BY <1>4, <1>5, <1>10, <2>1, SaleFault DEF Stages
  <1>11. QED
    BY <1>3, <1>7, <1>8, <1>9, <1>10 DEF S!DebitEscrow

\* The credit of the merchant or the consumer, with its faults.
LEMMA CreditSaleInv ==
    ASSUME Inv, Record, UNCHANGED claimVars, NEW w \in Workers, S!CreditBeneficiary(w)
    PROVE  Inv'
  <1>1. Types
    BY DEF Inv
  <1>2. PICK pc \in SaleEnds : pc = "creditSale"
    BY DEF SaleEnds
  <1>3. PICK s \in Sales, ok \in BOOLEAN :
           worker[w] = S!Release(pc, s, ok) /\ worker[w].sale = s /\ worker[w].ok = ok
    BY <1>1, <1>2, AtEnd DEF S!CreditBeneficiary
  <1>4. /\ HandOf(worker[w]) = {s} /\ SelOf(worker[w]) = {} /\ FlightOf(worker[w]) = Price[s]
        /\ StageOf(worker[w]) = "flight"
    BY <1>2, <1>3, EndRecord
  <1>5. UNCHANGED <<escrow, status, fulfilment, queue, retries>>
    BY DEF S!CreditBeneficiary, S!table
  <1>6. PICK to \in {"payee", "payer"} : to = IF ok THEN "payee" ELSE "payer"
    OBVIOUS
  <1>7. escrow \in Nat /\ Price[s] \in Nat \ {0} /\ consumer[s] \in Nat /\ merchant[s] \in Nat
        /\ consumer \in [Sales -> Nat] /\ merchant \in [Sales -> Nat] /\ faults \in Nat
    BY <1>1, SaleView DEF Types, S!TypeOK
  <1>8. ASSUME S!Pay(s, ok), faults' \in Nat
        PROVE  /\ Framed(s) /\ Phase(s)' = Phase(s)
               /\ Payer(s)' = Payer(s) + (IF to = "payer" THEN Amt(s) ELSE 0)
               /\ Payee(s)' = Payee(s) + (IF to = "payee" THEN Amt(s) ELSE 0)
    <2>1. PICK up \in Nat : up = IF ok THEN Price[s] ELSE 0
      BY <1>7
    <2>2. PICK back \in Nat : back = IF ok THEN 0 ELSE Price[s]
      BY <1>7
    <2>3. merchant' = [merchant EXCEPT ![s] = merchant[s] + up] /\ consumer' = [consumer EXCEPT ![s] = consumer[s] + back]
      BY <1>8, <2>1, <2>2 DEF S!Pay
    <2>4. S!TypeOK' /\ merchant'[s] = merchant[s] + up /\ consumer'[s] = consumer[s] + back
      BY <1>1, <1>5, <1>7, <2>3 DEF S!TypeOK, Types
    <2>5. Framed(s)
      BY <1>1, <1>5, <1>8, <2>3, <2>4, SaleFrame
    <2>6. Phase(s)' = Phase(s)
      BY <1>5 DEF Phase, claimVars
    <2>7. back = (IF to = "payer" THEN Amt(s) ELSE 0) /\ up = (IF to = "payee" THEN Amt(s) ELSE 0)
      BY <1>1, <1>6, <2>1, <2>2, SaleView
    <2>8. QED
      BY <1>1, <2>4, <2>5, <2>6, <2>7, SaleView
  <1>9. CASE S!Pay(s, ok) /\ S!Goto(w, "settle") /\ UNCHANGED faults
    <2>1. PICK p2 \in SaleEnds : p2 = "settle"
      BY DEF SaleEnds
    <2>2. PICK j : j = S!Release(p2, s, ok)
      OBVIOUS
    <2>3. S!Become(w, j)
      BY <1>3, <1>9, <2>1, <2>2, ReleaseRecord
    <2>4. IsJob(j) /\ HandOf(j) = {s} /\ SelOf(j) = {} /\ FlightOf(j) = 0 /\ StageOf(j) = to
      BY <1>6, <2>1, <2>2, EndRecord
    <2>5. /\ Framed(s) /\ Phase(s)' = Phase(s)
          /\ Payer(s)' = Payer(s) + (IF to = "payer" THEN Amt(s) ELSE 0)
          /\ Payee(s)' = Payee(s) + (IF to = "payee" THEN Amt(s) ELSE 0)
      BY <1>7, <1>8, <1>9
    <2>6. QED
      BY <1>1, <1>4, <1>5, <2>3, <2>4, <2>5, SaleView, CreditStep, ZenonT(90)
  <1>10. CASE S!Pay(s, ok) /\ S!Fault("lost") /\ S!Become(w, S!Idle)
    <2>1. PICK j : S!Become(w, j) /\ IsJob(j) /\ HandOf(j) = {} /\ SelOf(j) = {} /\ FlightOf(j) = 0
      BY <1>10, IdleRecord
    <2>2. faults' \in Nat /\ faults' # faults
      BY <1>1, <1>10, FaultType
    <2>3. /\ Framed(s) /\ Phase(s)' = Phase(s)
          /\ Payer(s)' = Payer(s) + (IF to = "payer" THEN Amt(s) ELSE 0)
          /\ Payee(s)' = Payee(s) + (IF to = "payee" THEN Amt(s) ELSE 0)
      BY <1>8, <1>10, <2>2
    <2>4. /\ s \in Rows /\ escrow' \in Nat
          /\ Payer(s)' \in Nat /\ Payee(s)' \in Nat /\ Payer(s)' >= Payer(s) /\ Payee(s)' >= Payee(s)
          /\ escrow' + Payer(s)' + Payee(s)' <= escrow + Payer(s) + Payee(s) + FlightOf(worker[w])
      BY <1>1, <1>4, <1>5, <1>7, <2>3, SaleView
    <2>5. QED
      BY <1>4, <2>1, <2>2, <2>3, <2>4, DropStep DEF Stages
  <1>11. CASE S!Fault("throw") /\ S!Become(w, S!Idle) /\ UNCHANGED <<consumer, merchant>>
    <2>1. escrow' \in Nat /\ escrow' <= escrow
      BY <1>5, <1>7
    <2>2. QED
      BY <1>4, <1>5, <1>11, <2>1, SaleFault DEF Stages
  <1>12. QED
    BY <1>3, <1>9, <1>10, <1>11 DEF S!CreditBeneficiary

\* The guarded UPDATE of a sale.
LEMMA SettleInv ==
    ASSUME Inv, Record, UNCHANGED claimVars, NEW w \in Workers, S!Settle(w)
    PROVE  Inv'
  <1>1. Types
    BY DEF Inv
  <1>2. PICK pc \in SaleEnds : pc = "settle"
    BY DEF SaleEnds
  <1>3. PICK s \in Sales, ok \in BOOLEAN :
           worker[w] = S!Release(pc, s, ok) /\ worker[w].sale = s /\ worker[w].ok = ok
    BY <1>1, <1>2, AtEnd DEF S!Settle
  <1>4. PICK to \in {"payee", "payer"} : to = IF ok THEN "payee" ELSE "payer"
    OBVIOUS
  <1>5. /\ HandOf(worker[w]) = {s} /\ SelOf(worker[w]) = {} /\ FlightOf(worker[w]) = 0
        /\ StageOf(worker[w]) = to
    BY <1>2, <1>3, <1>4, EndRecord
  <1>6. UNCHANGED <<escrow, consumer, merchant, fulfilment, queue, retries>> /\ S!Become(w, S!Idle)
    BY DEF S!Settle, S!balances
  <1>7. PICK out \in {"paid", "refunded"} : out = IF ok THEN "paid" ELSE "refunded"
    OBVIOUS
  <1>8. CASE /\ status' = [status EXCEPT ![s] = IF status[s] # "pending_fulfilment" THEN status[s] ELSE out]
             /\ UNCHANGED faults
    <2>1. PICK j : S!Become(w, j) /\ IsJob(j) /\ HandOf(j) = {} /\ SelOf(j) = {} /\ FlightOf(j) = 0
      BY <1>6, IdleRecord
    <2>2. /\ S!TypeOK' /\ faults' \in Nat
          /\ status'[s] = IF status[s] # "pending_fulfilment" THEN status[s] ELSE out
      BY <1>1, <1>6, <1>8 DEF Types, S!TypeOK
    <2>3. Framed(s)
      BY <1>1, <1>6, <1>8, <2>2, SaleFrame
    <2>4. Phase(s)' = IF Phase(s) = "pending" THEN to ELSE Phase(s)
      <3>1. status[s] \in {"none", "pending_fulfilment", "paid", "refunded"} /\ s \notin Claims
        BY <1>1, EscrowAssumption DEF Types, S!TypeOK
      <3>2. out = IF to = "payee" THEN "paid" ELSE "refunded"
        BY <1>4, <1>7
      <3>3. QED
        BY <2>2, <3>1, <3>2 DEF Phase
    <2>5. QED
      BY <1>1, <1>5, <1>6, <2>1, <2>3, <2>4, SaleView, CloseStep
  <1>9. CASE S!Fault("throw") /\ UNCHANGED status
    <2>1. escrow' \in Nat /\ escrow' <= escrow
      BY <1>1, <1>6, SaleTypes
    <2>2. QED
      BY <1>5, <1>6, <1>9, <2>1, SaleFault DEF Stages
  <1>10. (/\ status' = [status EXCEPT ![s] = IF status[s] # "pending_fulfilment" THEN status[s] ELSE out]
          /\ UNCHANGED faults)
         \/ (S!Fault("throw") /\ UNCHANGED status)
    BY <1>3, <1>7 DEF S!Settle
  <1>11. QED
    BY <1>8, <1>9, <1>10

-----------------------------------------------------------------------------
(* The invariant holds.                                                     *)

\* At the start the payers have their money and nobody has begun.
LEMMA InitTypes ==
    ASSUME Init
    PROVE  /\ Types /\ escrow = 0 /\ disturbed = {} /\ funded \subseteq Rows
           /\ \A w \in Workers : worker[w] = Idle
           /\ \A x \in Rows : /\ Phase(x) = "none" /\ Payee(x) = 0
                              /\ Payer(x) = IF x \in funded THEN Amt(x) ELSE 0
  <1>1. escrow = 0 /\ faults = 0 /\ disturbed = {} /\ worker = [w \in Workers |-> Idle]
    BY DEF Init
  <1>2. funded \subseteq Rows
    BY EscrowAssumption DEF Init, Rows
  <1>3. /\ sender = [c \in Claims |-> IF c \in funded THEN Amount[c] ELSE 0]
        /\ recipient = [c \in Claims |-> 0] /\ row = [c \in Claims |-> "none"]
        /\ expired = [c \in Claims |-> FALSE]
    BY DEF Init, C!Init
  <1>4. /\ consumer = [s \in Sales |-> IF s \in funded THEN Price[s] ELSE 0]
        /\ merchant = [s \in Sales |-> 0] /\ status = [s \in Sales |-> "none"]
        /\ fulfilment = [s \in Sales |-> "none"] /\ queue = {} /\ retries = 0
    BY DEF Init, S!Init
  <1>5. C!TypeOK
    BY <1>3, EscrowAssumption DEF C!TypeOK
  <1>6. S!TypeOK
    BY <1>4, EscrowAssumption DEF S!TypeOK
  <1>7. Types
    BY <1>1, <1>2, <1>5, <1>6, IdleRecord DEF Types
  <1>8. ASSUME NEW x \in Rows
        PROVE  /\ Phase(x) = "none" /\ Payee(x) = 0
               /\ Payer(x) = IF x \in funded THEN Amt(x) ELSE 0
    <2>1. CASE x \in Claims
      BY <1>3, <2>1 DEF Phase, Payee, Payer, Amt
    <2>2. CASE x \notin Claims
      BY <1>4, <2>2 DEF Phase, Payee, Payer, Amt, Rows
    <2>3. QED
      BY <2>1, <2>2
  <1>9. QED
    BY <1>1, <1>2, <1>7, <1>8

\* The invariant holds at the start.
LEMMA InitInv == Init => Inv
  <1> SUFFICES ASSUME Init PROVE Inv
    OBVIOUS
  <1>1. /\ Types /\ escrow = 0 /\ disturbed = {} /\ funded \subseteq Rows
        /\ \A w \in Workers : worker[w] = Idle
        /\ \A x \in Rows : /\ Phase(x) = "none" /\ Payee(x) = 0
                           /\ Payer(x) = IF x \in funded THEN Amt(x) ELSE 0
    BY InitTypes
  <1>2. ASSUME NEW x \in Rows PROVE Sound(x) /\ KeptFor(x) = 0
    <2>1. Holding(x) \in [Workers -> Stages] /\ \A w \in Workers : Holding(x)[w] = "no"
      BY <1>1, IdleRecord DEF Holding, HoldOf, Stages
    <2>2. Chosen(x) = {}
      BY <1>1, IdleRecord DEF Chosen
    <2>3. Amt(x) \in Nat \ {0} /\ Payer(x) \in {0, Amt(x)} /\ Payee(x) = 0 /\ Phase(x) = "none"
          /\ (x \in funded => Payer(x) = Amt(x)) /\ (x \notin funded => Payer(x) = 0)
      BY <1>1, AmtType
    <2>4. Truthful(Amt(x), x, funded, Phase(x), Payer(x), Payee(x), Holding(x), Chosen(x))
      BY <2>1, <2>2, <2>3 DEF Truthful
    <2>5. Clean(Amt(x), Phase(x), Payer(x), Payee(x), Holding(x), Chosen(x))
      BY <2>1, <2>2, <2>3 DEF Clean, Alone
    <2>6. Sound(x)
      BY <2>1, <2>2, <2>3, <2>4, <2>5 DEF Sound, Ok
    <2>7. KeptFor(x) = 0
      BY <2>3 DEF KeptFor, Kept
    <2>8. QED
      BY <2>6, <2>7
  <1>3. Money
    <2>1. Total([x \in Rows |-> Payer(x)]) = Total([x \in Rows |-> IF x \in funded THEN Amt(x) ELSE 0])
      BY <1>1
    <2>2. Total([x \in Rows |-> IF x \in funded THEN Amt(x) ELSE 0]) \in Nat
      <3>1. [x \in Rows |-> IF x \in funded THEN Amt(x) ELSE 0] \in [Rows -> Nat]
        BY AmtType
      <3>2. QED
        BY <3>1, RowsFinite, TotalType
    <2>3. Total([x \in Rows |-> Payee(x)]) = 0
      <3>1. [x \in Rows |-> Payee(x)] = [x \in Rows |-> 0]
        BY <1>1
      <3>2. QED
        BY <3>1, TotalZero
    <2>4. Total(Flight) = 0
      <3>1. Flight = [w \in Workers |-> 0]
        BY <1>1, IdleRecord DEF Flight
      <3>2. QED
        BY <3>1, TotalZero
    <2>5. Total([x \in Rows |-> KeptFor(x)]) = 0
      <3>1. [x \in Rows |-> KeptFor(x)] = [x \in Rows |-> 0]
        BY <1>2
      <3>2. QED
        BY <3>1, TotalZero
    <2>6. QED
      BY <1>1, <2>1, <2>2, <2>3, <2>4, <2>5 DEF Money
  <1>4. QED
    BY <1>1, <1>2, <1>3 DEF Inv

\* Every step of EscrowClaims keeps it ...
LEMMA ClaimStepInv ==
    ASSUME Inv, Record, UNCHANGED saleVars, NEW w \in Workers, C!Step(w) \/ C!Call(w)
    PROVE  Inv'
  <1>1. CASE C!Step(w)
    <2>1. PICK c \in Claims : \/ C!CreateClaim(w, c) \/ C!SweepRow(w, c) \/ C!DebitEscrow(w, c)
                              \/ C!CreditBeneficiary(w, c) \/ C!SetStatus(w, c)
      BY <1>1 DEF C!Step
    <2>2. QED
      BY <2>1, CreateClaimInv, SweepRowInv, DebitClaimInv, CreditClaimInv, SetStatusInv
  <1>2. CASE C!Call(w)
    BY <1>2, SubmitInv, RedeemInv, SweepInv DEF C!Call
  <1>3. QED
    BY <1>1, <1>2

\* ... as does every step of SaleFulfilment ...
LEMMA SaleStepInv ==
    ASSUME Inv, Record, UNCHANGED claimVars, NEW w \in Workers, S!Step(w) \/ S!Call(w)
    PROVE  Inv'
  <1>1. CASE S!Step(w)
    BY <1>1, RecordSaleInv, MarkInv, CallInv, PublishInv, DebitSaleInv, CreditSaleInv, SettleInv,
       DequeueInv DEF S!Step
  <1>2. CASE S!Call(w)
    BY <1>2, PurchaseInv, RetryInv DEF S!Call
  <1>3. QED
    BY <1>1, <1>2

\* ... and every step of the two together with their environment.
LEMMA NextInv == Inv /\ [Next]_vars => Inv'
  <1> SUFFICES ASSUME Inv, [Next]_vars PROVE Inv'
    OBVIOUS
  <1>1. CASE \E w \in Workers : Step(w) \/ Call(w)
    BY <1>1, ClaimStepInv, SaleStepInv DEF Step, Call
  <1>2. CASE Environment
    BY <1>2, ExpireInv, CrashInv DEF Environment
  <1>3. CASE UNCHANGED vars
    <2>1. expired \in [Claims -> BOOLEAN]
      BY DEF Inv, Types, C!TypeOK
    <2>2. QED
      BY <1>3, <2>1, QuietStep DEF vars, claimVars
  <1>4. QED
    BY <1>1, <1>2, <1>3 DEF Next

-----------------------------------------------------------------------------
(* What the invariant says.                                                 *)

\* Whom the table names has been paid, and an undisturbed row pays once.
LEMMA InvPaysOnce == Inv => PaidOnce
  <1> SUFFICES ASSUME Inv PROVE PaidOnce
    OBVIOUS
  <1>1. Types
    BY DEF Inv
  <1>2. ASSUME NEW c \in Claims
        PROVE  /\ row[c] = "claimed" => recipient[c] >= Amount[c]
               /\ row[c] = "reclaimed" => sender[c] >= Amount[c]
               /\ c \notin disturbed => sender[c] + recipient[c] <= Amount[c]
    <2>1. Sound(c)
      BY <1>1, ClaimView DEF Inv
    <2>2. QED
      BY <1>1, <2>1, ClaimView DEF Sound, Ok, Truthful, Clean
  <1>3. ASSUME NEW s \in Sales
        PROVE  /\ status[s] = "paid" => merchant[s] >= Price[s]
               /\ status[s] = "refunded" => consumer[s] >= Price[s]
               /\ s \notin disturbed => consumer[s] + merchant[s] <= Price[s]
    <2>1. Sound(s)
      BY <1>1, SaleView DEF Inv
    <2>2. QED
      BY <1>1, <2>1, SaleView DEF Sound, Ok, Truthful, Clean
  <1>4. QED
    BY <1>2, <1>3 DEF PaidOnce, C!SettledIsPaid, S!SettledIsPaid

\* The outcome a table shows is never rewritten.
LEMMA StepKeepsOutcome ==
    Inv /\ [Next]_vars => /\ \A c \in Claims : C!Settled(c) => row'[c] = row[c]
                          /\ \A s \in Sales : S!Settled(s) => status'[s] = status[s]
  <1> SUFFICES ASSUME Inv, [Next]_vars
               PROVE  /\ \A c \in Claims : C!Settled(c) => row'[c] = row[c]
                      /\ \A s \in Sales : S!Settled(s) => status'[s] = status[s]
    OBVIOUS
  <1>1. Types /\ row \in [Claims -> {"none", "pending", "claimed", "reclaimed"}]
        /\ status \in [Sales -> {"none", "pending_fulfilment", "paid", "refunded"}]
    BY DEF Inv, Types, C!TypeOK, S!TypeOK
  <1>2. CASE UNCHANGED <<row, status>>
    BY <1>2
  <1>3. ASSUME NEW w \in Workers, NEW d \in Claims, C!CreateClaim(w, d), UNCHANGED saleVars
        PROVE  /\ \A c \in Claims : C!Settled(c) => row'[c] = row[c]
               /\ \A s \in Sales : S!Settled(s) => status'[s] = status[s]
    <2>1. row[d] = "none"
      <3>1. worker[w].pc = "insert" /\ d \in worker[w].rows /\ IsJob(worker[w])
        BY <1>1, <1>3 DEF Types, C!CreateClaim
      <3>2. PICK e \in Claims : worker[w] = Insertion(e)
        BY <3>1, InsertShape
      <3>3. worker[w] = Insertion(d)
        BY <3>1, <3>2, InsertRecord
      <3>4. Holding(d)[w] = "open"
        BY <3>3, InsertRecord DEF Holding, HoldOf
      <3>5. Sound(d)
        BY <1>1, ClaimView DEF Inv
      <3>6. QED
        BY <1>1, <3>4, <3>5, ClaimView DEF Sound, Ok, Truthful
    <2>2. \A c \in Claims \ {d} : row'[c] = row[c]
      BY <1>1, <1>3 DEF C!CreateClaim
    <2>3. QED
      BY <1>3, <2>1, <2>2 DEF C!Settled, saleVars
  <1>4. ASSUME NEW w \in Workers, NEW d \in Claims, C!SetStatus(w, d), UNCHANGED saleVars
        PROVE  /\ \A c \in Claims : C!Settled(c) => row'[c] = row[c]
               /\ \A s \in Sales : S!Settled(s) => status'[s] = status[s]
    <2>1. \A c \in Claims : C!Settled(c) => row'[c] = row[c]
      BY <1>1, <1>4 DEF C!SetStatus, C!Settled
    <2>2. QED
      BY <1>4, <2>1 DEF saleVars
  <1>5. ASSUME NEW w \in Workers, S!RecordMerchantSale(w), UNCHANGED claimVars
        PROVE  /\ \A c \in Claims : C!Settled(c) => row'[c] = row[c]
               /\ \A s \in Sales : S!Settled(s) => status'[s] = status[s]
    <2>1. PICK pc \in SaleRuns : pc = "record"
      BY DEF SaleRuns
    <2>2. PICK r \in Sales : worker[w] = S!Job(pc, r) /\ worker[w].sale = r
      BY <1>1, <1>5, <2>1, AtRun DEF S!RecordMerchantSale
    <2>3. Holding(r)[w] = "open"
      BY <2>1, <2>2, RunRecord DEF Holding, HoldOf
    <2>4. Sound(r)
      BY <1>1, SaleView DEF Inv
    <2>5. status[r] = "none"
      BY <1>1, <2>3, <2>4, SaleView DEF Sound, Ok, Truthful
    <2>6. \A s \in Sales \ {r} : status'[s] = status[s]
      BY <1>1, <1>5, <2>2 DEF S!RecordMerchantSale, S!table
    <2>7. QED
      BY <1>5, <2>5, <2>6 DEF S!Settled, claimVars
  <1>6. ASSUME NEW w \in Workers, S!Settle(w), UNCHANGED claimVars
        PROVE  /\ \A c \in Claims : C!Settled(c) => row'[c] = row[c]
               /\ \A s \in Sales : S!Settled(s) => status'[s] = status[s]
    <2>1. \A s \in Sales : S!Settled(s) => status'[s] = status[s]
      BY <1>1, <1>6 DEF S!Settle, S!Settled
    <2>2. QED
      BY <1>6, <2>1 DEF claimVars
  <1>7. ASSUME NEW w \in Workers, Step(w)
        PROVE  \/ UNCHANGED <<row, status>>
               \/ UNCHANGED saleVars /\ \E d \in Claims : C!CreateClaim(w, d) \/ C!SetStatus(w, d)
               \/ UNCHANGED claimVars /\ (S!RecordMerchantSale(w) \/ S!Settle(w))
    <2>1. CASE C!Step(w) /\ UNCHANGED saleVars
      BY <2>1 DEF C!Step, C!SweepRow, C!DebitEscrow, C!CreditBeneficiary, saleVars
    <2>2. CASE S!Step(w) /\ UNCHANGED claimVars
      BY <2>2 DEF S!Step, S!Mark, S!CallFulfilmentApi, S!PublishOutcome, S!DebitEscrow,
         S!CreditBeneficiary, S!Dequeue, S!table, claimVars
    <2>3. QED
      BY <1>7, <2>1, <2>2 DEF Step
  <1>8. ASSUME NEW w \in Workers, Call(w) PROVE UNCHANGED <<row, status>>
    BY <1>8 DEF Call, C!Call, S!Call, C!Submit, C!Redeem, C!Sweep, S!Purchase, S!Retry, S!table,
       claimVars, saleVars
  <1>9. ASSUME Environment PROVE UNCHANGED <<row, status>>
    BY <1>9 DEF Environment, C!Expire, Crash, claimVars, saleVars
  <1>10. UNCHANGED vars => UNCHANGED <<row, status>>
    BY DEF vars, claimVars, saleVars
  <1>11. QED
    BY <1>2, <1>3, <1>4, <1>5, <1>6, <1>7, <1>8, <1>9, <1>10 DEF Next

\* A sum over the rows is the sum over the claims and the sum over the sales.
LEMMA SumRows ==
    ASSUME NEW f \in [Rows -> Nat],
           NEW g, g = [c \in Claims |-> f[c]], NEW h, h = [s \in Sales |-> f[s]]
    PROVE  /\ Total(f) = Total(g) + Total(h)
           /\ Total(f) \in Nat /\ Total(g) \in Nat /\ Total(h) \in Nat
  <1>1. PICK A \in SUBSET Rows, B \in SUBSET Rows : A = Claims /\ B = Sales /\ A \cap B = {} /\ Rows = A \cup B
    BY EscrowAssumption DEF Rows
  <1>2. Total([x \in A \cup B |-> f[x]]) = Total([x \in A |-> f[x]]) + Total([x \in B |-> f[x]])
    BY <1>1, RowsFinite, TotalSplit, SMTT(60)
  <1>3. [x \in A \cup B |-> f[x]] = f /\ g = [x \in A |-> f[x]] /\ h = [x \in B |-> f[x]]
    BY <1>1
  <1>4. g \in [Claims -> Nat] /\ h \in [Sales -> Nat]
    BY <1>1
  <1>5. Total(f) \in Nat /\ Total(g) \in Nat /\ Total(h) \in Nat
    BY <1>4, RowsFinite, EscrowAssumption, TotalType
  <1>6. QED
    BY <1>2, <1>3, <1>5

\* The same for the rows of a set.
LEMMA SumPart ==
    ASSUME NEW T, NEW f \in [Rows -> Nat], \A x \in Rows : f[x] = IF x \in T THEN Amt(x) ELSE 0
    PROVE  /\ Total(f) = Total([c \in Claims \cap T |-> Amount[c]]) + Total([s \in Sales \cap T |-> Price[s]])
           /\ Total([c \in Claims \cap T |-> Amount[c]]) \in Nat
           /\ Total([s \in Sales \cap T |-> Price[s]]) \in Nat
  <1>1. PICK g : g = [c \in Claims |-> f[c]]
    OBVIOUS
  <1>2. PICK h : h = [s \in Sales |-> f[s]]
    OBVIOUS
  <1>3. /\ Total(f) = Total(g) + Total(h)
        /\ Total(g) \in Nat /\ Total(h) \in Nat
    BY <1>1, <1>2, SumRows
  <1>4. Total(g) = Total([c \in Claims \cap T |-> Amount[c]])
    <2>1. Amount \in [Claims -> Nat] /\ Claims \cap T \in SUBSET Claims
      BY EscrowAssumption
    <2>2. \A c \in Claims : f[c] = IF c \in Claims \cap T THEN Amount[c] ELSE 0
      BY DEF Rows, Amt
    <2>3. g = [c \in Claims |-> IF c \in Claims \cap T THEN Amount[c] ELSE 0]
      BY <1>1, <2>2
    <2>4. Total([c \in Claims |-> IF c \in Claims \cap T THEN Amount[c] ELSE 0])
             = Total([c \in Claims \cap T |-> Amount[c]])
      BY <2>1, TotalSupport
    <2>5. QED
      BY <2>3, <2>4
  <1>5. Total(h) = Total([s \in Sales \cap T |-> Price[s]])
    <2>1. Price \in [Sales -> Nat] /\ Sales \cap T \in SUBSET Sales
      BY EscrowAssumption
    <2>2. \A s \in Sales : f[s] = IF s \in Sales \cap T THEN Price[s] ELSE 0
      BY EscrowAssumption DEF Rows, Amt
    <2>3. h = [s \in Sales |-> IF s \in Sales \cap T THEN Price[s] ELSE 0]
      BY <1>2, <2>2
    <2>4. Total([s \in Sales |-> IF s \in Sales \cap T THEN Price[s] ELSE 0])
             = Total([s \in Sales \cap T |-> Price[s]])
      BY <2>1, TotalSupport
    <2>5. QED
      BY <2>3, <2>4
  <1>6. QED
    BY <1>3, <1>4, <1>5

\* The parties, the account and the handlers hold no more than was paid in.
LEMMA InvNoValue == Inv => NoValueCreated
  <1> SUFFICES ASSUME Inv PROVE NoValueCreated
    OBVIOUS
  <1>1. Types /\ \A x \in Rows : Payer(x) \in Nat /\ Payee(x) \in Nat
    BY DEF Inv, Sound, Ok
  <1>2. PICK p \in [Rows -> Nat] : p = [x \in Rows |-> Payer(x)]
    BY <1>1
  <1>3. PICK q \in [Rows -> Nat] : q = [x \in Rows |-> Payee(x)]
    BY <1>1
  <1>4. PICK m \in [Rows -> Nat] : m = [x \in Rows |-> IF x \in funded THEN Amt(x) ELSE 0]
    BY AmtType
  <1>5. Total(p) = Total(sender) + Total(consumer) /\ Total(sender) \in Nat /\ Total(consumer) \in Nat
    <2>1. sender = [c \in Claims |-> p[c]] /\ consumer = [s \in Sales |-> p[s]]
      <3>1. sender = [c \in Claims |-> sender[c]] /\ consumer = [s \in Sales |-> consumer[s]]
        BY <1>1 DEF Types, C!TypeOK, S!TypeOK
      <3>2. (\A c \in Claims : p[c] = sender[c]) /\ (\A s \in Sales : p[s] = consumer[s])
        BY <1>1, <1>2, ClaimView, SaleView
      <3>3. QED
        BY <3>1, <3>2
    <2>2. QED
      BY <2>1, SumRows
  <1>6. Total(q) = Total(recipient) + Total(merchant) /\ Total(recipient) \in Nat /\ Total(merchant) \in Nat
    <2>1. recipient = [c \in Claims |-> q[c]] /\ merchant = [s \in Sales |-> q[s]]
      <3>1. recipient = [c \in Claims |-> recipient[c]] /\ merchant = [s \in Sales |-> merchant[s]]
        BY <1>1 DEF Types, C!TypeOK, S!TypeOK
      <3>2. (\A c \in Claims : q[c] = recipient[c]) /\ (\A s \in Sales : q[s] = merchant[s])
        BY <1>1, <1>3, ClaimView, SaleView
      <3>3. QED
        BY <3>1, <3>2
    <2>2. QED
      BY <2>1, SumRows
  <1>7. /\ Total(m) = Total([c \in Claims \cap funded |-> Amount[c]])
                       + Total([s \in Sales \cap funded |-> Price[s]])
        /\ Total([c \in Claims \cap funded |-> Amount[c]]) \in Nat
        /\ Total([s \in Sales \cap funded |-> Price[s]]) \in Nat
    BY <1>4, SumPart
  <1>8. Flight = [w \in Workers |-> C!InFlight(w) + S!InFlight(w)] /\ Total(Flight) \in Nat
    <2>1. \A w \in Workers : FlightOf(worker[w]) = C!InFlight(w) + S!InFlight(w)
      BY <1>1, Records DEF Types
    <2>2. Flight \in [Workers -> Nat] /\ IsFiniteSet(Workers)
      BY <1>1, FlightType, EscrowAssumption DEF Types, Flight
    <2>3. QED
      BY <2>1, <2>2, TotalType DEF Flight
  <1>9. escrow + Total(p) + Total(q) + Total(Flight) <= Total(m) /\ escrow \in Nat
    BY <1>1, <1>2, <1>3, <1>4 DEF Inv, Money, Types
  <1>10. escrow + Total(sender) + Total(recipient) + Total(consumer) + Total(merchant) + InFlight
            <= Total([c \in Claims \cap funded |-> Amount[c]]) + Total([s \in Sales \cap funded |-> Price[s]])
    <2>1. InFlight = Total(Flight)
      BY <1>8 DEF InFlight
    <2>2. QED
      BY <1>5, <1>6, <1>7, <1>8, <1>9, <2>1
  <1>11. QED
    BY <1>1, <1>10 DEF NoValueCreated, Types

\* A row in hand is a claim of a claim's handler, or the sale of a sale's.
LEMMA HandSides ==
    ASSUME Types, NEW w \in Workers
    PROVE  /\ \A c \in Claims : Holding(c)[w] # "no" =>
                 c \in C!InHand(w) /\ (worker[w].pc = "debitClaim" => Holding(c)[w] = "due")
           /\ \A s \in Sales : Holding(s)[w] # "no" =>
                 s \in S!InHand(w) /\ (worker[w].pc \notin S!Releasing => Holding(s)[w] \in {"open", "due"})
  <1> DEFINE j == worker[w]
  <1>1. IsJob(j)
    BY DEF Types
  <1>2. ASSUME j.pc \in {"insert"} \cup ClaimWork PROVE HandOf(j) \subseteq Claims /\ HandOf(j) = C!InHand(w)
    <2>1. \E c \in Claims : HandOf(j) = {c}
      <3>1. CASE j.pc = "insert"
        BY <1>1, <3>1, InsertShape, InsertRecord
      <3>2. CASE j.pc \in ClaimWork
        BY <1>1, <3>2, WorkShape, WorkRecord
      <3>3. QED
        BY <1>2, <3>1, <3>2
    <2>2. QED
      BY <1>2, <2>1 DEF HandOf, C!InHand, ClaimWork
  <1>3. ASSUME j.pc \in SaleRuns \cup SaleEnds PROVE HandOf(j) \subseteq Sales /\ HandOf(j) = S!InHand(w)
    <2>1. \E s \in Sales : HandOf(j) = {s}
      <3>1. CASE j.pc \in SaleRuns
        BY <1>1, <3>1, RunShape, RunRecord
      <3>2. CASE j.pc \in SaleEnds
        BY <1>1, <3>2, EndShape, EndRecord
      <3>3. QED
        BY <1>3, <3>1, <3>2
    <2>2. QED
      BY <1>3, <2>1 DEF HandOf, S!InHand, S!Running, S!Releasing, SaleRuns, SaleEnds, ClaimWork
  <1>4. \A x \in Rows : Holding(x)[w] # "no" =>
           x \in HandOf(j) /\ Holding(x)[w] = StageOf(j) /\ j.pc \in {"insert"} \cup ClaimWork \cup SaleRuns \cup SaleEnds
    BY DEF Holding, HoldOf, HandOf
  <1>5. j.pc = "debitClaim" => StageOf(j) = "due"
    BY DEF StageOf
  <1>6. j.pc \in SaleRuns \cup SaleEnds /\ j.pc \notin S!Releasing => StageOf(j) \in {"open", "due"}
    BY DEF StageOf, SaleRuns, SaleEnds, S!Releasing
  <1>7. Claims \cap Sales = {}
    BY EscrowAssumption
  <1> HIDE DEF j
  <1>8. ASSUME NEW c \in Claims, Holding(c)[w] # "no"
        PROVE  c \in C!InHand(w) /\ (j.pc = "debitClaim" => Holding(c)[w] = "due")
    BY <1>2, <1>3, <1>4, <1>5, <1>7, <1>8 DEF Rows
  <1>9. ASSUME NEW s \in Sales, Holding(s)[w] # "no"
        PROVE  s \in S!InHand(w) /\ (j.pc \notin S!Releasing => Holding(s)[w] \in {"open", "due"})
    BY <1>2, <1>3, <1>4, <1>6, <1>7, <1>9 DEF Rows
  <1>10. QED
    BY <1>8, <1>9 DEF j

\* While nothing is disturbed, the account holds what it keeps for each row.
LEMMA KeptSum ==
    ASSUME Inv, disturbed = {}
    PROVE  \E k \in [Rows -> Nat] :
              escrow = Total(k) /\ \A x \in Rows : k[x] = KeptFor(x)
  <1>1. \A x \in Rows : KeptFor(x) \in Nat
    BY AmtType DEF KeptFor, Kept
  <1>2. escrow = Total([x \in Rows |-> KeptFor(x)])
    BY DEF Inv, Money
  <1>3. QED
    BY <1>1, <1>2

\* What is owed for the rows is kept for them.
LEMMA InvOwed ==
    ASSUME Inv, disturbed = {}
    PROVE  escrow >= C!Owed + S!Owed
  <1> DEFINE A == {d \in Claims : /\ row[d] = "pending"
                                  /\ \A w \in Workers : d \in C!InHand(w) => worker[w].pc = "debitClaim"}
             B == {r \in Sales : /\ status[r] = "pending_fulfilment"
                                 /\ \A w \in Workers : r \in S!InHand(w) => worker[w].pc \notin S!Releasing}
             T == A \cup B
  <1>1. Types
    BY DEF Inv
  <1>2. PICK k \in [Rows -> Nat] : escrow = Total(k) /\ \A x \in Rows : k[x] = KeptFor(x)
    BY KeptSum
  <1>3. PICK f \in [Rows -> Nat] : \A x \in Rows : f[x] = IF x \in T THEN Amt(x) ELSE 0
    <2>1. [x \in Rows |-> IF x \in T THEN Amt(x) ELSE 0] \in [Rows -> Nat]
      BY AmtType
    <2>2. QED
      BY <2>1
  <1>4. Claims \cap T = A /\ Sales \cap T = B
    BY EscrowAssumption
  <1>5. C!Owed = Total([c \in A |-> Amount[c]]) /\ S!Owed = Total([s \in B |-> Price[s]])
    BY SameTotal DEF C!Owed, S!Owed
  <1>6. ASSUME NEW x \in Rows, x \in T PROVE KeptFor(x) = Amt(x)
    <2>1. Phase(x) = "pending"
      BY <1>1, <1>6, ClaimView, SaleView
    <2>2. Sound(x) /\ x \notin disturbed
      BY DEF Inv
    <2>3. \A w \in Workers : Holding(x)[w] \in {"no", "due"}
      <3>1. SUFFICES ASSUME NEW w \in Workers, Holding(x)[w] # "no" PROVE Holding(x)[w] = "due"
        OBVIOUS
      <3>2. CASE x \in A
        BY <1>1, <3>1, <3>2, HandSides
      <3>3. CASE x \in B
        <4>1. Holding(x)[w] \in {"open", "due"}
          BY <1>1, <3>1, <3>3, HandSides
        <4>2. Holding(x)[w] # "open"
          BY <2>1, <2>2 DEF Sound, Ok, Truthful
        <4>3. QED
          BY <4>1, <4>2
      <3>4. QED
        BY <1>6, <3>2, <3>3
    <2>4. Clean(Amt(x), Phase(x), Payer(x), Payee(x), Holding(x), Chosen(x)) /\ x \in funded
      BY <2>1, <2>2 DEF Sound, Ok, Truthful
    <2>5. Payer(x) + Payee(x) = 0
      BY <2>1, <2>3, <2>4 DEF Clean
    <2>6. QED
      BY <2>3, <2>4, <2>5 DEF KeptFor, Kept
  <1> HIDE DEF A, B, T
  <1>7. /\ Total(f) = Total([c \in A |-> Amount[c]]) + Total([s \in B |-> Price[s]])
        /\ Total(f) \in Nat
    <2>1. /\ Total(f) = Total([c \in Claims \cap T |-> Amount[c]]) + Total([s \in Sales \cap T |-> Price[s]])
          /\ Total([c \in Claims \cap T |-> Amount[c]]) \in Nat
          /\ Total([s \in Sales \cap T |-> Price[s]]) \in Nat
      BY <1>3, SumPart
    <2>2. QED
      BY <1>4, <2>1
  <1>8. Total(f) <= Total(k)
    <2>1. \A x \in Rows : f[x] <= k[x]
      BY <1>2, <1>3, <1>6
    <2>2. PICK R \in SUBSET Rows : R = Rows
      OBVIOUS
    <2>3. Total([x \in R |-> f[x]]) <= Total(k)
      BY <2>1, <2>2, RowsFinite, TotalPart
    <2>4. QED
      BY <2>2, <2>3
  <1>9. Total(k) \in Nat
    BY RowsFinite, TotalType
  <1>10. QED
    BY <1>2, <1>5, <1>7, <1>8, <1>9

\* The transfers into escrow that no row records.
Unrecorded == {x \in Inbound : Phase(x) = "none"}
\* The rows that are due, and those that are settled.
Due == {x \in Rows : Phase(x) = "pending"}
Done == {x \in Rows : Phase(x) \in {"payee", "payer"}}

\* When no handler is at work, the account keeps the amounts of the due rows and of the
\* transfers that no row records, and of nothing else; and every row came with a
\* transfer.
LEMMA KeptAtRest ==
    ASSUME Inv, \A w \in Workers : InHand(w) = {}, NEW x \in Rows, x \notin disturbed
    PROVE  /\ x \in Inbound <=> x \in Unrecorded \/ x \in Due \/ x \in Done
           /\ x \in Due \cup Unrecorded => KeptFor(x) = Amt(x)
           /\ x \notin Due \cup Unrecorded => KeptFor(x) = 0
  <1>1. Types /\ Sound(x) /\ Amt(x) \in Nat \ {0}
    BY AmtType DEF Inv
  <1>2. \A w \in Workers : Holding(x)[w] = "no"
    BY <1>1, Records DEF Holding, HoldOf
  <1>3. /\ Truthful(Amt(x), x, funded, Phase(x), Payer(x), Payee(x), Holding(x), Chosen(x))
        /\ Clean(Amt(x), Phase(x), Payer(x), Payee(x), Holding(x), Chosen(x))
        /\ Payer(x) \in Nat /\ Payee(x) \in Nat /\ Phase(x) \in {"none", "pending", "payee", "payer"}
    BY <1>1 DEF Sound, Ok
  <1>4. x \in Inbound <=> x \in funded /\ (Payer(x) # Amt(x) \/ Phase(x) # "none")
    <2>1. CASE x \in Claims
      <3>1. x \notin Sales
        BY <2>1, EscrowAssumption
      <3>2. x \in Inbound <=> x \in funded /\ (sender[x] # Amount[x] \/ row[x] # "none")
        BY <2>1, <3>1 DEF Inbound
      <3>3. QED
        BY <1>1, <2>1, <3>2, ClaimView
    <2>2. CASE x \in Sales
      <3>1. x \notin Claims
        BY <2>2, EscrowAssumption
      <3>2. x \in Inbound <=> x \in funded /\ (consumer[x] # Price[x] \/ status[x] # "none")
        BY <2>2, <3>1 DEF Inbound
      <3>3. QED
        BY <1>1, <2>2, <3>2, SaleView
    <2>3. QED
      BY <2>1, <2>2 DEF Rows
  <1>5. KeptFor(x) = IF x \in funded /\ Payer(x) + Payee(x) = 0 THEN Amt(x) ELSE 0
    BY <1>2 DEF KeptFor, Kept
  <1>6. Phase(x) = "pending" => Payer(x) + Payee(x) = 0
    BY <1>2, <1>3 DEF Truthful, Clean
  <1>7. Phase(x) = "none" => Payee(x) = 0 /\ Payer(x) \in {0, Amt(x)}
    BY <1>3 DEF Truthful
  <1>8. Phase(x) \in {"payee", "payer"} => Payer(x) + Payee(x) # 0
    BY <1>1, <1>3 DEF Truthful
  <1>9. Phase(x) # "none" => x \in funded
    BY <1>3 DEF Truthful
  <1>10. QED
    BY <1>1, <1>3, <1>4, <1>5, <1>6, <1>7, <1>8, <1>9 DEF Unrecorded, Due, Done

\* The values of two separate groups of rows add up.
LEMMA ValueSplit ==
    ASSUME NEW A \in SUBSET Rows, NEW B \in SUBSET Rows, A \cap B = {}
    PROVE  /\ Value(A \cup B) = Value(A) + Value(B)
           /\ Value(A) \in Nat /\ Value(B) \in Nat
  <1>1. PICK amt \in [Rows -> Nat] : amt = [x \in Rows |-> Amt(x)]
    BY AmtType
  <1>2. Total([x \in A \cup B |-> amt[x]]) = Total([x \in A |-> amt[x]]) + Total([x \in B |-> amt[x]])
    <2>1. \A f \in [Rows -> Nat] :
             Total([x \in A \cup B |-> f[x]]) = Total([x \in A |-> f[x]]) + Total([x \in B |-> f[x]])
      BY RowsFinite, TotalSplit, SMTT(60)
    <2>2. QED
      BY <2>1, Zenon
  <1>3. /\ [x \in A \cup B |-> amt[x]] = [x \in A \cup B |-> Amt(x)]
        /\ [x \in A |-> amt[x]] = [x \in A |-> Amt(x)]
        /\ [x \in B |-> amt[x]] = [x \in B |-> Amt(x)]
    BY <1>1
  <1>4. IsFiniteSet(A) /\ IsFiniteSet(B)
    BY RowsFinite, FS_Subset
  <1>5. [x \in A |-> amt[x]] \in [A -> Nat] /\ [x \in B |-> amt[x]] \in [B -> Nat]
    BY <1>1
  <1>6. Total([x \in A |-> amt[x]]) \in Nat /\ Total([x \in B |-> amt[x]]) \in Nat
    BY <1>4, <1>5, TotalType
  <1>7. QED
    BY <1>2, <1>3, <1>6 DEF Value

\* What is held is the value of the due rows and of the unrecorded transfers.
LEMMA HeldAtRest ==
    ASSUME Inv, disturbed = {}, \A w \in Workers : InHand(w) = {}
    PROVE  Held = Value(Due \cup Unrecorded)
  <1>1. PICK k \in [Rows -> Nat] : escrow = Total(k) /\ \A x \in Rows : k[x] = KeptFor(x)
    BY KeptSum
  <1>2. PICK amt \in [Rows -> Nat] : amt = [x \in Rows |-> Amt(x)]
    BY AmtType
  <1>3. PICK z \in SUBSET Rows : z = Due \cup Unrecorded
    BY DEF Due, Unrecorded, Inbound, Rows
  <1>4. \A x \in Rows : k[x] = IF x \in z THEN amt[x] ELSE 0
    BY <1>1, <1>2, <1>3, KeptAtRest
  <1>5. k = [x \in Rows |-> IF x \in z THEN amt[x] ELSE 0]
    BY <1>4
  <1>6. Total(k) = Total([x \in z |-> amt[x]])
    BY <1>5, TotalSupport
  <1>7. [x \in z |-> amt[x]] = [x \in z |-> Amt(x)]
    BY <1>2
  <1>8. QED
    BY <1>1, <1>3, <1>6, <1>7 DEF Held, Value

\* The two tables of a page come to the value of the due rows it lists.
LEMMA TablesOfPage ==
    ASSUME Types, NEW p \in Pages, NEW P \in SUBSET Rows, P = Due \cap (p.claims \cup p.sales)
    PROVE  WhatsappOutstanding(p) + Total([s \in PurchasesPending(p) |-> Price[s]]) = Value(P)
  <1>1. p.claims \subseteq Claims /\ p.sales \subseteq Sales
    BY DEF Pages
  <1>2. Claims \cap P = {d \in p.claims : row[d] = "pending"}
    <2>1. \A x \in Claims : x \in Rows /\ x \notin Sales /\ (Phase(x) = "pending" <=> row[x] = "pending")
      BY ClaimView, EscrowAssumption
    <2>2. QED
      BY <1>1, <2>1 DEF Due
  <1>3. Sales \cap P = PurchasesPending(p)
    <2>1. \A x \in Sales : x \in Rows /\ x \notin Claims /\ (Phase(x) = "pending" <=> status[x] = "pending_fulfilment")
      BY SaleView, EscrowAssumption
    <2>2. QED
      BY <1>1, <2>1 DEF Due, PurchasesPending
  <1>4. PICK f \in [Rows -> Nat] : f = [x \in Rows |-> IF x \in P THEN Amt(x) ELSE 0]
    BY AmtType
  <1>5. Total(f) = Total([c \in Claims \cap P |-> Amount[c]]) + Total([s \in Sales \cap P |-> Price[s]])
    BY <1>4, SumPart
  <1>6. Total(f) = Value(P)
    <2>1. PICK amt \in [Rows -> Nat] : amt = [x \in Rows |-> Amt(x)]
      BY AmtType
    <2>2. f = [x \in Rows |-> IF x \in P THEN amt[x] ELSE 0]
      BY <1>4, <2>1
    <2>3. Total(f) = Total([x \in P |-> amt[x]])
      BY <2>2, TotalSupport
    <2>4. [x \in P |-> amt[x]] = [x \in P |-> Amt(x)]
      BY <2>1
    <2>5. QED
      BY <2>3, <2>4 DEF Value
  <1>7. QED
    BY <1>2, <1>3, <1>5, <1>6 DEF WhatsappOutstanding

\* Then what is held is what every page accounts for, but for the settled rows it lacks.
LEMMA InvReconciles ==
    ASSUME Inv, disturbed = {}, \A w \in Workers : InHand(w) = {}, NEW p \in Pages
    PROVE  WhatsappOutstanding(p) + Total([s \in PurchasesPending(p) |-> Price[s]])
              + Value(Unallocated(p)) + Value(Unseen(p))
           = Held + Value(LeftOut(p))
  <1>1. Types
    BY DEF Inv
  <1>2. PICK L : L = p.claims \cup p.sales
    OBVIOUS
  <1>3. /\ p.claims \subseteq Claims /\ p.sales \subseteq Sales /\ p.transfers \subseteq Inbound
        /\ Inbound \subseteq Rows /\ Due \subseteq Rows /\ Done \subseteq Rows /\ Unrecorded \subseteq Rows
    BY DEF Pages, Inbound, Rows, Due, Done, Unrecorded
  <1>4. \A x \in L : x \in Rows /\ Phase(x) # "none"
    <2>1. \A c \in p.claims : c \in Claims /\ row[c] # "none"
      BY DEF Pages
    <2>2. \A s \in p.sales : s \in Sales /\ status[s] # "none"
      BY DEF Pages
    <2>3. QED
      BY <1>1, <1>2, <2>1, <2>2, ClaimView, SaleView
  <1>5. PICK shown \in SUBSET Rows, unseen \in SUBSET Rows, closed \in SUBSET Rows, listed \in SUBSET Rows,
             unlisted \in SUBSET Rows, stray \in SUBSET Rows :
           /\ shown = p.transfers \ L /\ unseen = Inbound \ (p.transfers \cup L)
           /\ closed = Done \ L /\ listed = Due \cap L /\ unlisted = Due \ L /\ stray = Unrecorded
    BY <1>3
  <1>6. Unallocated(p) = shown
    BY <1>2, <1>5 DEF Unallocated, Kind
  <1>7. Unseen(p) = unseen
    BY <1>2, <1>5 DEF Unseen
  <1>8. LeftOut(p) = closed
    <2>1. \A c \in Claims : /\ c \in Rows /\ c \notin Sales
                            /\ C!Settled(c) <=> Phase(c) \in {"payee", "payer"}
      BY <1>1, ClaimView, EscrowAssumption DEF C!Settled
    <2>2. \A s \in Sales : /\ s \in Rows /\ s \notin Claims
                           /\ S!Settled(s) <=> Phase(s) \in {"payee", "payer"}
      BY <1>1, SaleView, EscrowAssumption DEF S!Settled
    <2>3. \A x : x \in LeftOut(p) <=> \/ x \in Claims /\ x \notin p.claims /\ C!Settled(x)
                                      \/ x \in Sales /\ x \notin p.sales /\ S!Settled(x)
      BY DEF LeftOut
    <2>4. \A x : x \in closed <=> /\ x \in Claims \/ x \in Sales
                                  /\ Phase(x) \in {"payee", "payer"} /\ x \notin p.claims /\ x \notin p.sales
      BY <1>2, <1>5 DEF Done, Rows
    <2>5. \A x : x \in LeftOut(p) <=> x \in closed
      BY <1>3, <2>1, <2>2, <2>3, <2>4
    <2>6. QED
      BY <2>5
  <1>9. \A x \in Rows : x \in Inbound <=> x \in Unrecorded \/ x \in Due \/ x \in Done
    BY KeptAtRest
  <1>10. \A x \in Rows : /\ x \in Unrecorded => Phase(x) = "none"
                         /\ x \in Due => Phase(x) = "pending"
                         /\ x \in Done => Phase(x) \in {"payee", "payer"}
    BY DEF Unrecorded, Due, Done
  <1>11. PICK rest \in SUBSET Rows, due \in SUBSET Rows, held \in SUBSET Rows :
            /\ rest = shown \cup unseen /\ due = listed \cup unlisted /\ held = due \cup stray
    OBVIOUS
  <1>12. /\ shown \cap unseen = {} /\ listed \cap unlisted = {} /\ due \cap stray = {}
         /\ held = Due \cup Unrecorded
    BY <1>5, <1>10, <1>11
  <1>13. PICK open \in SUBSET Rows : open = unlisted \cup stray
    OBVIOUS
  <1>14. unlisted \cap stray = {} /\ open \cap closed = {}
    BY <1>5, <1>10, <1>13
  <1>15. rest = open \cup closed
    <2>1. \A x : x \in rest <=> x \in Inbound /\ x \notin L
      BY <1>3, <1>5, <1>11
    <2>2. \A x : x \in open \cup closed <=> x \in Rows /\ x \notin L /\ (x \in Due \/ x \in Done \/ x \in Unrecorded)
      BY <1>3, <1>4, <1>5, <1>10, <1>13
    <2>3. QED
      BY <1>3, <1>9, <2>1, <2>2
  <1>16. /\ Value(rest) = Value(shown) + Value(unseen) /\ Value(rest) = Value(open) + Value(closed)
         /\ Value(open) = Value(unlisted) + Value(stray)
         /\ Value(due) = Value(listed) + Value(unlisted) /\ Value(held) = Value(due) + Value(stray)
         /\ Value(shown) \in Nat /\ Value(unseen) \in Nat /\ Value(listed) \in Nat
         /\ Value(unlisted) \in Nat /\ Value(stray) \in Nat /\ Value(closed) \in Nat
    BY <1>11, <1>12, <1>13, <1>14, <1>15, ValueSplit
  <1>17. Held = Value(held)
    BY <1>12, HeldAtRest
  <1>18. WhatsappOutstanding(p) + Total([s \in PurchasesPending(p) |-> Price[s]]) = Value(listed)
    BY <1>1, <1>2, <1>5, TablesOfPage
  <1>19. QED
    BY <1>6, <1>7, <1>8, <1>16, <1>17, <1>18

\* What the run checks follows from the invariant.
LEMMA InvCovers == Inv => EscrowCovers
  BY InvNoValue, InvOwed, InvReconciles DEF EscrowCovers

-----------------------------------------------------------------------------
\* redeemClaim, reclaimExpiredClaims and releaseEscrowInBackground create no value,
\* and until a row is disturbed the escrow account holds what it owes, and what GET
\* /admin/escrow adds up: whatever the claims, sales, amounts, handlers and faults.
THEOREM AccountCovered == FairSpec => []EscrowCovers
  BY InitInv, NextInv, InvCovers, PTL DEF FairSpec

\* A settled claim or sale has been paid to the party its status names, and a row that
\* was not disturbed is paid once, by redeem, sweep, release, refund and retry together.
THEOREM RowsPayOnce == FairSpec => []PaidOnce
  BY InitInv, NextInv, InvPaysOnce, PTL DEF FairSpec

\* UPDATE ... WHERE status = 'pending' (and 'pending_fulfilment'): no interleaving of
\* handlers rewrites the outcome of a row.
THEOREM OutcomeIsFinal == FairSpec => SettledIsFinal
  <1>1. Inv /\ [Next]_vars => [/\ \A c \in Claims : C!Settled(c) => row'[c] = row[c]
                               /\ \A s \in Sales : S!Settled(s) => status'[s] = status[s]]_vars
    BY StepKeepsOutcome
  <1>2. QED
    BY <1>1, InitInv, NextInv, PTL DEF FairSpec, SettledIsFinal
=============================================================================
