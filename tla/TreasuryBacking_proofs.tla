------------------------ MODULE TreasuryBacking_proofs ------------------------
(***************************************************************************)
(* Deposits, change vouchers and conversions, for any number of references,*)
(* vouchers, handlers and faults: nothing is minted or credited twice for  *)
(* a reference, an undisturbed voucher is paid once, and what handlers     *)
(* claim one after the other the Vault's tokens cover.                     *)
(* Below them the consumer's pages: what a page pays is what it showed,    *)
(* once per press.                                                         *)
(***************************************************************************)
EXTENDS TreasuryBacking, WalletPages, ShareMath_proofs

Claimed == Claims(Accounts)

JobRecord ==
    [pc : Pcs, kind : {"deposit", "usdc", "voucher", "toUsd", "toFiat"},
     id : Refs \cup UsdcRefs \cup Vouchers \cup {"none"},
     amt : Nat, short : Nat, need : Nat, seen : Nat]
Busy(w) == worker[w] # Idle

\* A handler of a reference has it in hand before its mint, or between mint and credit.
RefPcs == {"mint", "credit", "mintUsdc"}
RefJob(j) ==
    /\ j.id \in refs /\ j.id \in Refs \cup UsdcRefs /\ j.amt = Amount[j.id]
    /\ j.pc # "mintUsdc" => j.id \in Refs
    /\ minted[j.id] = IF j.pc = "credit" THEN Amount[j.id] ELSE 0
    /\ j.id \in Refs => credited[j.id] = 0
RefsInv ==
    /\ \A x \in Refs \cup UsdcRefs :
          minted[x] <= Amount[x] /\ (x \notin refs => minted[x] = 0)
    /\ \A x \in Refs : credited[x] <= minted[x]
    /\ \A w \in Workers : worker[w].pc \in RefPcs => RefJob(worker[w])
    /\ \A v, w \in Workers :
          worker[v].pc \in RefPcs /\ worker[w].pc \in RefPcs /\ worker[v].id = worker[w].id => v = w

\* A handler of a voucher moves the voucher's amount, and marks it when it is paid.
VoucherPcs == {"lapse", "float", "debitMerchant", "creditConsumer", "setClaimed", "mintRef"}
SharedPcs == {"backing", "claims", "mintShort", "creditShort"}
VoucherJob(j) ==
    /\ j.pc \in VoucherPcs => j.kind = "voucher"
    /\ j.pc \in VoucherPcs \cup SharedPcs /\ j.kind = "voucher" =>
          j.id \in Vouchers /\ j.amt = Amount[j.id]
    /\ j.pc \in SharedPcs => j.kind \in {"voucher", "toFiat"}
    /\ j.pc = "debitUsd" => j.kind = "toFiat"
    /\ j.pc = "setClaimed" => paid[j.id] >= Amount[j.id]
VouchersInv ==
    /\ \A v \in Vouchers : row[v] = "claimed" => paid[v] >= Amount[v]
    /\ \A w \in Workers : VoucherJob(worker[w])

Alone == ~overlap => \A v, w \in Workers : Busy(v) /\ Busy(w) => v = w

\* Undisturbed, a voucher is paid by the handler that marks it and by no other.
Settling(v) == \E w \in Workers : worker[w].pc = "setClaimed" /\ worker[w].id = v
OnceInv ==
    ~overlap /\ faults = 0 =>
       /\ \A v \in Vouchers : paid[v] <= Amount[v]
       /\ \A v \in Vouchers : row[v] # "claimed" => paid[v] = 0 \/ Settling(v)
       /\ \A w \in Workers :
             worker[w].pc \in (VoucherPcs \ {"mintRef"}) \cup SharedPcs /\ worker[w].kind = "voucher"
                => row[worker[w].id] # "claimed"

\* What a handler will credit without a further debit or mint.
Due(j) ==
    CASE j.pc \in {"credit", "creditConsumer"} -> j.amt
      [] j.pc = "creditShort" -> j.short
      [] j.pc = "mintShort" -> j.short - j.need
      [] OTHER -> 0
TokensCover ==
    ~overlap =>
       /\ tt + unread >= Claimed
       /\ \A w \in Workers : tt + unread >= Claimed + Due(worker[w])
       /\ \A w \in Workers : worker[w].pc = "claims" => worker[w].seen = tt

BackInv == TypeOK /\ RefsInv /\ VouchersInv /\ Alone /\ OnceInv /\ TokensCover

-----------------------------------------------------------------------------
JobKinds == {"deposit", "usdc", "voucher", "toUsd", "toFiat"}
JobIds == Refs \cup UsdcRefs \cup Vouchers \cup {"none"}

\* A handler is idle or has a job.
LEMMA JobTypes ==
    ASSUME TypeOK, NEW w \in Workers
    PROVE  /\ worker \in [Workers -> {Idle} \cup JobRecord]
           /\ Idle.pc = "idle"
           /\ worker[w].pc # "idle" => worker[w] \in JobRecord
           /\ Busy(w) <=> worker[w].pc # "idle"
  <1>1. worker \in [Workers -> {Idle} \cup JobRecord]
    BY DEF TypeOK, JobRecord
  <1>2. Idle.pc = "idle"
    BY DEF Idle
  <1>3. worker[w] = Idle \/ worker[w] \in JobRecord
    BY <1>1
  <1>4. \A j \in JobRecord : j.pc # "idle"
    BY DEF JobRecord, Pcs
  <1>5. QED
    BY <1>1, <1>2, <1>3, <1>4 DEF Busy

LEMMA JobFields ==
    ASSUME NEW j \in JobRecord
    PROVE  /\ j.pc \in Pcs /\ j.kind \in JobKinds /\ j.id \in JobIds
           /\ j.amt \in Nat /\ j.short \in Nat /\ j.need \in Nat /\ j.seen \in Nat
  BY DEF JobRecord, JobKinds, JobIds

\* The record of a handler as it starts.
LEMMA NewJob ==
    ASSUME NEW p \in Pcs, NEW i \in JobKinds, NEW x \in JobIds, NEW a \in Nat, NEW s \in Nat,
           NEW k, k = [pc |-> p, kind |-> i, id |-> x, amt |-> a, short |-> s, need |-> 0, seen |-> 0]
    PROVE  /\ k \in JobRecord /\ k.pc = p /\ k.kind = i /\ k.id = x /\ k.amt = a /\ k.short = s
  BY DEF JobRecord, JobKinds, JobIds

\* What one handler's step does to the handlers.
LEMMA AfterBecome ==
    ASSUME TypeOK, NEW w \in Workers, NEW j \in {Idle} \cup JobRecord, Become(w, j)
    PROVE  /\ worker' \in [Workers -> {Idle} \cup JobRecord]
           /\ worker'[w] = j
           /\ \A v \in Workers : v # w => worker'[v] = worker[v]
  <1>1. worker \in [Workers -> {Idle} \cup JobRecord]
    BY DEF TypeOK, JobRecord
  <1>2. QED
    BY <1>1 DEF Become

LEMMA IdleJob ==
    /\ Idle.pc = "idle" /\ Idle.pc \notin RefPcs /\ Idle.pc \notin VoucherPcs
    /\ Idle.pc \notin SharedPcs /\ Idle.pc \notin Pcs /\ Due(Idle) = 0
  BY DEF Idle, RefPcs, VoucherPcs, SharedPcs, Pcs, Due

\* The history of overlapping.
OverlapStep ==
    overlap' = (overlap \/ \E w, v \in Workers :
                             w # v /\ worker'[w] # Idle /\ worker'[v] # Idle)
LEMMA Overlapping ==
    ASSUME TypeOK, OverlapStep
    PROVE  /\ overlap' \in BOOLEAN
           /\ ~overlap' => ~overlap
           /\ Alone'
  BY DEF OverlapStep, Alone, Busy, TypeOK

LEMMA FaultCount ==
    ASSUME TypeOK
    PROVE  faults \in Nat
  BY BackingAssumption DEF TypeOK

\* While no two overlap, a step of one handler finds the others idle and leaves them so.
LEMMA OthersIdle ==
    ASSUME TypeOK, Alone, OverlapStep, ~overlap', NEW w \in Workers, NEW j \in {Idle} \cup JobRecord,
           Become(w, j), Busy(w) \/ j # Idle
    PROVE  \A v \in Workers : v # w => worker[v] = Idle /\ worker'[v] = Idle
  <1>1. ~overlap /\ Alone'
    BY Overlapping
  <1>2. worker'[w] = j /\ \A v \in Workers : v # w => worker'[v] = worker[v]
    BY AfterBecome
  <1>3. QED
    BY <1>1, <1>2 DEF Alone, Busy

-----------------------------------------------------------------------------
(* What keeps each part of the invariant.                                  *)

\* A step that opens no reference and mints or credits for none.
LEMMA RefsKept ==
    ASSUME TypeOK, RefsInv, NEW w \in Workers, NEW j \in {Idle} \cup JobRecord, Become(w, j),
           j.pc \notin RefPcs, UNCHANGED <<minted, credited>>, refs \subseteq refs'
    PROVE  RefsInv'
  <1>1. worker'[w] = j /\ \A v \in Workers : v # w => worker'[v] = worker[v]
    BY AfterBecome
  <1>2. ASSUME NEW v \in Workers, worker'[v].pc \in RefPcs
        PROVE  v # w /\ worker'[v] = worker[v] /\ RefJob(worker[v])
    BY <1>1, <1>2 DEF RefsInv
  <1>3. ASSUME NEW v \in Workers, worker'[v].pc \in RefPcs
        PROVE  RefJob(worker[v])'
    BY <1>2, <1>3 DEF RefJob
  <1>4. QED
    BY <1>2, <1>3 DEF RefsInv

\* No voucher is marked that is not paid, and none is unpaid.
LEMMA VouchersKept ==
    ASSUME TypeOK, VouchersInv, NEW w \in Workers, NEW j \in {Idle} \cup JobRecord, Become(w, j),
           \A v \in Vouchers : paid[v] <= paid'[v] /\ paid'[v] \in Nat,
           \A v \in Vouchers : row'[v] = "claimed" => row[v] = "claimed" \/ paid'[v] >= Amount[v],
           VoucherJob(j)'
    PROVE  VouchersInv'
  <1>1. worker'[w] = j /\ \A v \in Workers : v # w => worker'[v] = worker[v]
    BY AfterBecome
  <1>2. /\ paid \in [Vouchers -> Nat] /\ \A v \in Vouchers : Amount[v] \in Nat
    <2>1. \A v \in Vouchers : Amount[v] \in Nat
      BY BackingAssumption
    <2>2. paid \in [Vouchers -> Nat]
      BY Zenon DEF TypeOK
    <2>3. QED
      BY <2>1, <2>2
  <1>3. \A v \in Vouchers : row'[v] = "claimed" => paid'[v] >= Amount[v]
    BY <1>2 DEF VouchersInv
  <1>4. ASSUME NEW v \in Workers, v # w
        PROVE  VoucherJob(worker[v])'
    <2>1. VoucherJob(worker[v]) /\ worker'[v] = worker[v]
      BY <1>1, <1>4 DEF VouchersInv
    <2>2. worker[v].pc = "setClaimed" => worker[v].id \in Vouchers
      BY <2>1 DEF VoucherJob, VoucherPcs
    <2>3. QED
      BY <1>2, <2>1, <2>2 DEF VoucherJob
  <1>5. VoucherJob(worker[w])'
    BY <1>1
  <1>6. QED
    BY <1>3, <1>4, <1>5 DEF VouchersInv

FaultStep == faults' = faults \/ (faults < MaxFaults /\ faults' = faults + 1)

Marking(j) ==
    j.pc \in (VoucherPcs \ {"mintRef"}) \cup SharedPcs /\ j.kind = "voucher"

\* A step that leaves the vouchers alone and does not give up marking one.
LEMMA OnceKept ==
    ASSUME TypeOK, OnceInv, Alone, OverlapStep, FaultStep,
           NEW w \in Workers, NEW j \in {Idle} \cup JobRecord, Become(w, j), Busy(w) \/ j # Idle,
           UNCHANGED <<row, paid>>,
           faults' = 0 => worker[w].pc # "setClaimed",
           ~overlap /\ faults = 0 /\ Marking(j) => row[j.id] # "claimed"
    PROVE  OnceInv'
  <1> SUFFICES ASSUME ~overlap', faults' = 0
               PROVE  OnceInv'
    BY DEF OnceInv
  <1>1. worker'[w] = j /\ \A v \in Workers : v # w => worker[v] = Idle /\ worker'[v] = Idle
    BY AfterBecome, OthersIdle
  <1>2. ~overlap /\ faults = 0
    BY Overlapping, BackingAssumption DEF FaultStep, TypeOK
  <1>3. \A v \in Vouchers : ~Settling(v)
    BY <1>1, IdleJob DEF Settling
  <1>4. \A v \in Workers : Marking(worker'[v]) => v = w
    BY <1>1, IdleJob DEF Marking
  <1>5. ASSUME NEW v \in Workers, Marking(worker'[v])
        PROVE  row'[worker'[v].id] # "claimed"
    BY <1>1, <1>2, <1>4, <1>5
  <1>6. QED
    BY <1>2, <1>3, <1>5 DEF OnceInv, Marking

\* The tokens cover what is claimed and what this handler will credit.
LEMMA CoverKept ==
    ASSUME TypeOK, Alone, OverlapStep,
           NEW w \in Workers, NEW j \in {Idle} \cup JobRecord, Become(w, j), Busy(w) \/ j # Idle,
           ~overlap' => /\ tt' + unread' >= Claimed' /\ tt' + unread' >= Claimed' + Due(j)
                        /\ tt' + unread' \in Nat /\ Claimed' \in Nat
                        /\ j.pc = "claims" => j.seen = tt'
    PROVE  TokensCover'
  <1> SUFFICES ASSUME ~overlap'
               PROVE  TokensCover'
    BY DEF TokensCover
  <1>1. worker'[w] = j /\ \A v \in Workers : v # w => worker[v] = Idle /\ worker'[v] = Idle
    BY AfterBecome, OthersIdle
  <1>2. \A v \in Workers : worker'[v] = j \/ worker'[v] = Idle
    BY <1>1
  <1>3. \A v \in Workers : tt' + unread' >= Claimed' + Due(worker'[v])
    BY <1>2, IdleJob
  <1>4. \A v \in Workers : worker'[v].pc = "claims" => worker'[v].seen = tt'
    BY <1>2, IdleJob
  <1>5. QED
    BY <1>3, <1>4 DEF TokensCover

-----------------------------------------------------------------------------
(* The sum of the claims.                                                  *)

LEMMA AccountsFinite == IsFiniteSet(Accounts)
  <1>1. Accounts = {"consumer"} \cup {"merchant"} \cup {"escrow"} \cup {"release"}
    BY DEF Accounts, Counted
  <1>2. QED
    BY <1>1, FS_Singleton, FS_Union

LEMMA ClaimedTotal ==
    ASSUME fiat \in [Accounts -> Nat]
    PROVE  Claimed = Total(fiat) /\ Claimed \in Nat
  <1>1. [a \in Accounts |-> fiat[a]] = fiat
    OBVIOUS
  <1>2. QED
    BY <1>1, AccountsFinite, TotalType DEF Claimed, Claims
LEMMA ClaimedNow == fiat \in [Accounts -> Nat] => Claimed = Total(fiat) /\ Claimed \in Nat
  BY ClaimedTotal
LEMMA ClaimedNext == fiat' \in [Accounts -> Nat] => Claimed' = Total(fiat') /\ Claimed' \in Nat
  <1>1. (fiat \in [Accounts -> Nat] => Claimed = Total(fiat) /\ Claimed \in Nat)'
    BY ClaimedNow, PTL
  <1>2. QED
    BY <1>1

\* One account changes.
Sets(a, v) == fiat' = [fiat EXCEPT ![a] = v]
LEMMA ClaimedSet ==
    ASSUME fiat \in [Accounts -> Nat], NEW a \in Accounts, NEW v \in Nat, Sets(a, v)
    PROVE  /\ fiat' \in [Accounts -> Nat] /\ Claimed \in Nat /\ Claimed' \in Nat
           /\ Claimed' = Claimed - fiat[a] + v
  <1>1. fiat' = [fiat EXCEPT ![a] = v] /\ fiat' \in [Accounts -> Nat]
    BY DEF Sets
  <1>2. Total(fiat') = Total(fiat) - fiat[a] + v
    <2>1. Total([fiat EXCEPT ![a] = v]) = Total(fiat) - fiat[a] + v
      BY AccountsFinite, TotalExcept
    <2>2. QED
      BY <1>1, <2>1
  <1>3. QED
    BY <1>1, <1>2, ClaimedNow, ClaimedNext

LEMMA ClaimedStill ==
    ASSUME fiat \in [Accounts -> Nat], fiat' = fiat
    PROVE  fiat' \in [Accounts -> Nat] /\ Claimed' = Claimed /\ Claimed \in Nat
  <1>1. fiat' \in [Accounts -> Nat]
    OBVIOUS
  <1>2. QED
    BY <1>1, ClaimedNow, ClaimedNext

\* What a sum counts and what it leaves out is everything.
LEMMA SplitIn ==
    ASSUME NEW S, IsFiniteSet(S), NEW f \in [S -> Nat], NEW A \in SUBSET S
    PROVE  /\ Total([x \in A |-> f[x]]) \in Nat /\ Total([x \in S \ A |-> f[x]]) \in Nat
           /\ Total([x \in S |-> f[x]]) = Total([x \in A |-> f[x]]) + Total([x \in S \ A |-> f[x]])
  <1>1. PICK P \in SUBSET S, Q \in SUBSET S : P = A /\ Q = S \ A
    OBVIOUS
  <1>2. P \cap Q = {} /\ P \cup Q = S
    BY <1>1
  <1>3. Total([x \in P \cup Q |-> f[x]]) = Total([x \in P |-> f[x]]) + Total([x \in Q |-> f[x]])
    BY <1>2, TotalSplit
  <1>4. /\ IsFiniteSet(P) /\ IsFiniteSet(Q)
        /\ [x \in P |-> f[x]] \in [P -> Nat] /\ [x \in Q |-> f[x]] \in [Q -> Nat]
    BY FS_Subset
  <1>5. Total([x \in P |-> f[x]]) \in Nat /\ Total([x \in Q |-> f[x]]) \in Nat
    BY <1>4, TotalType
  <1>6. QED
    BY <1>1, <1>2, <1>3, <1>5

LEMMA ClaimsSplit ==
    ASSUME fiat \in [Accounts -> Nat], NEW read \in SUBSET Counted
    PROVE  /\ Claims(read) \in Nat /\ Claims(Accounts \ read) \in Nat
           /\ Claimed = Claims(read) + Claims(Accounts \ read)
  <1>1. read \in SUBSET Accounts
    BY DEF Accounts
  <1>2. QED
    BY <1>1, AccountsFinite, SplitIn, ZenonT(90) DEF Claimed, Claims

-----------------------------------------------------------------------------
(* Steps that leave the references and the vouchers alone.                 *)

MoneyTypes == fiat \in [Accounts -> Nat] /\ usd \in Nat /\ tt \in Nat /\ usdc \in Nat /\ unread \in Nat
BookTypes ==
    /\ refs \subseteq Refs \cup UsdcRefs \cup Vouchers
    /\ minted \in [Refs \cup UsdcRefs -> Nat] /\ credited \in [Refs -> Nat]
    /\ row \in [Vouchers -> {"none", "pending", "claimed", "expired"}]
    /\ expired \subseteq Vouchers /\ paid \in [Vouchers -> Nat]
    /\ conversions \in 0..MaxConversions

LEMMA TypesNow ==
    ASSUME TypeOK
    PROVE  MoneyTypes /\ BookTypes /\ faults \in 0..MaxFaults /\ MaxFaults \in Nat
  BY BackingAssumption DEF TypeOK, MoneyTypes, BookTypes

LEMMA TypesKept ==
    ASSUME TypeOK, OverlapStep, FaultStep, NEW w \in Workers, NEW j \in {Idle} \cup JobRecord,
           Become(w, j), MoneyTypes', BookTypes'
    PROVE  TypeOK'
  <1>1. worker' \in [Workers -> {Idle} \cup JobRecord]
    BY AfterBecome
  <1>2. overlap' \in BOOLEAN
    BY Overlapping
  <1>3. faults' \in 0..MaxFaults
    BY TypesNow DEF FaultStep
  <1>4. QED
    BY <1>1, <1>2, <1>3 DEF TypeOK, MoneyTypes, BookTypes, JobRecord

LEMMA PlainStep ==
    ASSUME BackInv, OverlapStep, FaultStep, NEW w \in Workers, NEW j \in {Idle} \cup JobRecord,
           Become(w, j), Busy(w) \/ j # Idle, MoneyTypes', conversions' \in 0..MaxConversions,
           UNCHANGED <<refs, minted, credited, row, expired, paid>>,
           j.pc \notin RefPcs, VoucherJob(j),
           faults' = 0 => worker[w].pc # "setClaimed",
           ~overlap /\ faults = 0 /\ Marking(j) => row[j.id] # "claimed",
           ~overlap' => /\ tt' + unread' >= Claimed' /\ tt' + unread' >= Claimed' + Due(j)
                        /\ j.pc = "claims" => j.seen = tt'
    PROVE  BackInv'
  <1>1. TypeOK /\ RefsInv /\ VouchersInv /\ Alone /\ OnceInv /\ BookTypes
    BY TypesNow DEF BackInv
  <1>2. BookTypes'
    BY <1>1 DEF BookTypes
  <1>3. TypeOK'
    BY <1>1, <1>2, TypesKept
  <1>4. RefsInv'
    BY <1>1, RefsKept
  <1>5. VouchersInv'
    <2>1. \A v \in Vouchers : paid[v] <= paid'[v] /\ paid'[v] \in Nat
      BY <1>1 DEF BookTypes
    <2>2. VoucherJob(j)'
      BY DEF VoucherJob
    <2>3. QED
      BY <1>1, <2>1, <2>2, VouchersKept
  <1>6. OnceInv'
    BY <1>1, OnceKept
  <1>7. TokensCover'
    <2>1. fiat' \in [Accounts -> Nat] /\ tt' \in Nat /\ unread' \in Nat
      BY DEF MoneyTypes
    <2>2. tt' + unread' \in Nat
      BY <2>1
    <2>3. Claimed' \in Nat
      BY <2>1, ClaimedNext, Zenon
    <2>4. QED
      BY <1>1, <2>2, <2>3, CoverKept
  <1>8. QED
    BY <1>1, <1>3, <1>4, <1>5, <1>6, <1>7, Overlapping DEF BackInv

\* A step within a job.
LEMMA Continues ==
    ASSUME BackInv, NEW w \in Workers, NEW j \in JobRecord, j.pc \notin RefPcs, j.pc # "setClaimed",
           j.kind = worker[w].kind, j.id = worker[w].id, j.amt = worker[w].amt,
           j.pc \in VoucherPcs \cup SharedPcs /\ j.kind = "voucher" =>
              worker[w].pc \in (VoucherPcs \ {"mintRef"}) \cup SharedPcs,
           j.pc \in VoucherPcs => j.kind = "voucher",
           j.pc \in SharedPcs => j.kind \in {"voucher", "toFiat"}, j.pc # "debitUsd"
    PROVE  /\ VoucherJob(j)
           /\ ~overlap /\ faults = 0 /\ Marking(j) => row[j.id] # "claimed"
  <1>1. VoucherJob(worker[w]) /\ OnceInv
    BY DEF BackInv, VouchersInv
  <1>2. VoucherJob(j)
    BY <1>1 DEF VoucherJob
  <1>3. ~overlap /\ faults = 0 /\ Marking(j) => row[j.id] # "claimed"
    BY <1>1 DEF OnceInv, Marking
  <1>4. QED
    BY <1>2, <1>3

\* Giving up.
LEMMA Stops ==
    /\ VoucherJob(Idle) /\ ~Marking(Idle) /\ Idle.pc \notin RefPcs /\ Due(Idle) = 0
    /\ Idle.pc # "claims"
  BY IdleJob DEF Idle, VoucherJob, Marking, Pcs

\* What is known of a handler that stands at p.
LEMMA JobAt ==
    ASSUME BackInv, NEW w \in Workers, worker[w].pc \in Pcs
    PROVE  /\ worker[w] \in JobRecord /\ Busy(w) /\ VoucherJob(worker[w])
           /\ worker[w].kind \in JobKinds /\ worker[w].id \in JobIds
           /\ worker[w].amt \in Nat /\ worker[w].short \in Nat
           /\ worker[w].need \in Nat /\ worker[w].seen \in Nat
  <1>1. TypeOK /\ VoucherJob(worker[w])
    BY DEF BackInv, VouchersInv
  <1>2. worker[w].pc # "idle"
    BY DEF Pcs
  <1>3. worker[w] \in JobRecord /\ Busy(w)
    BY <1>1, <1>2, JobTypes
  <1>4. QED
    BY <1>1, <1>3, JobFields

LEMMA DueOf ==
    ASSUME NEW j
    PROVE  /\ j.pc \in {"credit", "creditConsumer"} => Due(j) = j.amt
           /\ j.pc = "creditShort" => Due(j) = j.short
           /\ j.pc = "mintShort" => Due(j) = j.short - j.need
           /\ j.pc \notin {"credit", "creditConsumer", "creditShort", "mintShort"} => Due(j) = 0
  BY DEF Due

\* What is covered before a step.
LEMMA CoveredNow ==
    ASSUME BackInv, OverlapStep, NEW w \in Workers
    PROVE  /\ MoneyTypes /\ Claimed \in Nat
           /\ ~overlap' => /\ tt + unread >= Claimed /\ tt + unread >= Claimed + Due(worker[w])
                           /\ worker[w].pc = "claims" => worker[w].seen = tt
  <1>1. TypeOK /\ TokensCover
    BY DEF BackInv
  <1>2. MoneyTypes /\ (~overlap' => ~overlap)
    BY <1>1, TypesNow, Overlapping
  <1>3. Claimed \in Nat
    BY <1>2, ClaimedNow DEF MoneyTypes
  <1>4. QED
    BY <1>1, <1>2, <1>3 DEF TokensCover

\* The handler ends; what it leaves is covered.
LEMMA Ended ==
    ASSUME BackInv, OverlapStep, FaultStep, NEW w \in Workers, Become(w, Idle), Busy(w),
           MoneyTypes', UNCHANGED book, faults' = 0 => worker[w].pc # "setClaimed",
           ~overlap' => tt' + unread' >= Claimed'
    PROVE  BackInv'
  <1>1. UNCHANGED <<refs, minted, credited, row, expired, paid>> /\ conversions' \in 0..MaxConversions
    BY TypesNow DEF book, BackInv, BookTypes
  <1>2. Claimed' \in Nat
    BY ClaimedNext DEF MoneyTypes
  <1>3. Claimed' + Due(Idle) = Claimed'
    BY <1>2, Stops
  <1>4. QED
    BY <1>1, <1>3, PlainStep, Stops

\* The handler goes on.
LEMMA Went ==
    ASSUME BackInv, OverlapStep, FaultStep, NEW w \in Workers, NEW j \in JobRecord, Become(w, j),
           worker[w].pc \in Pcs, worker[w].pc # "setClaimed",
           MoneyTypes', UNCHANGED book, j.pc \notin RefPcs, j.pc # "setClaimed",
           j.kind = worker[w].kind, j.id = worker[w].id, j.amt = worker[w].amt,
           j.pc \in VoucherPcs \cup SharedPcs /\ j.kind = "voucher" =>
              worker[w].pc \in (VoucherPcs \ {"mintRef"}) \cup SharedPcs,
           j.pc \in VoucherPcs => j.kind = "voucher",
           j.pc \in SharedPcs => j.kind \in {"voucher", "toFiat"}, j.pc # "debitUsd",
           ~overlap' => /\ tt' + unread' >= Claimed' /\ tt' + unread' >= Claimed' + Due(j)
                        /\ j.pc = "claims" => j.seen = tt'
    PROVE  BackInv'
  <1>1. UNCHANGED <<refs, minted, credited, row, expired, paid>> /\ conversions' \in 0..MaxConversions
    BY TypesNow DEF book, BackInv, BookTypes
  <1>2. /\ VoucherJob(j)
        /\ ~overlap /\ faults = 0 /\ Marking(j) => row[j.id] # "claimed"
    BY Continues
  <1>3. Busy(w)
    BY JobAt
  <1>4. QED
    BY <1>1, <1>2, <1>3, PlainStep

\* No money moves.
LEMMA MoneyStill ==
    ASSUME BackInv, OverlapStep, UNCHANGED money, UNCHANGED unread
    PROVE  /\ MoneyTypes' /\ Claimed' = Claimed /\ Claimed \in Nat
           /\ tt' = tt /\ unread' = unread
           /\ ~overlap' => tt' + unread' >= Claimed'
  <1>1. MoneyTypes /\ TypeOK
    BY TypesNow DEF BackInv
  <1>2. UNCHANGED <<fiat, usd, tt, usdc, unread>>
    BY DEF money
  <1>3. Claimed' = Claimed /\ Claimed \in Nat
    BY <1>1, <1>2, ClaimedStill DEF MoneyTypes
  <1>4. ~overlap' => tt + unread >= Claimed
    BY <1>1, Overlapping DEF BackInv, TokensCover
  <1>5. QED
    BY <1>1, <1>2, <1>3, <1>4 DEF MoneyTypes

LEMMA GaveUp ==
    ASSUME BackInv, OverlapStep, FaultStep, NEW w \in Workers, Become(w, Idle), Busy(w),
           UNCHANGED money, UNCHANGED unread, UNCHANGED book,
           faults' = 0 => worker[w].pc # "setClaimed"
    PROVE  BackInv'
  BY MoneyStill, Ended

\* The handler's record as it goes on.
LEMMA JobThen ==
    ASSUME NEW w \in Workers, worker[w] \in JobRecord, NEW p \in Pcs, NEW j, j = Then(w, p)
    PROVE  /\ j \in JobRecord /\ j.pc = p /\ j.kind = worker[w].kind
           /\ j.id = worker[w].id /\ j.amt = worker[w].amt /\ j.short = worker[w].short
  BY DEF JobRecord, Then
LEMMA Going ==
    ASSUME NEW w \in Workers, NEW p \in Pcs, Goto(w, p)
    PROVE  Become(w, Then(w, p))
  BY DEF Goto, Become, Then

-----------------------------------------------------------------------------
(* The steps of creditFiatWithTreasuryBacking.                             *)

LEMMA MaxOf ==
    ASSUME NEW a \in Int, NEW b \in Int
    PROVE  Max({a, b}) = IF a >= b THEN a ELSE b
  BY DEF Max

LEMMA FaultIsStep ==
    ASSUME NEW kind, Fault(kind) PROVE FaultStep
  BY DEF Fault, FaultStep
LEMMA FaultCounts ==
    ASSUME TypeOK, NEW kind, Fault(kind) PROVE faults' # 0 /\ FaultStep
  BY TypesNow DEF Fault, FaultStep

\* The records of the handlers of creditFiatWithTreasuryBacking as they go on.
Seen(i, t) == [i EXCEPT !.pc = "claims", !.seen = t]
Needs(i, n, p) == [i EXCEPT !.need = n, !.pc = p]
LEMMA JobSeen ==
    ASSUME NEW i \in JobRecord, NEW t \in Nat, NEW k, k = Seen(i, t)
    PROVE  /\ k \in JobRecord
           /\ k.pc = "claims" /\ k.seen = t /\ k.kind = i.kind /\ k.id = i.id /\ k.amt = i.amt
  BY DEF JobRecord, Pcs, Seen
LEMMA JobNeeds ==
    ASSUME NEW i \in JobRecord, NEW n \in Nat, NEW p \in Pcs, NEW k, k = Needs(i, n, p)
    PROVE  /\ k \in JobRecord /\ k.pc = p /\ k.need = n /\ k.short = i.short
           /\ k.kind = i.kind /\ k.id = i.id /\ k.amt = i.amt
  BY DEF JobRecord, Needs

LEMMA ReadBackingKeeps ==
    ASSUME BackInv, OverlapStep, UNCHANGED unread, NEW w \in Workers, ReadBacking(w)
    PROVE  BackInv'
  <1>1. /\ worker[w].pc = "backing" /\ "backing" \in Pcs
        /\ UNCHANGED money /\ UNCHANGED book /\ FaultStep
    BY DEF ReadBacking, At, FaultStep, Pcs
  <1>2. worker[w] \in JobRecord /\ worker[w].kind \in {"voucher", "toFiat"} /\ tt \in Nat
    BY <1>1, JobAt, CoveredNow DEF VoucherJob, SharedPcs, MoneyTypes
  <1>3. PICK j \in JobRecord :
          /\ j = Seen(worker[w], tt)
          /\ j.pc = "claims" /\ j.seen = tt
          /\ j.kind = worker[w].kind /\ j.id = worker[w].id /\ j.amt = worker[w].amt
    BY <1>2, JobSeen
  <1>4. Become(w, j)
    BY <1>3 DEF ReadBacking, Seen
  <1>5. Due(j) = 0
    BY <1>3, DueOf
  <1>6. /\ j.pc \notin RefPcs /\ j.pc \notin VoucherPcs /\ j.pc \in SharedPcs
        /\ worker[w].pc \in (VoucherPcs \ {"mintRef"}) \cup SharedPcs
    BY <1>1, <1>3 DEF RefPcs, VoucherPcs, SharedPcs
  <1>7. /\ MoneyTypes' /\ Claimed' = Claimed /\ Claimed \in Nat /\ tt' = tt
        /\ ~overlap' => tt' + unread' >= Claimed'
    BY <1>1, MoneyStill
  <1>8. ~overlap' => tt' + unread' >= Claimed' + Due(j)
    BY <1>5, <1>7
  <1>9. QED
    BY <1>1, <1>2, <1>3, <1>4, <1>6, <1>7, <1>8, Went

\* What a sum of the claims that may have missed some leaves free, and what is minted.
LEMMA ReadClaimsKeeps ==
    ASSUME BackInv, OverlapStep, NEW w \in Workers, ReadClaims(w)
    PROVE  BackInv'
  <1>1. /\ worker[w].pc = "claims" /\ "claims" \in Pcs
        /\ UNCHANGED money /\ UNCHANGED book
    BY DEF ReadClaims, At, Pcs
  <1>2. PICK read \in SUBSET Counted :
          /\ IF read = Counted THEN UNCHANGED faults ELSE Fault("skip")
          /\ unread' = Max({unread, Claims(Accounts \ read)})
          /\ LET free == Max({0, worker[w].seen - Claims(read)})
                 need == Max({0, worker[w].short - free}) IN
             Become(w, [worker[w] EXCEPT !.need = need,
                                         !.pc = IF need > 0 THEN "mintShort" ELSE "creditShort"])
    BY DEF ReadClaims
  <1>3. FaultStep
    BY <1>2, FaultIsStep DEF FaultStep
  <1>4. /\ worker[w] \in JobRecord /\ worker[w].kind \in {"voucher", "toFiat"}
        /\ worker[w].short \in Nat /\ worker[w].seen \in Nat
        /\ MoneyTypes /\ Claimed \in Nat
    BY <1>1, JobAt, CoveredNow DEF VoucherJob, SharedPcs
  <1>5. PICK counted \in Nat, rest \in Nat :
          /\ counted = Claims(read) /\ rest = Claims(Accounts \ read)
          /\ Claimed = counted + rest
    BY <1>4, ClaimsSplit DEF MoneyTypes
  <1>6. PICK free \in Nat :
          /\ free = Max({0, worker[w].seen - Claims(read)})
          /\ free = IF 0 >= worker[w].seen - counted THEN 0 ELSE worker[w].seen - counted
    <2>1. PICK gap \in Int : gap = worker[w].seen - Claims(read) /\ gap = worker[w].seen - counted
      BY <1>4, <1>5
    <2>2. Max({0, gap}) = IF 0 >= gap THEN 0 ELSE gap
      BY MaxOf
    <2>3. (IF 0 >= gap THEN 0 ELSE gap) \in Nat
      OBVIOUS
    <2>4. QED
      BY <2>1, <2>2, <2>3
  <1>7. PICK need \in Nat :
          /\ need = Max({0, worker[w].short - free})
          /\ need = IF 0 >= worker[w].short - free THEN 0 ELSE worker[w].short - free
    BY <1>4, MaxOf
  <1>8. PICK p \in {"mintShort", "creditShort"} :
          p = IF need > 0 THEN "mintShort" ELSE "creditShort"
    OBVIOUS
  <1>16. p \in Pcs
    BY DEF Pcs
  <1>9. PICK j \in JobRecord :
          /\ j = Needs(worker[w], need, p)
          /\ j.pc = p /\ j.need = need /\ j.short = worker[w].short
          /\ j.kind = worker[w].kind /\ j.id = worker[w].id /\ j.amt = worker[w].amt
    BY <1>4, <1>16, JobNeeds
  <1>10. Become(w, j)
    BY <1>2, <1>6, <1>7, <1>8, <1>9 DEF Needs
  <1>11. /\ unread \in Nat /\ unread' \in Nat /\ unread' >= unread /\ unread' >= rest
    <2>1. unread \in Nat
      BY <1>4 DEF MoneyTypes
    <2>2. unread' = IF unread >= rest THEN unread ELSE rest
      <3>1. PICK u \in Nat : u = unread
        BY <2>1
      <3>2. unread' = Max({unread, Claims(Accounts \ read)})
        BY <1>2
      <3>3. unread' = Max({u, rest})
        BY <1>5, <3>1, <3>2
      <3>4. Max({u, rest}) = IF u >= rest THEN u ELSE rest
        BY MaxOf
      <3>5. QED
        BY <3>1, <3>3, <3>4
    <2>3. QED
      BY <2>1, <2>2
  <1>12. MoneyTypes' /\ Claimed' = Claimed /\ tt' = tt /\ tt \in Nat
    <2>1. UNCHANGED <<fiat, usd, tt, usdc>>
      BY <1>1 DEF money
    <2>2. QED
      BY <1>4, <1>11, <2>1, ClaimedStill DEF MoneyTypes
  <1>13. ~overlap' => tt' + unread' >= Claimed' /\ tt' + unread' >= Claimed' + Due(j)
    <2>1. Due(j) = IF need > 0 THEN worker[w].short - need ELSE worker[w].short
      BY <1>8, <1>9, DueOf
    <2>2. Due(j) <= free
      BY <1>4, <1>7, <2>1
    <2>3. Due(j) \in Int
      BY <1>4, <2>1
    <2>4. ~overlap' => tt + unread >= Claimed /\ worker[w].seen = tt
      BY <1>1, CoveredNow
    <2>5. QED
      <3>1. PICK d \in Int, c \in Nat : d = Due(j) /\ c = Claimed
        BY <1>4, <2>3
      <3>2. d <= free /\ c = counted + rest
        BY <1>5, <2>2, <3>1
      <3>3. PICK t \in Nat, u \in Nat, v \in Nat : t = tt /\ u = unread /\ v = unread'
        BY <1>11, <1>12
      <3>4. /\ v >= u /\ v >= rest
            /\ ~overlap' => t + u >= c /\ free = IF 0 >= t - counted THEN 0 ELSE t - counted
        BY <1>6, <1>11, <2>4, <3>1, <3>3
      <3>5. ~overlap' => t + v >= c /\ t + v >= c + d
        BY <3>2, <3>4
      <3>6. QED
        BY <1>12, <3>1, <3>3, <3>5
  <1>14. /\ j.pc \notin RefPcs /\ j.pc \notin VoucherPcs /\ j.pc \in SharedPcs /\ j.pc # "claims"
         /\ j.pc # "setClaimed" /\ j.pc # "debitUsd"
         /\ worker[w].pc \in (VoucherPcs \ {"mintRef"}) \cup SharedPcs
    BY <1>1, <1>8, <1>9 DEF RefPcs, VoucherPcs, SharedPcs
  <1>15. QED
    BY <1>1, <1>3, <1>4, <1>9, <1>10, <1>12, <1>13, <1>14, Went

LEMMA MintShortKeeps ==
    ASSUME BackInv, OverlapStep, UNCHANGED unread, NEW w \in Workers, MintShort(w)
    PROVE  BackInv'
  <1>1. /\ worker[w].pc = "mintShort" /\ "mintShort" \in Pcs /\ "creditShort" \in Pcs
        /\ UNCHANGED book /\ UNCHANGED <<fiat, usd, usdc>>
    BY DEF MintShort, At, Pcs
  <1>2. \/ tt' = tt + worker[w].need /\ Become(w, Then(w, "creditShort")) /\ UNCHANGED faults
        \/ tt' = tt + worker[w].need /\ Become(w, Idle) /\ Fault("lost")
        \/ tt' = tt /\ Become(w, Idle) /\ Fault("throw")
    BY DEF MintShort, Chain
  <1>3. /\ worker[w] \in JobRecord /\ Busy(w) /\ worker[w].kind \in {"voucher", "toFiat"}
        /\ worker[w].short \in Nat /\ worker[w].need \in Nat /\ MoneyTypes
        /\ tt \in Nat /\ unread \in Nat
    BY <1>1, JobAt, CoveredNow DEF VoucherJob, SharedPcs, MoneyTypes
  <1>4. PICK c \in Nat : c = Claimed /\ c = Claimed'
    BY <1>1, <1>3, ClaimedStill DEF MoneyTypes
  <1>5. ~overlap' => tt + unread >= c /\ tt + unread >= c + worker[w].short - worker[w].need
    <2>1. ~overlap' => tt + unread >= Claimed /\ tt + unread >= Claimed + Due(worker[w])
      BY CoveredNow
    <2>2. Due(worker[w]) = worker[w].short - worker[w].need
      BY <1>1, DueOf
    <2>3. QED
      BY <1>3, <1>4, <2>1, <2>2
  <1>6. CASE tt' = tt /\ Become(w, Idle) /\ Fault("throw")
    <2>1. UNCHANGED money /\ FaultStep
      BY <1>1, <1>6, FaultIsStep DEF money
    <2>2. QED
      BY <1>1, <1>3, <1>6, <2>1, GaveUp
  <1>7. ASSUME tt' = tt + worker[w].need
        PROVE  /\ MoneyTypes'
               /\ ~overlap' => tt' + unread' >= Claimed' /\ tt' + unread' >= Claimed' + worker[w].short
    <2>1. PICK n \in Nat, s \in Nat, t \in Nat, u \in Nat :
            n = worker[w].need /\ s = worker[w].short /\ t = tt /\ u = unread
      BY <1>3
    <2>2. ~overlap' => t + n + u >= c /\ t + n + u >= c + s
      BY <1>5, <2>1
    <2>3. QED
      BY <1>1, <1>3, <1>4, <1>7, <2>1, <2>2 DEF MoneyTypes
  <1>8. CASE tt' = tt + worker[w].need /\ Become(w, Idle) /\ Fault("lost")
    <2>1. FaultStep
      BY <1>8, FaultIsStep
    <2>2. QED
      BY <1>1, <1>3, <1>7, <1>8, <2>1, Ended
  <1>9. CASE tt' = tt + worker[w].need /\ Become(w, Then(w, "creditShort")) /\ UNCHANGED faults
    <2>1. PICK j \in JobRecord :
            /\ j = Then(w, "creditShort") /\ j.pc = "creditShort" /\ j.kind = worker[w].kind
            /\ j.id = worker[w].id /\ j.amt = worker[w].amt /\ j.short = worker[w].short
      BY <1>1, <1>3, JobThen
    <2>2. Become(w, j) /\ FaultStep /\ Due(j) = worker[w].short
      BY <1>9, <2>1, DueOf DEF FaultStep
    <2>3. /\ j.pc \notin RefPcs /\ j.pc \notin VoucherPcs /\ j.pc \in SharedPcs
          /\ worker[w].pc \in (VoucherPcs \ {"mintRef"}) \cup SharedPcs
      BY <1>1, <2>1 DEF RefPcs, VoucherPcs, SharedPcs
    <2>4. QED
      BY <1>1, <1>3, <1>7, <1>9, <2>1, <2>2, <2>3, Went
  <1>10. QED
    BY <1>2, <1>6, <1>8, <1>9

\* One account is credited or debited, and no tokens move.
LEMMA AccountStep ==
    ASSUME BackInv, OverlapStep, UNCHANGED <<usd, tt, usdc, unread>>,
           NEW a \in Accounts, NEW v \in Nat, Sets(a, v)
    PROVE  /\ MoneyTypes' /\ tt' + unread' \in Nat /\ Claimed' \in Nat /\ fiat[a] \in Nat
           /\ \A d \in Nat : v = fiat[a] + d =>
                 (tt + unread >= Claimed + d => tt' + unread' >= Claimed')
           /\ \A d \in Nat : v + d = fiat[a] =>
                 (tt + unread >= Claimed => /\ tt' + unread' >= Claimed'
                                            /\ tt' + unread' >= Claimed' + d)
  <1>1. MoneyTypes
    BY TypesNow DEF BackInv
  <1>2. PICK c \in Nat, e \in Nat, f \in Nat :
          /\ c = Claimed /\ e = Claimed' /\ f = fiat[a]
          /\ e = c - f + v /\ fiat' \in [Accounts -> Nat]
    <2>1. fiat \in [Accounts -> Nat] /\ fiat[a] \in Nat
      BY <1>1 DEF MoneyTypes
    <2>2. QED
      BY <2>1, ClaimedSet
  <1>3. MoneyTypes'
    BY <1>1, <1>2 DEF MoneyTypes
  <1>4. PICK m \in Nat : m = tt + unread /\ m = tt' + unread'
    BY <1>1 DEF MoneyTypes
  <1>5. /\ \A d \in Nat : v = f + d => (m >= c + d => m >= e)
        /\ \A d \in Nat : v + d = f => (m >= c => m >= e /\ m >= e + d)
    BY <1>2
  <1>6. QED
    BY <1>2, <1>3, <1>4, <1>5

LEMMA CreditShortKeeps ==
    ASSUME BackInv, OverlapStep, UNCHANGED unread, NEW w \in Workers, CreditShort(w)
    PROVE  BackInv'
  <1>1. /\ worker[w].pc = "creditShort" /\ "creditShort" \in Pcs /\ "debitMerchant" \in Pcs
        /\ UNCHANGED book /\ UNCHANGED <<usd, tt, usdc>>
    BY DEF CreditShort, At, Pcs
  <1> DEFINE Handed == fiat' = [fiat EXCEPT ![Target(w)] = @ + worker[w].short]
  <1>2. \/ /\ Handed /\ UNCHANGED faults
           /\ Become(w, IF worker[w].kind = "toFiat" THEN Idle ELSE Then(w, "debitMerchant"))
        \/ Handed /\ Become(w, Idle) /\ Fault("lost")
        \/ fiat' = fiat /\ Become(w, Idle) /\ Fault("throw")
    BY DEF CreditShort, Chain
  <1>3. /\ worker[w] \in JobRecord /\ Busy(w) /\ worker[w].kind \in {"voucher", "toFiat"}
        /\ worker[w].short \in Nat /\ MoneyTypes
    BY <1>1, JobAt, CoveredNow DEF VoucherJob, SharedPcs
  <1>4. CASE fiat' = fiat /\ Become(w, Idle) /\ Fault("throw")
    <2>1. UNCHANGED money /\ FaultStep
      BY <1>1, <1>4, FaultIsStep DEF money
    <2>2. QED
      BY <1>1, <1>3, <1>4, <2>1, GaveUp
  <1>5. ASSUME Handed
        PROVE  /\ MoneyTypes' /\ Claimed' \in Nat
               /\ ~overlap' => tt' + unread' >= Claimed'
    <2>1. PICK a \in Accounts : a = Target(w)
      BY DEF Target, Accounts, Counted
    <2>2. PICK v \in Nat : v = fiat[a] + worker[w].short
      BY <1>3 DEF MoneyTypes
    <2>3. Sets(a, v)
      BY <1>3, <1>5, <2>1, <2>2 DEF Sets, MoneyTypes
    <2>4. ~overlap' => tt + unread >= Claimed + worker[w].short
      BY <1>1, CoveredNow, DueOf
    <2>5. QED
      BY <1>1, <1>3, <2>2, <2>3, <2>4, AccountStep
  <1> HIDE DEF Handed
  <1>6. CASE Handed /\ Become(w, Idle) /\ (UNCHANGED faults \/ Fault("lost"))
    <2>1. FaultStep
      BY <1>6, FaultIsStep DEF FaultStep
    <2>2. QED
      BY <1>1, <1>3, <1>5, <1>6, <2>1, Ended
  <1>7. CASE /\ Handed /\ UNCHANGED faults /\ worker[w].kind = "voucher"
             /\ Become(w, Then(w, "debitMerchant"))
    <2>1. PICK j \in JobRecord :
            /\ j = Then(w, "debitMerchant") /\ j.pc = "debitMerchant" /\ j.kind = worker[w].kind
            /\ j.id = worker[w].id /\ j.amt = worker[w].amt
      BY <1>1, <1>3, JobThen
    <2>2. Become(w, j) /\ FaultStep /\ Due(j) = 0
      BY <1>7, <2>1, DueOf DEF FaultStep
    <2>3. /\ j.pc \notin RefPcs /\ j.pc \notin SharedPcs
          /\ worker[w].pc \in (VoucherPcs \ {"mintRef"}) \cup SharedPcs
      BY <1>1, <2>1 DEF RefPcs, VoucherPcs, SharedPcs
    <2>4. Claimed' + Due(j) = Claimed'
      BY <1>5, <1>7, <2>2
    <2>5. QED
      BY <1>1, <1>3, <1>5, <1>7, <2>1, <2>2, <2>3, <2>4, Went
  <1>8. QED
    BY <1>2, <1>3, <1>4, <1>6, <1>7

-----------------------------------------------------------------------------
(* The steps of vouchers and conversions that mark nothing.                *)

\* A handler starts.
LEMMA Started ==
    ASSUME BackInv, OverlapStep, UNCHANGED unread, UNCHANGED money, UNCHANGED faults,
           NEW w \in Workers, NEW j \in JobRecord, Become(w, j), j # Idle, worker[w] = Idle,
           conversions' \in 0..MaxConversions,
           UNCHANGED <<refs, minted, credited, row, expired, paid>>,
           j.pc \in {"lapse", "float", "reserve", "debitUsd"},
           j.pc \in {"lapse", "float"} =>
              j.kind = "voucher" /\ j.id \in Vouchers /\ j.amt = Amount[j.id] /\ row[j.id] # "claimed",
           j.pc = "debitUsd" => j.kind = "toFiat"
    PROVE  BackInv'
  <1>1. FaultStep /\ worker[w].pc # "setClaimed"
    BY IdleJob DEF FaultStep, Pcs
  <1>2. MoneyTypes' /\ Claimed' \in Nat /\ (~overlap' => tt' + unread' >= Claimed')
    BY MoneyStill
  <1>3. Due(j) = 0
    BY DueOf
  <1>4. Claimed' + Due(j) = Claimed'
    BY <1>2, <1>3
  <1>5. VoucherJob(j) /\ j.pc \notin RefPcs /\ j.pc # "claims"
    BY DEF VoucherJob, VoucherPcs, SharedPcs, RefPcs
  <1>6. Marking(j) => row[j.id] # "claimed"
    BY DEF Marking, VoucherPcs, SharedPcs
  <1>7. QED
    BY <1>1, <1>2, <1>4, <1>5, <1>6, PlainStep

LEMMA JobMade ==
    ASSUME NEW p \in Pcs, NEW i \in JobKinds, NEW x \in JobIds, NEW a \in Nat, NEW k, k = Job(p, i, x, a)
    PROVE  /\ k \in JobRecord /\ k.pc = p /\ k.kind = i /\ k.id = x /\ k.amt = a /\ k # Idle
  <1>1. /\ k \in JobRecord /\ k.pc = p /\ k.kind = i /\ k.id = x /\ k.amt = a
    BY NewJob DEF Job
  <1>2. p # "idle" /\ Idle.pc = "idle"
    BY IdleJob DEF Pcs
  <1>3. QED
    BY <1>1, <1>2

LEMMA AmountType ==
    \A x \in Refs \cup UsdcRefs \cup Vouchers : Amount[x] \in Nat /\ Amount[x] > 0
  BY BackingAssumption

LEMMA RedeemKeeps ==
    ASSUME BackInv, OverlapStep, UNCHANGED unread, NEW w \in Workers, NEW v \in Vouchers, Redeem(w, v)
    PROVE  BackInv'
  <1>1. PICK p \in {"lapse", "float"} : p = IF v \in expired THEN "lapse" ELSE "float"
    OBVIOUS
  <1>2. p \in Pcs /\ "voucher" \in JobKinds /\ v \in JobIds /\ Amount[v] \in Nat
    BY AmountType DEF Pcs, JobKinds, JobIds
  <1>3. PICK j \in JobRecord :
          /\ j = Job(p, "voucher", v, Amount[v]) /\ j # Idle
          /\ j.pc = p /\ j.kind = "voucher" /\ j.id = v /\ j.amt = Amount[v]
    BY <1>2, JobMade
  <1>4. /\ worker[w] = Idle /\ row[v] = "pending" /\ Become(w, j)
        /\ UNCHANGED money /\ UNCHANGED book /\ UNCHANGED faults
    BY <1>1, <1>3 DEF Redeem
  <1>5. conversions' \in 0..MaxConversions /\ UNCHANGED <<refs, minted, credited, row, expired, paid>>
    BY <1>4, TypesNow DEF BackInv, BookTypes, book
  <1>6. QED
    BY <1>3, <1>4, <1>5, Started

LEMMA SendToTagKeeps ==
    ASSUME BackInv, OverlapStep, UNCHANGED unread, NEW w \in Workers, NEW v \in Vouchers, SendToTag(w, v)
    PROVE  BackInv'
  <1>1. "float" \in Pcs /\ "voucher" \in JobKinds /\ v \in JobIds /\ Amount[v] \in Nat
    BY AmountType DEF Pcs, JobKinds, JobIds
  <1>2. PICK j \in JobRecord :
          /\ j = Job("float", "voucher", v, Amount[v]) /\ j # Idle
          /\ j.pc = "float" /\ j.kind = "voucher" /\ j.id = v /\ j.amt = Amount[v]
    BY <1>1, JobMade
  <1>3. /\ worker[w] = Idle /\ row[v] = "none" /\ Become(w, j)
        /\ UNCHANGED money /\ UNCHANGED book /\ UNCHANGED faults
    BY <1>2 DEF SendToTag
  <1>4. conversions' \in 0..MaxConversions /\ UNCHANGED <<refs, minted, credited, row, expired, paid>>
    BY <1>3, TypesNow DEF BackInv, BookTypes, book
  <1>5. QED
    BY <1>2, <1>3, <1>4, Started

LEMMA ConvertFiatToUsdKeeps ==
    ASSUME BackInv, OverlapStep, UNCHANGED unread, NEW w \in Workers, NEW a \in FiatSteps,
           ConvertFiatToUsd(w, a)
    PROVE  BackInv'
  <1>1. "reserve" \in Pcs /\ "toUsd" \in JobKinds /\ "none" \in JobIds /\ a \in Nat
    BY BackingAssumption DEF Pcs, JobKinds, JobIds
  <1>2. PICK j \in JobRecord :
          j = Job("reserve", "toUsd", "none", a) /\ j # Idle /\ j.pc = "reserve"
    BY <1>1, JobMade
  <1>3. /\ worker[w] = Idle /\ Become(w, j) /\ StartConversion
        /\ UNCHANGED money /\ UNCHANGED <<refs, minted, credited, row, expired, paid, faults>>
    BY <1>2 DEF ConvertFiatToUsd
  <1>4. conversions' \in 0..MaxConversions
    BY <1>3, TypesNow, BackingAssumption, SMTT(60) DEF BackInv, BookTypes, StartConversion
  <1>5. QED
    BY <1>2, <1>3, <1>4, Started

\* The record of a conversion to fiat: it knows what it will credit.
ToFiat(u) == [Job("debitUsd", "toFiat", "none", u) EXCEPT !.short = FiatFor(u)]
LEMMA ToFiatJob ==
    ASSUME NEW u \in Nat, FiatFor(u) \in Nat, NEW k, k = ToFiat(u)
    PROVE  k \in JobRecord /\ k # Idle /\ k.pc = "debitUsd" /\ k.kind = "toFiat"
  <1>1. PICK f \in Nat : f = FiatFor(u)
    OBVIOUS
  <1>2. k = [Job("debitUsd", "toFiat", "none", u) EXCEPT !.short = f]
    BY <1>1 DEF ToFiat
  <1>3. k = [pc |-> "debitUsd", kind |-> "toFiat", id |-> "none", amt |-> u,
             short |-> f, need |-> 0, seen |-> 0]
    BY <1>2 DEF Job
  <1>4. "debitUsd" \in Pcs /\ "toFiat" \in JobKinds /\ "none" \in JobIds /\ "debitUsd" # "idle"
    BY DEF Pcs, JobKinds, JobIds
  <1>5. k \in JobRecord /\ k.pc = "debitUsd" /\ k.kind = "toFiat"
    BY <1>3, <1>4, NewJob
  <1>6. QED
    BY <1>4, <1>5, IdleJob

LEMMA ConvertUsdToFiatKeeps ==
    ASSUME BackInv, OverlapStep, UNCHANGED unread, NEW w \in Workers, NEW u \in UsdSteps,
           ConvertUsdToFiat(w, u)
    PROVE  BackInv'
  <1>1. u \in Nat /\ FiatFor(u) \in Nat
    <2>1. u \in Nat /\ FiatPerUsd \in Nat /\ 10000 - SpreadBps \in Nat
      BY BackingAssumption
    <2>2. PICK n \in Nat : n = u * FiatPerUsd * (10000 - SpreadBps)
      BY <2>1
    <2>3. n \div 10000 \in Nat
      OBVIOUS
    <2>4. QED
      BY <2>1, <2>2, <2>3 DEF FiatFor
  <1>2. PICK j \in JobRecord :
          j = ToFiat(u) /\ j # Idle /\ j.pc = "debitUsd" /\ j.kind = "toFiat"
    BY <1>1, ToFiatJob
  <1>3. /\ worker[w] = Idle /\ Become(w, j) /\ StartConversion
        /\ UNCHANGED money /\ UNCHANGED <<refs, minted, credited, row, expired, paid, faults>>
    BY <1>2 DEF ConvertUsdToFiat, ToFiat
  <1>4. conversions' \in 0..MaxConversions
    BY <1>3, TypesNow, BackingAssumption, SMTT(60) DEF BackInv, BookTypes, StartConversion
  <1>5. QED
    BY <1>2, <1>3, <1>4, Started

LEMMA QueryFailsKeeps ==
    ASSUME BackInv, OverlapStep, UNCHANGED unread, NEW w \in Workers, QueryFails(w)
    PROVE  BackInv'
  <1>1. /\ worker[w].pc \in Pcs /\ Become(w, Idle) /\ Fault("throw")
        /\ UNCHANGED money /\ UNCHANGED book
    BY DEF QueryFails, Pcs
  <1>2. faults' # 0 /\ FaultStep
    BY <1>1, FaultCounts DEF BackInv
  <1>3. Busy(w)
    BY <1>1, JobAt
  <1>4. QED
    BY <1>1, <1>2, <1>3, GaveUp

Topping(i, s) == [i EXCEPT !.pc = "backing", !.short = s]
LEMMA JobTops ==
    ASSUME NEW i \in JobRecord, NEW s \in Nat, NEW k, k = Topping(i, s)
    PROVE  /\ k \in JobRecord /\ k.pc = "backing"
           /\ k.kind = i.kind /\ k.id = i.id /\ k.amt = i.amt
  BY DEF JobRecord, Pcs, Topping

\* executeTransfer's read of the merchant's balance.
LEMMA ReadFloatKeeps ==
    ASSUME BackInv, OverlapStep, UNCHANGED unread, NEW w \in Workers, ReadFloat(w)
    PROVE  BackInv'
  <1>1. /\ worker[w].pc = "float" /\ "float" \in Pcs /\ "backing" \in Pcs /\ "debitMerchant" \in Pcs
        /\ UNCHANGED money /\ UNCHANGED book /\ FaultStep
    BY DEF ReadFloat, At, Pcs, FaultStep
  <1>2. /\ worker[w] \in JobRecord /\ worker[w].kind = "voucher" /\ worker[w].amt \in Nat
        /\ MoneyTypes /\ fiat["merchant"] \in Nat
    BY <1>1, JobAt, CoveredNow DEF VoucherJob, VoucherPcs, MoneyTypes, Accounts, Counted
  <1>3. \E j \in JobRecord :
          /\ Become(w, j) /\ j.pc \in {"backing", "debitMerchant"}
          /\ j.kind = worker[w].kind /\ j.id = worker[w].id /\ j.amt = worker[w].amt
    <2>1. CASE fiat["merchant"] < worker[w].amt
      <3>1. PICK s \in Nat : s = worker[w].amt - fiat["merchant"]
        BY <1>2, <2>1
      <3>2. PICK j \in JobRecord :
              /\ j = Topping(worker[w], s) /\ j.pc = "backing"
              /\ j.kind = worker[w].kind /\ j.id = worker[w].id /\ j.amt = worker[w].amt
        <4>1. worker[w] \in JobRecord
          BY <1>2
        <4>2. /\ Topping(worker[w], s) \in JobRecord /\ Topping(worker[w], s).pc = "backing"
              /\ Topping(worker[w], s).kind = worker[w].kind
              /\ Topping(worker[w], s).id = worker[w].id
              /\ Topping(worker[w], s).amt = worker[w].amt
          BY <4>1, JobTops, ZenonT(90)
        <4>3. QED
          BY <4>2, Zenon
      <3>3. Become(w, j)
        BY <2>1, <3>1, <3>2 DEF ReadFloat, Topping
      <3>4. QED
        BY <3>2, <3>3
    <2>2. CASE ~(fiat["merchant"] < worker[w].amt)
      <3>1. Goto(w, "debitMerchant")
        BY <2>2 DEF ReadFloat
      <3>2. PICK j \in JobRecord :
              /\ j = Then(w, "debitMerchant") /\ j.pc = "debitMerchant"
              /\ j.kind = worker[w].kind /\ j.id = worker[w].id /\ j.amt = worker[w].amt
        BY <1>1, <1>2, JobThen
      <3>3. Become(w, j)
        BY <1>1, <3>1, <3>2, Going
      <3>4. QED
        BY <3>2, <3>3
    <2>3. QED
      BY <2>1, <2>2
  <1>4. PICK j \in JobRecord :
          /\ Become(w, j) /\ j.pc \in {"backing", "debitMerchant"}
          /\ j.kind = worker[w].kind /\ j.id = worker[w].id /\ j.amt = worker[w].amt
    BY <1>3
  <1>5. MoneyTypes' /\ Claimed' \in Nat /\ (~overlap' => tt' + unread' >= Claimed')
    BY <1>1, MoneyStill
  <1>6. Due(j) = 0
    <2>1. j.pc \notin {"credit", "creditConsumer", "creditShort", "mintShort"}
      BY <1>4
    <2>2. QED
      BY <2>1, DueOf
  <1>7. Claimed' + Due(j) = Claimed'
    <2>1. PICK c \in Nat : c = Claimed'
      BY <1>5
    <2>2. c + 0 = c
      OBVIOUS
    <2>3. QED
      BY <1>6, <2>1, <2>2
  <1>8. /\ j.pc \notin RefPcs /\ j.pc # "claims" /\ j.pc # "setClaimed" /\ j.pc # "debitUsd"
        /\ worker[w].pc \in (VoucherPcs \ {"mintRef"}) \cup SharedPcs
    BY <1>1, <1>4 DEF RefPcs, VoucherPcs
  <1>9. QED
    BY <1>1, <1>2, <1>4, <1>5, <1>7, <1>8, Went

\* A debit that the handler credits elsewhere.
LEMMA DebitKeeps ==
    ASSUME BackInv, OverlapStep, UNCHANGED <<usd, tt, usdc, unread>>, UNCHANGED book,
           NEW w \in Workers, NEW a \in {"merchant", "consumer"}, NEW p \in Pcs,
           \/ worker[w].pc = "debitMerchant" /\ p = "creditConsumer"
           \/ worker[w].pc = "debitFiat" /\ p = "creditUsd",
           \/ /\ fiat[a] >= worker[w].amt /\ Sets(a, fiat[a] - worker[w].amt)
              /\ Become(w, Then(w, p)) \/ Become(w, Idle)
           \/ fiat' = fiat /\ Become(w, Idle),
           FaultStep
    PROVE  BackInv'
  <1>1. worker[w].pc \in Pcs /\ worker[w].pc # "setClaimed" /\ a \in Accounts
    BY DEF Pcs, Accounts, Counted
  <1>2. /\ worker[w] \in JobRecord /\ Busy(w) /\ worker[w].amt \in Nat /\ MoneyTypes
        /\ worker[w].pc = "debitMerchant" => worker[w].kind = "voucher"
        /\ ~overlap' => tt + unread >= Claimed
    BY <1>1, JobAt, CoveredNow DEF VoucherJob, VoucherPcs
  <1>3. CASE fiat' = fiat /\ Become(w, Idle)
    <2>1. UNCHANGED money
      BY <1>3 DEF money
    <2>2. QED
      BY <1>1, <1>2, <1>3, <2>1, GaveUp
  <1>4. CASE fiat[a] >= worker[w].amt /\ Sets(a, fiat[a] - worker[w].amt)
    <2>1. PICK v \in Nat, d \in Nat : v = fiat[a] - worker[w].amt /\ d = worker[w].amt /\ v + d = fiat[a]
      <3>1. fiat[a] \in Nat
        BY <1>1, <1>2 DEF MoneyTypes
      <3>2. PICK f \in Nat, d \in Nat : f = fiat[a] /\ d = worker[w].amt
        BY <1>2, <3>1
      <3>3. f >= d
        BY <1>4, <3>2
      <3>4. f - d \in Nat /\ f - d + d = f
        BY <3>3
      <3>5. QED
        BY <3>2, <3>4
    <2>2. Sets(a, v)
      BY <1>4, <2>1
    <2>3. /\ MoneyTypes' /\ Claimed' \in Nat
          /\ ~overlap' => tt' + unread' >= Claimed' /\ tt' + unread' >= Claimed' + d
      BY <1>1, <1>2, <2>1, <2>2, AccountStep
    <2>4. CASE Become(w, Idle)
      BY <1>1, <1>2, <2>3, <2>4, Ended
    <2>5. CASE Become(w, Then(w, p))
      <3>1. PICK j \in JobRecord :
              /\ j = Then(w, p) /\ j.pc = p
              /\ j.kind = worker[w].kind /\ j.id = worker[w].id /\ j.amt = worker[w].amt
        BY <1>2, JobThen
      <3>2. Become(w, j)
        BY <2>5, <3>1
      <3>3. Due(j) = d \/ Due(j) = 0
        BY <2>1, <3>1, DueOf
      <3>4. ~overlap' => tt' + unread' >= Claimed' + Due(j)
        <4>1. Claimed' + 0 = Claimed'
          <5>1. PICK c \in Nat : c = Claimed'
            BY <2>3
          <5>2. c + 0 = c
            OBVIOUS
          <5>3. QED
            BY <5>1, <5>2
        <4>2. CASE Due(j) = 0
          BY <2>3, <4>1, <4>2
        <4>3. CASE Due(j) = d
          BY <2>3, <4>3
        <4>4. QED
          BY <3>3, <4>2, <4>3
      <3>5. /\ j.pc \notin RefPcs /\ j.pc # "claims" /\ j.pc # "setClaimed" /\ j.pc # "debitUsd"
            /\ j.pc \notin SharedPcs
            /\ j.pc \in VoucherPcs =>
                 /\ worker[w].pc \in (VoucherPcs \ {"mintRef"}) \cup SharedPcs
                 /\ worker[w].kind = "voucher"
        BY <1>2, <3>1 DEF RefPcs, VoucherPcs, SharedPcs
      <3>6. QED
        BY <1>1, <1>2, <2>3, <3>1, <3>2, <3>4, <3>5, Went
    <2>6. QED
      BY <1>3, <2>4, <2>5
  <1>5. QED
    BY <1>3, <1>4

LEMMA DebitMerchantKeeps ==
    ASSUME BackInv, OverlapStep, UNCHANGED unread, NEW w \in Workers, DebitMerchant(w)
    PROVE  BackInv'
  <1>1. /\ worker[w].pc = "debitMerchant" /\ "creditConsumer" \in Pcs
        /\ UNCHANGED book /\ UNCHANGED <<usd, tt, usdc, unread>>
    BY DEF DebitMerchant, At, Pcs
  <1>2. /\ \/ /\ fiat["merchant"] >= worker[w].amt
              /\ Sets("merchant", fiat["merchant"] - worker[w].amt)
              /\ Become(w, Then(w, "creditConsumer")) \/ Become(w, Idle)
           \/ fiat' = fiat /\ Become(w, Idle)
        /\ FaultStep
    BY FaultIsStep DEF DebitMerchant, Chain, Sets, FaultStep
  <1>3. QED
    BY <1>1, <1>2, DebitKeeps

LEMMA DebitFiatKeeps ==
    ASSUME BackInv, OverlapStep, UNCHANGED unread, NEW w \in Workers, DebitFiat(w)
    PROVE  BackInv'
  <1>1. /\ worker[w].pc = "debitFiat" /\ "creditUsd" \in Pcs
        /\ UNCHANGED book /\ UNCHANGED <<usd, tt, usdc, unread>>
    BY DEF DebitFiat, At, Pcs
  <1>2. /\ \/ /\ fiat["consumer"] >= worker[w].amt
              /\ Sets("consumer", fiat["consumer"] - worker[w].amt)
              /\ Become(w, Then(w, "creditUsd")) \/ Become(w, Idle)
           \/ fiat' = fiat /\ Become(w, Idle)
        /\ FaultStep
    BY FaultIsStep DEF DebitFiat, Chain, Sets, FaultStep
  <1>3. QED
    BY <1>1, <1>2, DebitKeeps

\* A step of a conversion that leaves the fiat claims and the tokens alone.
LEMMA UsdKeeps ==
    ASSUME BackInv, OverlapStep, FaultStep, UNCHANGED <<fiat, tt, usdc, unread>>, usd' \in Nat,
           UNCHANGED book, NEW w \in Workers, NEW p \in Pcs,
           \/ worker[w].pc = "reserve" /\ p = "debitFiat"
           \/ worker[w].pc = "debitUsd" /\ p = "backing"
           \/ worker[w].pc = "creditUsd",
           Become(w, Idle) \/ (worker[w].pc # "creditUsd" /\ Become(w, Then(w, p)))
    PROVE  BackInv'
  <1>1. worker[w].pc \in Pcs /\ worker[w].pc # "setClaimed"
    BY DEF Pcs
  <1>2. /\ worker[w] \in JobRecord /\ Busy(w) /\ MoneyTypes /\ VoucherJob(worker[w])
        /\ ~overlap' => tt + unread >= Claimed
    BY <1>1, JobAt, CoveredNow
  <1>3. Claimed' = Claimed /\ Claimed \in Nat /\ MoneyTypes'
    BY <1>2, ClaimedStill DEF MoneyTypes
  <1>4. ~overlap' => tt' + unread' >= Claimed'
    BY <1>2, <1>3
  <1>5. CASE Become(w, Idle)
    BY <1>1, <1>2, <1>3, <1>4, <1>5, Ended
  <1>6. CASE worker[w].pc # "creditUsd" /\ Become(w, Then(w, p))
    <2>1. PICK j \in JobRecord :
            /\ j = Then(w, p) /\ j.pc = p
            /\ j.kind = worker[w].kind /\ j.id = worker[w].id /\ j.amt = worker[w].amt
      BY <1>2, JobThen
    <2>2. Become(w, j)
      BY <1>6, <2>1
    <2>3. Due(j) = 0
      BY <1>6, <2>1, DueOf
    <2>4. Claimed' + Due(j) = Claimed'
      BY <1>3, <2>3
    <2>5. /\ j.pc \notin RefPcs /\ j.pc # "claims" /\ j.pc # "setClaimed" /\ j.pc # "debitUsd"
          /\ j.pc \notin VoucherPcs
          /\ j.pc \in SharedPcs => j.kind = "toFiat"
      BY <1>2, <1>6, <2>1 DEF RefPcs, VoucherPcs, SharedPcs, VoucherJob
    <2>6. QED
      BY <1>1, <1>2, <1>3, <1>4, <2>1, <2>2, <2>4, <2>5, Went
  <1>7. QED
    BY <1>5, <1>6

LEMMA CheckReserveKeeps ==
    ASSUME BackInv, OverlapStep, UNCHANGED unread, NEW w \in Workers, CheckReserve(w)
    PROVE  BackInv'
  <1>1. /\ worker[w].pc = "reserve" /\ "debitFiat" \in Pcs /\ FaultStep
        /\ UNCHANGED book /\ UNCHANGED <<fiat, usd, tt, usdc, unread>>
        /\ Goto(w, "debitFiat") \/ Become(w, Idle)
    BY DEF CheckReserve, At, Pcs, money, FaultStep
  <1>2. usd' \in Nat
    BY <1>1, TypesNow DEF BackInv, MoneyTypes
  <1>3. Become(w, Then(w, "debitFiat")) \/ Become(w, Idle)
    BY <1>1, Going
  <1>4. QED
    BY <1>1, <1>2, <1>3, UsdKeeps

LEMMA DebitUsdKeeps ==
    ASSUME BackInv, OverlapStep, UNCHANGED unread, NEW w \in Workers, DebitUsd(w)
    PROVE  BackInv'
  <1>1. /\ worker[w].pc = "debitUsd" /\ "backing" \in Pcs /\ worker[w].pc \in Pcs
        /\ UNCHANGED book /\ UNCHANGED <<fiat, tt, usdc, unread>>
    BY DEF DebitUsd, At, Pcs
  <1>2. /\ (usd >= worker[w].amt /\ usd' = usd - worker[w].amt) \/ usd' = usd
        /\ Become(w, Then(w, "backing")) \/ Become(w, Idle)
        /\ FaultStep
    BY FaultIsStep DEF DebitUsd, Chain, FaultStep
  <1>3. usd' \in Nat
    <2>1. usd \in Nat /\ worker[w].amt \in Nat
      BY <1>1, JobAt, TypesNow DEF BackInv, MoneyTypes
    <2>2. QED
      BY <1>2, <2>1
  <1>4. QED
    BY <1>1, <1>2, <1>3, UsdKeeps

LEMMA UsdForType ==
    ASSUME NEW a \in Nat
    PROVE  UsdFor(a) \in Nat
  <1>1. 10000 - SpreadBps \in Nat /\ FiatPerUsd \in Nat /\ FiatPerUsd > 0
    BY BackingAssumption
  <1>2. a * (10000 - SpreadBps) \in Nat /\ FiatPerUsd * 10000 \in Nat /\ FiatPerUsd * 10000 > 0
    BY <1>1
  <1>3. QED
    BY <1>2, Quotient DEF UsdFor

LEMMA CreditUsdKeeps ==
    ASSUME BackInv, OverlapStep, UNCHANGED unread, NEW w \in Workers, CreditUsd(w)
    PROVE  BackInv'
  <1>1. /\ worker[w].pc = "creditUsd" /\ worker[w].pc \in Pcs
        /\ UNCHANGED book /\ UNCHANGED <<fiat, tt, usdc, unread>>
    BY DEF CreditUsd, At, Pcs
  <1>2. /\ usd' = usd + UsdFor(worker[w].amt) \/ usd' = usd
        /\ Become(w, Idle) /\ FaultStep
    BY FaultIsStep DEF CreditUsd, Chain, FaultStep
  <1>3. usd' \in Nat
    <2>1. usd \in Nat /\ worker[w].amt \in Nat
      BY <1>1, JobAt, TypesNow DEF BackInv, MoneyTypes
    <2>2. UsdFor(worker[w].amt) \in Nat
      BY <2>1, UsdForType
    <2>3. QED
      BY <1>2, <2>1, <2>2
  <1>4. QED
    BY <1>1, <1>2, <1>3, UsdKeeps

-----------------------------------------------------------------------------
(* The steps that open, mint or credit a reference.                        *)

LEMMA Assembled ==
    ASSUME BackInv, OverlapStep, FaultStep, NEW w \in Workers, NEW j \in {Idle} \cup JobRecord,
           Become(w, j), Busy(w) \/ j # Idle, MoneyTypes', BookTypes',
           RefsInv', VouchersInv', OnceInv',
           ~overlap' => /\ tt' + unread' >= Claimed' /\ tt' + unread' >= Claimed' + Due(j)
                        /\ j.pc = "claims" => j.seen = tt'
    PROVE  BackInv'
  <1>1. TypeOK /\ Alone
    BY DEF BackInv
  <1>2. TypeOK'
    BY <1>1, TypesKept
  <1>3. TokensCover'
    <2>1. fiat' \in [Accounts -> Nat] /\ tt' \in Nat /\ unread' \in Nat
      BY DEF MoneyTypes
    <2>2. tt' + unread' \in Nat
      <3>1. PICK t \in Nat, u \in Nat : t = tt' /\ u = unread'
        BY <2>1
      <3>2. t + u \in Nat
        OBVIOUS
      <3>3. QED
        BY <3>1, <3>2
    <2>3. Claimed' \in Nat
      BY <2>1, ClaimedNext, Zenon
    <2>4. QED
      BY <1>1, <2>2, <2>3, CoverKept
  <1>4. Alone'
    BY <1>1, Overlapping
  <1>5. QED
    BY <1>2, <1>3, <1>4 DEF BackInv

\* No voucher is touched.
LEMMA RefStep ==
    ASSUME BackInv, OverlapStep, FaultStep, NEW w \in Workers, NEW j \in {Idle} \cup JobRecord,
           Become(w, j), Busy(w) \/ j # Idle, MoneyTypes', BookTypes', RefsInv',
           UNCHANGED <<row, paid>>, worker[w].pc # "setClaimed",
           j.pc \notin VoucherPcs, j.pc \notin SharedPcs, j.pc # "debitUsd",
           ~overlap' => tt' + unread' >= Claimed' /\ tt' + unread' >= Claimed' + Due(j)
    PROVE  BackInv'
  <1>1. TypeOK /\ VouchersInv /\ Alone /\ OnceInv /\ BookTypes
    BY TypesNow DEF BackInv
  <1>2. VouchersInv'
    <2>1. /\ \A v \in Vouchers : paid[v] <= paid'[v] /\ paid'[v] \in Nat
          /\ \A v \in Vouchers : row'[v] = "claimed" => row[v] = "claimed"
      BY <1>1 DEF BookTypes
    <2>2. VoucherJob(j)'
      BY DEF VoucherJob, VoucherPcs
    <2>3. QED
      BY <1>1, <2>1, <2>2, VouchersKept
  <1>3. ~Marking(j) /\ j.pc # "claims"
    BY DEF Marking, SharedPcs
  <1>4. OnceInv'
    BY <1>1, <1>3, OnceKept
  <1>5. QED
    BY <1>2, <1>3, <1>4, Assembled

\* A reference that was not there is opened.
LEMMA OpenKeeps ==
    ASSUME BackInv, OverlapStep, UNCHANGED unread, NEW w \in Workers,
           NEW x \in Refs \cup UsdcRefs, x \notin refs, worker[w] = Idle,
           NEW j \in JobRecord, Become(w, j), j # Idle, j.id = x, j.amt = Amount[x],
           (j.pc = "mint" /\ x \in Refs) \/ j.pc = "mintUsdc",
           refs' = refs \cup {x}, UNCHANGED money,
           UNCHANGED <<minted, credited, row, expired, paid, conversions, faults>>
    PROVE  BackInv'
  <1>1. TypeOK /\ RefsInv /\ BookTypes
    BY TypesNow DEF BackInv
  <1>2. worker'[w] = j /\ \A v \in Workers : v # w => worker'[v] = worker[v]
    BY <1>1, AfterBecome
  <1>3. minted[x] = 0 /\ (x \in Refs => credited[x] = 0)
    <2>1. minted[x] = 0 /\ (x \in Refs => credited[x] <= minted[x] /\ credited[x] \in Nat)
      BY <1>1 DEF RefsInv, BookTypes
    <2>2. QED
      BY <2>1
  <1>4. RefJob(j)'
    BY <1>3 DEF RefJob
  <1>5. ASSUME NEW v \in Workers, v # w, worker'[v].pc \in RefPcs
        PROVE  RefJob(worker[v])' /\ worker'[v].id # x
    <2>1. RefJob(worker[v]) /\ worker'[v] = worker[v]
      BY <1>1, <1>2, <1>5 DEF RefsInv
    <2>2. RefJob(worker[v])' /\ worker[v].id # x
      BY <2>1 DEF RefJob
    <2>3. QED
      BY <2>1, <2>2
  <1>6. RefsInv'
    <2>1. \A y \in Refs \cup UsdcRefs :
             minted'[y] <= Amount[y] /\ (y \notin refs' => minted'[y] = 0)
      BY <1>1 DEF RefsInv
    <2>2. \A y \in Refs : credited'[y] <= minted'[y]
      BY <1>1 DEF RefsInv
    <2>3. \A v \in Workers : worker'[v].pc \in RefPcs => RefJob(worker[v])'
      BY <1>2, <1>4, <1>5
    <2>4. ASSUME NEW u \in Workers, NEW v \in Workers, worker'[u].pc \in RefPcs,
                 worker'[v].pc \in RefPcs, worker'[u].id = worker'[v].id
          PROVE  u = v
      <3>1. CASE u = w \/ v = w
        BY <1>2, <1>5, <2>4, <3>1
      <3>2. CASE u # w /\ v # w
        BY <1>1, <1>2, <2>4, <3>2 DEF RefsInv
      <3>3. QED
        BY <3>1, <3>2
    <2>5. QED
      BY <2>1, <2>2, <2>3, <2>4 DEF RefsInv
  <1>7. BookTypes'
    BY <1>1 DEF BookTypes
  <1>8. MoneyTypes' /\ Claimed' \in Nat /\ (~overlap' => tt' + unread' >= Claimed')
    BY MoneyStill
  <1>9. Due(j) = 0
    BY DueOf
  <1>10. Claimed' + Due(j) = Claimed'
    <2>1. PICK c \in Nat : c = Claimed'
      BY <1>8
    <2>2. c + 0 = c
      OBVIOUS
    <2>3. QED
      BY <1>9, <2>1, <2>2
  <1>11. /\ j.pc \notin VoucherPcs /\ j.pc \notin SharedPcs /\ j.pc # "debitUsd"
         /\ FaultStep /\ worker[w].pc # "setClaimed"
    BY IdleJob DEF VoucherPcs, SharedPcs, FaultStep
  <1>12. QED
    BY <1>6, <1>7, <1>8, <1>10, <1>11, RefStep

LEMMA CashInKeeps ==
    ASSUME BackInv, OverlapStep, UNCHANGED unread, NEW w \in Workers, NEW x \in Refs, CashIn(w, x)
    PROVE  BackInv'
  <1>1. "mint" \in Pcs /\ "deposit" \in JobKinds /\ x \in JobIds /\ Amount[x] \in Nat
    BY AmountType DEF Pcs, JobKinds, JobIds
  <1>2. PICK j \in JobRecord :
          /\ j = Job("mint", "deposit", x, Amount[x]) /\ j # Idle
          /\ j.pc = "mint" /\ j.id = x /\ j.amt = Amount[x]
    BY <1>1, JobMade
  <1>3. /\ worker[w] = Idle /\ x \notin refs /\ refs' = refs \cup {x} /\ Become(w, j)
        /\ UNCHANGED money /\ UNCHANGED <<minted, credited, row, expired, paid, conversions, faults>>
    BY <1>2 DEF CashIn
  <1>4. QED
    BY <1>2, <1>3, OpenKeeps

LEMMA BuyUsdcKeeps ==
    ASSUME BackInv, OverlapStep, UNCHANGED unread, NEW w \in Workers, NEW x \in UsdcRefs, BuyUsdc(w, x)
    PROVE  BackInv'
  <1>1. "mintUsdc" \in Pcs /\ "usdc" \in JobKinds /\ x \in JobIds /\ Amount[x] \in Nat
    BY AmountType DEF Pcs, JobKinds, JobIds
  <1>2. PICK j \in JobRecord :
          /\ j = Job("mintUsdc", "usdc", x, Amount[x]) /\ j # Idle
          /\ j.pc = "mintUsdc" /\ j.id = x /\ j.amt = Amount[x]
    BY <1>1, JobMade
  <1>3. /\ worker[w] = Idle /\ x \notin refs /\ refs' = refs \cup {x} /\ Become(w, j)
        /\ UNCHANGED money /\ UNCHANGED <<minted, credited, row, expired, paid, conversions, faults>>
    BY <1>2 DEF BuyUsdc
  <1>4. QED
    BY <1>2, <1>3, OpenKeeps

\* The handler of a reference mints or credits it; the others have other references.
LEMMA RefsMove ==
    ASSUME TypeOK, RefsInv, NEW w \in Workers, NEW j \in {Idle} \cup JobRecord, Become(w, j),
           worker[w].pc \in RefPcs, NEW x \in Refs \cup UsdcRefs, x = worker[w].id, refs' = refs,
           \A y \in Refs \cup UsdcRefs : y # x => minted'[y] = minted[y],
           \A y \in Refs : y # x => credited'[y] = credited[y],
           minted'[x] <= Amount[x], x \in Refs => credited'[x] <= minted'[x],
           j.pc \in RefPcs => /\ j.pc = "credit" /\ j.id = x /\ j.amt = Amount[x] /\ x \in Refs
                              /\ minted'[x] = Amount[x] /\ credited'[x] = 0
    PROVE  RefsInv'
  <1>1. worker'[w] = j /\ \A v \in Workers : v # w => worker'[v] = worker[v]
    BY AfterBecome
  <1>2. x \in refs /\ x \in Refs \cup UsdcRefs
    BY DEF RefsInv, RefJob
  <1>3. ASSUME NEW v \in Workers, v # w, worker'[v].pc \in RefPcs
        PROVE  RefJob(worker[v])' /\ worker'[v].id # x
    <2>1. RefJob(worker[v]) /\ worker'[v] = worker[v] /\ worker[v].id # x
      BY <1>1, <1>3 DEF RefsInv
    <2>2. RefJob(worker[v])'
      BY <2>1 DEF RefJob
    <2>3. QED
      BY <2>1, <2>2
  <1>4. \A y \in Refs \cup UsdcRefs :
           minted'[y] <= Amount[y] /\ (y \notin refs' => minted'[y] = 0)
    BY <1>2 DEF RefsInv
  <1>5. \A y \in Refs : credited'[y] <= minted'[y]
    <2>1. \A y \in Refs : y # x => credited'[y] = credited[y] /\ minted'[y] = minted[y] /\ credited[y] <= minted[y]
      BY DEF RefsInv
    <2>2. QED
      BY <2>1
  <1>6. \A v \in Workers : worker'[v].pc \in RefPcs => RefJob(worker[v])'
    <2>1. j.pc \in RefPcs => RefJob(j)'
      BY <1>2 DEF RefJob
    <2>2. QED
      BY <1>1, <1>3, <2>1
  <1>7. ASSUME NEW u \in Workers, NEW v \in Workers, worker'[u].pc \in RefPcs,
               worker'[v].pc \in RefPcs, worker'[u].id = worker'[v].id
        PROVE  u = v
    <2>1. CASE u = w \/ v = w
      BY <1>1, <1>3, <1>7, <2>1
    <2>2. CASE u # w /\ v # w
      BY <1>1, <1>7, <2>2 DEF RefsInv
    <2>3. QED
      BY <2>1, <2>2
  <1>8. QED
    BY <1>4, <1>5, <1>6, <1>7 DEF RefsInv

LEMMA NoDue ==
    ASSUME Claimed' \in Nat, NEW j, Due(j) = 0
    PROVE  Claimed' + Due(j) = Claimed'
  <1>1. PICK c \in Nat : c = Claimed'
    OBVIOUS
  <1>2. c + 0 = c
    OBVIOUS
  <1>3. QED
    BY <1>1, <1>2

\* The handler of a reference, and what it has done so far.
LEMMA RefAt ==
    ASSUME BackInv, NEW w \in Workers, worker[w].pc \in RefPcs
    PROVE  /\ worker[w] \in JobRecord /\ Busy(w) /\ worker[w].amt \in Nat
           /\ worker[w].pc # "setClaimed" /\ RefJob(worker[w])
           /\ worker[w].id \in Refs \cup UsdcRefs /\ worker[w].amt = Amount[worker[w].id]
           /\ minted \in [Refs \cup UsdcRefs -> Nat] /\ credited \in [Refs -> Nat]
           /\ TypeOK /\ RefsInv /\ BookTypes /\ MoneyTypes
  <1>1. TypeOK /\ RefsInv /\ BookTypes /\ MoneyTypes
    BY TypesNow DEF BackInv
  <1>2. worker[w].pc \in Pcs /\ worker[w].pc # "setClaimed" /\ RefJob(worker[w])
    BY <1>1 DEF RefPcs, Pcs, RefsInv
  <1>3. worker[w] \in JobRecord /\ Busy(w) /\ worker[w].amt \in Nat
    BY <1>2, JobAt
  <1>4. QED
    BY <1>1, <1>2, <1>3 DEF RefJob, BookTypes

Mints(w) == minted' = [minted EXCEPT ![worker[w].id] = @ + worker[w].amt]
\* A mint raises what its reference has minted.
LEMMA MintCounts ==
    ASSUME BackInv, NEW w \in Workers, worker[w].pc \in {"mint", "mintUsdc"},
           NEW j \in {Idle} \cup JobRecord, Become(w, j),
           j.pc \in RefPcs =>
              /\ j.pc = "credit" /\ worker[w].pc = "mint"
              /\ j.id = worker[w].id /\ j.amt = worker[w].amt,
           UNCHANGED <<refs, credited>>,
           Mints(w)
    PROVE  RefsInv' /\ minted' \in [Refs \cup UsdcRefs -> Nat]
  <1>1. worker[w].pc \in RefPcs
    BY DEF RefPcs
  <1>2. PICK x \in Refs \cup UsdcRefs, a \in Nat :
          /\ x = worker[w].id /\ a = Amount[x] /\ a = worker[w].amt /\ x \in refs
          /\ minted[x] = 0 /\ (x \in Refs => credited[x] = 0)
          /\ worker[w].pc = "mint" => x \in Refs
    BY <1>1, RefAt DEF RefJob
  <1>3. TypeOK /\ RefsInv /\ minted \in [Refs \cup UsdcRefs -> Nat]
    BY <1>1, RefAt
  <1>4. minted' = [minted EXCEPT ![x] = a]
    <2>1. minted[x] + worker[w].amt = a
      BY <1>2
    <2>2. QED
      BY <1>2, <2>1 DEF Mints
  <1>5. /\ minted' \in [Refs \cup UsdcRefs -> Nat] /\ minted'[x] = a
        /\ \A y \in Refs \cup UsdcRefs : y # x => minted'[y] = minted[y]
    BY <1>3, <1>4
  <1>6. j.pc \in RefPcs => /\ j.pc = "credit" /\ j.id = x /\ j.amt = Amount[x] /\ x \in Refs
                           /\ minted'[x] = Amount[x] /\ credited'[x] = 0
    BY <1>2, <1>5
  <1>7. RefsInv'
    <2>1. /\ minted'[x] <= Amount[x] /\ (x \in Refs => credited'[x] <= minted'[x])
          /\ \A y \in Refs : y # x => credited'[y] = credited[y]
          /\ refs' = refs
      BY <1>2, <1>5
    <2>2. x = worker[w].id /\ \A y \in Refs \cup UsdcRefs : y # x => minted'[y] = minted[y]
      BY <1>2, <1>5
    <2>3. QED
      BY <1>1, <1>3, <1>6, <2>1, <2>2, RefsMove
  <1>8. QED
    BY <1>5, <1>7

LEMMA MintDepositKeeps ==
    ASSUME BackInv, OverlapStep, UNCHANGED unread, NEW w \in Workers, MintDeposit(w)
    PROVE  BackInv'
  <1>1. /\ worker[w].pc = "mint" /\ worker[w].pc \in RefPcs /\ "credit" \in Pcs
        /\ UNCHANGED <<fiat, usd, usdc, refs, credited, row, expired, paid, conversions>>
    BY DEF MintDeposit, At, RefPcs, Pcs
  <1> DEFINE Minted == /\ tt' = tt + worker[w].amt
                       /\ minted' = [minted EXCEPT ![worker[w].id] = @ + worker[w].amt]
  <1>2. /\ \/ Minted /\ (Become(w, Then(w, "credit")) \/ Become(w, Idle))
           \/ UNCHANGED <<tt, minted>> /\ Become(w, Idle)
        /\ FaultStep
    BY FaultIsStep DEF MintDeposit, Chain, FaultStep
  <1>3. /\ worker[w] \in JobRecord /\ Busy(w) /\ worker[w].amt \in Nat
        /\ worker[w].pc # "setClaimed" /\ BookTypes /\ MoneyTypes
    BY <1>1, RefAt
  <1>4. CASE UNCHANGED <<tt, minted>> /\ Become(w, Idle)
    <2>1. UNCHANGED money /\ UNCHANGED book
      BY <1>1, <1>4 DEF money, book
    <2>2. QED
      BY <1>2, <1>3, <1>4, <2>1, GaveUp
  <1>5. CASE Minted /\ (Become(w, Then(w, "credit")) \/ Become(w, Idle))
    <2>1. PICK j \in {Idle} \cup JobRecord :
            /\ Become(w, j)
            /\ \/ j.pc = "idle" /\ Due(j) = 0
               \/ j.pc = "credit" /\ j.id = worker[w].id /\ j.amt = worker[w].amt /\ Due(j) = worker[w].amt
      <3>1. CASE Become(w, Idle)
        BY <3>1, IdleJob
      <3>2. CASE Become(w, Then(w, "credit"))
        <4>1. PICK j \in JobRecord :
                /\ j = Then(w, "credit") /\ j.pc = "credit"
                /\ j.id = worker[w].id /\ j.amt = worker[w].amt
          BY <1>1, <1>3, JobThen
        <4>2. Due(j) = worker[w].amt
          BY <4>1, DueOf
        <4>3. QED
          BY <3>2, <4>1, <4>2
      <3>3. QED
        BY <1>5, <3>1, <3>2
    <2>2. RefsInv' /\ minted' \in [Refs \cup UsdcRefs -> Nat]
      <3>1. /\ j.pc \in RefPcs => j.pc = "credit" /\ j.id = worker[w].id /\ j.amt = worker[w].amt
            /\ worker[w].pc \in {"mint", "mintUsdc"}
            /\ Mints(w)
        BY <1>1, <1>5, <2>1 DEF RefPcs, Mints
      <3>2. QED
        BY <1>1, <2>1, <3>1, MintCounts
    <2>3. BookTypes'
      BY <1>1, <1>3, <2>2 DEF BookTypes
    <2>4. PICK c \in Nat, a \in Nat, t \in Nat, u \in Nat :
            /\ c = Claimed /\ c = Claimed' /\ a = worker[w].amt /\ t = tt /\ u = unread
      <3>1. Claimed' = Claimed /\ Claimed \in Nat
        BY <1>1, <1>3, ClaimedStill DEF MoneyTypes
      <3>2. tt \in Nat /\ unread \in Nat
        BY <1>3 DEF MoneyTypes
      <3>3. QED
        BY <1>3, <3>1, <3>2, Zenon
    <2>5. tt' = t + a /\ unread' = u /\ MoneyTypes'
      BY <1>1, <1>3, <1>5, <2>4 DEF MoneyTypes
    <2>6. ~overlap' => t + u >= c
      BY <2>4, CoveredNow
    <2>7. ~overlap' => t + a + u >= c /\ t + a + u >= c + a /\ t + a + u >= c + 0
      BY <2>6
    <2>8. ~overlap' => tt' + unread' >= Claimed' /\ tt' + unread' >= Claimed' + Due(j)
      BY <2>1, <2>4, <2>5, <2>7
    <2>9. j.pc \notin VoucherPcs /\ j.pc \notin SharedPcs /\ j.pc # "debitUsd"
      BY <2>1 DEF VoucherPcs, SharedPcs
    <2>10. QED
      BY <1>1, <1>2, <1>3, <2>1, <2>2, <2>3, <2>5, <2>8, <2>9, RefStep
  <1>6. QED
    BY <1>2, <1>4, <1>5

LEMMA MintUsdcKeeps ==
    ASSUME BackInv, OverlapStep, UNCHANGED unread, NEW w \in Workers, MintUsdc(w)
    PROVE  BackInv'
  <1>1. /\ worker[w].pc = "mintUsdc" /\ worker[w].pc \in RefPcs
        /\ UNCHANGED <<fiat, usd, tt, refs, credited, row, expired, paid, conversions>>
    BY DEF MintUsdc, At, RefPcs
  <1>2. /\ Become(w, Idle) /\ FaultStep
        /\ \/ /\ usdc' = usdc + worker[w].amt
              /\ minted' = [minted EXCEPT ![worker[w].id] = @ + worker[w].amt]
           \/ UNCHANGED <<usdc, minted>>
    BY FaultIsStep DEF MintUsdc, Chain, FaultStep
  <1>3. /\ worker[w] \in JobRecord /\ Busy(w) /\ worker[w].amt \in Nat
        /\ worker[w].pc # "setClaimed" /\ BookTypes /\ MoneyTypes
    BY <1>1, RefAt
  <1>4. CASE UNCHANGED <<usdc, minted>>
    <2>1. UNCHANGED money /\ UNCHANGED book
      BY <1>1, <1>4 DEF money, book
    <2>2. QED
      BY <1>2, <1>3, <2>1, GaveUp
  <1>5. CASE /\ usdc' = usdc + worker[w].amt
             /\ minted' = [minted EXCEPT ![worker[w].id] = @ + worker[w].amt]
    <2>1. RefsInv' /\ minted' \in [Refs \cup UsdcRefs -> Nat]
      <3>1. Idle.pc \notin RefPcs /\ worker[w].pc \in {"mint", "mintUsdc"} /\ Mints(w)
        BY <1>1, <1>5, IdleJob DEF Mints
      <3>2. QED
        BY <1>1, <1>2, <1>5, <3>1, MintCounts
    <2>2. BookTypes' /\ MoneyTypes'
      BY <1>1, <1>3, <1>5, <2>1 DEF BookTypes, MoneyTypes
    <2>3. Claimed' = Claimed /\ Claimed \in Nat
      BY <1>1, <1>3, ClaimedStill DEF MoneyTypes
    <2>4. ~overlap' => tt' + unread' >= Claimed'
      BY <1>1, <2>3, CoveredNow
    <2>5. Claimed' + Due(Idle) = Claimed'
      BY <2>3, NoDue, IdleJob
    <2>6. Idle.pc \notin VoucherPcs /\ Idle.pc \notin SharedPcs /\ Idle.pc # "debitUsd"
      BY IdleJob
    <2>7. QED
      BY <1>1, <1>2, <1>3, <2>1, <2>2, <2>4, <2>5, <2>6, RefStep
  <1>6. QED
    BY <1>2, <1>4, <1>5

LEMMA CreditDepositKeeps ==
    ASSUME BackInv, OverlapStep, UNCHANGED unread, NEW w \in Workers, CreditDeposit(w)
    PROVE  BackInv'
  <1>1. /\ worker[w].pc = "credit" /\ worker[w].pc \in RefPcs
        /\ UNCHANGED <<usd, tt, usdc, refs, minted, row, expired, paid, conversions>>
    BY DEF CreditDeposit, At, RefPcs
  <1>2. /\ Become(w, Idle) /\ FaultStep
        /\ \/ /\ fiat' = [fiat EXCEPT !["consumer"] = @ + worker[w].amt]
              /\ credited' = [credited EXCEPT ![worker[w].id] = @ + worker[w].amt]
           \/ UNCHANGED <<fiat, credited>>
    BY FaultIsStep DEF CreditDeposit, Chain, FaultStep
  <1>3. /\ worker[w] \in JobRecord /\ Busy(w) /\ worker[w].amt \in Nat
        /\ worker[w].pc # "setClaimed" /\ TypeOK /\ RefsInv /\ BookTypes /\ MoneyTypes
    BY <1>1, RefAt
  <1>4. CASE UNCHANGED <<fiat, credited>>
    <2>1. UNCHANGED money /\ UNCHANGED book
      BY <1>1, <1>4 DEF money, book
    <2>2. QED
      BY <1>2, <1>3, <2>1, GaveUp
  <1>5. CASE /\ fiat' = [fiat EXCEPT !["consumer"] = @ + worker[w].amt]
             /\ credited' = [credited EXCEPT ![worker[w].id] = @ + worker[w].amt]
    <2>1. PICK x \in Refs, a \in Nat :
            /\ x = worker[w].id /\ a = Amount[x] /\ a = worker[w].amt
            /\ minted[x] = a /\ credited[x] = 0
      BY <1>1, RefAt DEF RefJob
    <2>2. /\ credited' \in [Refs -> Nat] /\ credited'[x] = a
          /\ \A y \in Refs : y # x => credited'[y] = credited[y]
      <3>1. credited[x] + worker[w].amt = a
        BY <2>1
      <3>2. credited' = [credited EXCEPT ![x] = a]
        BY <1>5, <2>1, <3>1
      <3>3. credited \in [Refs -> Nat]
        BY <1>3 DEF BookTypes
      <3>4. QED
        BY <3>2, <3>3
    <2>3. RefsInv'
      <3>1. /\ minted'[x] <= Amount[x] /\ credited'[x] <= minted'[x]
            /\ \A y \in Refs \cup UsdcRefs : y # x => minted'[y] = minted[y]
        BY <1>1, <2>1, <2>2
      <3>2. Idle.pc \notin RefPcs
        BY IdleJob
      <3>3. QED
        BY <1>1, <1>2, <1>3, <2>1, <2>2, <3>1, <3>2, RefsMove, ZenonT(90)
    <2>4. BookTypes'
      BY <1>1, <1>3, <2>2 DEF BookTypes
    <2>5. PICK v \in Nat : v = fiat["consumer"] + a
      BY <1>3 DEF MoneyTypes, Accounts, Counted
    <2>6. Sets("consumer", v) /\ "consumer" \in Accounts
      BY <1>3, <1>5, <2>1, <2>5 DEF Sets, MoneyTypes, Accounts, Counted
    <2>7. ~overlap' => tt + unread >= Claimed + a
      BY <1>1, <2>1, CoveredNow, DueOf
    <2>8. MoneyTypes' /\ Claimed' \in Nat /\ (~overlap' => tt' + unread' >= Claimed')
      BY <1>1, <2>5, <2>6, <2>7, AccountStep
    <2>9. Claimed' + Due(Idle) = Claimed'
      BY <2>8, NoDue, IdleJob
    <2>10. Idle.pc \notin VoucherPcs /\ Idle.pc \notin SharedPcs /\ Idle.pc # "debitUsd"
      BY IdleJob
    <2>11. QED
      BY <1>1, <1>2, <1>3, <2>3, <2>4, <2>8, <2>9, <2>10, RefStep
  <1>6. QED
    BY <1>2, <1>4, <1>5

-----------------------------------------------------------------------------
(* The steps that pay and mark a voucher.                                  *)

\* Undisturbed, only this handler can be between paying a voucher and marking it.
LEMMA OnceAt ==
    ASSUME BackInv, ~overlap, faults = 0, NEW w \in Workers,
           \A v \in Workers : v # w => worker[v] = Idle
    PROVE  /\ \A v \in Vouchers : paid[v] <= Amount[v]
           /\ \A v \in Vouchers : row[v] # "claimed" =>
                 paid[v] = 0 \/ (worker[w].pc = "setClaimed" /\ worker[w].id = v)
           /\ Marking(worker[w]) => row[worker[w].id] # "claimed"
  <1>1. OnceInv
    BY DEF BackInv
  <1>2. \A v \in Vouchers : Settling(v) => worker[w].pc = "setClaimed" /\ worker[w].id = v
    BY IdleJob DEF Settling, Pcs
  <1>3. QED
    BY <1>1, <1>2 DEF OnceInv, Marking

LEMMA VoucherStep ==
    ASSUME BackInv, OverlapStep, FaultStep, NEW w \in Workers, NEW j \in {Idle} \cup JobRecord,
           Become(w, j), Busy(w), MoneyTypes', BookTypes', j.pc \notin RefPcs,
           UNCHANGED <<minted, credited>>, refs \subseteq refs',
           \A v \in Vouchers : paid[v] <= paid'[v],
           \A v \in Vouchers : row'[v] = "claimed" => row[v] = "claimed" \/ paid'[v] >= Amount[v],
           j.pc \in VoucherPcs => j.kind = "voucher" /\ j.id \in Vouchers /\ j.amt = Amount[j.id],
           j.pc \notin SharedPcs, j.pc # "debitUsd",
           j.pc = "setClaimed" => paid'[j.id] >= Amount[j.id],
           ~overlap /\ faults = 0 /\ faults' = 0 /\ (\A v \in Workers : v # w => worker[v] = Idle) =>
              /\ \A v \in Vouchers : paid'[v] <= Amount[v]
              /\ \A v \in Vouchers : row'[v] # "claimed" =>
                    paid'[v] = 0 \/ (j.pc = "setClaimed" /\ j.id = v)
              /\ Marking(j) => row'[j.id] # "claimed",
           ~overlap' => tt' + unread' >= Claimed' /\ tt' + unread' >= Claimed' + Due(j)
    PROVE  BackInv'
  <1>1. TypeOK /\ RefsInv /\ VouchersInv /\ Alone /\ BookTypes
    BY TypesNow DEF BackInv
  <1>2. RefsInv'
    BY <1>1, RefsKept
  <1>3. VouchersInv'
    <2>1. \A v \in Vouchers : paid[v] <= paid'[v] /\ paid'[v] \in Nat
      BY DEF BookTypes
    <2>2. VoucherJob(j)'
      BY DEF VoucherJob
    <2>3. QED
      BY <1>1, <2>1, <2>2, VouchersKept
  <1>4. OnceInv'
    <2> SUFFICES ASSUME ~overlap', faults' = 0
                 PROVE  OnceInv'
      BY DEF OnceInv
    <2>1. worker'[w] = j /\ \A v \in Workers : v # w => worker[v] = Idle /\ worker'[v] = Idle
      BY <1>1, AfterBecome, OthersIdle
    <2>2. ~overlap /\ faults = 0
      <3>1. ~overlap /\ faults \in Nat
        BY <1>1, Overlapping, FaultCount
      <3>2. QED
        BY <3>1 DEF FaultStep
    <2>3. /\ \A v \in Vouchers : paid'[v] <= Amount[v]
          /\ \A v \in Vouchers : row'[v] # "claimed" =>
                paid'[v] = 0 \/ (j.pc = "setClaimed" /\ j.id = v)
          /\ Marking(j) => row'[j.id] # "claimed"
      BY <2>1, <2>2
    <2>4. \A v \in Vouchers : row'[v] # "claimed" => paid'[v] = 0 \/ Settling(v)'
      BY <2>1, <2>3 DEF Settling
    <2>5. \A v \in Workers : Marking(worker'[v]) => v = w
      BY <2>1, IdleJob DEF Marking
    <2>6. \A v \in Workers : Marking(worker'[v]) => row'[worker'[v].id] # "claimed"
      BY <2>1, <2>3, <2>5
    <2>7. QED
      BY <2>3, <2>4, <2>6 DEF OnceInv, Marking
  <1>5. j.pc # "claims"
    BY DEF SharedPcs
  <1>6. QED
    BY <1>2, <1>3, <1>4, <1>5, Assembled

\* A handler of a voucher.
LEMMA VoucherAt ==
    ASSUME BackInv, NEW w \in Workers, worker[w].pc \in VoucherPcs
    PROVE  /\ worker[w] \in JobRecord /\ Busy(w) /\ worker[w].kind = "voucher"
           /\ worker[w].id \in Vouchers /\ worker[w].amt = Amount[worker[w].id]
           /\ worker[w].amt \in Nat /\ worker[w].need \in Nat
           /\ worker[w].pc = "setClaimed" => paid[worker[w].id] >= Amount[worker[w].id]
           /\ worker[w].pc # "mintRef" => Marking(worker[w])
           /\ TypeOK /\ BookTypes /\ MoneyTypes
           /\ paid \in [Vouchers -> Nat]
           /\ row \in [Vouchers -> {"none", "pending", "claimed", "expired"}]
  <1>1. worker[w].pc \in Pcs
    BY DEF VoucherPcs, Pcs
  <1>2. /\ worker[w] \in JobRecord /\ Busy(w) /\ VoucherJob(worker[w])
        /\ worker[w].amt \in Nat /\ worker[w].need \in Nat
    BY <1>1, JobAt
  <1>3. TypeOK /\ BookTypes /\ MoneyTypes
    BY TypesNow DEF BackInv
  <1>4. QED
    BY <1>2, <1>3 DEF VoucherJob, Marking, BookTypes

LEMMA SetExpiredKeeps ==
    ASSUME BackInv, OverlapStep, UNCHANGED unread, NEW w \in Workers, SetExpired(w)
    PROVE  BackInv'
  <1>1. /\ worker[w].pc = "lapse" /\ worker[w].pc \in VoucherPcs /\ Become(w, Idle) /\ FaultStep
        /\ UNCHANGED money
        /\ UNCHANGED <<refs, minted, credited, expired, paid, conversions, faults>>
    BY DEF SetExpired, At, VoucherPcs, FaultStep
  <1>2. PICK x \in Vouchers : x = worker[w].id
    BY <1>1, VoucherAt
  <1>3. /\ Busy(w) /\ BookTypes /\ Marking(worker[w])
        /\ row \in [Vouchers -> {"none", "pending", "claimed", "expired"}]
        /\ paid \in [Vouchers -> Nat]
    BY <1>1, VoucherAt
  <1>4. row' = [row EXCEPT ![x] = "expired"]
    BY <1>2 DEF SetExpired
  <1>5. /\ row' \in [Vouchers -> {"none", "pending", "claimed", "expired"}]
        /\ row'[x] = "expired" /\ \A v \in Vouchers : v # x => row'[v] = row[v]
    BY <1>3, <1>4
  <1>6. BookTypes' /\ refs \subseteq refs'
    BY <1>1, <1>3, <1>5 DEF BookTypes
  <1>7. MoneyTypes' /\ Claimed' \in Nat /\ (~overlap' => tt' + unread' >= Claimed')
    BY <1>1, MoneyStill
  <1>8. Claimed' + Due(Idle) = Claimed'
    BY <1>7, NoDue, IdleJob
  <1>9. /\ \A v \in Vouchers : paid[v] <= paid'[v]
        /\ \A v \in Vouchers : row'[v] = "claimed" => row[v] = "claimed" \/ paid'[v] >= Amount[v]
    BY <1>1, <1>3, <1>5
  <1>10. ASSUME ~overlap, faults = 0, \A v \in Workers : v # w => worker[v] = Idle
         PROVE  /\ \A v \in Vouchers : paid'[v] <= Amount[v]
                /\ \A v \in Vouchers : row'[v] # "claimed" => paid'[v] = 0
    BY <1>1, <1>2, <1>3, <1>5, <1>10, OnceAt
  <1>11. /\ Idle.pc \notin RefPcs /\ Idle.pc \notin VoucherPcs /\ Idle.pc \notin SharedPcs
         /\ Idle.pc # "debitUsd" /\ Idle.pc # "setClaimed" /\ ~Marking(Idle)
    BY IdleJob, Stops
  <1>12. QED
    BY <1>1, <1>3, <1>6, <1>7, <1>8, <1>9, <1>10, <1>11, VoucherStep

LEMMA CreditConsumerKeeps ==
    ASSUME BackInv, OverlapStep, UNCHANGED unread, NEW w \in Workers, CreditConsumer(w)
    PROVE  BackInv'
  <1>1. /\ worker[w].pc = "creditConsumer" /\ worker[w].pc \in VoucherPcs /\ "setClaimed" \in Pcs
        /\ UNCHANGED <<usd, tt, usdc, refs, minted, credited, row, expired, conversions>>
    BY DEF CreditConsumer, At, VoucherPcs, Pcs
  <1> DEFINE PaidNow == /\ fiat' = [fiat EXCEPT !["consumer"] = @ + worker[w].amt]
                        /\ paid' = [paid EXCEPT ![worker[w].id] = @ + worker[w].amt]
  <1>2. /\ \/ PaidNow /\ Become(w, Then(w, "setClaimed")) /\ UNCHANGED faults
           \/ PaidNow /\ Become(w, Idle) /\ Fault("lost")
           \/ UNCHANGED <<fiat, paid>> /\ Become(w, Idle)
        /\ FaultStep
    BY FaultIsStep DEF CreditConsumer, Chain, FaultStep
  <1>3. PICK x \in Vouchers, a \in Nat :
          /\ x = worker[w].id /\ a = Amount[x] /\ a = worker[w].amt /\ worker[w].kind = "voucher"
    BY <1>1, VoucherAt
  <1>4. /\ worker[w] \in JobRecord /\ Busy(w) /\ TypeOK /\ BookTypes /\ MoneyTypes
        /\ Marking(worker[w]) /\ paid \in [Vouchers -> Nat]
    BY <1>1, VoucherAt
  <1>5. CASE UNCHANGED <<fiat, paid>> /\ Become(w, Idle)
    <2>1. UNCHANGED money /\ UNCHANGED book
      BY <1>1, <1>5 DEF money, book
    <2>2. QED
      BY <1>1, <1>2, <1>4, <1>5, <2>1, GaveUp
  <1>6. CASE PaidNow /\ \/ Become(w, Then(w, "setClaimed")) /\ UNCHANGED faults
                        \/ Become(w, Idle) /\ Fault("lost")
    <2>1. PICK j \in {Idle} \cup JobRecord :
            /\ Become(w, j) /\ Due(j) = 0
            /\ \/ j.pc = "idle" /\ faults' # 0
               \/ j.pc = "setClaimed" /\ j.id = x /\ j.amt = a /\ j.kind = "voucher"
      <3>1. CASE Become(w, Idle) /\ Fault("lost")
        BY <1>4, <3>1, IdleJob, FaultCounts
      <3>2. CASE Become(w, Then(w, "setClaimed"))
        <4>1. PICK j \in JobRecord :
                /\ j = Then(w, "setClaimed") /\ j.pc = "setClaimed" /\ j.kind = worker[w].kind
                /\ j.id = worker[w].id /\ j.amt = worker[w].amt
          BY <1>1, <1>4, JobThen
        <4>2. Due(j) = 0
          BY <4>1, DueOf
        <4>3. QED
          BY <1>3, <3>2, <4>1, <4>2
      <3>3. QED
        BY <1>6, <3>1, <3>2
    <2>2. paid' = [paid EXCEPT ![x] = paid[x] + a]
      BY <1>3, <1>6
    <2>3. /\ paid' \in [Vouchers -> Nat] /\ paid'[x] = paid[x] + a /\ paid[x] \in Nat
          /\ \A v \in Vouchers : v # x => paid'[v] = paid[v]
      BY <1>4, <2>2
    <2>4. BookTypes' /\ refs \subseteq refs'
      BY <1>1, <1>4, <2>3 DEF BookTypes
    <2>5. PICK v \in Nat : v = fiat["consumer"] + a
      BY <1>4 DEF MoneyTypes, Accounts, Counted
    <2>6. Sets("consumer", v) /\ "consumer" \in Accounts
      BY <1>3, <1>4, <1>6, <2>5 DEF Sets, MoneyTypes, Accounts, Counted
    <2>7. ~overlap' => tt + unread >= Claimed + a
      BY <1>1, <1>3, CoveredNow, DueOf
    <2>8. MoneyTypes' /\ Claimed' \in Nat /\ (~overlap' => tt' + unread' >= Claimed')
      BY <1>1, <2>5, <2>6, <2>7, AccountStep
    <2>9. Claimed' + Due(j) = Claimed'
      BY <2>1, <2>8, NoDue
    <2>10. /\ j.pc \notin RefPcs /\ j.pc \notin SharedPcs /\ j.pc # "debitUsd"
           /\ j.pc \in VoucherPcs => j.kind = "voucher" /\ j.id \in Vouchers /\ j.amt = Amount[j.id]
      BY <1>3, <2>1 DEF RefPcs, SharedPcs, VoucherPcs
    <2>11. paid'[x] >= Amount[x] /\ \A y \in Vouchers : paid[y] <= paid'[y] /\ paid[y] \in Nat
      BY <1>3, <1>4, <2>3
    <2>12. \A y \in Vouchers : row'[y] = "claimed" => row[y] = "claimed"
      BY <1>1
    <2>13. j.pc = "setClaimed" => paid'[j.id] >= Amount[j.id]
      BY <2>1, <2>11
    <2>14. ASSUME ~overlap, faults = 0, faults' = 0, \A u \in Workers : u # w => worker[u] = Idle
           PROVE  /\ \A y \in Vouchers : paid'[y] <= Amount[y]
                  /\ \A y \in Vouchers : row'[y] # "claimed" =>
                        paid'[y] = 0 \/ (j.pc = "setClaimed" /\ j.id = y)
                  /\ row'[j.id] # "claimed"
      <3>1. j.pc = "setClaimed" /\ j.id = x
        BY <2>1, <2>14
      <3>2. /\ \A y \in Vouchers : paid[y] <= Amount[y]
            /\ \A y \in Vouchers : row[y] # "claimed" => paid[y] = 0
            /\ row[x] # "claimed"
        BY <1>1, <1>3, <1>4, <2>14, OnceAt
      <3>3. paid'[x] = a
        BY <2>3, <3>2
      <3>4. \A y \in Vouchers : paid'[y] <= Amount[y]
        <4>1. paid'[x] <= Amount[x]
          <5>1. a <= a
            OBVIOUS
          <5>2. QED
            BY <1>3, <3>3, <5>1
        <4>2. \A y \in Vouchers : y # x => paid'[y] <= Amount[y]
          BY <2>3, <3>2
        <4>3. QED
          BY <4>1, <4>2
      <3>5. QED
        BY <1>1, <2>3, <3>1, <3>2, <3>4
    <2>15. QED
      BY <1>1, <1>2, <1>4, <2>1, <2>4, <2>8, <2>9, <2>10, <2>11, <2>12, <2>13, <2>14, VoucherStep
  <1>7. QED
    BY <1>2, <1>5, <1>6

\* The UPDATE or INSERT of the row that shows the voucher as claimed.
LEMMA SetClaimedKeeps ==
    ASSUME BackInv, OverlapStep, UNCHANGED unread, NEW w \in Workers, SetClaimed(w)
    PROVE  BackInv'
  <1>1. /\ worker[w].pc = "setClaimed" /\ worker[w].pc \in VoucherPcs /\ "mintRef" \in Pcs /\ FaultStep
        /\ UNCHANGED money
        /\ UNCHANGED <<refs, minted, credited, expired, paid, conversions, faults>>
        /\ Goto(w, "mintRef") \/ Become(w, Idle)
    BY DEF SetClaimed, At, VoucherPcs, Pcs, FaultStep
  <1>2. PICK x \in Vouchers : /\ x = worker[w].id /\ worker[w].amt = Amount[x]
                              /\ worker[w].kind = "voucher" /\ paid[x] >= Amount[x]
    BY <1>1, VoucherAt
  <1>3. /\ worker[w] \in JobRecord /\ Busy(w) /\ BookTypes
        /\ row \in [Vouchers -> {"none", "pending", "claimed", "expired"}]
        /\ paid \in [Vouchers -> Nat]
    BY <1>1, VoucherAt
  <1>4. PICK j \in {Idle} \cup JobRecord :
          /\ Become(w, j) /\ Due(j) = 0
          /\ \/ j.pc = "idle"
             \/ j.pc = "mintRef" /\ j.id = x /\ j.amt = Amount[x] /\ j.kind = "voucher"
    <2>1. CASE Become(w, Idle)
      BY <2>1, IdleJob
    <2>2. CASE Goto(w, "mintRef")
      <3>1. Become(w, Then(w, "mintRef"))
        BY <1>1, <2>2, Going
      <3>2. PICK j \in JobRecord :
              /\ j = Then(w, "mintRef") /\ j.pc = "mintRef" /\ j.kind = worker[w].kind
              /\ j.id = worker[w].id /\ j.amt = worker[w].amt
        BY <1>1, <1>3, JobThen
      <3>3. Due(j) = 0
        BY <3>2, DueOf
      <3>4. QED
        BY <1>2, <3>1, <3>2, <3>3
    <2>3. QED
      BY <1>1, <2>1, <2>2
  <1>5. row' = [row EXCEPT ![x] = "claimed"]
    BY <1>2 DEF SetClaimed
  <1>6. /\ row' \in [Vouchers -> {"none", "pending", "claimed", "expired"}]
        /\ row'[x] = "claimed" /\ \A v \in Vouchers : v # x => row'[v] = row[v]
    BY <1>3, <1>5
  <1>7. BookTypes' /\ refs \subseteq refs'
    BY <1>1, <1>3, <1>6 DEF BookTypes
  <1>8. MoneyTypes' /\ Claimed' \in Nat /\ (~overlap' => tt' + unread' >= Claimed')
    BY <1>1, MoneyStill
  <1>9. Claimed' + Due(j) = Claimed'
    BY <1>4, <1>8, NoDue
  <1>10. /\ \A v \in Vouchers : paid[v] <= paid'[v]
         /\ \A v \in Vouchers : row'[v] = "claimed" => row[v] = "claimed" \/ paid'[v] >= Amount[v]
    BY <1>1, <1>2, <1>3, <1>6
  <1>11. ASSUME ~overlap, faults = 0, \A v \in Workers : v # w => worker[v] = Idle
         PROVE  /\ \A v \in Vouchers : paid'[v] <= Amount[v]
                /\ \A v \in Vouchers : row'[v] # "claimed" => paid'[v] = 0
    BY <1>1, <1>2, <1>6, <1>11, OnceAt
  <1>12. /\ j.pc \notin RefPcs /\ j.pc \notin SharedPcs /\ j.pc # "debitUsd" /\ j.pc # "setClaimed"
         /\ j.pc \in VoucherPcs => j.kind = "voucher" /\ j.id \in Vouchers /\ j.amt = Amount[j.id]
         /\ ~Marking(j)
    BY <1>4 DEF RefPcs, SharedPcs, VoucherPcs, Marking
  <1>13. QED
    BY <1>1, <1>3, <1>4, <1>7, <1>8, <1>9, <1>10, <1>11, <1>12, VoucherStep

LEMMA RecordMintRefKeeps ==
    ASSUME BackInv, OverlapStep, UNCHANGED unread, NEW w \in Workers, RecordMintRef(w)
    PROVE  BackInv'
  <1>1. /\ worker[w].pc = "mintRef" /\ worker[w].pc \in VoucherPcs /\ Become(w, Idle) /\ FaultStep
        /\ UNCHANGED money
        /\ UNCHANGED <<minted, credited, row, expired, paid, conversions, faults>>
        /\ refs' = refs \cup {worker[w].id}
    BY DEF RecordMintRef, At, VoucherPcs, FaultStep
  <1>2. /\ Busy(w) /\ BookTypes /\ worker[w].id \in Vouchers /\ paid \in [Vouchers -> Nat]
    BY <1>1, VoucherAt
  <1>3. BookTypes' /\ refs \subseteq refs'
    BY <1>1, <1>2 DEF BookTypes
  <1>4. MoneyTypes' /\ Claimed' \in Nat /\ (~overlap' => tt' + unread' >= Claimed')
    BY <1>1, MoneyStill
  <1>5. Claimed' + Due(Idle) = Claimed'
    BY <1>4, NoDue, IdleJob
  <1>6. /\ \A v \in Vouchers : paid[v] <= paid'[v]
        /\ \A v \in Vouchers : row'[v] = "claimed" => row[v] = "claimed" \/ paid'[v] >= Amount[v]
    BY <1>1, <1>2
  <1>7. ASSUME ~overlap, faults = 0, \A v \in Workers : v # w => worker[v] = Idle
        PROVE  /\ \A v \in Vouchers : paid'[v] <= Amount[v]
               /\ \A v \in Vouchers : row'[v] # "claimed" => paid'[v] = 0
    BY <1>1, <1>7, OnceAt
  <1>8. /\ Idle.pc \notin RefPcs /\ Idle.pc \notin VoucherPcs /\ Idle.pc \notin SharedPcs
        /\ Idle.pc # "debitUsd" /\ Idle.pc # "setClaimed" /\ ~Marking(Idle)
    BY IdleJob, Stops
  <1>9. QED
    BY <1>1, <1>2, <1>3, <1>4, <1>5, <1>6, <1>7, <1>8, VoucherStep

-----------------------------------------------------------------------------
(* The steps of no handler.                                                *)

\* The handlers stay as they are.
LEMMA HandlersStay ==
    ASSUME BackInv, OverlapStep, UNCHANGED <<worker, faults, minted, credited, paid, refs>>,
           MoneyTypes', BookTypes', UNCHANGED <<tt, unread>>, Claimed' = Claimed,
           \A v \in Vouchers : (row'[v] = "claimed") <=> (row[v] = "claimed")
    PROVE  BackInv'
  <1>1. TypeOK /\ RefsInv /\ VouchersInv /\ Alone /\ OnceInv /\ TokensCover
    BY DEF BackInv
  <1>2. overlap' \in BOOLEAN /\ (~overlap' => ~overlap) /\ Alone'
    BY <1>1, Overlapping
  <1>3. TypeOK'
    BY <1>1, <1>2 DEF TypeOK, MoneyTypes, BookTypes
  <1>4. RefsInv'
    <2>1. \A w \in Workers : worker[w].pc \in RefPcs => RefJob(worker[w])'
      BY <1>1 DEF RefsInv, RefJob
    <2>2. QED
      BY <1>1, <2>1 DEF RefsInv
  <1>5. VouchersInv'
    <2>1. \A w \in Workers : VoucherJob(worker[w])'
      BY <1>1 DEF VouchersInv, VoucherJob
    <2>2. QED
      BY <1>1, <2>1 DEF VouchersInv
  <1>6. OnceInv'
    <2> SUFFICES ASSUME ~overlap', faults' = 0
                 PROVE  OnceInv'
      BY DEF OnceInv
    <2>1. \A v \in Vouchers : Settling(v) => Settling(v)'
      BY DEF Settling
    <2>2. /\ \A v \in Vouchers : paid[v] <= Amount[v]
          /\ \A v \in Vouchers : row[v] # "claimed" => paid[v] = 0 \/ Settling(v)
          /\ \A w \in Workers : Marking(worker[w]) => row[worker[w].id] # "claimed"
      BY <1>1, <1>2 DEF OnceInv, Marking
    <2>3. \A w \in Workers : Marking(worker[w]) => worker[w].id \in Vouchers
      BY <1>1 DEF Marking, VouchersInv, VoucherJob
    <2>4. \A w \in Workers : Marking(worker[w]) => row'[worker[w].id] # "claimed"
      BY <2>2, <2>3
    <2>5. QED
      BY <2>1, <2>2, <2>4 DEF OnceInv, Marking
  <1>7. TokensCover'
    <2> SUFFICES ASSUME ~overlap'
                 PROVE  TokensCover'
      BY DEF TokensCover
    <2>1. /\ tt + unread >= Claimed
          /\ \A w \in Workers : tt + unread >= Claimed + Due(worker[w])
          /\ \A w \in Workers : worker[w].pc = "claims" => worker[w].seen = tt
      BY <1>1, <1>2 DEF TokensCover
    <2>2. QED
      BY <2>1 DEF TokensCover
  <1>8. QED
    BY <1>2, <1>3, <1>4, <1>5, <1>6, <1>7 DEF BackInv

LEMMA IssueVoucherKeeps ==
    ASSUME BackInv, OverlapStep, UNCHANGED unread, NEW v \in Vouchers, IssueVoucher(v)
    PROVE  BackInv'
  <1>1. /\ row[v] = "none" /\ row' = [row EXCEPT ![v] = "pending"] /\ UNCHANGED money
        /\ UNCHANGED <<refs, minted, credited, expired, paid, conversions, worker, faults>>
    BY DEF IssueVoucher
  <1>2. BookTypes
    BY TypesNow DEF BackInv
  <1>3. BookTypes' /\ \A x \in Vouchers : (row'[x] = "claimed") <=> (row[x] = "claimed")
    BY <1>1, <1>2 DEF BookTypes
  <1>4. MoneyTypes' /\ Claimed' = Claimed /\ tt' = tt
    BY <1>1, MoneyStill
  <1>5. QED
    BY <1>1, <1>3, <1>4, HandlersStay

LEMMA VoucherExpiresKeeps ==
    ASSUME BackInv, OverlapStep, UNCHANGED unread, NEW v \in Vouchers, VoucherExpires(v)
    PROVE  BackInv'
  <1>1. /\ expired' = expired \cup {v} /\ UNCHANGED money
        /\ UNCHANGED <<refs, minted, credited, row, paid, conversions, worker, faults>>
    BY DEF VoucherExpires
  <1>2. BookTypes
    BY TypesNow DEF BackInv
  <1>3. BookTypes' /\ \A x \in Vouchers : (row'[x] = "claimed") <=> (row[x] = "claimed")
    BY <1>1, <1>2 DEF BookTypes
  <1>4. MoneyTypes' /\ Claimed' = Claimed /\ tt' = tt
    BY <1>1, MoneyStill
  <1>5. QED
    BY <1>1, <1>3, <1>4, HandlersStay

\* What moves between two accounts changes no sum.
LEMMA TransferKeeps ==
    ASSUME BackInv, OverlapStep, UNCHANGED unread,
           NEW from \in Accounts, NEW to \in Accounts, from # to, Transfer(from, to)
    PROVE  BackInv'
  <1>1. MoneyTypes /\ BookTypes /\ fiat \in [Accounts -> Nat] /\ Held \in Nat
    BY TypesNow, BackingAssumption, SMTT(60) DEF BackInv, MoneyTypes
  <1>2. /\ fiat[from] >= Held
        /\ fiat' = [fiat EXCEPT ![from] = fiat[from] - Held, ![to] = fiat[to] + Held]
        /\ UNCHANGED <<usd, tt, usdc, worker, faults>> /\ UNCHANGED book
    BY <1>1 DEF Transfer
  <1>3. PICK a \in Nat, b \in Nat :
          /\ a = fiat[from] - Held /\ b = fiat[to] + Held
          /\ a + b = fiat[from] + fiat[to]
    BY <1>1, <1>2
  <1>4. PICK g \in [Accounts -> Nat] : g = [fiat EXCEPT ![from] = a]
    BY <1>1
  <1>5. Total(g) = Total(fiat) - fiat[from] + a /\ g[to] = fiat[to]
    <2>1. Total([fiat EXCEPT ![from] = a]) = Total(fiat) - fiat[from] + a
      BY <1>1, AccountsFinite, TotalExcept
    <2>2. g[to] = fiat[to]
      BY <1>1, <1>4
    <2>3. QED
      BY <1>4, <2>1, <2>2
  <1>6. fiat' = [g EXCEPT ![to] = b]
    BY <1>1, <1>2, <1>3, <1>4
  <1>7. fiat' \in [Accounts -> Nat] /\ Total(fiat') = Total(g) - g[to] + b
    BY <1>6, AccountsFinite, TotalExcept
  <1>8. Claimed' = Claimed
    <2>1. Claimed = Total(fiat) /\ Claimed' = Total(fiat') /\ Total(fiat) \in Nat
      BY <1>1, <1>7, ClaimedNow, ClaimedNext
    <2>2. PICK s \in Nat, f \in Nat, t \in Nat : s = Total(fiat) /\ f = fiat[from] /\ t = fiat[to]
      BY <1>1, <2>1
    <2>3. s - f + a - t + b = s
      BY <1>3, <2>2
    <2>4. QED
      BY <1>5, <1>7, <2>1, <2>2, <2>3
  <1>9. MoneyTypes' /\ BookTypes'
    BY <1>1, <1>2, <1>7 DEF MoneyTypes, BookTypes, book
  <1>10. UNCHANGED <<worker, faults, minted, credited, paid, refs, row, tt>>
    BY <1>2 DEF book
  <1>11. QED
    BY <1>8, <1>9, <1>10, HandlersStay

\* A transfer always moves between different accounts.
LEMMA EscrowKeeps ==
    ASSUME BackInv, OverlapStep, UNCHANGED unread, PayIntoEscrow \/ DebitEscrow \/ ReleaseEscrow
    PROVE  BackInv'
  <1>1. /\ "consumer" \in Accounts /\ "escrow" \in Accounts /\ "release" \in Accounts
        /\ \A to \in Counted : to \in Accounts /\ to # "release"
    BY DEF Accounts, Counted
  <1>2. CASE PayIntoEscrow
    <2>1. Transfer("consumer", "escrow")
      BY <1>2 DEF PayIntoEscrow
    <2>2. QED
      BY <1>1, <2>1, TransferKeeps
  <1>3. CASE DebitEscrow
    <2>1. Transfer("escrow", "release")
      BY <1>3 DEF DebitEscrow
    <2>2. QED
      BY <1>1, <2>1, TransferKeeps
  <1>4. CASE ReleaseEscrow
    <2>1. PICK to \in Counted : Transfer("release", to)
      BY <1>4 DEF ReleaseEscrow
    <2>2. QED
      BY <1>1, <2>1, TransferKeeps
  <1>5. QED
    BY <1>2, <1>3, <1>4

LEMMA CrashKeeps ==
    ASSUME BackInv, OverlapStep, UNCHANGED unread, Crash
    PROVE  BackInv'
  <1>1. /\ Fault("crash") /\ UNCHANGED money /\ UNCHANGED book
        /\ worker' = [w \in Workers |-> Idle]
    BY DEF Crash
  <1>2. /\ TypeOK /\ RefsInv /\ VouchersInv /\ TokensCover /\ BookTypes
        /\ faults \in 0..MaxFaults /\ MaxFaults \in Nat
    BY TypesNow DEF BackInv
  <1>3. /\ faults' # 0 /\ faults' \in 0..MaxFaults
    BY <1>1, <1>2 DEF Fault
  <1>4. \A w \in Workers : worker'[w] = Idle
    BY <1>1
  <1>5. overlap' \in BOOLEAN /\ (~overlap' => ~overlap) /\ Alone'
    BY <1>2, Overlapping
  <1>6. UNCHANGED <<refs, minted, credited, row, expired, paid, conversions>>
    BY <1>1 DEF book
  <1>7. /\ MoneyTypes' /\ Claimed' \in Nat /\ Claimed' = Claimed /\ tt' = tt
        /\ ~overlap' => tt' + unread' >= Claimed'
    BY <1>1, MoneyStill
  <1>8. TypeOK'
    <2>1. worker' \in [Workers -> {Idle} \cup JobRecord]
      BY <1>1
    <2>2. BookTypes'
      BY <1>2, <1>6 DEF BookTypes
    <2>3. QED
      BY <1>3, <1>5, <1>7, <2>1, <2>2 DEF TypeOK, MoneyTypes, BookTypes, JobRecord
  <1>9. RefsInv'
    BY <1>2, <1>4, <1>6, IdleJob DEF RefsInv
  <1>10. VouchersInv'
    <2>1. VoucherJob(Idle)'
      BY Stops, IdleJob DEF VoucherJob
    <2>2. \A w \in Workers : VoucherJob(worker[w])'
      BY <1>4, <2>1 DEF VoucherJob
    <2>3. QED
      BY <1>2, <1>6, <2>2 DEF VouchersInv
  <1>11. OnceInv'
    BY <1>3 DEF OnceInv
  <1>12. TokensCover'
    <2>1. Claimed' + Due(Idle) = Claimed'
      BY <1>7, NoDue, IdleJob
    <2>2. \A w \in Workers : ~overlap' => tt' + unread' >= Claimed' + Due(worker'[w])
      BY <1>4, <1>7, <2>1
    <2>3. \A w \in Workers : worker'[w].pc # "claims"
      BY <1>4, Stops
    <2>4. QED
      BY <1>7, <2>2, <2>3 DEF TokensCover
  <1>13. QED
    BY <1>5, <1>8, <1>9, <1>10, <1>11, <1>12 DEF BackInv

-----------------------------------------------------------------------------
LEMMA BackInit ==
    ASSUME Init PROVE BackInv
  <1>1. /\ fiat = [a \in Accounts |-> 0] /\ usd = 0 /\ tt = 0 /\ usdc = 0 /\ unread = 0
        /\ refs = {} /\ expired = {} /\ conversions = 0 /\ faults = 0 /\ overlap = FALSE
        /\ minted = [x \in Refs \cup UsdcRefs |-> 0] /\ credited = [x \in Refs |-> 0]
        /\ row = [v \in Vouchers |-> "none"] /\ paid = [v \in Vouchers |-> 0]
        /\ worker = [w \in Workers |-> Idle]
    BY DEF Init
  <1>2. \A w \in Workers : worker[w] = Idle
    BY <1>1
  <1>3. TypeOK
    <2>1. worker \in [Workers -> {Idle} \cup JobRecord]
      BY <1>1
    <2>2. MoneyTypes
      BY <1>1 DEF MoneyTypes
    <2>3. /\ refs \subseteq Refs \cup UsdcRefs \cup Vouchers /\ expired \subseteq Vouchers
          /\ minted \in [Refs \cup UsdcRefs -> Nat] /\ credited \in [Refs -> Nat]
          /\ paid \in [Vouchers -> Nat]
      BY <1>1
    <2>4. row \in [Vouchers -> {"none", "pending", "claimed", "expired"}]
      BY <1>1
    <2>5. overlap \in BOOLEAN
      BY <1>1
    <2>6. conversions \in 0..MaxConversions /\ faults \in 0..MaxFaults
      <3>1. conversions = 0 /\ faults = 0 /\ MaxConversions \in Nat /\ MaxFaults \in Nat
        BY <1>1, BackingAssumption, SMTT(60)
      <3>2. QED
        BY <3>1
    <2>7. QED
      BY <2>1, <2>2, <2>3, <2>4, <2>5, <2>6 DEF TypeOK, MoneyTypes, JobRecord
  <1>4. RefsInv
    BY <1>1, <1>2, IdleJob, AmountType DEF RefsInv
  <1>5. VouchersInv
    <2>1. \A v \in Vouchers : row[v] # "claimed"
      BY <1>1
    <2>2. \A w \in Workers : VoucherJob(worker[w])
      BY <1>2, Stops
    <2>3. QED
      BY <2>1, <2>2 DEF VouchersInv
  <1>6. Alone
    BY <1>2 DEF Alone, Busy
  <1>7. OnceInv
    <2>1. \A v \in Vouchers : paid[v] = 0 /\ paid[v] <= Amount[v]
      BY <1>1, AmountType
    <2>2. \A w \in Workers : ~Marking(worker[w])
      BY <1>2, Stops
    <2>3. QED
      BY <2>1, <2>2 DEF OnceInv, Marking
  <1>8. Claimed = 0
    <2>1. fiat \in [Accounts -> Nat] /\ \A a \in Accounts : fiat[a] = 0
      BY <1>1
    <2>2. Total(fiat) = 0
      BY <2>1, AccountsFinite, TotalZero
    <2>3. QED
      BY <2>1, <2>2, ClaimedNow
  <1>9. TokensCover
    <2>1. \A w \in Workers : Due(worker[w]) = 0 /\ worker[w].pc # "claims"
      BY <1>2, Stops
    <2>2. QED
      BY <1>1, <1>8, <2>1 DEF TokensCover
  <1>10. QED
    BY <1>3, <1>4, <1>5, <1>6, <1>7, <1>9 DEF BackInv

LEMMA BackNext ==
    ASSUME BackInv, [Next]_vars
    PROVE  BackInv'
  <1>1. CASE UNCHANGED vars
    <2>1. UNCHANGED <<worker, faults, overlap, unread>> /\ UNCHANGED money /\ UNCHANGED book
      BY <1>1 DEF vars
    <2>2. UNCHANGED <<fiat, usd, tt, usdc, refs, minted, credited, row, expired, paid, conversions>>
      BY <2>1 DEF money, book
    <2>3. QED
      BY <2>1, <2>2 DEF BackInv, TypeOK, RefsInv, RefJob, VouchersInv, VoucherJob, Alone, Busy,
                        OnceInv, Settling, TokensCover, Claimed, Claims, Due
  <1>2. CASE Next
    <2>1. OverlapStep
      BY <1>2 DEF Next, OverlapStep
    <2>2. CASE \E w \in Workers : ReadClaims(w)
      BY <2>1, <2>2, ReadClaimsKeeps
    <2>3. CASE Serve /\ UNCHANGED unread
      <3>1. CASE \E w \in Workers : Step(w)
        <4>1. PICK w \in Workers : Step(w)
          BY <3>1
        <4>2. \/ MintDeposit(w) \/ CreditDeposit(w) \/ MintUsdc(w)
              \/ ReadBacking(w) \/ MintShort(w) \/ CreditShort(w)
              \/ SetExpired(w) \/ ReadFloat(w) \/ DebitMerchant(w) \/ CreditConsumer(w)
              \/ SetClaimed(w) \/ RecordMintRef(w)
              \/ CheckReserve(w) \/ DebitFiat(w) \/ CreditUsd(w) \/ DebitUsd(w)
          BY <4>1 DEF Step
        <4>3. CASE MintDeposit(w) \/ CreditDeposit(w) \/ MintUsdc(w)
          BY <2>1, <2>3, <4>3, MintDepositKeeps, CreditDepositKeeps, MintUsdcKeeps
        <4>4. CASE ReadBacking(w) \/ MintShort(w) \/ CreditShort(w)
          BY <2>1, <2>3, <4>4, ReadBackingKeeps, MintShortKeeps, CreditShortKeeps
        <4>5. CASE SetExpired(w) \/ ReadFloat(w) \/ DebitMerchant(w) \/ CreditConsumer(w)
          BY <2>1, <2>3, <4>5, SetExpiredKeeps, ReadFloatKeeps, DebitMerchantKeeps, CreditConsumerKeeps
        <4>6. CASE SetClaimed(w) \/ RecordMintRef(w)
          BY <2>1, <2>3, <4>6, SetClaimedKeeps, RecordMintRefKeeps
        <4>7. CASE CheckReserve(w) \/ DebitFiat(w) \/ CreditUsd(w) \/ DebitUsd(w)
          BY <2>1, <2>3, <4>7, CheckReserveKeeps, DebitFiatKeeps, CreditUsdKeeps, DebitUsdKeeps
        <4>8. QED
          BY <4>2, <4>3, <4>4, <4>5, <4>6, <4>7
      <3>2. CASE \E w \in Workers : QueryFails(w)
        BY <2>1, <2>3, <3>2, QueryFailsKeeps
      <3>3. CASE \E w \in Workers : \/ \E r \in Refs : CashIn(w, r)
                                    \/ \E r \in UsdcRefs : BuyUsdc(w, r)
        BY <2>1, <2>3, <3>3, CashInKeeps, BuyUsdcKeeps
      <3>4. CASE \E w \in Workers : \E v \in Vouchers : Redeem(w, v) \/ SendToTag(w, v)
        BY <2>1, <2>3, <3>4, RedeemKeeps, SendToTagKeeps
      <3>5. CASE \E w \in Workers : \/ \E a \in FiatSteps : ConvertFiatToUsd(w, a)
                                    \/ \E u \in UsdSteps : ConvertUsdToFiat(w, u)
        BY <2>1, <2>3, <3>5, ConvertFiatToUsdKeeps, ConvertUsdToFiatKeeps
      <3>6. CASE \E v \in Vouchers : IssueVoucher(v) \/ VoucherExpires(v)
        BY <2>1, <2>3, <3>6, IssueVoucherKeeps, VoucherExpiresKeeps
      <3>7. CASE PayIntoEscrow \/ DebitEscrow \/ ReleaseEscrow
        BY <2>1, <2>3, <3>7, EscrowKeeps
      <3>8. CASE Crash
        BY <2>1, <2>3, <3>8, CrashKeeps
      <3>9. QED
        BY <2>3, <3>1, <3>2, <3>3, <3>4, <3>5, <3>6, <3>7, <3>8 DEF Serve
    <2>4. QED
      BY <1>2, <2>2, <2>3 DEF Next
  <1>3. QED
    BY <1>1, <1>2

\* The inductive invariant.
LEMMA BackInvariant == Spec => []BackInv
  <1>1. Init => BackInv
    BY BackInit
  <1>2. BackInv /\ [Next]_vars => BackInv'
    BY BackNext
  <1>3. QED
    BY <1>1, <1>2, PTL DEF Spec

\* "We never mint twice for the same voucher/deposit" (cashIn): for any references, vouchers,
\* handlers and faults, a reference mints and credits its amount at most once, and a voucher
\* shown as claimed is paid, once when nothing disturbed it.
THEOREM MintsOnce == Spec => []RefPaidOnce
  <1>1. BackInv => RefPaidOnce
    BY DEF BackInv, RefsInv, VouchersInv, OnceInv, RefPaidOnce
  <1>2. QED
    BY <1>1, BackInvariant, PTL

\* Handlers that do not overlap leave the treasury tokens covering every claim
\* (creditFiatWithTreasuryBacking, cashIn), whatever fails, but for what a sum left out.
THEOREM ClaimsBacked == Spec => []FiatBacked
  <1>1. BackInv => FiatBacked
    BY DEF BackInv, TokensCover, FiatBacked, Claimed
  <1>2. QED
    BY <1>1, BackInvariant, PTL

(***************************************************************************)
(*                           The consumer's pages                          *)
(***************************************************************************)
\* What a page may press a button for.
ItemsOf(p) ==
    IF p = "buy" THEN {c.id : c \in Charges} ELSE IF p = "pay" THEN Targets
    ELSE IF p = "convert" THEN {"conversion"} ELSE IF p = "topup" THEN Codes ELSE Tickets
KindsOf(p) ==
    IF p = "buy" THEN {"purchase"} ELSE IF p = "pay" THEN {"transfer", "withdraw", "escrow"}
    ELSE IF p = "convert" THEN {"conversion"} ELSE IF p = "topup" THEN {"code"} ELSE {"ticket"}

\* The charge on the page was scanned or picked, and its quote is of another charge
\* only if that was noticed; what else a page shows is something it can press for.
ReadsOk ==
    /\ buy = [charge |-> buy.charge, quote |-> buy.quote, fetching |-> buy.fetching,
              spend |-> buy.spend, have |-> buy.have, seen |-> buy.seen]
    /\ pay = [to |-> pay.to, cur |-> pay.cur, loaded |-> pay.loaded] /\ pay.to \in Targets \cup {"none"}
    /\ voucher = [id |-> voucher.id, open |-> voucher.open, link |-> voucher.link]
    /\ voucher.id \in Tickets \cup {"none"} /\ voucher.link \in Tickets \cup {"none"}
    /\ buy.charge \in Charges \cup {NoCharge}
    /\ buy.charge.mid = NoMerchant /\ buy.quote.cross => buy.charge.id \in crossed
    /\ \A q \in quotes : q.charge.mid # NoMerchant
    /\ fx \in FxRates /\ crossed \cap Codes = {}

\* Every press is for something its page sells, and only what is redeemed is marked.
WorkOk(x) == (x.pc = "paying" => x.kind \in {"ticket", "code"}) /\ (x.pc = "marking" => x.kind = "ticket")
PressOk ==
    \A p \in Tabs : press[p].pc # "idle" =>
        press[p].item \in ItemsOf(p) /\ press[p].kind \in KindsOf(p) /\ WorkOk(press[p])

\* The price of a charge at a rate.
PriceAt(c, cur, rate) == IF cur = c.cur THEN c.amount ELSE CeilDiv(c.amount, rate)
\* What a purchase of c may move: m has the fields of a press or of a move.
FairFor(c, m) ==
    IF c.mid # NoMerchant
    THEN /\ Quotable(c, m.cur) /\ m.shown \in m.amount - Slack .. m.amount + Slack
         /\ m.amount = PriceAt(c, m.cur, m.at)
    ELSE c.id \in crossed \/ (m.amount = c.amount /\ m.cur = c.cur)

\* A purchase that is being prepared shows what it will ask for; later it has the
\* server's price.
PriceOk ==
    \A c \in Charges :
        /\ \A m \in moves[c.id] : FairFor(c, m)
        /\ press["buy"].pc \in {"sign", "submit"} /\ press["buy"].item = c.id => FairFor(c, press["buy"])
        /\ press["buy"].pc = "prepare" /\ press["buy"].item = c.id =>
              /\ press["buy"].shown = press["buy"].amount
              /\ c.mid = NoMerchant => FairFor(c, press["buy"])

\* A press that may still move money.
Pends(x, i) == x.pc \in {"prepare", "sign", "submit", "paying"} /\ x.item = i
Pend(x, i) == IF Pends(x, i) THEN 1 ELSE 0
Pending(i) ==
    Pend(press["buy"], i) + Pend(press["pay"], i) + Pend(press["convert"], i)
        + Pend(press["receive"], i) + Pend(press["claim"], i) + Pend(press["topup"], i)

CountOk ==
    /\ moves = [i \in Items |-> moves[i]] /\ tries \in [Items -> Nat]
    /\ \A i \in Items : IsFiniteSet(moves[i]) /\ Cardinality(moves[i]) + Pending(i) <= tries[i]

\* What is redeemed by one press at a time, and marked whenever it was paid, was not
\* paid before; a code is marked as long as it is being redeemed.
Paying(p, i) == press[p].pc = "paying" /\ press[p].item = i
BeingMarked(p, i) == press[p].pc = "marking" /\ press[p].item = i
TicketFine(i) ==
    /\ Cardinality(moves[i]) <= 1
    /\ moves[i] # {} => i \in used \/ \E p \in Tabs : BeingMarked(p, i)
    /\ \A p \in Tabs : Working(p, i) =>
          /\ i \in Codes => i \in used
          /\ Paying(p, i) => moves[i] = {}
          /\ \A o \in Tabs : Working(o, i) => o = p
TicketOk == \A i \in (Tickets \cup Codes) \ crossed : TicketFine(i)

\* The fields of a press.
Shaped(x) == x = [pc |-> x.pc, kind |-> x.kind, item |-> x.item, amount |-> x.amount, cur |-> x.cur,
                  shown |-> x.shown, at |-> x.at]
ShapesOk == press = [p \in Tabs |-> press[p]] /\ \A p \in Tabs : Shaped(press[p])

PagesInv == ShapesOk /\ ReadsOk /\ PressOk /\ PriceOk /\ CountOk /\ TicketOk

\* One page's press becomes x; the others' stay.
Becomes(p, x) == press' = [press EXCEPT ![p] = x]

LEMMA BecomesFacts ==
    ASSUME ShapesOk, NEW p \in Tabs, NEW x, Shaped(x), Becomes(p, x)
    PROVE  /\ press'[p] = x /\ (\A q \in Tabs \ {p} : press'[q] = press[q])
           /\ ShapesOk'
  <1>1. press'[p] = x /\ (\A q \in Tabs \ {p} : press'[q] = press[q]) /\ press' = [q \in Tabs |-> press'[q]]
    BY DEF ShapesOk, Becomes
  <1>2. \A q \in Tabs : Shaped(press'[q])
    <2> TAKE q \in Tabs
    <2>1. CASE q = p
      BY <1>1, <2>1, Zenon
    <2>2. CASE q # p
      BY <1>1, <2>2, Zenon DEF ShapesOk
    <2> QED BY <2>1, <2>2
  <1> QED BY <1>1, <1>2, Zenon DEF ShapesOk

\* Turning a press changes its state only.
TurnsInto(p, pc, x) ==
    /\ Shaped(x) /\ Becomes(p, x) /\ x.pc = pc
    /\ x.kind = press[p].kind /\ x.item = press[p].item /\ x.amount = press[p].amount
    /\ x.cur = press[p].cur /\ x.shown = press[p].shown /\ x.at = press[p].at

LEMMA TurnedFacts ==
    ASSUME ShapesOk, NEW p \in Tabs, NEW pc, Turned(p, pc)
    PROVE  \E x : TurnsInto(p, pc, x)
  <1> DEFINE y == press[p]
             x == [pc |-> pc, kind |-> y.kind, item |-> y.item, amount |-> y.amount, cur |-> y.cur,
                   shown |-> y.shown, at |-> y.at]
  <1>1. Shaped(y)
    BY Zenon DEF ShapesOk
  <1>2. press' = [press EXCEPT ![p] = [y EXCEPT !.pc = pc]]
    BY DEF Turned, ShapesOk
  <1>3. [y EXCEPT !.pc = pc] = x
    <2> HIDE DEF y
    <2> QED BY <1>1 DEF Shaped
  <1>4. Becomes(p, x)
    BY <1>2, <1>3, Zenon DEF Becomes
  <1>5. /\ x.pc = pc /\ x.kind = press[p].kind /\ x.item = press[p].item /\ x.amount = press[p].amount
        /\ x.cur = press[p].cur /\ x.shown = press[p].shown /\ x.at = press[p].at
    OBVIOUS
  <1>6. Shaped(x)
    BY DEF Shaped
  <1> HIDE DEF x
  <1> QED BY <1>4, <1>5, <1>6, Zenon DEF TurnsInto

LEMMA PendNat == \A x, i : Pend(x, i) \in {0, 1}
  BY DEF Pend

LEMMA PendLess ==
    ASSUME NEW x, NEW y, NEW i, Pends(x, i) => Pends(y, i)
    PROVE  Pend(x, i) <= Pend(y, i)
  <1>1. CASE Pends(x, i)
    BY <1>1 DEF Pend
  <1>2. CASE ~Pends(x, i)
    <2>1. Pend(x, i) = 0 /\ Pend(y, i) \in {0, 1}
      BY <1>2 DEF Pend
    <2> QED BY <2>1
  <1> QED BY <1>1, <1>2

LEMMA CountArith ==
    ASSUME NEW n \in Nat, NEW t \in Nat, NEW s \in Nat, NEW r \in Nat, NEW a \in {0, 1}, NEW b \in {0, 1},
           r = s - a + b, b <= a, n + s <= t
    PROVE  n + r <= t
  OBVIOUS

LEMMA PendingChange ==
    ASSUME NEW p \in Tabs, NEW x, NEW i, press'[p] = x, \A q \in Tabs \ {p} : press'[q] = press[q]
    PROVE  /\ Pending(i) \in Nat /\ Pending(i)' \in Nat /\ Pend(press[p], i) <= Pending(i)
           /\ Pending(i)' = Pending(i) - Pend(press[p], i) + Pend(x, i)
  <1> DEFINE a(q) == Pend(press[q], i)
             b(q) == Pend(press'[q], i)
  <1>1. \A q \in Tabs : a(q) \in {0, 1} /\ b(q) \in {0, 1} /\ (q # p => b(q) = a(q))
    BY PendNat, Zenon
  <1>2. b(p) = Pend(x, i)
    OBVIOUS
  <1>3. /\ Pending(i) = a("buy") + a("pay") + a("convert") + a("receive") + a("claim") + a("topup")
        /\ Pending(i)' = b("buy") + b("pay") + b("convert") + b("receive") + b("claim") + b("topup")
    BY DEF Pending
  <1> HIDE DEF a, b
  <1>4. Pending(i) \in Nat /\ Pending(i)' \in Nat /\ a(p) <= Pending(i)
        /\ Pending(i)' = Pending(i) - a(p) + b(p)
    BY <1>1, <1>3 DEF Tabs
  <1> QED BY <1>2, <1>4 DEF a

\* A step that moves no press.
LEMMA Untouched ==
    ASSUME PagesInv, ReadsOk', crossed \subseteq crossed', UNCHANGED <<press, used, moves, tries>>
    PROVE  PagesInv'
  <1>1. ShapesOk' /\ PressOk'
    BY Zenon DEF PagesInv, ShapesOk, PressOk
  <1>2. \A c, m : FairFor(c, m) => FairFor(c, m)'
    BY Zenon DEF FairFor
  <1>3. PriceOk'
    BY <1>2, Zenon DEF PagesInv, PriceOk
  <1>4. CountOk'
    BY Zenon DEF PagesInv, CountOk, Pending
  <1>5. TicketOk'
    <2>1. \A i : TicketFine(i) => TicketFine(i)'
      BY DEF TicketFine, Working, Paying, BeingMarked
    <2>2. \A i \in (Tickets \cup Codes) \ crossed' : TicketFine(i)
      BY Zenon DEF PagesInv, TicketOk
    <2> QED BY <2>1, <2>2, Zenon DEF TicketOk
  <1> QED BY <1>1, <1>3, <1>4, <1>5 DEF PagesInv

\* A charge is found by its id, and no other item bears it.
LEMMA ItemFacts ==
    /\ \A p \in Tabs : ItemsOf(p) \subseteq Items /\ "none" \notin ItemsOf(p)
    /\ \A p \in Tabs, i \in Tickets \cup Codes : i \in ItemsOf(p) => p \in {"receive", "claim", "topup"}
    /\ \A p \in Tabs, c \in Charges : c.id \in ItemsOf(p) => p = "buy"
    /\ \A c \in Charges : c.id \in Items /\ c.id \notin Tickets \cup Codes
    /\ Tickets \cap Codes = {} /\ Tickets \cup Codes \subseteq Items /\ "none" \notin Codes
  <1>1. /\ \A c \in Charges : c.id \notin Targets \cup Tickets \cup Codes \cup {"conversion", "none"}
        /\ Targets \cap (Tickets \cup Codes) = {} /\ "conversion" \notin Targets \cup Tickets \cup Codes
        /\ "none" \notin Targets \cup Tickets \cup Codes /\ Tickets \cap Codes = {}
    BY PagesAssumption, Zenon
  <1>2. \A p \in Tabs : ItemsOf(p) \subseteq Items
    BY Zenon DEF ItemsOf, Items
  <1>3. \A p \in Tabs : "none" \notin ItemsOf(p)
    <2> TAKE p \in Tabs
    <2>1. "none" # "conversion" /\ (\A c \in Charges : c.id # "none")
      BY <1>1
    <2> QED BY <1>1, <2>1 DEF ItemsOf
  <1>4. \A p \in Tabs, i \in Tickets \cup Codes : i \in ItemsOf(p) => p \in {"receive", "claim", "topup"}
    BY <1>1 DEF ItemsOf, Tabs
  <1>5. \A p \in Tabs, c \in Charges : c.id \in ItemsOf(p) => p = "buy"
    BY <1>1 DEF ItemsOf, Tabs
  <1>6. \A c \in Charges : c.id \in Items /\ c.id \notin Tickets \cup Codes
    BY <1>1 DEF Items
  <1>7. Tickets \cap Codes = {} /\ Tickets \cup Codes \subseteq Items /\ "none" \notin Codes
    BY <1>1 DEF Items
  <1> QED BY <1>2, <1>3, <1>4, <1>5, <1>6, <1>7, Zenon

LEMMA FairMoves ==
    ASSUME crossed \subseteq crossed', NEW c, NEW m, FairFor(c, m)
    PROVE  FairFor(c, m)'
  BY Zenon DEF FairFor

\* A step on one page that moves no money, if what is redeemed stays in order.
LEMMA StepKeeps ==
    ASSUME PagesInv, ReadsOk', TicketOk', crossed \subseteq crossed', UNCHANGED <<moves, tries>>,
           NEW p \in Tabs, NEW x, Shaped(x), Becomes(p, x),
           x.pc # "idle" => x.item \in ItemsOf(p) /\ x.kind \in KindsOf(p) /\ WorkOk(x),
           \A i \in Items : Pends(x, i) => Pends(press[p], i),
           p = "buy" => \A c \in Charges : x.item = c.id =>
               /\ x.pc \in {"sign", "submit"} => FairFor(c, x)
               /\ x.pc = "prepare" => x.shown = x.amount /\ (c.mid = NoMerchant => FairFor(c, x))
    PROVE  PagesInv'
  <1>1. press'[p] = x /\ (\A q \in Tabs \ {p} : press'[q] = press[q]) /\ ShapesOk'
    BY BecomesFacts, Zenon DEF PagesInv
  <1>2. PressOk'
    <2> SUFFICES ASSUME NEW q \in Tabs, press'[q].pc # "idle"
                 PROVE  press'[q].item \in ItemsOf(q) /\ press'[q].kind \in KindsOf(q) /\ WorkOk(press'[q])
      BY Zenon DEF PressOk, WorkOk
    <2>1. CASE q = p
      BY <1>1, <2>1, Zenon
    <2>2. CASE q # p
      BY <1>1, <2>2, Zenon DEF PagesInv, PressOk
    <2> QED BY <2>1, <2>2
  <1>3. PriceOk'
    <2> SUFFICES ASSUME NEW c \in Charges
                 PROVE  /\ \A m \in moves[c.id] : FairFor(c, m)'
                        /\ press'["buy"].pc \in {"sign", "submit"} /\ press'["buy"].item = c.id => FairFor(c, press["buy"])'
                        /\ press'["buy"].pc = "prepare" /\ press'["buy"].item = c.id =>
                              /\ press'["buy"].shown = press'["buy"].amount
                              /\ c.mid = NoMerchant => FairFor(c, press["buy"])'
      BY Zenon DEF PriceOk
    <2>1. \A m \in moves[c.id] : FairFor(c, m)'
      BY FairMoves, Zenon DEF PagesInv, PriceOk
    <2>2. CASE p = "buy"
      <3>1. press'["buy"] = x
        BY <1>1, <2>2
      <3>2. FairFor(c, x) => FairFor(c, press["buy"])'
        BY <3>1, Zenon DEF FairFor
      <3> QED BY <2>1, <2>2, <3>1, <3>2, Zenon
    <2>3. CASE p # "buy"
      <3>1. press'["buy"] = press["buy"]
        BY <1>1, <2>3, Zenon DEF Tabs
      <3>2. FairFor(c, press["buy"]) => FairFor(c, press["buy"])'
        BY <3>1, Zenon DEF FairFor
      <3> QED BY <2>1, <3>1, <3>2, Zenon DEF PagesInv, PriceOk
    <2> QED BY <2>2, <2>3
  <1>4. CountOk'
    <2>1. ASSUME NEW i \in Items PROVE Cardinality(moves[i]) + Pending(i)' <= tries[i]
      <3>1. /\ Pending(i) \in Nat /\ Pending(i)' \in Nat
            /\ Pending(i)' = Pending(i) - Pend(press[p], i) + Pend(x, i)
        BY <1>1, PendingChange
      <3>2. Pend(x, i) <= Pend(press[p], i) /\ Pend(x, i) \in {0, 1} /\ Pend(press[p], i) \in {0, 1}
        <4>1. Pends(x, i) => Pends(press[p], i)
          BY Zenon
        <4>2. Pend(x, i) <= Pend(press[p], i)
          BY <4>1, PendLess
        <4> QED BY <4>2, PendNat, Zenon
      <3>3. Cardinality(moves[i]) \in Nat /\ tries[i] \in Nat /\ Cardinality(moves[i]) + Pending(i) <= tries[i]
        BY FS_CardinalityType DEF PagesInv, CountOk
      <3> QED BY <3>1, <3>2, <3>3, CountArith, Zenon
    <2> QED BY <2>1, Zenon DEF PagesInv, CountOk
  <1> QED BY <1>1, <1>2, <1>3, <1>4 DEF PagesInv

\* What is redeemed stays in order when a press neither begins to pay it nor to mark it,
\* or, with the same item before and after, if that item does.
LEMMA TicketsRest ==
    ASSUME PagesInv, crossed \subseteq crossed', UNCHANGED <<used, moves>>, NEW p \in Tabs, NEW x,
           press'[p] = x, \A q \in Tabs \ {p} : press'[q] = press[q],
           x.pc \notin {"paying", "marking"}, press[p].pc # "marking"
    PROVE  TicketOk'
  <1> SUFFICES ASSUME NEW i \in (Tickets \cup Codes) \ crossed' PROVE TicketFine(i)'
    BY Zenon DEF TicketOk
  <1>1. TicketFine(i)
    BY Zenon DEF PagesInv, TicketOk
  <1>2. \A o \in Tabs : (Working(o, i)' => Working(o, i)) /\ (Paying(o, i)' => Paying(o, i))
                          /\ (BeingMarked(o, i) => BeingMarked(o, i)')
    <2> TAKE o \in Tabs
    <2>1. CASE o = p
      BY <2>1 DEF Working, Paying, BeingMarked
    <2>2. CASE o # p
      BY <2>2, Zenon DEF Working, Paying, BeingMarked
    <2> QED BY <2>1, <2>2
  <1> QED BY <1>1, <1>2, Zenon DEF TicketFine

LEMMA TicketsKeep ==
    ASSUME PagesInv, crossed \subseteq crossed', NEW p \in Tabs, NEW x,
           press'[p] = x, \A q \in Tabs \ {p} : press'[q] = press[q], x.item = press[p].item,
           \A i \in Items : i # x.item => moves'[i] = moves[i] /\ (i \in used' <=> i \in used),
           x.item \in (Tickets \cup Codes) \ crossed' => TicketFine(x.item)'
    PROVE  TicketOk'
  <1> SUFFICES ASSUME NEW i \in (Tickets \cup Codes) \ crossed', i # x.item PROVE TicketFine(i)'
    BY Zenon DEF TicketOk
  <1>1. TicketFine(i)
    BY Zenon DEF PagesInv, TicketOk
  <1>2. i \in Items
    BY ItemFacts
  <1>3. moves'[i] = moves[i] /\ (i \in used' <=> i \in used)
    BY <1>2, Zenon
  <1>4. \A o \in Tabs : (Working(o, i)' <=> Working(o, i)) /\ (Paying(o, i)' <=> Paying(o, i))
                          /\ (BeingMarked(o, i)' <=> BeingMarked(o, i))
    <2> TAKE o \in Tabs
    <2>1. CASE o = p
      BY <2>1, Zenon DEF Working, Paying, BeingMarked
    <2>2. CASE o # p
      BY <2>2, Zenon DEF Working, Paying, BeingMarked
    <2> QED BY <2>1, <2>2
  <1> QED BY <1>1, <1>3, <1>4, Zenon DEF TicketFine

\* A step on one page that moves no money and starts nothing.
LEMMA TurnKeeps ==
    ASSUME PagesInv, ReadsOk', crossed \subseteq crossed', UNCHANGED <<used, moves, tries>>,
           NEW p \in Tabs, NEW x, Shaped(x), Becomes(p, x),
           x.pc # "idle" => x.item \in ItemsOf(p) /\ x.kind \in KindsOf(p),
           \A i \in Items : Pends(x, i) => Pends(press[p], i),
           x.pc \notin {"paying", "marking"}, press[p].pc # "marking",
           p = "buy" => \A c \in Charges : x.item = c.id =>
               /\ x.pc \in {"sign", "submit"} => FairFor(c, x)
               /\ x.pc = "prepare" => x.shown = x.amount /\ (c.mid = NoMerchant => FairFor(c, x))
    PROVE  PagesInv'
  <1>1. press'[p] = x /\ (\A q \in Tabs \ {p} : press'[q] = press[q])
    BY BecomesFacts, Zenon DEF PagesInv
  <1>2. TicketOk' /\ UNCHANGED <<moves, tries>>
    BY <1>1, TicketsRest, Zenon
  <1>3. WorkOk(x)
    BY DEF WorkOk
  <1> QED BY <1>2, <1>3, StepKeeps, Zenon

LEMMA OneMore ==
    ASSUME NEW S, NEW f \in [S -> Nat], NEW s \in S
    PROVE  /\ [f EXCEPT ![s] = f[s] + 1] \in [S -> Nat]
           /\ [f EXCEPT ![s] = f[s] + 1][s] = f[s] + 1
           /\ \A i \in S \ {s} : [f EXCEPT ![s] = f[s] + 1][i] = f[i]
  OBVIOUS

\* A button is pressed.
LEMMA PressedKeeps ==
    ASSUME PagesInv, NEW p \in Tabs, NEW kind, NEW item, NEW amount, NEW cur,
           Pressed(p, kind, item, amount, cur), item \in ItemsOf(p), kind \in KindsOf(p),
           p = "buy" => \A c \in Charges : item = c.id /\ c.mid = NoMerchant =>
                           c.id \in crossed \/ (amount = c.amount /\ cur = c.cur)
    PROVE  PagesInv'
  <1> DEFINE pc == IF kind \in {"purchase", "transfer", "withdraw", "escrow"} THEN "prepare" ELSE "submit"
             x == [pc |-> pc, kind |-> kind, item |-> item, amount |-> amount, cur |-> cur, shown |-> amount, at |-> fx]
  <1>1. Becomes(p, x) /\ press[p].pc = "idle" /\ tries' = [tries EXCEPT ![item] = @ + 1]
        /\ UNCHANGED <<buy, quotes, pay, voucher, fx, used, moves, crossed>>
    BY DEF Pressed, Becomes, Free, reads, server
  <1>2. /\ x.pc = pc /\ x.kind = kind /\ x.item = item /\ x.amount = amount /\ x.cur = cur /\ x.shown = amount
        /\ Shaped(x)
    BY DEF Shaped
  <1>3. pc \in {"prepare", "submit"} /\ (p = "buy" => pc = "prepare")
    BY DEF KindsOf
  <1> HIDE DEF x, pc
  <1>4. press'[p] = x /\ (\A q \in Tabs \ {p} : press'[q] = press[q]) /\ ShapesOk'
    BY <1>1, <1>2, BecomesFacts, Zenon DEF PagesInv
  <1>5. ReadsOk'
    BY <1>1, Zenon DEF PagesInv, ReadsOk
  <1>6. PressOk'
    <2> SUFFICES ASSUME NEW q \in Tabs, press'[q].pc # "idle"
                 PROVE  press'[q].item \in ItemsOf(q) /\ press'[q].kind \in KindsOf(q) /\ WorkOk(press'[q])
      BY Zenon DEF PressOk, WorkOk
    <2>1. CASE q = p
      <3>1. WorkOk(x)
        BY <1>2, <1>3 DEF WorkOk
      <3> QED BY <1>2, <1>4, <2>1, <3>1, Zenon
    <2>2. CASE q # p
      BY <1>4, <2>2, Zenon DEF PagesInv, PressOk
    <2> QED BY <2>1, <2>2
  <1>7. PriceOk'
    <2> SUFFICES ASSUME NEW c \in Charges
                 PROVE  /\ \A m \in moves[c.id] : FairFor(c, m)'
                        /\ press'["buy"].pc \in {"sign", "submit"} /\ press'["buy"].item = c.id => FairFor(c, press["buy"])'
                        /\ press'["buy"].pc = "prepare" /\ press'["buy"].item = c.id =>
                              /\ press'["buy"].shown = press'["buy"].amount
                              /\ c.mid = NoMerchant => FairFor(c, press["buy"])'
      BY <1>1, Zenon DEF PriceOk
    <2>1. \A m \in moves[c.id] : FairFor(c, m)'
      BY <1>1, FairMoves, Zenon DEF PagesInv, PriceOk
    <2>2. CASE p = "buy"
      <3>1. press'["buy"] = x /\ x.pc = "prepare"
        BY <1>2, <1>3, <1>4, <2>2
      <3>2. x.item = c.id /\ c.mid = NoMerchant => FairFor(c, press["buy"])'
        BY <1>1, <1>2, <2>2, <3>1, Zenon DEF FairFor
      <3>3. x.shown = x.amount /\ "prepare" \notin {"sign", "submit"}
        BY <1>2
      <3> QED BY <2>1, <3>1, <3>2, <3>3, Zenon
    <2>3. CASE p # "buy"
      <3>1. press'["buy"] = press["buy"]
        BY <1>4, <2>3, Zenon DEF Tabs
      <3>2. FairFor(c, press["buy"]) => FairFor(c, press["buy"])'
        BY <1>1, <3>1, Zenon DEF FairFor
      <3> QED BY <2>1, <3>1, <3>2, Zenon DEF PagesInv, PriceOk
    <2> QED BY <2>2, <2>3
  <1>8. CountOk'
    <2>1. item \in Items
      BY ItemFacts, Zenon
    <2>2. tries' \in [Items -> Nat] /\ tries'[item] = tries[item] + 1 /\ (\A i \in Items \ {item} : tries'[i] = tries[i])
      <3>1. tries \in [Items -> Nat]
        BY Zenon DEF PagesInv, CountOk
      <3>2. tries' = [tries EXCEPT ![item] = tries[item] + 1]
        BY <1>1
      <3> QED BY <2>1, <3>1, <3>2, OneMore, Zenon
    <2>3. ASSUME NEW i \in Items PROVE Cardinality(moves[i]) + Pending(i)' <= tries'[i]
      <3>1. /\ Pending(i) \in Nat /\ Pending(i)' \in Nat
            /\ Pending(i)' = Pending(i) - Pend(press[p], i) + Pend(x, i)
        BY <1>4, PendingChange
      <3>2. Pend(press[p], i) = 0 /\ Pend(x, i) \in {0, 1} /\ (i # item => Pend(x, i) = 0)
        BY <1>1, <1>2 DEF Pend, Pends
      <3>3. Cardinality(moves[i]) \in Nat /\ Cardinality(moves[i]) + Pending(i) <= tries[i]
        BY FS_CardinalityType DEF PagesInv, CountOk
      <3>4. tries[i] \in Nat /\ tries'[i] = IF i = item THEN tries[i] + 1 ELSE tries[i]
        BY <2>2 DEF PagesInv, CountOk
      <3> QED BY <3>1, <3>2, <3>3, <3>4
    <2> QED BY <1>1, <2>2, <2>3, Zenon DEF PagesInv, CountOk
  <1>9. TicketOk'
    <2>1. x.pc \notin {"paying", "marking"} /\ press[p].pc # "marking" /\ crossed \subseteq crossed'
          /\ UNCHANGED <<used, moves>>
      BY <1>1, <1>2, <1>3
    <2> QED BY <1>4, <2>1, TicketsRest, Zenon
  <1> QED BY <1>4, <1>5, <1>6, <1>7, <1>8, <1>9 DEF PagesInv

\* Money moves, if what is redeemed stays in order.
LEMMA PaidKeeps ==
    ASSUME PagesInv, ReadsOk', TicketOk', crossed \subseteq crossed', UNCHANGED tries,
           NEW p \in Tabs, NEW x, Shaped(x), Becomes(p, x), Move(p), WorkOk(x),
           x.pc \in {"poll", "result", "error", "marking"}, x.item = press[p].item, x.kind = press[p].kind,
           press[p].pc \in {"submit", "paying"}
    PROVE  PagesInv'
  <1> DEFINE item == press[p].item
  <1>0. PICK m : m = [n |-> Cardinality(moves[item]) + 1, kind |-> press[p].kind, amount |-> press[p].amount,
                      cur |-> press[p].cur, shown |-> press[p].shown, at |-> press[p].at]
    BY Zenon
  <1>1. press'[p] = x /\ (\A q \in Tabs \ {p} : press'[q] = press[q]) /\ ShapesOk'
    BY BecomesFacts, Zenon DEF PagesInv
  <1>2. press[p].pc # "idle" /\ item \in ItemsOf(p) /\ press[p].kind \in KindsOf(p) /\ item \in Items
    <2>1. press[p].pc # "idle"
      OBVIOUS
    <2> QED BY <2>1, ItemFacts, Zenon DEF PagesInv, PressOk
  <1>3. m.shown = press[p].shown /\ m.amount = press[p].amount /\ m.cur = press[p].cur /\ m.at = press[p].at
    BY <1>0
  <1>4. moves'[item] = moves[item] \cup {m} /\ (\A i \in Items \ {item} : moves'[i] = moves[i])
        /\ moves' = [i \in Items |-> moves'[i]]
    <2>1. moves' = [moves EXCEPT ![item] = moves[item] \cup {m}]
      BY <1>0, Zenon DEF Move
    <2>2. moves = [i \in Items |-> moves[i]]
      BY DEF PagesInv, CountOk
    <2> HIDE DEF item
    <2> QED BY <1>2, <2>1, <2>2
  <1>6. PressOk'
    <2> SUFFICES ASSUME NEW q \in Tabs, press'[q].pc # "idle"
                 PROVE  press'[q].item \in ItemsOf(q) /\ press'[q].kind \in KindsOf(q) /\ WorkOk(press'[q])
      BY Zenon DEF PressOk, WorkOk
    <2>1. CASE q = p
      BY <1>1, <1>2, <2>1, Zenon
    <2>2. CASE q # p
      BY <1>1, <2>2, Zenon DEF PagesInv, PressOk
    <2> QED BY <2>1, <2>2
  <1>7. PriceOk'
    <2> SUFFICES ASSUME NEW c \in Charges
                 PROVE  /\ \A n \in moves'[c.id] : FairFor(c, n)'
                        /\ press'["buy"].pc \in {"sign", "submit"} /\ press'["buy"].item = c.id => FairFor(c, press["buy"])'
                        /\ press'["buy"].pc = "prepare" /\ press'["buy"].item = c.id =>
                              /\ press'["buy"].shown = press'["buy"].amount
                              /\ c.mid = NoMerchant => FairFor(c, press["buy"])'
      BY Zenon DEF PriceOk
    <2>1. \A n \in moves[c.id] : FairFor(c, n)'
      BY FairMoves, Zenon DEF PagesInv, PriceOk
    <2>2. CASE c.id = item
      <3>1. p = "buy"
        BY <1>2, <2>2, ItemFacts, Zenon
      <3>2. press[p].pc = "submit"
        <4>1. press[p].kind = "purchase"
          BY <1>2, <3>1 DEF KindsOf
        <4>2. WorkOk(press[p])
          BY <1>2, Zenon DEF PagesInv, PressOk
        <4> QED BY <4>1, <4>2 DEF WorkOk
      <3>3. FairFor(c, press["buy"])
        BY <2>2, <3>1, <3>2 DEF PagesInv, PriceOk
      <3>4. FairFor(c, m)'
        <4>1. /\ m.shown = press["buy"].shown /\ m.amount = press["buy"].amount
              /\ m.cur = press["buy"].cur /\ m.at = press["buy"].at
          BY <1>3, <3>1
        <4>2. FairFor(c, m)
          BY <3>3, <4>1, Zenon DEF FairFor
        <4> QED BY <4>2, Zenon DEF FairFor
      <3>5. \A n \in moves'[c.id] : FairFor(c, n)'
        BY <1>4, <2>1, <2>2, <3>4, Zenon
      <3>6. press'["buy"].pc \notin {"sign", "submit", "prepare"}
        BY <1>1, <3>1
      <3> QED BY <3>5, <3>6
    <2>3. CASE c.id # item
      <3>1. moves'[c.id] = moves[c.id]
        BY <1>4, <2>3, ItemFacts, Zenon
      <3>2. CASE p = "buy"
        <4>1. press'["buy"].pc \notin {"sign", "submit", "prepare"}
          BY <1>1, <3>2
        <4> QED BY <2>1, <3>1, <4>1
      <3>3. CASE p # "buy"
        <4>1. press'["buy"] = press["buy"]
          BY <1>1, <3>3, Zenon DEF Tabs
        <4>2. FairFor(c, press["buy"]) => FairFor(c, press["buy"])'
          BY <4>1, Zenon DEF FairFor
        <4> QED BY <2>1, <3>1, <4>1, <4>2, Zenon DEF PagesInv, PriceOk
      <3> QED BY <3>2, <3>3
    <2> QED BY <2>2, <2>3
  <1>8. CountOk'
    <2>1. ASSUME NEW i \in Items
          PROVE  IsFiniteSet(moves'[i]) /\ Cardinality(moves'[i]) + Pending(i)' <= tries[i]
      <3>1. /\ Pending(i) \in Nat /\ Pending(i)' \in Nat
            /\ Pending(i)' = Pending(i) - Pend(press[p], i) + Pend(x, i)
        BY <1>1, PendingChange
      <3>2. Pend(x, i) = 0 /\ Pend(press[p], i) = IF i = item THEN 1 ELSE 0
        BY DEF Pend, Pends
      <3>3. IsFiniteSet(moves[i]) /\ Cardinality(moves[i]) \in Nat /\ tries[i] \in Nat
            /\ Cardinality(moves[i]) + Pending(i) <= tries[i]
        BY FS_CardinalityType DEF PagesInv, CountOk
      <3>4. CASE i = item
        <4>1. IsFiniteSet(moves'[i]) /\ Cardinality(moves'[i]) \in {Cardinality(moves[i]), Cardinality(moves[i]) + 1}
          <5>1. moves'[i] = moves[i] \cup {m}
            BY <1>4, <3>4, Zenon
          <5>2. IsFiniteSet(moves[i])
            BY <3>3
          <5>3. /\ IsFiniteSet(moves[i] \cup {m})
                /\ Cardinality(moves[i] \cup {m}) = IF m \in moves[i] THEN Cardinality(moves[i]) ELSE Cardinality(moves[i]) + 1
            BY <5>2, FS_AddElement
          <5> QED BY <5>1, <5>3
        <4> QED BY <3>1, <3>2, <3>3, <3>4, <4>1
      <3>5. CASE i # item
        <4>1. moves'[i] = moves[i]
          BY <1>4, <3>5, Zenon
        <4> QED BY <3>1, <3>2, <3>3, <3>5, <4>1
      <3> QED BY <3>4, <3>5
    <2> QED BY <1>4, <2>1, Zenon DEF PagesInv, CountOk
  <1> QED BY <1>1, <1>6, <1>7, <1>8 DEF PagesInv

\* A press that ends or has only its outcome to wait for.
LEMMA TurnDone ==
    ASSUME PagesInv, NEW p \in Tabs, NEW pc \in {"error", "result", "held", "poll"}, Turned(p, pc),
           press[p].pc \notin {"idle", "marking"}, UNCHANGED <<buy, quotes, pay, voucher, fx, used, moves, tries, crossed>>
    PROVE  PagesInv'
  <1>0. ShapesOk
    BY DEF PagesInv
  <1>1. PICK x : /\ Shaped(x) /\ Becomes(p, x) /\ x.pc = pc
                 /\ x.kind = press[p].kind /\ x.item = press[p].item /\ x.amount = press[p].amount
                 /\ x.cur = press[p].cur /\ x.shown = press[p].shown /\ x.at = press[p].at
    <2>1. \E x : TurnsInto(p, pc, x)
      BY <1>0, TurnedFacts, Zenon
    <2> QED BY <2>1, Zenon DEF TurnsInto
  <1>2. x.pc \notin {"idle", "prepare", "sign", "submit", "paying", "marking"} /\ press[p].pc # "idle"
    BY <1>1
  <1>3. x.item \in ItemsOf(p) /\ x.kind \in KindsOf(p)
    BY <1>1, <1>2, Zenon DEF PagesInv, PressOk
  <1>4. \A i \in Items : ~Pends(x, i)
    BY <1>2 DEF Pends
  <1>5. ReadsOk' /\ crossed \subseteq crossed' /\ UNCHANGED <<used, moves, tries>>
    BY Zenon DEF PagesInv, ReadsOk
  <1>6. x.pc \notin {"paying", "marking"} /\ x.pc # "prepare" /\ x.pc \notin {"sign", "submit"}
        /\ press[p].pc # "marking"
    BY <1>2
  <1> QED BY <1>1, <1>3, <1>4, <1>5, <1>6, TurnKeeps, Zenon

LEMMA OneCharge ==
    ASSUME NEW c \in Charges, NEW p, press[p].item = c.id
    PROVE  ChargeOf(p) = c
  <1>1. \A d \in Charges : d.id = press[p].item => d = c
    BY PagesAssumption, Zenon
  <1> QED BY <1>1, Zenon DEF ChargeOf

\* The server's price of a charge is a number.
LEMMA PriceNumber ==
    ASSUME NEW c \in Charges, NEW cur, fx \in FxRates
    PROVE  ComputePayFromCharge(c, cur) \in Int
  <1>1. c.amount \in Nat
    BY PagesAssumption
  <1>2. fx \in Nat /\ fx > 0
    BY PagesAssumption
  <1>3. CeilDiv(c.amount, fx) \in Int
    BY <1>1, <1>2 DEF CeilDiv
  <1> QED BY <1>1, <1>3 DEF ComputePayFromCharge

\* The fields that Priced sets.
LEMMA PricedRecord ==
    ASSUME NEW y, Shaped(y), NEW v, NEW r
    PROVE  [y EXCEPT !.pc = "sign", !.amount = v, !.at = r]
             = [pc |-> "sign", kind |-> y.kind, item |-> y.item, amount |-> v, cur |-> y.cur,
                shown |-> y.shown, at |-> r]
  <1> DEFINE z == [pc |-> "sign", kind |-> y.kind, item |-> y.item, amount |-> y.amount, cur |-> y.cur,
                   shown |-> y.shown, at |-> y.at]
             w == [pc |-> "sign", kind |-> y.kind, item |-> y.item, amount |-> v, cur |-> y.cur,
                   shown |-> y.shown, at |-> y.at]
  <1>1. [y EXCEPT !.pc = "sign"] = z
    BY DEF Shaped
  <1>2. [z EXCEPT !.amount = v] = w
    OBVIOUS
  <1>3. [w EXCEPT !.at = r] = [pc |-> "sign", kind |-> y.kind, item |-> y.item, amount |-> v, cur |-> y.cur,
                               shown |-> y.shown, at |-> r]
    OBVIOUS
  <1> HIDE DEF z, w
  <1> QED BY <1>1, <1>2, <1>3, Zenon

LEMMA PrepareKeeps ==
    ASSUME PagesInv, NEW p \in Tabs, PreparePress(p)
    PROVE  PagesInv'
  <1> DEFINE y == press[p]
  <1>1. /\ y.pc = "prepare" /\ UNCHANGED <<buy, quotes, pay, voucher, fx, used, moves, tries, crossed>>
        /\ Shaped(y) /\ y.item \in ItemsOf(p) /\ y.kind \in KindsOf(p) /\ fx \in FxRates
        /\ y.pc \notin {"idle", "marking"}
    <2>1. y.pc = "prepare"
      BY Zenon DEF PreparePress
    <2>2. y.pc # "idle" /\ y.pc \notin {"idle", "marking"}
      BY <2>1
    <2>3. UNCHANGED <<buy, quotes, pay, voucher, fx, used, moves, tries, crossed>>
      BY DEF PreparePress, reads, server, notes
    <2> QED BY <2>1, <2>2, <2>3, Zenon DEF PagesInv, ShapesOk, PressOk, ReadsOk
  <1>2. ReadsOk' /\ crossed \subseteq crossed' /\ UNCHANGED <<used, moves, tries>>
    BY <1>1, Zenon DEF PagesInv, ReadsOk
  <1>3. CASE Turned(p, "error")
    BY <1>1, <1>3, TurnDone
  <1>4. CASE y.kind = "withdraw" /\ press' = [press EXCEPT ![p].kind = "transfer"]
    <2> DEFINE x == [pc |-> y.pc, kind |-> "transfer", item |-> y.item, amount |-> y.amount, cur |-> y.cur,
                     shown |-> y.shown, at |-> y.at]
    <2>1. p = "pay"
      BY <1>1, <1>4 DEF KindsOf
    <2>2. Becomes(p, x)
      <3>1. press' = [press EXCEPT ![p] = [y EXCEPT !.kind = "transfer"]]
        BY <1>4 DEF PagesInv, ShapesOk
      <3>2. [y EXCEPT !.kind = "transfer"] = x
        <4> HIDE DEF y
        <4> QED BY <1>1 DEF Shaped
      <3> QED BY <3>1, <3>2, Zenon DEF Becomes
    <2>3. x.pc = "prepare" /\ x.kind = "transfer" /\ x.item = y.item /\ Shaped(x)
      BY <1>1 DEF Shaped
    <2> HIDE DEF x
    <2>4. x.kind \in KindsOf(p) /\ p # "buy" /\ x.pc \notin {"paying", "marking"} /\ press[p].pc # "marking"
      BY <1>1, <2>1, <2>3 DEF KindsOf
    <2>5. \A i \in Items : Pends(x, i) => Pends(press[p], i)
      BY <1>1, <2>3 DEF Pends
    <2> QED BY <1>1, <1>2, <2>2, <2>3, <2>4, <2>5, TurnKeeps, Zenon
  <1>5. CASE (y.kind = "purchase" => ResolveMerchantCheckout(p)) /\ Priced(p)
    <2> DEFINE x == [pc |-> "sign", kind |-> y.kind, item |-> y.item, amount |-> ServerPrice(p), cur |-> y.cur,
                     shown |-> y.shown, at |-> fx]
    <2>1. Becomes(p, x)
      <3>1. press' = [press EXCEPT ![p] = [y EXCEPT !.pc = "sign", !.amount = ServerPrice(p), !.at = fx]]
        BY <1>5 DEF Priced, PagesInv, ShapesOk
      <3>2. [y EXCEPT !.pc = "sign", !.amount = ServerPrice(p), !.at = fx] = x
        BY <1>1, PricedRecord, Zenon
      <3> QED BY <3>1, <3>2, Zenon DEF Becomes
    <2>2. /\ x.pc = "sign" /\ x.kind = y.kind /\ x.item = y.item /\ x.amount = ServerPrice(p) /\ x.cur = y.cur
          /\ x.shown = y.shown /\ x.at = fx /\ Shaped(x)
      BY DEF Shaped
    <2> HIDE DEF x
    <2>3. \A i \in Items : Pends(x, i) => Pends(press[p], i)
      BY <1>1, <2>2 DEF Pends
    <2>4. ASSUME p = "buy", NEW c \in Charges, x.item = c.id PROVE FairFor(c, x)
      <3>1. y.kind = "purchase" /\ ChargeOf(p) = c
        BY <1>1, <2>2, <2>4, OneCharge DEF KindsOf
      <3>2. CASE c.mid # NoMerchant
        <4> DEFINE price == ComputePayFromCharge(c, y.cur)
        <4>1. Quotable(c, y.cur) /\ y.amount \in price - Slack .. price + Slack
          BY <1>5, <3>1, <3>2, Zenon DEF ResolveMerchantCheckout
        <4>2. x.amount = price
          BY <2>2, <3>1, <3>2, Zenon DEF ServerPrice
        <4>3. price \in Int /\ Slack \in Nat
          BY <1>1, PriceNumber, PagesAssumption
        <4>4. price = PriceAt(c, x.cur, x.at)
          BY <2>2, Zenon DEF ComputePayFromCharge, PriceAt
        <4>5. y.shown = y.amount
          BY <1>1, <2>2, <2>4, Zenon DEF PagesInv, PriceOk
        <4> HIDE DEF price
        <4>6. x.shown \in x.amount - Slack .. x.amount + Slack
          BY <2>2, <4>1, <4>2, <4>5
        <4> QED BY <2>2, <3>2, <4>1, <4>2, <4>4, <4>6, Zenon DEF FairFor
      <3>3. CASE c.mid = NoMerchant
        <4>1. FairFor(c, y)
          BY <1>1, <2>2, <2>4, <3>3, Zenon DEF PagesInv, PriceOk
        <4>2. x.amount = y.amount /\ x.cur = y.cur
          BY <2>2, <3>1, <3>3, Zenon DEF ServerPrice
        <4> QED BY <3>3, <4>1, <4>2, Zenon DEF FairFor
      <3> QED BY <3>2, <3>3
    <2>5. x.pc \notin {"paying", "marking"} /\ x.pc # "prepare" /\ press[p].pc # "marking"
      BY <1>1, <2>2
    <2> QED BY <1>1, <1>2, <2>1, <2>2, <2>3, <2>4, <2>5, TurnKeeps, Zenon
  <1> QED BY <1>3, <1>4, <1>5, Zenon DEF PreparePress

LEMMA SignKeeps ==
    ASSUME PagesInv, NEW p \in Tabs, SignPress(p)
    PROVE  PagesInv'
  <1>1. press[p].pc = "sign" /\ UNCHANGED <<buy, quotes, pay, voucher, fx, used, moves, tries, crossed>>
    BY DEF SignPress, reads, server, notes
  <1>2. PICK pc \in {"submit", "error"} : Turned(p, pc)
    BY Zenon DEF SignPress
  <1>3. CASE pc = "error"
    <2>1. press[p].pc \notin {"idle", "marking"} /\ pc \in {"error", "result", "held", "poll"}
      BY <1>1, <1>3
    <2> QED BY <1>1, <1>2, <2>1, TurnDone, Zenon
  <1>4. CASE pc = "submit"
    <2>0. ShapesOk
      BY DEF PagesInv
    <2>1. PICK x : /\ Shaped(x) /\ Becomes(p, x) /\ x.pc = pc
                   /\ x.kind = press[p].kind /\ x.item = press[p].item /\ x.amount = press[p].amount
                   /\ x.cur = press[p].cur /\ x.shown = press[p].shown /\ x.at = press[p].at
      <3>1. \E x : TurnsInto(p, pc, x)
        BY <1>2, <2>0, TurnedFacts, Zenon
      <3> QED BY <3>1, Zenon DEF TurnsInto
    <2>2. x.pc = "submit" /\ x.pc \notin {"paying", "marking"} /\ x.pc # "prepare" /\ press[p].pc # "idle"
          /\ press[p].pc # "marking"
      BY <1>1, <1>4, <2>1
    <2>3. x.item \in ItemsOf(p) /\ x.kind \in KindsOf(p)
      BY <2>1, <2>2, Zenon DEF PagesInv, PressOk
    <2>4. \A i \in Items : Pends(x, i) => Pends(press[p], i)
      BY <1>1, <2>1 DEF Pends
    <2>5. ASSUME p = "buy", NEW c \in Charges, x.item = c.id PROVE FairFor(c, x)
      <3>1. press["buy"].pc \in {"sign", "submit"} /\ press["buy"].item = c.id
        BY <1>1, <2>1, <2>5
      <3>2. FairFor(c, press[p])
        BY <2>5, <3>1, Zenon DEF PagesInv, PriceOk
      <3> QED BY <2>1, <3>2, Zenon DEF FairFor
    <2>6. ReadsOk' /\ crossed \subseteq crossed' /\ UNCHANGED <<used, moves, tries>>
      BY <1>1, Zenon DEF PagesInv, ReadsOk
    <2> QED BY <2>1, <2>2, <2>3, <2>4, <2>5, <2>6, TurnKeeps, Zenon
  <1> QED BY <1>2, <1>3, <1>4

\* What a press of one page does to its own record, with its fields kept.
LEMMA TurnedInto ==
    ASSUME PagesInv, NEW p \in Tabs, NEW pc, Turned(p, pc), press[p].pc # "idle"
    PROVE  \E x : /\ TurnsInto(p, pc, x) /\ press'[p] = x /\ (\A q \in Tabs \ {p} : press'[q] = press[q])
                  /\ x.item \in ItemsOf(p) /\ x.kind \in KindsOf(p)
  <1>1. ShapesOk
    BY DEF PagesInv
  <1>2. PICK x : TurnsInto(p, pc, x)
    BY <1>1, TurnedFacts, Zenon
  <1>3. press'[p] = x /\ \A q \in Tabs \ {p} : press'[q] = press[q]
    BY <1>1, <1>2, BecomesFacts, Zenon DEF TurnsInto
  <1>4. x.item \in ItemsOf(p) /\ x.kind \in KindsOf(p)
    BY <1>2, Zenon DEF TurnsInto, PagesInv, PressOk
  <1> QED BY <1>2, <1>3, <1>4, Zenon

LEMMA OneMove ==
    ASSUME PagesInv, NEW p \in Tabs, Move(p), press[p].item \in Items
    PROVE  /\ \A i \in Items : i # press[p].item => moves'[i] = moves[i]
           /\ moves[press[p].item] = {} => moves'[press[p].item] # {} /\ Cardinality(moves'[press[p].item]) <= 1
  <1> DEFINE item == press[p].item
  <1>1. PICK m : moves' = [moves EXCEPT ![item] = @ \cup {m}]
    BY Zenon DEF Move
  <1>2. moves = [i \in Items |-> moves[i]]
    BY DEF PagesInv, CountOk
  <1> HIDE DEF item
  <1>3. moves'[item] = moves[item] \cup {m} /\ \A i \in Items : i # item => moves'[i] = moves[i]
    BY <1>1, <1>2 DEF item
  <1>4. Cardinality({m}) <= 1
    <2>1. Cardinality({m}) = 1
      BY FS_Singleton
    <2> QED BY <2>1
  <1>5. ASSUME moves[item] = {} PROVE moves'[item] = {m}
    BY <1>3, <1>5
  <1> QED BY <1>3, <1>4, <1>5, Zenon DEF item

LEMMA SubmitKeeps ==
    ASSUME PagesInv, NEW p \in Tabs, SubmitPress(p)
    PROVE  PagesInv'
  <1>1. /\ press[p].pc = "submit" /\ press[p].kind \notin {"ticket", "code"} /\ press[p].pc \notin {"idle", "marking"}
        /\ press[p].pc # "idle" /\ UNCHANGED <<buy, quotes, pay, voucher, fx, used, tries, crossed>>
    BY DEF SubmitPress, reads
  <1>2. CASE Turned(p, "error") /\ moves' = moves
    <2>1. UNCHANGED <<buy, quotes, pay, voucher, fx, used, moves, tries, crossed>>
      BY <1>1, <1>2
    <2> QED BY <1>1, <1>2, <2>1, TurnDone
  <1>3. CASE Paid(p) /\ Answered(p)
    <2>1. PICK pc \in {"poll", "result", "error"} : Turned(p, pc)
      BY <1>3 DEF Answered
    <2>2. PICK x : /\ TurnsInto(p, pc, x) /\ press'[p] = x /\ (\A q \in Tabs \ {p} : press'[q] = press[q])
                   /\ x.item \in ItemsOf(p) /\ x.kind \in KindsOf(p)
      BY <1>1, <2>1, TurnedInto, Zenon
    <2>3. /\ Move(p) /\ x.pc = pc /\ x.item = press[p].item /\ x.kind = press[p].kind /\ Shaped(x) /\ Becomes(p, x)
          /\ crossed \subseteq crossed' /\ UNCHANGED <<used, tries>> /\ ReadsOk' /\ press[p].item \in Items
      <3>1. press[p].item \in Items
        BY <2>2, ItemFacts, Zenon DEF TurnsInto
      <3> QED BY <1>1, <1>3, <2>2, <3>1, Zenon DEF Paid, TurnsInto, PagesInv, ReadsOk
    <2>4. x.pc \in {"poll", "result", "error", "marking"} /\ x.pc \notin {"paying", "marking"} /\ WorkOk(x)
      BY <2>3 DEF WorkOk
    <2>5. x.item \notin Tickets \cup Codes
      <3>1. p \notin {"receive", "claim", "topup"}
        BY <1>1, <2>2, <2>3 DEF KindsOf
      <3> QED BY <2>2, <3>1, ItemFacts, Zenon
    <2>6. \A i \in Items : i # x.item => moves'[i] = moves[i] /\ (i \in used' <=> i \in used)
      BY <2>3, OneMove, Zenon
    <2>7. TicketOk'
      BY <2>2, <2>3, <2>5, <2>6, TicketsKeep, Zenon
    <2>8. press[p].pc \in {"submit", "paying"}
      BY <1>1
    <2> QED BY <2>3, <2>4, <2>7, <2>8, PaidKeeps, Zenon
  <1> QED BY <1>2, <1>3, Zenon DEF SubmitPress

LEMMA LookKeeps ==
    ASSUME PagesInv, NEW p \in Tabs, LookAtTicket(p)
    PROVE  PagesInv'
  <1>1. /\ press[p].pc = "submit" /\ press[p].kind = "ticket" /\ press[p].pc # "idle"
        /\ UNCHANGED <<buy, quotes, pay, voucher, fx, used, moves, tries>>
    BY DEF LookAtTicket, reads, server
  <1>2. PICK pc : Turned(p, pc) /\ pc = IF press[p].item \in used THEN "error" ELSE "paying"
    BY Zenon DEF LookAtTicket
  <1>3. PICK x : /\ TurnsInto(p, pc, x) /\ press'[p] = x /\ (\A q \in Tabs \ {p} : press'[q] = press[q])
                 /\ x.item \in ItemsOf(p) /\ x.kind \in KindsOf(p)
    BY <1>1, <1>2, TurnedInto, Zenon
  <1>4. x.pc = pc /\ x.item = press[p].item /\ x.kind = press[p].kind /\ Shaped(x) /\ Becomes(p, x)
    BY <1>3, Zenon DEF TurnsInto
  <1>5. p \notin {"buy", "topup"} /\ x.item \in Tickets
    <2>1. p \in {"receive", "claim"}
      BY <1>1, <1>3, <1>4 DEF KindsOf, Tabs
    <2> QED BY <1>3, <2>1 DEF ItemsOf
  <1>6. /\ crossed \subseteq crossed' /\ crossed' \subseteq crossed \cup {x.item}
        /\ \A o \in Tabs : Working(o, x.item) => x.item \in crossed'
    <2>1. IF \E o \in Tabs : Working(o, x.item) THEN crossed' = crossed \cup {x.item} ELSE crossed' = crossed
      BY <1>4, Zenon DEF LookAtTicket, Strays
    <2> QED BY <2>1
  <1>7. crossed' \cap Codes = {}
    <2>1. x.item \notin Codes /\ crossed \cap Codes = {}
      BY <1>5, ItemFacts DEF PagesInv, ReadsOk
    <2> QED BY <1>6, <2>1
  <1>8. ReadsOk'
    BY <1>1, <1>6, <1>7, Zenon DEF PagesInv, ReadsOk
  <1>9. TicketOk'
    <2>1. ASSUME x.item \in (Tickets \cup Codes) \ crossed' PROVE TicketFine(x.item)'
      <3> DEFINE i == x.item
      <3>1. i \in (Tickets \cup Codes) \ crossed /\ i \notin Codes
        BY <1>5, <1>6, <2>1, ItemFacts
      <3>2. TicketFine(i)
        BY <3>1, Zenon DEF PagesInv, TicketOk
      <3>3. \A o \in Tabs : ~Working(o, i) /\ ~BeingMarked(o, i)
        <4>1. \A o \in Tabs : ~Working(o, i)
          BY <1>6, <2>1, Zenon
        <4> QED BY <4>1 DEF Working, BeingMarked
      <3>4. \A o \in Tabs : Working(o, i)' => o = p /\ pc = "paying"
        <4>1. ASSUME NEW o \in Tabs, Working(o, i)' PROVE o = p
          BY <1>3, <3>3, <4>1, Zenon DEF Working
        <4>2. pc \in {"error", "paying"}
          BY <1>2
        <4>3. Working(p, i)' => pc \in {"paying", "marking"}
          BY <1>3, <1>4, Zenon DEF Working
        <4> QED BY <4>1, <4>2, <4>3
      <3>5. pc = "paying" => i \notin used
        BY <1>2, <1>4
      <3>6. moves[i] # {} => i \in used
        BY <3>2, <3>3, Zenon DEF TicketFine
      <3>7. UNCHANGED <<used, moves>>
        BY <1>1
      <3> HIDE DEF i
      <3>8. TicketFine(i)'
        BY <3>1, <3>2, <3>4, <3>5, <3>6, <3>7, Zenon DEF TicketFine
      <3> QED BY <3>8 DEF i
    <2>2. \A i \in Items : i # x.item => moves'[i] = moves[i] /\ (i \in used' <=> i \in used)
      BY <1>1
    <2> QED BY <1>3, <1>4, <1>6, <2>1, <2>2, TicketsKeep, Zenon
  <1>10. \A i \in Items : Pends(x, i) => Pends(press[p], i)
    BY <1>1, <1>4 DEF Pends
  <1>11. WorkOk(x) /\ p # "buy" /\ UNCHANGED <<moves, tries>>
    BY <1>1, <1>2, <1>4, <1>5 DEF WorkOk
  <1> QED BY <1>3, <1>4, <1>6, <1>8, <1>9, <1>10, <1>11, StepKeeps, Zenon

\* A presentation that is being redeemed belongs to Receive, Claim or TopUp.
LEMMA WorkingFacts ==
    ASSUME PagesInv, NEW p \in Tabs, press[p].pc \in {"paying", "marking"}
    PROVE  /\ press[p].item \in Tickets \cup Codes /\ press[p].item \in Items /\ p # "buy"
           /\ press[p].kind = "ticket" => press[p].item \in Tickets /\ press[p].item \notin Codes
           /\ press[p].kind = "code" => press[p].item \in Codes
           /\ Working(p, press[p].item) /\ (press[p].pc = "paying" => Paying(p, press[p].item))
           /\ press[p].pc = "marking" => press[p].kind = "ticket"
  <1>1. press[p].item \in ItemsOf(p) /\ press[p].kind \in KindsOf(p) /\ WorkOk(press[p])
    <2>1. press[p].pc # "idle"
      OBVIOUS
    <2> QED BY <2>1, Zenon DEF PagesInv, PressOk
  <1>2. press[p].kind \in {"ticket", "code"} /\ (press[p].pc = "marking" => press[p].kind = "ticket")
    BY <1>1 DEF WorkOk
  <1>3. /\ p \in {"receive", "claim", "topup"} /\ (press[p].kind = "code" => p = "topup")
        /\ press[p].kind = "ticket" => p # "topup"
    BY <1>1, <1>2 DEF KindsOf, Tabs
  <1>4. /\ press[p].kind = "ticket" => press[p].item \in Tickets
        /\ press[p].kind = "code" => press[p].item \in Codes
    BY <1>1, <1>3 DEF ItemsOf
  <1>5. Working(p, press[p].item) /\ (press[p].pc = "paying" => Paying(p, press[p].item))
    BY DEF Working, Paying
  <1> QED BY <1>2, <1>3, <1>4, <1>5, ItemFacts

\* A press that ends leaves nothing at work on its item, when it was alone.
LEMMA WorkEnds ==
    ASSUME PagesInv, NEW p \in Tabs, NEW x, press'[p] = x, \A q \in Tabs \ {p} : press'[q] = press[q],
           x.pc \notin {"paying", "marking"}, NEW i, \A o \in Tabs : Working(o, i) => o = p
    PROVE  \A o \in Tabs : ~Working(o, i)'
  <1> TAKE o \in Tabs
  <1>1. CASE o = p
    BY <1>1 DEF Working
  <1>2. CASE o # p
    BY <1>2, Zenon DEF Working
  <1> QED BY <1>1, <1>2

\* A step that leaves an item unmarked says so.
LEMMA StraysOk ==
    ASSUME PagesInv, NEW p \in Tabs, press[p].item \in Tickets, Strays(p), UNCHANGED <<buy, quotes, pay, voucher, fx>>
    PROVE  ReadsOk' /\ crossed \subseteq crossed' /\ press[p].item \in crossed'
  <1>1. crossed \subseteq crossed' /\ press[p].item \in crossed'
    BY DEF Strays
  <1>2. crossed' \cap Codes = {}
    BY ItemFacts DEF Strays, PagesInv, ReadsOk
  <1> QED BY <1>1, <1>2, Zenon DEF PagesInv, ReadsOk

LEMMA PayTicketKeeps ==
    ASSUME PagesInv, NEW p \in Tabs, PayTicket(p)
    PROVE  PagesInv'
  <1>1. /\ press[p].pc = "paying" /\ press[p].kind = "ticket" /\ press[p].pc \notin {"idle", "marking"}
        /\ press[p].pc # "idle" /\ press[p].pc \in {"paying", "marking"} /\ press[p].pc \in {"submit", "paying"}
        /\ UNCHANGED <<buy, quotes, pay, voucher, fx, used, tries>>
    BY DEF PayTicket, reads
  <1>2. CASE Turned(p, "error") /\ moves' = moves /\ crossed' = crossed
    <2>1. UNCHANGED <<buy, quotes, pay, voucher, fx, used, moves, tries, crossed>>
      BY <1>1, <1>2
    <2> QED BY <1>1, <1>2, <2>1, TurnDone
  <1>3. ASSUME Paid(p), NEW pc \in {"marking", "error"}, Turned(p, pc),
               \/ pc = "marking" /\ crossed' = crossed
               \/ Strays(p)
        PROVE  PagesInv'
    <2>1. PICK x : /\ TurnsInto(p, pc, x) /\ press'[p] = x /\ (\A q \in Tabs \ {p} : press'[q] = press[q])
                   /\ x.item \in ItemsOf(p) /\ x.kind \in KindsOf(p)
      BY <1>1, <1>3, TurnedInto, Zenon
    <2>2. x.pc = pc /\ x.item = press[p].item /\ x.kind = press[p].kind /\ Shaped(x) /\ Becomes(p, x) /\ Move(p)
      BY <1>3, <2>1, Zenon DEF TurnsInto, Paid
    <2>3. /\ x.item \in Tickets /\ x.item \in Items /\ x.item \notin Codes
          /\ Working(p, x.item) /\ Paying(p, x.item)
      BY <1>1, <2>2, WorkingFacts
    <2>4. ReadsOk' /\ crossed \subseteq crossed' /\ (pc # "marking" => x.item \in crossed')
      <3>1. CASE Strays(p)
        BY <1>1, <2>2, <2>3, <3>1, StraysOk
      <3>2. CASE pc = "marking" /\ crossed' = crossed
        BY <1>1, <3>2, Zenon DEF PagesInv, ReadsOk
      <3> QED BY <1>3, <3>1, <3>2
    <2>5. /\ \A i \in Items : i # x.item => moves'[i] = moves[i] /\ (i \in used' <=> i \in used)
          /\ moves[x.item] = {} => moves'[x.item] # {} /\ Cardinality(moves'[x.item]) <= 1
      BY <1>1, <2>2, <2>3, OneMove
    <2>6. ASSUME x.item \in (Tickets \cup Codes) \ crossed' PROVE TicketFine(x.item)'
      <3> DEFINE i == x.item
      <3>1. TicketFine(i) /\ pc = "marking" /\ i \notin Codes /\ Working(p, i) /\ Paying(p, i)
        BY <2>3, <2>4, <2>6, Zenon DEF PagesInv, TicketOk
      <3>2. moves[i] = {} /\ \A o \in Tabs : Working(o, i) => o = p
        BY <3>1, Zenon DEF TicketFine
      <3>3. Cardinality(moves'[i]) <= 1
        BY <2>5, <3>2
      <3>4. BeingMarked(p, i)'
        BY <2>1, <2>2, <3>1 DEF BeingMarked
      <3>5. \A o \in Tabs : Working(o, i)' => o = p
        BY <2>1, <3>2, Zenon DEF Working
      <3>6. ~Paying(p, i)'
        BY <2>1, <2>2, <3>1 DEF Paying
      <3> HIDE DEF i
      <3>7. TicketFine(i)'
        BY <3>1, <3>3, <3>4, <3>5, <3>6, Zenon DEF TicketFine
      <3> QED BY <3>7 DEF i
    <2>7. TicketOk'
      BY <2>1, <2>2, <2>4, <2>5, <2>6, TicketsKeep, Zenon
    <2>8. WorkOk(x) /\ x.pc \in {"poll", "result", "error", "marking"}
      BY <1>1, <1>3, <2>2 DEF WorkOk
    <2> QED BY <1>1, <2>2, <2>4, <2>7, <2>8, PaidKeeps, Zenon
  <1>4. "marking" \in {"marking", "error"} /\ "error" \in {"marking", "error"}
    OBVIOUS
  <1> QED BY <1>2, <1>3, <1>4, Zenon DEF PayTicket

LEMMA MarkKeeps ==
    ASSUME PagesInv, NEW p \in Tabs, MarkTicket(p)
    PROVE  PagesInv'
  <1>1. /\ press[p].pc = "marking" /\ press[p].pc # "idle" /\ press[p].pc \in {"paying", "marking"}
        /\ UNCHANGED <<buy, quotes, pay, voucher, fx, moves, tries>>
    BY DEF MarkTicket, reads
  <1>2. PICK pc \in {"poll", "result", "error"} :
            /\ Turned(p, pc)
            /\ \/ used' = used \cup {press[p].item} /\ crossed' = crossed
               \/ used' = used /\ Strays(p)
    BY DEF MarkTicket, Answered
  <1>3. PICK x : /\ TurnsInto(p, pc, x) /\ press'[p] = x /\ (\A q \in Tabs \ {p} : press'[q] = press[q])
                 /\ x.item \in ItemsOf(p) /\ x.kind \in KindsOf(p)
    BY <1>1, <1>2, TurnedInto, Zenon
  <1>4. x.pc = pc /\ x.item = press[p].item /\ x.kind = press[p].kind /\ Shaped(x) /\ Becomes(p, x)
    BY <1>3, Zenon DEF TurnsInto
  <1>5. x.item \in Tickets /\ x.item \in Items /\ x.item \notin Codes /\ Working(p, x.item) /\ p # "buy"
    BY <1>1, <1>4, WorkingFacts
  <1>6. /\ ReadsOk' /\ crossed \subseteq crossed' /\ (x.item \in used' \/ x.item \in crossed')
        /\ \A i \in Items : i # x.item => (i \in used' <=> i \in used)
    <2>1. CASE used' = used \cup {press[p].item} /\ crossed' = crossed
      <3>1. ReadsOk'
        BY <1>1, <2>1, Zenon DEF PagesInv, ReadsOk
      <3> QED BY <1>4, <2>1, <3>1
    <2>2. CASE used' = used /\ Strays(p)
      BY <1>1, <1>4, <1>5, <2>2, StraysOk
    <2> QED BY <1>2, <2>1, <2>2
  <1>7. x.pc \notin {"paying", "marking", "prepare", "sign", "submit", "idle"}
    BY <1>2, <1>4
  <1>8. ASSUME x.item \in (Tickets \cup Codes) \ crossed' PROVE TicketFine(x.item)'
    <2> DEFINE i == x.item
    <2>1. TicketFine(i) /\ i \in used' /\ Working(p, i)
      BY <1>5, <1>6, <1>8, Zenon DEF PagesInv, TicketOk
    <2>2. \A o \in Tabs : Working(o, i) => o = p
      BY <2>1, Zenon DEF TicketFine
    <2>3. x.pc \notin {"paying", "marking"}
      BY <1>7
    <2>4. \A o \in Tabs : ~Working(o, i)'
      BY <1>3, <2>2, <2>3, WorkEnds, Zenon
    <2>5. Cardinality(moves'[i]) <= 1
      BY <1>1, <2>1, Zenon DEF TicketFine
    <2> HIDE DEF i
    <2>6. TicketFine(i)'
      BY <2>1, <2>4, <2>5, Zenon DEF TicketFine
    <2> QED BY <2>6 DEF i
  <1>9. \A i \in Items : i # x.item => moves'[i] = moves[i] /\ (i \in used' <=> i \in used)
    BY <1>1, <1>6
  <1>10. TicketOk'
    BY <1>3, <1>4, <1>6, <1>8, <1>9, TicketsKeep, Zenon
  <1>11. WorkOk(x) /\ UNCHANGED <<moves, tries>> /\ \A i \in Items : ~Pends(x, i)
    BY <1>1, <1>7 DEF WorkOk, Pends
  <1> QED BY <1>3, <1>4, <1>5, <1>6, <1>10, <1>11, StepKeeps, Zenon

LEMMA ReserveKeeps ==
    ASSUME PagesInv, NEW p \in Tabs, ReserveCode(p)
    PROVE  PagesInv'
  <1>1. /\ press[p].pc = "submit" /\ press[p].kind = "code" /\ press[p].pc # "idle"
        /\ used' = used \cup {press[p].item}
        /\ UNCHANGED <<buy, quotes, pay, voucher, fx, moves, tries, crossed>>
    BY DEF ReserveCode, reads, notes
  <1>2. PICK pc : Turned(p, pc) /\ pc = IF press[p].item \in used THEN "error" ELSE "paying"
    BY Zenon DEF ReserveCode
  <1>3. PICK x : /\ TurnsInto(p, pc, x) /\ press'[p] = x /\ (\A q \in Tabs \ {p} : press'[q] = press[q])
                 /\ x.item \in ItemsOf(p) /\ x.kind \in KindsOf(p)
    BY <1>1, <1>2, TurnedInto, Zenon
  <1>4. x.pc = pc /\ x.item = press[p].item /\ x.kind = press[p].kind /\ Shaped(x) /\ Becomes(p, x)
    BY <1>3, Zenon DEF TurnsInto
  <1>5. p # "buy" /\ x.item \in Codes
    <2>1. p = "topup"
      BY <1>1, <1>3, <1>4 DEF KindsOf, Tabs
    <2> QED BY <1>3, <2>1 DEF ItemsOf
  <1>6. ReadsOk' /\ crossed \subseteq crossed' /\ x.item \notin crossed
    <2>1. crossed \cap Codes = {}
      BY Zenon DEF PagesInv, ReadsOk
    <2>2. ReadsOk'
      BY <1>1, Zenon DEF PagesInv, ReadsOk
    <2> QED BY <1>1, <1>5, <2>1, <2>2
  <1>7. TicketFine(x.item)'
    <2> DEFINE i == x.item
    <2>1. TicketFine(i) /\ i \in Codes /\ i \in used' /\ moves' = moves
      <3>1. i \in (Tickets \cup Codes) \ crossed
        BY <1>5, <1>6
      <3>2. i \in used' /\ moves' = moves
        BY <1>1, <1>4
      <3> QED BY <1>5, <3>1, <3>2, Zenon DEF PagesInv, TicketOk
    <2>2. ~Working(p, i)
      BY <1>1 DEF Working
    <2>3. CASE pc = "error"
      <3>1. \A o \in Tabs : (Working(o, i)' => Working(o, i)) /\ (Paying(o, i)' => Paying(o, i))
        <4> TAKE o \in Tabs
        <4>1. CASE o = p
          BY <1>3, <1>4, <2>3, <4>1 DEF Working, Paying
        <4>2. CASE o # p
          BY <1>3, <4>2, Zenon DEF Working, Paying
        <4> QED BY <4>1, <4>2
      <3> HIDE DEF i
      <3> QED BY <2>1, <3>1, Zenon DEF TicketFine, i
    <2>4. CASE pc = "paying"
      <3>1. i \notin used
        BY <1>2, <1>4, <2>4
      <3>2. \A o \in Tabs : ~Working(o, i)
        BY <2>1, <3>1, Zenon DEF TicketFine
      <3>3. moves[i] = {}
        <4>1. \A o \in Tabs : BeingMarked(o, i) => Working(o, i)
          BY DEF BeingMarked, Working
        <4> QED BY <2>1, <3>1, <3>2, <4>1, Zenon DEF TicketFine
      <3>4. \A o \in Tabs : Working(o, i)' => o = p
        BY <1>3, <3>2, Zenon DEF Working
      <3> HIDE DEF i
      <3> QED BY <2>1, <3>3, <3>4, Zenon DEF TicketFine, i
    <2> QED BY <1>2, <2>3, <2>4
  <1>8. \A i \in Items : i # x.item => moves'[i] = moves[i] /\ (i \in used' <=> i \in used)
    BY <1>1, <1>4
  <1>9. TicketOk'
    BY <1>3, <1>4, <1>6, <1>7, <1>8, TicketsKeep, Zenon
  <1>10. \A i \in Items : Pends(x, i) => Pends(press[p], i)
    BY <1>1, <1>4 DEF Pends
  <1>11. WorkOk(x) /\ UNCHANGED <<moves, tries>>
    BY <1>1, <1>2, <1>4 DEF WorkOk
  <1> QED BY <1>3, <1>4, <1>5, <1>6, <1>9, <1>10, <1>11, StepKeeps, Zenon

LEMMA PayCodeKeeps ==
    ASSUME PagesInv, NEW p \in Tabs, PayCode(p)
    PROVE  PagesInv'
  <1>1. /\ press[p].pc = "paying" /\ press[p].kind = "code" /\ press[p].pc \notin {"idle", "marking"}
        /\ press[p].pc # "idle" /\ press[p].pc \in {"paying", "marking"} /\ press[p].pc \in {"submit", "paying"}
        /\ UNCHANGED <<buy, quotes, pay, voucher, fx, used, tries, crossed>>
    BY DEF PayCode, reads
  <1>2. CASE Turned(p, "error") /\ moves' = moves
    <2>1. UNCHANGED <<buy, quotes, pay, voucher, fx, used, moves, tries, crossed>>
      BY <1>1, <1>2
    <2> QED BY <1>1, <1>2, <2>1, TurnDone
  <1>3. CASE Paid(p) /\ Answered(p)
    <2>1. PICK pc \in {"poll", "result", "error"} : Turned(p, pc)
      BY <1>3 DEF Answered
    <2>2. PICK x : /\ TurnsInto(p, pc, x) /\ press'[p] = x /\ (\A q \in Tabs \ {p} : press'[q] = press[q])
                   /\ x.item \in ItemsOf(p) /\ x.kind \in KindsOf(p)
      BY <1>1, <2>1, TurnedInto, Zenon
    <2>3. x.pc = pc /\ x.item = press[p].item /\ x.kind = press[p].kind /\ Shaped(x) /\ Becomes(p, x) /\ Move(p)
      BY <1>3, <2>2, Zenon DEF TurnsInto, Paid
    <2>4. /\ x.item \in Codes /\ x.item \in Items /\ Working(p, x.item) /\ Paying(p, x.item)
      BY <1>1, <2>3, WorkingFacts
    <2>5. ReadsOk' /\ crossed \subseteq crossed' /\ x.item \notin crossed
      <3>1. crossed \cap Codes = {}
        BY Zenon DEF PagesInv, ReadsOk
      <3>2. ReadsOk'
        BY <1>1, Zenon DEF PagesInv, ReadsOk
      <3> QED BY <1>1, <2>4, <3>1, <3>2
    <2>6. /\ \A i \in Items : i # x.item => moves'[i] = moves[i] /\ (i \in used' <=> i \in used)
          /\ moves[x.item] = {} => Cardinality(moves'[x.item]) <= 1
      BY <1>1, <2>3, <2>4, OneMove
    <2>7. x.pc \notin {"paying", "marking"} /\ WorkOk(x) /\ x.pc \in {"poll", "result", "error", "marking"}
      BY <2>1, <2>3 DEF WorkOk
    <2>8. TicketFine(x.item)'
      <3> DEFINE i == x.item
      <3>1. TicketFine(i) /\ i \in Codes /\ Working(p, i) /\ Paying(p, i)
        <4>1. i \in (Tickets \cup Codes) \ crossed
          BY <2>4, <2>5
        <4> QED BY <2>4, <4>1, Zenon DEF PagesInv, TicketOk
      <3>2. moves[i] = {} /\ i \in used /\ \A o \in Tabs : Working(o, i) => o = p
        BY <3>1, Zenon DEF TicketFine
      <3>3. \A o \in Tabs : ~Working(o, i)'
        BY <2>2, <2>7, <3>2, WorkEnds, Zenon
      <3>4. Cardinality(moves'[i]) <= 1 /\ i \in used'
        BY <1>1, <2>6, <3>2
      <3> HIDE DEF i
      <3>5. TicketFine(i)'
        BY <3>3, <3>4, Zenon DEF TicketFine
      <3> QED BY <3>5 DEF i
    <2>9. TicketOk'
      BY <2>2, <2>3, <2>5, <2>6, <2>8, TicketsKeep, Zenon
    <2> QED BY <1>1, <2>3, <2>5, <2>7, <2>9, PaidKeeps, Zenon
  <1> QED BY <1>2, <1>3, Zenon DEF PayCode

LEMMA PollKeeps ==
    ASSUME PagesInv, NEW p \in Tabs, PollFulfilment(p)
    PROVE  PagesInv'
  <1>1. press[p].pc \notin {"idle", "marking"} /\ UNCHANGED <<buy, quotes, pay, voucher, fx, used, moves, tries, crossed>>
    BY DEF PollFulfilment, reads, server, notes
  <1>2. PICK pc \in {"error", "result", "held", "poll"} : Turned(p, pc)
    BY DEF PollFulfilment
  <1> QED BY <1>1, <1>2, TurnDone, Zenon

\* What a page shows may be dropped at any time.
LEMMA ShowKeeps ==
    ASSUME PagesInv, NEW p \in Tabs, ShowResult(p)
    PROVE  PagesInv'
  <1>1. /\ Becomes(p, AtRest)
        /\ UNCHANGED <<pay, fx, used, moves, tries, crossed>> /\ crossed \subseteq crossed'
        /\ press[p].pc # "marking"
    BY DEF ShowResult, Becomes, server, notes
  <1>2. AtRest.pc = "idle" /\ AtRest.item = "none" /\ Shaped(AtRest)
    BY DEF AtRest, Shaped
  <1>3. ReadsOk'
    <2>1. /\ buy' \in {Opened, buy} /\ quotes' \in {{}, quotes}
          /\ voucher' \in {voucher, [voucher EXCEPT !.id = "none"], [voucher EXCEPT !.link = "none"]}
      <3>1. buy' \in {Opened, buy} /\ quotes' \in {{}, quotes}
        BY Zenon DEF ShowResult
      <3>2. p # "receive" \/ p # "claim"
        OBVIOUS
      <3>3. voucher' \in {voucher, [voucher EXCEPT !.id = "none"], [voucher EXCEPT !.link = "none"]}
        BY <3>2 DEF ShowResult
      <3> QED BY <3>1, <3>3
    <2>2. /\ buy' = [charge |-> buy'.charge, quote |-> buy'.quote, fetching |-> buy'.fetching,
                    spend |-> buy'.spend, have |-> buy'.have, seen |-> buy'.seen]
          /\ buy'.charge \in Charges \cup {NoCharge}
          /\ buy'.charge.mid = NoMerchant /\ buy'.quote.cross => buy'.charge.id \in crossed
      <3>1. CASE buy' = Opened
        <4>1. Opened.charge = NoCharge /\ Opened.quote = NoQuote /\ NoQuote.cross = FALSE
          BY DEF Opened, NoQuote
        <4>2. Opened = [charge |-> Opened.charge, quote |-> Opened.quote, fetching |-> Opened.fetching,
                    spend |-> Opened.spend, have |-> Opened.have, seen |-> Opened.seen]
          BY DEF Opened
        <4> QED BY <3>1, <4>1, <4>2, Zenon
      <3>2. CASE buy' = buy
        BY <3>2, Zenon DEF PagesInv, ReadsOk
      <3> QED BY <2>1, <3>1, <3>2
    <2>3. /\ voucher' = [id |-> voucher'.id, open |-> voucher'.open, link |-> voucher'.link]
          /\ voucher'.id \in Tickets \cup {"none"} /\ voucher'.link \in Tickets \cup {"none"}
      <3>1. /\ voucher = [id |-> voucher.id, open |-> voucher.open, link |-> voucher.link]
            /\ voucher.id \in Tickets \cup {"none"} /\ voucher.link \in Tickets \cup {"none"}
        BY Zenon DEF PagesInv, ReadsOk
      <3>2. CASE voucher' = voucher
        BY <3>1, <3>2, Zenon
      <3>3. CASE voucher' = [voucher EXCEPT !.id = "none"]
        <4>1. voucher' = [id |-> "none", open |-> voucher.open, link |-> voucher.link]
          BY <3>1, <3>3
        <4> QED BY <3>1, <4>1
      <3>4. CASE voucher' = [voucher EXCEPT !.link = "none"]
        <4>1. voucher' = [id |-> voucher.id, open |-> voucher.open, link |-> "none"]
          BY <3>1, <3>4
        <4> QED BY <3>1, <4>1
      <3> QED BY <2>1, <3>2, <3>3, <3>4
    <2>4. \A q \in quotes' : q.charge.mid # NoMerchant
      BY <2>1, Zenon DEF PagesInv, ReadsOk
    <2>5. crossed' = crossed /\ fx' = fx /\ pay' = pay
      BY <1>1
    <2> QED BY <2>2, <2>3, <2>4, <2>5, Zenon DEF PagesInv, ReadsOk
  <1>4. /\ AtRest.pc # "idle" => AtRest.item \in ItemsOf(p) /\ AtRest.kind \in KindsOf(p)
        /\ AtRest.pc \notin {"paying", "marking"} /\ AtRest.pc \notin {"sign", "submit"} /\ AtRest.pc # "prepare"
        /\ \A i \in Items : ~Pends(AtRest, i)
    BY <1>2 DEF Pends
  <1>5. UNCHANGED <<used, moves, tries>>
    BY <1>1
  <1> QED BY <1>1, <1>2, <1>3, <1>4, <1>5, TurnKeeps, Zenon

LEMMA BuyPressed ==
    ASSUME PagesInv, PayPressed
    PROVE  PagesInv'
  <1>1. buy.charge \in Charges /\ Pressed("buy", "purchase", buy.charge.id, PayAmount, PayCurrency)
    BY Zenon DEF PayPressed, PagesInv, ReadsOk
  <1>2. buy.charge.id \in ItemsOf("buy") /\ "purchase" \in KindsOf("buy") /\ "buy" \in Tabs
    BY <1>1 DEF ItemsOf, KindsOf, Tabs
  <1>3. ASSUME NEW c \in Charges, buy.charge.id = c.id, c.mid = NoMerchant
        PROVE  c.id \in crossed \/ (PayAmount = c.amount /\ PayCurrency = c.cur)
    <2>1. buy.charge = c
      BY <1>1, <1>3, PagesAssumption, Zenon
    <2>2. CASE buy.quote.cross
      BY <1>3, <2>1, <2>2, Zenon DEF PagesInv, ReadsOk
    <2>3. CASE ~buy.quote.cross
      BY <2>1, <2>3, Zenon DEF PayAmount, PayCurrency
    <2> QED BY <2>2, <2>3
  <1>4. \A c \in Charges : buy.charge.id = c.id /\ c.mid = NoMerchant =>
                             c.id \in crossed \/ (PayAmount = c.amount /\ PayCurrency = c.cur)
    BY <1>3, Zenon
  <1>5. PICK p, kind, item, amount, cur :
            p = "buy" /\ kind = "purchase" /\ item = buy.charge.id /\ amount = PayAmount /\ cur = PayCurrency
    BY Zenon
  <1>6. /\ p \in Tabs /\ Pressed(p, kind, item, amount, cur) /\ item \in ItemsOf(p) /\ kind \in KindsOf(p)
        /\ \A c \in Charges : item = c.id /\ c.mid = NoMerchant =>
                             c.id \in crossed \/ (amount = c.amount /\ cur = c.cur)
    BY <1>1, <1>2, <1>4, <1>5, Zenon
  <1> QED BY <1>6, PressedKeeps, Zenon

\* A button other than Buy's is pressed for something its page sells.
PressedFor(p, k, i) ==
    /\ p \in Tabs \ {"buy"} /\ i \in ItemsOf(p) /\ k \in KindsOf(p)
    /\ \E amount, cur : Pressed(p, k, i, amount, cur)

LEMMA OtherPressed ==
    ASSUME PagesInv,
           \/ SendPressed \/ ReceivePressed \/ ClaimPressed
           \/ (\E v \in Codes : RedeemPressed(v))
           \/ (\E amount \in 1 .. 2, from \in {conv.cur, "USDC"} : ConvertPressed(amount, from))
    PROVE  PagesInv'
  <1>1. /\ pay.to \in Targets \cup {"none"} /\ voucher.id \in Tickets \cup {"none"}
        /\ voucher.link \in Tickets \cup {"none"}
    BY Zenon DEF PagesInv, ReadsOk
  <1>2. /\ {"pay", "receive", "claim", "topup", "convert"} \subseteq Tabs \ {"buy"}
        /\ ItemsOf("pay") = Targets /\ ItemsOf("receive") = Tickets /\ ItemsOf("claim") = Tickets
        /\ ItemsOf("topup") = Codes /\ ItemsOf("convert") = {"conversion"}
        /\ KindsOf("pay") = {"transfer", "withdraw", "escrow"} /\ KindsOf("receive") = {"ticket"}
        /\ KindsOf("claim") = {"ticket"} /\ KindsOf("topup") = {"code"} /\ KindsOf("convert") = {"conversion"}
    BY DEF ItemsOf, KindsOf, Tabs
  <1>3. PICK p, kind, item : PressedFor(p, kind, item)
    <2>1. CASE SendPressed
      <3> DEFINE kind == CASE pay.to = "phone" -> "escrow"
                           [] pay.to \in {"member", "outsider"} /\ pay.cur = "USDC" -> "withdraw"
                           [] OTHER -> "transfer"
      <3>1. kind \in {"transfer", "withdraw", "escrow"}
        OBVIOUS
      <3>2. Pressed("pay", kind, pay.to, 1, pay.cur) /\ pay.to # "none"
        BY <2>1, Zenon DEF SendPressed
      <3> HIDE DEF kind
      <3>3. pay.to \in ItemsOf("pay") /\ kind \in KindsOf("pay") /\ "pay" \in Tabs \ {"buy"}
        BY <1>1, <1>2, <3>1, <3>2
      <3> QED BY <3>2, <3>3, Zenon DEF PressedFor
    <2>2. CASE ReceivePressed
      <3>1. Pressed("receive", "ticket", voucher.id, 1, "ZAR") /\ voucher.id # "none"
        BY <2>2, Zenon DEF ReceivePressed
      <3>2. voucher.id \in ItemsOf("receive") /\ "ticket" \in KindsOf("receive") /\ "receive" \in Tabs \ {"buy"}
        BY <1>1, <1>2, <3>1
      <3> QED BY <3>1, <3>2, Zenon DEF PressedFor
    <2>3. CASE ClaimPressed
      <3>1. Pressed("claim", "ticket", voucher.link, 1, "ZAR") /\ voucher.link # "none"
        BY <2>3, Zenon DEF ClaimPressed
      <3>2. voucher.link \in ItemsOf("claim") /\ "ticket" \in KindsOf("claim") /\ "claim" \in Tabs \ {"buy"}
        BY <1>1, <1>2, <3>1
      <3> QED BY <3>1, <3>2, Zenon DEF PressedFor
    <2>4. ASSUME NEW v \in Codes, RedeemPressed(v)
          PROVE  PressedFor("topup", "code", v)
      <3>1. Pressed("topup", "code", v, 1, "ZAR")
        BY <2>4, Zenon DEF RedeemPressed
      <3>2. v \in ItemsOf("topup") /\ "code" \in KindsOf("topup") /\ "topup" \in Tabs \ {"buy"}
        BY <1>2
      <3> QED BY <3>1, <3>2, Zenon DEF PressedFor
    <2>5. ASSUME NEW amount \in 1 .. 2, NEW from \in {conv.cur, "USDC"}, ConvertPressed(amount, from)
          PROVE  PressedFor("convert", "conversion", "conversion")
      <3>1. Pressed("convert", "conversion", "conversion", amount, from)
        BY <2>5, Zenon DEF ConvertPressed
      <3>2. "conversion" \in ItemsOf("convert") /\ "conversion" \in KindsOf("convert") /\ "convert" \in Tabs \ {"buy"}
        BY <1>2
      <3> QED BY <3>1, <3>2, Zenon DEF PressedFor
    <2> QED BY <2>1, <2>2, <2>3, <2>4, <2>5, Zenon
  <1>4. PICK amount, cur : Pressed(p, kind, item, amount, cur)
    BY <1>3, Zenon DEF PressedFor
  <1>5. item \in ItemsOf(p) /\ kind \in KindsOf(p) /\ p \in Tabs /\ p # "buy"
    BY <1>3 DEF PressedFor
  <1> QED BY <1>4, <1>5, PressedKeeps, Zenon

\* The fields of Buy's reads.
BuyShaped(b) == b = [charge |-> b.charge, quote |-> b.quote, fetching |-> b.fetching,
                     spend |-> b.spend, have |-> b.have, seen |-> b.seen]

\* Buy reads something: the charge and its quote stay together.
LEMMA BuyKeeps ==
    ASSUME PagesInv, BuyShaped(buy'), buy'.charge \in Charges \cup {NoCharge}, crossed \subseteq crossed',
           buy'.charge.mid = NoMerchant /\ buy'.quote.cross => buy'.charge.id \in crossed',
           \A q \in quotes' : q.charge.mid # NoMerchant, fx' \in FxRates, crossed' \cap Codes = {},
           UNCHANGED <<pay, voucher, press, used, moves, tries>>
    PROVE  PagesInv'
  <1>1. ReadsOk'
    BY Zenon DEF PagesInv, ReadsOk, BuyShaped
  <1> QED BY <1>1, Untouched, Zenon

\* A charge comes on the page, or its quote is asked again.
LEMMA AskKeeps ==
    ASSUME PagesInv, NEW b, BuyShaped(b), NEW c \in Charges, AskQuote(b, c), 
           UNCHANGED <<pay, voucher, press, used, moves, tries, crossed, fx>>
    PROVE  PagesInv'
  <1>1. fx' \in FxRates /\ (\A q \in quotes : q.charge.mid # NoMerchant) /\ crossed \subseteq crossed'
        /\ crossed' \cap Codes = {}
    BY Zenon DEF PagesInv, ReadsOk
  <1>2. CASE c.mid = NoMerchant
    <2>1. buy' = [b EXCEPT !.charge = c, !.quote = NoQuote] /\ quotes' = quotes
      BY <1>2, Zenon DEF AskQuote
    <2>2. buy' = [charge |-> c, quote |-> NoQuote, fetching |-> b.fetching,
                  spend |-> b.spend, have |-> b.have, seen |-> b.seen]
      BY <2>1 DEF BuyShaped
    <2>3. BuyShaped(buy') /\ buy'.charge = c /\ buy'.quote = NoQuote
      BY <2>2 DEF BuyShaped
    <2>4. NoQuote.cross = FALSE
      BY DEF NoQuote
    <2> QED BY <1>1, <2>1, <2>3, <2>4, BuyKeeps, Zenon
  <1>3. CASE c.mid # NoMerchant
    <2>1. /\ buy' = [b EXCEPT !.charge = c, !.fetching = TRUE]
          /\ \E n, cur : quotes' = quotes \cup {[n |-> n, charge |-> c, cur |-> cur]}
      BY <1>3, Zenon DEF AskQuote
    <2>2. buy' = [charge |-> c, quote |-> b.quote, fetching |-> TRUE,
                  spend |-> b.spend, have |-> b.have, seen |-> b.seen]
      BY <2>1 DEF BuyShaped
    <2>3. BuyShaped(buy') /\ buy'.charge = c
      BY <2>2 DEF BuyShaped
    <2>4. \A q \in quotes' : q.charge.mid # NoMerchant
      <3>1. PICK n, cur : quotes' = quotes \cup {[n |-> n, charge |-> c, cur |-> cur]}
        BY <2>1, Zenon
      <3>2. PICK q : q = [n |-> n, charge |-> c, cur |-> cur]
        BY Zenon
      <3>3. quotes' = quotes \cup {q} /\ q.charge = c
        BY <3>1, <3>2
      <3> QED BY <1>1, <1>3, <3>3, Zenon
    <2> QED BY <1>1, <1>3, <2>3, <2>4, BuyKeeps, Zenon
  <1> QED BY <1>2, <1>3

\* The fields that the balance sets.
LEMMA BalanceRecord ==
    ASSUME NEW b, BuyShaped(b), NEW t, NEW f, NEW s
    PROVE  [b EXCEPT !.have = t, !.seen = f, !.spend = s]
             = [charge |-> b.charge, quote |-> b.quote, fetching |-> b.fetching,
                spend |-> s, have |-> t, seen |-> f]
  <1> DEFINE y == [charge |-> b.charge, quote |-> b.quote, fetching |-> b.fetching,
                   spend |-> b.spend, have |-> t, seen |-> b.seen]
             z == [charge |-> b.charge, quote |-> b.quote, fetching |-> b.fetching,
                   spend |-> b.spend, have |-> t, seen |-> f]
  <1>1. [b EXCEPT !.have = t] = y
    BY DEF BuyShaped
  <1>2. [y EXCEPT !.seen = f] = z
    OBVIOUS
  <1>3. [z EXCEPT !.spend = s] = [charge |-> b.charge, quote |-> b.quote, fetching |-> b.fetching,
                                  spend |-> s, have |-> t, seen |-> f]
    OBVIOUS
  <1> HIDE DEF y, z
  <1> QED BY <1>1, <1>2, <1>3, Zenon

LEMMA BuyReads ==
    ASSUME PagesInv,
           \/ \E c \in Charges : OnScan(c) \/ ConfirmCatalogPurchase(c)
           \/ BuyBalance \/ Cancel \/ \E r \in FxRates : RateMoves(r)
    PROVE  PagesInv'
  <1>1. /\ BuyShaped(buy) /\ buy.charge \in Charges \cup {NoCharge} /\ fx \in FxRates
        /\ buy.charge.mid = NoMerchant /\ buy.quote.cross => buy.charge.id \in crossed
        /\ crossed \cap Codes = {} /\ \A q \in quotes : q.charge.mid # NoMerchant
    BY Zenon DEF PagesInv, ReadsOk, BuyShaped
  <1>2. NoCharge.mid = NoMerchant /\ NoQuote.cross = FALSE
    BY DEF NoCharge, NoQuote
  <1>3. ASSUME NEW c \in Charges, OnScan(c) PROVE PagesInv'
    <2>1. AskQuote(buy, c) /\ UNCHANGED <<pay, voucher, press, used, moves, tries, crossed, fx>>
      BY <1>3 DEF OnScan, server, notes
    <2> QED BY <1>1, <2>1, AskKeeps, Zenon
  <1>4. CASE BuyBalance
    <2> DEFINE b == [buy EXCEPT !.have = TRUE, !.seen = funds, !.spend = Local]
    <2>1. UNCHANGED <<pay, voucher, press, used, moves, tries, crossed, fx>>
      BY <1>4 DEF BuyBalance, server, notes
    <2>2. b = [charge |-> buy.charge, quote |-> buy.quote, fetching |-> buy.fetching,
               spend |-> Local, have |-> TRUE, seen |-> funds]
      BY <1>1, BalanceRecord, Zenon
    <2>3. BuyShaped(b) /\ b.charge = buy.charge /\ b.quote = buy.quote
      BY <2>2 DEF BuyShaped
    <2>4. \/ buy.charge.mid # NoMerchant /\ AskQuote(b, buy.charge)
          \/ buy' = b /\ quotes' = quotes
      BY <1>4, Zenon DEF BuyBalance
    <2> HIDE DEF b
    <2>5. CASE buy.charge.mid # NoMerchant /\ AskQuote(b, buy.charge)
      <3>1. buy.charge \in Charges
        BY <1>1, <1>2, <2>5, Zenon
      <3> QED BY <2>1, <2>3, <2>5, <3>1, AskKeeps, Zenon
    <2>6. CASE buy' = b /\ quotes' = quotes
      BY <1>1, <2>1, <2>3, <2>6, BuyKeeps, Zenon
    <2> QED BY <2>4, <2>5, <2>6
  <1>5. CASE Cancel
    <2>1. buy' = [buy EXCEPT !.charge = NoCharge, !.quote = NoQuote]
          /\ UNCHANGED <<quotes, pay, voucher, press, used, moves, tries, crossed, fx>>
      BY <1>5 DEF Cancel, server, notes
    <2>2. buy' = [charge |-> NoCharge, quote |-> NoQuote, fetching |-> buy.fetching,
                  spend |-> buy.spend, have |-> buy.have, seen |-> buy.seen]
      BY <1>1, <2>1 DEF BuyShaped
    <2>3. BuyShaped(buy') /\ buy'.charge = NoCharge /\ buy'.quote = NoQuote
      BY <2>2 DEF BuyShaped
    <2> QED BY <1>1, <1>2, <2>1, <2>3, BuyKeeps, Zenon
  <1>6. ASSUME NEW r \in FxRates, RateMoves(r) PROVE PagesInv'
    <2>1. UNCHANGED <<buy, quotes, pay, voucher, press, used, moves, tries, crossed>> /\ fx' \in FxRates
      BY <1>6 DEF RateMoves, reads, notes
    <2> QED BY <1>1, <2>1, BuyKeeps, Zenon
  <1> QED BY <1>3, <1>4, <1>5, <1>6, Zenon DEF ConfirmCatalogPurchase

\* An answer to a quote request: if it is of another charge, that was noted.
LEMMA QuoteKeeps ==
    ASSUME PagesInv, NEW q \in quotes, QuoteAnswered(q) \/ QuoteLost(q)
    PROVE  PagesInv'
  <1>1. /\ BuyShaped(buy) /\ buy.charge \in Charges \cup {NoCharge} /\ fx \in FxRates
        /\ \A k \in quotes : k.charge.mid # NoMerchant
    BY Zenon DEF PagesInv, ReadsOk, BuyShaped
  <1>2. /\ UNCHANGED <<pay, voucher, press, used, moves, tries, fx>>
        /\ crossed \subseteq crossed' /\ quotes' \subseteq quotes
        /\ crossed' \subseteq crossed \cup {buy.charge.id}
    BY DEF QuoteAnswered, QuoteLost, server, notes
  <1>3. PICK n : /\ buy' = [buy EXCEPT !.fetching = FALSE, !.quote = n]
                 /\ buy.charge.mid = NoMerchant /\ n.cross => buy.charge.id \in crossed'
    <2>1. CASE QuoteAnswered(q)
      <3>1. /\ \E n : buy' = [buy EXCEPT !.fetching = FALSE, !.quote = n]
            /\ q.charge # buy.charge => buy.charge.id \in crossed'
        BY <2>1 DEF QuoteAnswered
      <3> QED BY <1>1, <3>1, Zenon
    <2>2. CASE QuoteLost(q)
      <3>1. NoQuote.cross = FALSE
        BY DEF NoQuote
      <3>2. buy' = [buy EXCEPT !.fetching = FALSE, !.quote = NoQuote]
        BY <2>2, Zenon DEF QuoteLost
      <3> QED BY <3>1, <3>2, Zenon
    <2> QED BY <2>1, <2>2
  <1>4. buy' = [charge |-> buy.charge, quote |-> n, fetching |-> FALSE,
                spend |-> buy.spend, have |-> buy.have, seen |-> buy.seen]
    BY <1>1, <1>3 DEF BuyShaped
  <1>5. BuyShaped(buy') /\ buy'.charge = buy.charge /\ buy'.quote = n
    BY <1>4 DEF BuyShaped
  <1>6. crossed' \cap Codes = {}
    <2>1. buy.charge.id \notin Codes
      <3>1. NoCharge.id = "none"
        BY DEF NoCharge
      <3> QED BY <1>1, <3>1, ItemFacts
    <2>2. crossed \cap Codes = {}
      BY Zenon DEF PagesInv, ReadsOk
    <2> QED BY <1>2, <2>1, <2>2
  <1> QED BY <1>1, <1>2, <1>3, <1>5, <1>6, BuyKeeps, Zenon

\* The fields of Pay's reads and of the tickets'.
PayShaped(y) == y = [to |-> y.to, cur |-> y.cur, loaded |-> y.loaded]
VoucherShaped(y) == y = [id |-> y.id, open |-> y.open, link |-> y.link]

LEMMA PayRecord ==
    ASSUME NEW y, PayShaped(y), NEW t, NEW c, NEW l
    PROVE  /\ [y EXCEPT !.to = t, !.cur = c] = [to |-> t, cur |-> c, loaded |-> y.loaded]
           /\ [y EXCEPT !.loaded = l, !.cur = c] = [to |-> y.to, cur |-> c, loaded |-> l]
  <1> DEFINE z == [to |-> t, cur |-> y.cur, loaded |-> y.loaded]
             w == [to |-> y.to, cur |-> y.cur, loaded |-> l]
  <1>1. [y EXCEPT !.to = t] = z /\ [y EXCEPT !.loaded = l] = w
    BY DEF PayShaped
  <1>2. [z EXCEPT !.cur = c] = [to |-> t, cur |-> c, loaded |-> y.loaded]
    OBVIOUS
  <1>3. [w EXCEPT !.cur = c] = [to |-> y.to, cur |-> c, loaded |-> l]
    OBVIOUS
  <1> HIDE DEF z, w
  <1> QED BY <1>1, <1>2, <1>3, Zenon

LEMMA VoucherRecord ==
    ASSUME NEW y, VoucherShaped(y), NEW v, NEW o
    PROVE  /\ [y EXCEPT !.id = v, !.open = o] = [id |-> v, open |-> o, link |-> y.link]
           /\ [y EXCEPT !.link = v] = [id |-> y.id, open |-> y.open, link |-> v]
  <1> DEFINE z == [id |-> v, open |-> y.open, link |-> y.link]
  <1>1. [y EXCEPT !.id = v] = z /\ [y EXCEPT !.link = v] = [id |-> y.id, open |-> y.open, link |-> v]
    BY DEF VoucherShaped
  <1>2. [z EXCEPT !.open = o] = [id |-> v, open |-> o, link |-> y.link]
    OBVIOUS
  <1> HIDE DEF z
  <1> QED BY <1>1, <1>2, Zenon

\* The other pages' reads.
LEMMA OtherReads ==
    ASSUME PagesInv, UNCHANGED <<buy, quotes, press, used, moves, tries, crossed, fx>>,
           PayShaped(pay'), pay'.to \in Targets \cup {"none"},
           VoucherShaped(voucher'), voucher'.id \in Tickets \cup {"none"}, voucher'.link \in Tickets \cup {"none"}
    PROVE  PagesInv'
  <1>1. ReadsOk' /\ crossed \subseteq crossed'
    BY Zenon DEF PagesInv, ReadsOk, PayShaped, VoucherShaped
  <1> QED BY <1>1, Untouched, Zenon

LEMMA SendReads ==
    ASSUME PagesInv, (\E to \in Targets, cur \in Currencies : Type(to, cur)) \/ PayBalance
    PROVE  PagesInv'
  <1>1. UNCHANGED <<buy, quotes, press, used, moves, tries, crossed, fx>> /\ voucher' = voucher
    BY DEF Type, PayBalance, server, notes
  <1>2. /\ PayShaped(pay) /\ pay.to \in Targets \cup {"none"} /\ VoucherShaped(voucher)
        /\ voucher.id \in Tickets \cup {"none"} /\ voucher.link \in Tickets \cup {"none"}
    BY Zenon DEF PagesInv, ReadsOk, PayShaped, VoucherShaped
  <1>3. PayShaped(pay') /\ pay'.to \in Targets \cup {"none"}
    <2>1. \E to \in Targets \cup {"none"} : \E cur, l : pay' = [to |-> to, cur |-> cur, loaded |-> l]
      <3>1. ASSUME NEW to \in Targets, NEW cur \in Currencies, Type(to, cur)
            PROVE  pay' = [to |-> to, cur |-> cur, loaded |-> pay.loaded]
        <4>1. pay' = [pay EXCEPT !.to = to, !.cur = cur]
          BY <3>1, Zenon DEF Type
        <4> QED BY <1>2, <4>1, PayRecord, Zenon
      <3>2. ASSUME PayBalance
            PROVE  \E cur, l : pay' = [to |-> pay.to, cur |-> cur, loaded |-> l]
        <4>1. PICK cur : pay' = [pay EXCEPT !.loaded = TRUE, !.cur = cur]
          BY <3>2, Zenon DEF PayBalance
        <4>2. pay' = [to |-> pay.to, cur |-> cur, loaded |-> TRUE]
          BY <1>2, <4>1, PayRecord, Zenon
        <4> QED BY <4>2
      <3> QED BY <1>2, <3>1, <3>2, Zenon
    <2>2. PICK to \in Targets \cup {"none"} : \E cur, l : pay' = [to |-> to, cur |-> cur, loaded |-> l]
      BY <2>1, Zenon
    <2>3. PICK cur, l : pay' = [to |-> to, cur |-> cur, loaded |-> l]
      BY <2>2, Zenon
    <2> QED BY <2>3 DEF PayShaped
  <1> QED BY <1>1, <1>2, <1>3, OtherReads, Zenon

LEMMA ConvertReads ==
    ASSUME PagesInv,
           \/ \E cur \in Currencies \ {"USDC"} : AskRate(cur)
           \/ (\E cur \in rates : RateAnswered(cur)) \/ ConvertBalance \/ PageFaultsAgain
    PROVE  PagesInv'
  <1>1. UNCHANGED <<buy, quotes, pay, voucher, press, used, moves, tries, crossed, fx>>
    BY DEF AskRate, RateAnswered, ConvertBalance, PageFaultsAgain, reads, server, notes
  <1>2. ReadsOk' /\ crossed \subseteq crossed'
    BY <1>1, Zenon DEF PagesInv, ReadsOk
  <1> QED BY <1>1, <1>2, Untouched, Zenon

LEMMA ReceiveReads ==
    ASSUME PagesInv, (\E v \in Tickets \cup {"none"} : LoadSummary(v)) \/ \E v \in Tickets : LoadClaim(v)
    PROVE  PagesInv'
  <1>1. UNCHANGED <<buy, quotes, press, used, moves, tries, crossed, fx>> /\ pay' = pay
    BY DEF LoadSummary, LoadClaim, server, notes
  <1>2. /\ PayShaped(pay) /\ pay.to \in Targets \cup {"none"} /\ VoucherShaped(voucher)
        /\ voucher.id \in Tickets \cup {"none"} /\ voucher.link \in Tickets \cup {"none"}
    BY Zenon DEF PagesInv, ReadsOk, PayShaped, VoucherShaped
  <1>3. /\ VoucherShaped(voucher') /\ voucher'.id \in Tickets \cup {"none"}
        /\ voucher'.link \in Tickets \cup {"none"}
    <2>1. \E id, link \in Tickets \cup {"none"} : \E o : voucher' = [id |-> id, open |-> o, link |-> link]
      <3>1. ASSUME NEW v \in Tickets \cup {"none"}, LoadSummary(v)
            PROVE  \E o : voucher' = [id |-> v, open |-> o, link |-> voucher.link]
        <4>1. PICK o : voucher' = [voucher EXCEPT !.id = v, !.open = o]
          BY <3>1, Zenon DEF LoadSummary
        <4> QED BY <1>2, <4>1, VoucherRecord, Zenon
      <3>2. ASSUME NEW v \in Tickets, LoadClaim(v)
            PROVE  voucher' = [id |-> voucher.id, open |-> voucher.open, link |-> v]
        <4>1. voucher' = [voucher EXCEPT !.link = v]
          BY <3>2, Zenon DEF LoadClaim
        <4> QED BY <1>2, <4>1, VoucherRecord, Zenon
      <3> QED BY <1>2, <3>1, <3>2, Zenon
    <2>2. PICK id, link \in Tickets \cup {"none"} : \E o : voucher' = [id |-> id, open |-> o, link |-> link]
      BY <2>1, Zenon
    <2>3. PICK o : voucher' = [id |-> id, open |-> o, link |-> link]
      BY <2>2, Zenon
    <2> QED BY <2>3 DEF VoucherShaped
  <1> QED BY <1>1, <1>2, <1>3, OtherReads, Zenon

LEMMA PressStepKeeps ==
    ASSUME PagesInv, NEW p \in Tabs, PressSteps(p)
    PROVE  PagesInv'
  BY PrepareKeeps, SignKeeps, SubmitKeeps, LookKeeps, PayTicketKeeps, MarkKeeps, ReserveKeeps, PayCodeKeeps,
     PollKeeps, ShowKeeps, Zenon DEF PressSteps

LEMMA PagesStep ==
    ASSUME PagesInv, PagesNext
    PROVE  PagesInv'
  <1>1. CASE Buying
    <2>1. "buy" \in Tabs
      BY DEF Tabs
    <2> QED BY <1>1, <2>1, BuyReads, QuoteKeeps, BuyPressed, PressStepKeeps, Zenon DEF Buying
  <1>2. CASE Sending
    <2>1. "pay" \in Tabs
      BY DEF Tabs
    <2> QED BY <1>2, <2>1, SendReads, OtherPressed, PressStepKeeps, Zenon DEF Sending
  <1>3. CASE Converting
    <2>1. "convert" \in Tabs
      BY DEF Tabs
    <2> QED BY <1>3, <2>1, ConvertReads, OtherPressed, PressStepKeeps, Zenon DEF Converting
  <1>4. CASE Receiving
    <2>1. "receive" \in Tabs /\ "claim" \in Tabs /\ "topup" \in Tabs
      BY DEF Tabs
    <2> QED BY <1>4, <2>1, ReceiveReads, OtherPressed, PressStepKeeps, Zenon DEF Receiving
  <1>5. CASE PageFaultsAgain
    BY <1>5, ConvertReads
  <1> QED BY <1>1, <1>2, <1>3, <1>4, <1>5, Zenon DEF PagesNext

LEMMA PagesStart == PagesInit => PagesInv
  <1> SUFFICES ASSUME PagesInit PROVE PagesInv
    OBVIOUS
  <1>1. ShapesOk /\ (\A p \in Tabs : press[p].pc = "idle")
    <2>1. \A p \in Tabs : press[p] = AtRest
      BY DEF PagesInit
    <2>2. press = [p \in Tabs |-> press[p]]
      BY DEF PagesInit
    <2>3. Shaped(AtRest) /\ AtRest.pc = "idle"
      BY DEF Shaped, AtRest
    <2> QED BY <2>1, <2>2, <2>3, Zenon DEF ShapesOk
  <1>2. ReadsOk
    <2>1. /\ buy = Opened /\ quotes = {} /\ voucher = NoVoucher /\ fx \in FxRates
          /\ pay = [to |-> "none", cur |-> "ZAR", loaded |-> FALSE]
      BY DEF PagesInit
    <2>2. /\ Opened = [charge |-> Opened.charge, quote |-> Opened.quote, fetching |-> Opened.fetching,
                    spend |-> Opened.spend, have |-> Opened.have, seen |-> Opened.seen]
          /\ Opened.charge = NoCharge /\ Opened.quote = NoQuote /\ NoQuote.cross = FALSE
      BY DEF Opened, NoQuote
    <2>3. /\ NoVoucher = [id |-> NoVoucher.id, open |-> NoVoucher.open, link |-> NoVoucher.link]
          /\ NoVoucher.id = "none" /\ NoVoucher.link = "none"
      BY DEF NoVoucher
    <2>4. pay = [to |-> pay.to, cur |-> pay.cur, loaded |-> pay.loaded] /\ pay.to \in Targets \cup {"none"}
      BY <2>1
    <2>5. \A q \in quotes : q.charge.mid # NoMerchant
      BY <2>1
    <2>6. buy.charge \in Charges \cup {NoCharge} /\ (buy.charge.mid = NoMerchant /\ buy.quote.cross => buy.charge.id \in crossed)
      BY <2>1, <2>2, Zenon
    <2>7. voucher.id \in Tickets \cup {"none"} /\ voucher.link \in Tickets \cup {"none"}
      BY <2>1, <2>3
    <2>8. crossed \cap Codes = {}
      BY DEF PagesInit
    <2> QED BY <2>1, <2>2, <2>3, <2>4, <2>5, <2>6, <2>7, <2>8, Zenon DEF ReadsOk
  <1>3. PressOk
    BY <1>1, Zenon DEF PressOk
  <1>4. moves = [i \in Items |-> {}] /\ tries = [i \in Items |-> 0] /\ "buy" \in Tabs
    BY DEF PagesInit, Tabs
  <1>5. PriceOk
    <2>1. press["buy"].pc \notin {"sign", "submit", "prepare"}
      BY <1>1, <1>4
    <2>2. \A c \in Charges : moves[c.id] = {}
      BY <1>4, ItemFacts
    <2> QED BY <2>1, <2>2 DEF PriceOk
  <1>6. \A i \in Items : moves[i] = {} /\ tries[i] = 0 /\ IsFiniteSet(moves[i]) /\ Cardinality(moves[i]) = 0
    BY <1>4, FS_EmptySet
  <1>7. CountOk
    <2>1. \A i : Pending(i) = 0
      <3>1. \A p \in Tabs : \A i : Pend(press[p], i) = 0
        BY <1>1 DEF Pend, Pends
      <3>2. \A i : Pend(press["buy"], i) = 0 /\ Pend(press["pay"], i) = 0 /\ Pend(press["convert"], i) = 0
                   /\ Pend(press["receive"], i) = 0 /\ Pend(press["claim"], i) = 0 /\ Pend(press["topup"], i) = 0
        BY <3>1 DEF Tabs
      <3> QED BY <3>2 DEF Pending
    <2> QED BY <1>4, <1>6, <2>1 DEF CountOk
  <1>8. TicketOk
    <2>1. \A i \in Tickets \cup Codes : moves[i] = {} /\ Cardinality(moves[i]) <= 1
      BY <1>6 DEF Items
    <2>2. \A p \in Tabs : \A i : ~Working(p, i)
      BY <1>1 DEF Working
    <2> QED BY <2>1, <2>2, Zenon DEF TicketOk, TicketFine
  <1> QED BY <1>1, <1>2, <1>3, <1>5, <1>7, <1>8 DEF PagesInv

LEMMA PagesStutter == ASSUME PagesInv, UNCHANGED pageVars PROVE PagesInv'
  <1>1. UNCHANGED <<buy, quotes, pay, voucher, press, used, moves, tries, crossed, fx>>
    BY DEF pageVars, reads, server, notes
  <1>2. ReadsOk' /\ crossed \subseteq crossed'
    BY <1>1, Zenon DEF PagesInv, ReadsOk
  <1> QED BY <1>1, <1>2, Untouched, Zenon

\* The pages' inductive invariant, whatever order answers come in and however often
\* faults repeat: every press is for something its page sells, a purchase under way
\* carries the server's price of its own charge, what a charge's press may still move
\* is within the presses made, and a ticket being paid alone was not paid before.
THEOREM PagesInvariant == PagesSpec => []PagesInv
  <1>1. PagesInv /\ [PagesNext]_pageVars => PagesInv'
    BY PagesStep, PagesStutter
  <1> QED BY <1>1, PagesStart, PTL DEF PagesSpec

LEMMA ShownIsPaid == PagesInv => PaysAsShown
  <1> SUFFICES ASSUME PagesInv PROVE PaysItsQuote /\ OncePerPress
    BY DEF PaysAsShown
  <1>1. PaysItsQuote
    BY Zenon DEF PagesInv, PriceOk, FairFor, PriceAt, PaysItsQuote
  <1>2. OncePerPress
    <2> SUFFICES ASSUME NEW i \in Items
                 PROVE  Cardinality(moves[i]) <= IF i \in Codes \cup (Tickets \ crossed) THEN 1 ELSE tries[i]
      BY Zenon DEF OncePerPress
    <2>1. CASE i \in Codes \cup (Tickets \ crossed)
      <3>1. i \in (Tickets \cup Codes) \ crossed
        BY <2>1 DEF PagesInv, ReadsOk
      <3> QED BY <2>1, <3>1, Zenon DEF PagesInv, TicketOk, TicketFine
    <2>2. CASE i \notin Codes \cup (Tickets \ crossed)
      <3>1. Pending(i) \in Nat
        <4>1. \A p \in Tabs : Pend(press[p], i) \in {0, 1}
          BY PendNat, Zenon
        <4> QED BY <4>1 DEF Pending, Tabs
      <3>2. /\ Cardinality(moves[i]) \in Nat /\ tries[i] \in Nat
            /\ Cardinality(moves[i]) + Pending(i) <= tries[i]
        BY FS_CardinalityType DEF PagesInv, CountOk
      <3>3. Cardinality(moves[i]) <= tries[i]
        BY <3>1, <3>2
      <3> QED BY <2>2, <3>3
    <2> QED BY <2>1, <2>2
  <1> QED BY <1>1, <1>2

\* A page pays what it showed, once per press (Buy.pay, resolveMerchantCheckout,
\* redeem), for any charges, rates, tickets and number of presses.
THEOREM PaysAsShownTheorem == PagesSpec => []PaysAsShown
  BY PagesInvariant, ShownIsPaid, PTL
=============================================================================
