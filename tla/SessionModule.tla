---------------------------- MODULE SessionModule ----------------------------
(***************************************************************************)
(* SessionTransferModule.sol for one consumer Safe: session keys that may  *)
(* spend from the Safe's Vault balance under a per-payment cap, a daily    *)
(* cap and an expiry.  A payment is a signature by the session key over    *)
(* the amount, the key's nonce at signing time and a deadline; anyone may  *)
(* relay it.  Time is counted in ticks, DayLength of them to a day.        *)
(***************************************************************************)
EXTENDS Integers, Sequences, FiniteSets

CONSTANTS
    Keys,        \* session key addresses
    Amounts,     \* amounts a payment may be signed for
    Caps,        \* <<maxPerTx, dailyCap>> pairs the Safe may register
    Lifetimes,   \* ticks from registration to expiry
    Patience,    \* ticks from signing to the signature's deadline
    DayLength,   \* ticks in a day (86400 seconds in the code)
    MaxTime,     \* bound on the clock
    MaxLog,      \* bound on the number of executed payments
    MaxSigned,   \* bound on the number of signatures produced
    MaxGen,      \* bound on the registrations of one key
    Funds        \* Vault balance of the Safe at the start

ASSUME SessionAssumption ==
    /\ Amounts \subseteq Nat /\ Caps \subseteq (Nat \X Nat)
    /\ Lifetimes \subseteq (Nat \ {0}) /\ Patience \in Nat
    /\ DayLength \in Nat \ {0} /\ MaxTime \in Nat /\ DayLength <= MaxTime /\ Funds \in Nat
    /\ MaxLog \in Nat /\ MaxGen \in Nat /\ MaxSigned \in Nat

VARIABLES
    now,        \* block.timestamp
    sessions,   \* sessions[safe]: the Session struct of every key
    signed,     \* signatures the key holders have produced
    funds,      \* the Safe's unified balance in the Vault
    gen,        \* history: how many times each key was registered
    spent,      \* history: paid per key and day since the key was registered
    log         \* history: the payments executed, in order

vars == <<now, sessions, signed, funds, gen, spent, log>>

Days == 0..(MaxTime \div DayLength)

\* `delete sessions[safe][key]` and a never-written slot read the same.
NoSession == [expiry |-> 0, maxPerTx |-> 0, dailyCap |-> 0, dailySpent |-> 0,
              dayBucket |-> 0, nonce |-> 0, active |-> FALSE]

Day == now \div DayLength

\* What _validateAndConsumeSession hashes: the nonce is read from the session
\* at verification time, so a signature matches only at the nonce it was made for.
Digest(k, a, d) == [key |-> k, amount |-> a, nonce |-> sessions[k].nonce, deadline |-> d]

Init ==
    /\ now = DayLength
    /\ sessions = [k \in Keys |-> NoSession]
    /\ signed = {}
    /\ funds = Funds
    /\ gen = [k \in Keys |-> 0]
    /\ spent = [k \in Keys |-> [d \in Days |-> 0]]
    /\ log = <<>>

\* addSessionKey overwrites the whole struct: spent amount, day and nonce restart.
AddSessionKey(k, life, cap) ==
    /\ gen[k] < MaxGen
    /\ now + life > now
    /\ sessions' = [sessions EXCEPT ![k] =
          [expiry |-> now + life, maxPerTx |-> cap[1], dailyCap |-> cap[2],
           dailySpent |-> 0, dayBucket |-> 0, nonce |-> 0, active |-> TRUE]]
    /\ gen' = [gen EXCEPT ![k] = @ + 1]
    /\ spent' = [spent EXCEPT ![k] = [d \in Days |-> 0]]
    /\ UNCHANGED <<now, signed, funds, log>>

RemoveSessionKey(k) ==
    /\ sessions' = [sessions EXCEPT ![k] = NoSession]
    /\ UNCHANGED <<now, signed, funds, gen, spent, log>>

\* The key holder signs sessionTransferHash, which reads the current nonce.
Sign(k, a) ==
    /\ Cardinality(signed) < MaxSigned
    /\ sessions[k].active
    /\ signed' = signed \cup {Digest(k, a, now + Patience)}
    /\ UNCHANGED <<now, sessions, funds, gen, spent, log>>

\* Mutant: the rollover is taken on every payment.
SpentTodayForgets(k) == 0

\* What the session has spent on the current day, after the day rollover.
SpentToday(k) == IF sessions[k].dayBucket = Day THEN sessions[k].dailySpent ELSE 0

\* The checks of _validateAndConsumeSession, in its order.
Admits(k, s) ==
    /\ s.amount # 0
    /\ now <= s.deadline
    /\ sessions[k].active
    /\ now <= sessions[k].expiry
    /\ s.amount <= sessions[k].maxPerTx
    /\ SpentToday(k) + s.amount <= sessions[k].dailyCap
    /\ s = Digest(k, s.amount, s.deadline)

\* Mutant: the nonce is not advanced.
ExecuteKeepsNonce(s) ==
    LET k == s.key IN
    /\ Len(log) < MaxLog
    /\ Admits(k, s)
    /\ s.amount <= funds
    /\ sessions' = [sessions EXCEPT ![k].dayBucket = Day,
                                    ![k].dailySpent = SpentToday(k) + s.amount]
    /\ funds' = funds - s.amount
    /\ spent' = [spent EXCEPT ![k][Day] = @ + s.amount]
    /\ log' = Append(log, [sig |-> s, gen |-> gen[k]])
    /\ UNCHANGED <<now, signed, gen>>

\* executeTransfer: anybody relays a signature.  If the Vault refuses the
\* transfer the whole transaction reverts and nothing is consumed.
ExecuteTransfer(s) ==
    LET k == s.key IN
    /\ Len(log) < MaxLog
    /\ Admits(k, s)
    /\ s.amount <= funds
    /\ sessions' = [sessions EXCEPT ![k].dayBucket = Day,
                                    ![k].dailySpent = SpentToday(k) + s.amount,
                                    ![k].nonce = @ + 1]
    /\ funds' = funds - s.amount
    /\ spent' = [spent EXCEPT ![k][Day] = @ + s.amount]
    /\ log' = Append(log, [sig |-> s, gen |-> gen[k]])
    /\ UNCHANGED <<now, signed, gen>>

Tick ==
    /\ now < MaxTime
    /\ now' = now + 1
    /\ UNCHANGED <<sessions, signed, funds, gen, spent, log>>

Next ==
    \/ \E k \in Keys, life \in Lifetimes, cap \in Caps : AddSessionKey(k, life, cap)
    \/ \E k \in Keys : RemoveSessionKey(k)
    \/ \E k \in Keys, a \in Amounts : Sign(k, a)
    \/ \E s \in signed : ExecuteTransfer(s)
    \/ Tick

Spec == Init /\ [][Next]_vars

-----------------------------------------------------------------------------
Session == [expiry : Nat, maxPerTx : Nat, dailyCap : Nat, dailySpent : Nat,
            dayBucket : Nat, nonce : Nat, active : BOOLEAN]
Signature == [key : Keys, amount : Amounts, nonce : Nat, deadline : Nat]

\* Every variable holds a value of its type; the Safe is never overdrawn.
TypeOK ==
    /\ now \in DayLength..MaxTime
    /\ sessions \in [Keys -> Session]
    /\ signed \subseteq Signature
    /\ funds \in Nat
    /\ gen \in [Keys -> Nat]
    /\ spent \in [Keys -> [Days -> Nat]]
    /\ log \in Seq([sig : Signature, gen : Nat])

\* A signature pays at most once while its key stays registered, whoever relays
\* it and however often (executeTransfer is open to anyone).
SignaturePaysOnce ==
    \A i, j \in DOMAIN log : (log[i] = log[j]) => (i = j)

\* The strengthening both properties rest on: the struct's counters agree with the history.
\* Payments of the current registration used smaller nonces than the next one;
\* the bucket holds what was spent on its day and nothing was spent later.
CountersAgree ==
    \A k \in Keys :
        /\ \A i \in DOMAIN log : log[i].sig.key = k => log[i].gen <= gen[k]
        /\ sessions[k].active =>
              /\ \A i \in DOMAIN log : (log[i].sig.key = k /\ log[i].gen = gen[k])
                                        => log[i].sig.nonce < sessions[k].nonce
              /\ sessions[k].dayBucket <= Day
              /\ \A d \in Days : d >= sessions[k].dayBucket =>
                    spent[k][d] = IF d = sessions[k].dayBucket
                                  THEN sessions[k].dailySpent ELSE 0

\* On no day does a registered key spend more than the daily cap it was
\* registered with, though the bucket in the struct only remembers one day; and the
\* struct's counters never fall behind the history.
DailyCapHolds ==
    /\ TypeOK /\ CountersAgree
    /\ \A k \in Keys : sessions[k].active =>
        \A d \in Days : spent[k][d] <= sessions[k].dailyCap
=============================================================================
