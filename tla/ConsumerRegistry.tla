--------------------------- MODULE ConsumerRegistry ---------------------------
(***************************************************************************)
(* Consumer.sol: the registry of consumers.  It deploys a Safe per         *)
(* consumer, keeps the indexes by global id and by ENS hash, replaces a    *)
(* lost wallet, and logs remittances against the KYC limits of a day and   *)
(* of a 30-day month.  One action per external function; a revert is a     *)
(* disabled action.  Display names are left out: nothing reads them.       *)
(***************************************************************************)
EXTENDS ShareMath, Sequences

CONSTANTS Wallets,       \* the addresses a Safe may be deployed at
          Names,         \* ENS hashes
          Countries,
          RemitAmounts,  \* remittance amounts
          Levels,        \* KYC levels in use, a part of 0..3
          DailyLimit,    \* level -> KYCn_DAILY
          MonthlyLimit,  \* level -> KYCn_MONTHLY
          MonthDays,     \* days in a month bucket, 30 in the code
          LastDay,       \* bound on the clock, in days
          Caps,          \* values given to setMaxConsumers
          MaxLog,        \* bound on the length of remittanceLog
          NoName, NoWallet

ASSUME RegistryAssumption ==
    /\ IsFiniteSet(Wallets)
    /\ NoName \notin Names /\ NoWallet \notin Wallets
    /\ Levels \subseteq 0..3 /\ Levels # {}
    /\ DailyLimit \in [1..3 -> Nat] /\ MonthlyLimit \in [1..3 -> Nat]
    /\ \A k \in 1..3 : DailyLimit[k] <= DailyLimit[3] /\ MonthlyLimit[k] <= MonthlyLimit[3]
    /\ RemitAmounts \subseteq Nat /\ Caps \subseteq Nat /\ Caps # {}
    /\ MonthDays \in Nat \ {0} /\ LastDay \in Nat /\ MaxLog \in Nat

Days   == 0..LastDay
Months == 0..(LastDay \div MonthDays)
Ids    == 0..Cardinality(Wallets)   \* global ids, 1000 upwards in the code

VARIABLES consumers,      \* deployed wallet -> its ConsumerData
          ensByHash,      \* name -> wallet or NoWallet
          consumerById,   \* id -> wallet or NoWallet
          consumerCount, maxConsumers, nextGlobalId,
          dailySent,      \* wallet -> day -> sum
          monthlySent,    \* wallet -> month -> sum
          remittanceLog,  \* sequence of [sender, amountSent, day]
          today           \* block.timestamp / 86400

identity == <<consumers, ensByHash, consumerById, consumerCount, nextGlobalId>>
spend    == <<dailySent, monthlySent, remittanceLog>>
registryVars == <<identity, maxConsumers, spend, today>>

ThisMonth == today \div MonthDays
Active(w) == w \in DOMAIN consumers /\ consumers[w].isActive

-----------------------------------------------------------------------------
RegistryInit ==
    /\ consumers = [w \in {} |-> NoWallet]
    /\ ensByHash = [n \in Names |-> NoWallet]
    /\ consumerById = [i \in Ids |-> NoWallet]
    /\ consumerCount = 0 /\ nextGlobalId = 0
    /\ maxConsumers \in Caps
    /\ dailySent = [w \in Wallets |-> [d \in Days |-> 0]]
    /\ monthlySent = [w \in Wallets |-> [m \in Months |-> 0]]
    /\ remittanceLog = <<>>
    /\ today = 0

SetMaxConsumers(n) ==
    /\ maxConsumers' = n
    /\ UNCHANGED <<identity, spend, today>>

\* consumers[w] = data, for a wallet that may be new.
Recorded(w, data) ==
    [x \in DOMAIN consumers \cup {w} |-> IF x = w THEN data ELSE consumers[x]]

\* Mutant: a name that is taken is taken over.
RegisterAnyName(w, ens, country, level) ==
    /\ consumerCount < maxConsumers
    /\ w \notin DOMAIN consumers
    /\ nextGlobalId' = nextGlobalId + 1
    /\ ensByHash' = IF ens = NoName THEN ensByHash ELSE [ensByHash EXCEPT ![ens] = w]
    /\ consumerById' = [consumerById EXCEPT ![nextGlobalId] = w]
    /\ consumers' = Recorded(w, [saveWallet |-> NoWallet, usdWallet |-> NoWallet,
                                 ens |-> ens, countryCode |-> country, kycLevel |-> level,
                                 isActive |-> TRUE, globalConsumerId |-> nextGlobalId])
    /\ consumerCount' = consumerCount + 1
    /\ UNCHANGED <<maxConsumers, spend, today>>

\* registerConsumer(): the factory deploys at an address that is not in use.
RegisterConsumer(w, ens, country, level) ==
    /\ consumerCount < maxConsumers
    /\ ens # NoName => ensByHash[ens] = NoWallet
    /\ w \notin DOMAIN consumers
    /\ nextGlobalId' = nextGlobalId + 1
    /\ ensByHash' = IF ens = NoName THEN ensByHash ELSE [ensByHash EXCEPT ![ens] = w]
    /\ consumerById' = [consumerById EXCEPT ![nextGlobalId] = w]
    /\ consumers' = Recorded(w, [saveWallet |-> NoWallet, usdWallet |-> NoWallet,
                                 ens |-> ens, countryCode |-> country, kycLevel |-> level,
                                 isActive |-> TRUE, globalConsumerId |-> nextGlobalId])
    /\ consumerCount' = consumerCount + 1
    /\ UNCHANGED <<maxConsumers, spend, today>>

\* Mutant: the new wallet starts from a fresh record.
RecoverForgets(old, ens, w) ==
    /\ ens # NoName
    /\ Active(old)
    /\ consumers[old].ens = ens
    /\ w \notin DOMAIN consumers
    /\ consumers' = [x \in DOMAIN consumers \cup {w} |->
                        IF x = w THEN [consumers[old] EXCEPT !.saveWallet = NoWallet]
                        ELSE IF x = old THEN [consumers[old] EXCEPT !.isActive = FALSE]
                        ELSE consumers[x]]
    /\ ensByHash' = [ensByHash EXCEPT ![ens] = w]
    /\ consumerById' = [consumerById EXCEPT ![consumers[old].globalConsumerId] = w]
    /\ UNCHANGED <<consumerCount, nextGlobalId, maxConsumers, spend, today>>

\* recoverWallet(): the record moves to the new wallet, the old one stays, inactive.
RecoverWallet(old, ens, w) ==
    /\ ens # NoName
    /\ Active(old)
    /\ consumers[old].ens = ens
    /\ w \notin DOMAIN consumers
    /\ consumers' = [x \in DOMAIN consumers \cup {w} |->
                        IF x = w THEN consumers[old]
                        ELSE IF x = old THEN [consumers[old] EXCEPT !.isActive = FALSE]
                        ELSE consumers[x]]
    /\ ensByHash' = [ensByHash EXCEPT ![ens] = w]
    /\ consumerById' = [consumerById EXCEPT ![consumers[old].globalConsumerId] = w]
    /\ UNCHANGED <<consumerCount, nextGlobalId, maxConsumers, spend, today>>

SetSaveWallet(w, save) ==
    /\ Active(w)
    /\ consumers[w].saveWallet = NoWallet
    /\ consumers' = [consumers EXCEPT ![w].saveWallet = save]
    /\ UNCHANGED <<ensByHash, consumerById, consumerCount, nextGlobalId, maxConsumers, spend,
                   today>>

SetUsdWallet(w, usd) ==
    /\ Active(w)
    /\ consumers[w].usdWallet = NoWallet
    /\ consumers' = [consumers EXCEPT ![w].usdWallet = usd]
    /\ UNCHANGED <<ensByHash, consumerById, consumerCount, nextGlobalId, maxConsumers, spend,
                   today>>

UpdateKycLevel(w, level) ==
    /\ Active(w)
    /\ consumers' = [consumers EXCEPT ![w].kycLevel = level]
    /\ UNCHANGED <<ensByHash, consumerById, consumerCount, nextGlobalId, maxConsumers, spend,
                   today>>

\* checkKycLimit(): nothing at level 0, both projections within the level's limits.
CheckKycLimit(w, a) ==
    LET level == consumers[w].kycLevel IN
    /\ level # 0
    /\ dailySent[w][today] + a <= DailyLimit[level]
    /\ monthlySent[w][ThisMonth] + a <= MonthlyLimit[level]

RecordRemittance(w, a) ==
    /\ Active(w)
    /\ a > 0
    /\ CheckKycLimit(w, a)
    /\ Len(remittanceLog) < MaxLog
    /\ dailySent' = [dailySent EXCEPT ![w][today] = @ + a]
    /\ monthlySent' = [monthlySent EXCEPT ![w][ThisMonth] = @ + a]
    /\ remittanceLog' = Append(remittanceLog, [sender |-> w, amountSent |-> a, day |-> today])
    /\ UNCHANGED <<identity, maxConsumers, today>>

\* The chain's clock.
NextDay ==
    /\ today < LastDay
    /\ today' = today + 1
    /\ UNCHANGED <<identity, maxConsumers, spend>>

-----------------------------------------------------------------------------
Identity ==
    \/ \E n \in Caps : SetMaxConsumers(n)
    \/ \E w \in Wallets, ens \in Names \cup {NoName}, c \in Countries, k \in Levels :
          RegisterConsumer(w, ens, c, k)
    \/ \E old, w \in Wallets, ens \in Names : RecoverWallet(old, ens, w)
    \/ \E w, save \in Wallets : SetSaveWallet(w, save)
    \/ \E w, usd \in Wallets : SetUsdWallet(w, usd)
    \/ \E w \in Wallets, k \in Levels : UpdateKycLevel(w, k)

Spending ==
    \/ \E w \in Wallets, a \in RemitAmounts : RecordRemittance(w, a)
    \/ NextDay

RegistryNext == Identity \/ Spending

RegistrySpec == RegistryInit /\ [][RegistryNext]_registryVars

-----------------------------------------------------------------------------
ConsumerData ==
    [saveWallet : Wallets \cup {NoWallet}, usdWallet : Wallets \cup {NoWallet},
     ens : Names \cup {NoName}, countryCode : Countries, kycLevel : 0..3,
     isActive : BOOLEAN, globalConsumerId : Nat]

RegistryTypeOK ==
    /\ DOMAIN consumers \subseteq Wallets
    /\ \A w \in DOMAIN consumers : consumers[w] \in ConsumerData
    /\ ensByHash \in [Names -> Wallets \cup {NoWallet}]
    /\ consumerById \in [Ids -> Wallets \cup {NoWallet}]
    /\ consumerCount \in Nat /\ nextGlobalId \in Nat /\ maxConsumers \in Caps
    /\ dailySent \in [Wallets -> [Days -> Nat]]
    /\ monthlySent \in [Wallets -> [Months -> Nat]]
    /\ today \in Days

\* Each consumer has exactly one active wallet and both indexes lead to it, through
\* any number of recoveries: a lookup by id or by name never returns a lost wallet.
IndexesAgree ==
    /\ \A i \in Ids :
          {w \in DOMAIN consumers : Active(w) /\ consumers[w].globalConsumerId = i}
             = {consumerById[i]} \ {NoWallet}
    /\ \A n \in Names :
          {w \in DOMAIN consumers : Active(w) /\ consumers[w].ens = n}
             = {ensByHash[n]} \ {NoWallet}

\* The count that the pilot cap limits is the number of consumers: a recovery
\* neither adds one nor loses one.
CountIsActive == consumerCount = Cardinality({w \in DOMAIN consumers : Active(w)})

\* A consumer keeps its identity through a recovery: whoever is looked up by id has
\* the country, the name and the linked wallets it had (a link is set once), and no
\* later call changes the retired wallet's record or what it has sent.
IdentityKept ==
    [][/\ \A i \in Ids :
             consumerById[i] # NoWallet =>
                LET before == consumers[consumerById[i]]
                    after  == consumers'[consumerById'[i]]
                IN  /\ after.countryCode = before.countryCode /\ after.ens = before.ens
                    /\ before.saveWallet # NoWallet => after.saveWallet = before.saveWallet
                    /\ before.usdWallet # NoWallet => after.usdWallet = before.usdWallet
       /\ \A w \in DOMAIN consumers :
             ~consumers[w].isActive =>
                consumers'[w] = consumers[w] /\ dailySent'[w] = dailySent[w]]_registryVars

\* The accumulators the limits are checked against are the sums of the append-only
\* log: a day's entries for the day, and the days of the bucket for the month.
SentOn(w, d) ==
    Total([j \in {k \in 1..Len(remittanceLog) :
                     remittanceLog[k].sender = w /\ remittanceLog[k].day = d}
              |-> remittanceLog[j].amountSent])
AccumulatorsMatchLog ==
    \A w \in Wallets :
       /\ \A d \in Days : dailySent[w][d] = SentOn(w, d)
       /\ \A m \in Months :
             monthlySent[w][m] =
                Total([d \in {e \in Days : e \div MonthDays = m} |-> dailySent[w][d]])

\* No wallet sends more than the largest daily and monthly limits, at any level and
\* across level changes.
WalletWithinLimits ==
    \A w \in Wallets :
       /\ \A d \in Days : dailySent[w][d] <= DailyLimit[3]
       /\ \A m \in Months : monthlySent[w][m] <= MonthlyLimit[3]

\* The registry's redundant storage agrees in every order of calls, and no wallet
\* exceeds its limits.
RegistryInv == RegistryTypeOK /\ IndexesAgree /\ CountIsActive /\ AccumulatorsMatchLog /\ WalletWithinLimits
=============================================================================
