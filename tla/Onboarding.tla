----------------------------- MODULE Onboarding -----------------------------
(***************************************************************************)
(* How a person becomes a consumer, and is found again: the sign-up page,  *)
(* POST /register (registration.routes, registrationService), sign-in with *)
(* the passkey, the operator's change of a KYC level, recovery, and the    *)
(* lookup of a payee by tag or by account number (walletResolve).  The     *)
(* registry itself is ConsumerRegistry; idOS, the name service and the     *)
(* paymaster are remote and may fail without ending a registration.  One   *)
(* action per await of the handler.  Tracking writes are best effort.      *)
(***************************************************************************)
EXTENDS ConsumerRegistry

CONSTANTS Persons,
          MaxTries,      \* bound on the passkeys each person creates
          TagsOf,        \* the tags each person has in mind
          CountryOf,     \* person -> country
          Tiers,         \* country -> levels that kyc_levels has rows for
          Faults,        \* what may go wrong, each kind at most once
          MaxFaults,     \* bound on how many kinds go wrong
          NoTag

ASSUME OnboardAssumption == MaxTries \in [Persons -> Nat]

Passkeys == UNION {{p} \X (1..MaxTries[p]) : p \in Persons}
Runs     == Passkeys \X {1, 2}      \* a request and its duplicate

VARIABLES page,        \* person -> [at, tries]
          challenges,  \* passkeys whose creation challenge is still in the store
          run,         \* run -> [pc, tag, wallet]
          attempts,    \* registration_attempts: run -> [status, step, wallet]
          names,       \* the name service: name -> "free", "minted" or a wallet
          sponsored,   \* wallets on the paymaster's list
          rows,        \* the consumers table, by wallet
          creds,       \* webauthn_credentials: passkey -> wallet
          token,       \* person -> wallet of its JWT
          clerk,       \* the operator's request to set a level
          owner,       \* history: wallet -> the passkey it was deployed for
          recovered,   \* history: wallets that were replaced
          faults

signUp == <<page, challenges, run>>
tables == <<attempts, rows, creds>>
remote == <<names, sponsored>>
traces == <<owner, recovered>>
onboardVars == <<signUp, tables, remote, token, clerk, traces, faults>>

Blank == [status |-> "none", step |-> "none", wallet |-> NoWallet]

OnboardInit ==
    /\ page = [p \in Persons |-> [at |-> "form", tries |-> 0]]
    /\ challenges = {}
    /\ run = [r \in Runs |-> [pc |-> "none", tag |-> NoTag, wallet |-> NoWallet]]
    /\ attempts = [r \in Runs |-> Blank]
    /\ names = [n \in Names |-> "free"] /\ sponsored = {}
    /\ rows = [w \in {} |-> NoTag] /\ creds = [k \in {} |-> NoWallet]
    /\ token = [p \in Persons |-> NoWallet]
    /\ clerk = [pc |-> "idle", wallet |-> NoWallet, level |-> 0]
    /\ owner = [w \in {} |-> NoTag] /\ recovered = {}
    /\ faults = {}

Fault(kind) ==
    /\ kind \in Faults \ faults /\ Cardinality(faults) < MaxFaults
    /\ faults' = faults \cup {kind}

Person(r)  == r[1][1]
Tag(r)     == run[r].tag
Put(f, k, v) == [x \in DOMAIN f \cup {k} |-> IF x = k THEN v ELSE f[x]]

-----------------------------------------------------------------------------
(* The sign-up page.                                                       *)

\* The availability of the tag is looked up as it is typed, from the name
\* service and not from the registry, and a missing or failed answer does not
\* stop the page; so any tag may be submitted.  Each press creates a passkey.
CreateWallet(p, tag) ==
    LET n == page[p].tries + 1 IN
    /\ page[p].at = "form" /\ n <= MaxTries[p] /\ tag \in TagsOf[p]
    /\ page' = [page EXCEPT ![p] = [at |-> "waiting", tries |-> n]]
    /\ challenges' = challenges \cup {<<p, n>>}
    /\ run' = [run EXCEPT ![<<<<p, n>>, 1>>] = [pc |-> "post", tag |-> tag, wallet |-> NoWallet]]
    /\ UNCHANGED <<registryVars, tables, remote, token, clerk, traces, faults>>

\* The request reaches the server a second time.
Redeliver(r) ==
    /\ r[2] = 1 /\ run[r].pc = "post" /\ run[<<r[1], 2>>].pc = "none" /\ Fault("duplicate")
    /\ run' = [run EXCEPT ![<<r[1], 2>>] = run[r]]
    /\ UNCHANGED <<registryVars, page, challenges, tables, remote, token, clerk, traces>>

\* The page shows the error and stays where it is; the answer to a duplicate is
\* dropped.
ShowError(r) ==
    page' = IF r[2] = 1 /\ r[1][2] = page[Person(r)].tries
            THEN [page EXCEPT ![Person(r)].at = "form"] ELSE page

-----------------------------------------------------------------------------
(* POST /register.                                                         *)

Advance(r, pc) == run' = [run EXCEPT ![r].pc = pc]
Track(r, step) == attempts' = [attempts EXCEPT ![r].step = IF attempts[r] = Blank THEN "none" ELSE step]

\* verifyRegistrationClientData: a challenge is used once.
VerifyCeremony(r) == r[1] \in challenges /\ challenges' = challenges \ {r[1]}

Receive(r) ==
    /\ run[r].pc = "post"
    /\ VerifyCeremony(r)
    /\ Advance(r, "signer")
    /\ \/ attempts' = [attempts EXCEPT ![r].status = "started"] /\ UNCHANGED faults
       \/ Fault("step") /\ UNCHANGED attempts
    /\ UNCHANGED <<registryVars, page, rows, creds, remote, token, clerk, traces>>

RefuseCeremony(r) ==
    /\ run[r].pc = "post" /\ r[1] \notin challenges
    /\ Advance(r, "done") /\ ShowError(r)
    /\ UNCHANGED <<registryVars, challenges, tables, remote, token, clerk, traces, faults>>

\* The catch block: the attempt is marked failed, the error goes to the page.
HardFailure(r) ==
    /\ Advance(r, "done") /\ ShowError(r)
    /\ attempts' = [attempts EXCEPT ![r].status = IF attempts[r] = Blank THEN "none" ELSE "failed"]
    /\ UNCHANGED <<rows, creds, challenges, remote, token, clerk>>

\* resolvePasskeySigner: the signer contract is created unless it has code.
ResolveSigner(r) ==
    /\ run[r].pc = "signer" /\ UNCHANGED <<registryVars, traces>>
    /\ \/ /\ Advance(r, "deploy") /\ Track(r, "signer")
          /\ UNCHANGED <<page, challenges, rows, creds, remote, token, clerk, faults>>
       \/ Fault("throw") /\ HardFailure(r)

\* deployConsumerWallet: the registry refuses a tag that is taken and a full pilot.
Deploy(r) ==
    LET w == CHOOSE x \in Wallets \ DOMAIN consumers : TRUE IN
    /\ run[r].pc = "deploy" /\ Wallets \ DOMAIN consumers # {}
    /\ RegisterConsumer(w, Tag(r), CountryOf[Person(r)], 0)
    /\ owner' = Put(owner, w, r[1]) /\ UNCHANGED recovered
    /\ \/ /\ run' = [run EXCEPT ![r].pc = "idos", ![r].wallet = w]
          /\ attempts' = [attempts EXCEPT ![r] =
                            IF @ = Blank THEN @ ELSE [@ EXCEPT !.step = "deploy", !.wallet = w]]
          /\ UNCHANGED <<page, challenges, rows, creds, remote, token, clerk, faults>>
       \/ Fault("lost") /\ HardFailure(r)

DeployReverts(r) ==
    /\ run[r].pc = "deploy"
    /\ consumerCount >= maxConsumers \/ ensByHash[Tag(r)] # NoWallet
    /\ HardFailure(r)
    /\ UNCHANGED <<registryVars, traces, faults>>

\* createIdosProfile and issueIdosCredential: a failure is logged.
IssueCredential(r) ==
    /\ run[r].pc = "idos" /\ Track(r, "idos")
    /\ \/ Advance(r, "mint") /\ UNCHANGED faults
       \/ Fault("idos") /\ Advance(r, "mint_bare")
    /\ UNCHANGED <<registryVars, page, challenges, rows, creds, remote, token, clerk, traces>>

\* ensService.registerSubdomain: mint or reclaim the name, then point it at the
\* wallet; a failure of either is logged.
MintName(r) ==
    LET next == IF run[r].pc = "mint" THEN "point" ELSE "point_bare" IN
    /\ run[r].pc \in {"mint", "mint_bare"} /\ Advance(r, next)
    /\ \/ names' = [names EXCEPT ![Tag(r)] = IF @ = "free" THEN "minted" ELSE @] /\ UNCHANGED faults
       \/ Fault("ens") /\ UNCHANGED names
    /\ UNCHANGED <<registryVars, page, challenges, tables, sponsored, token, clerk, traces>>

PointName(r) ==
    LET next == IF run[r].pc = "point" THEN "sponsor" ELSE "sponsor_bare" IN
    /\ run[r].pc \in {"point", "point_bare"} /\ Advance(r, next) /\ Track(r, "ens")
    /\ \/ /\ names' = IF names[Tag(r)] = "free" THEN names ELSE [names EXCEPT ![Tag(r)] = run[r].wallet]
          /\ UNCHANGED faults
       \/ Fault("ens") /\ UNCHANGED names
    /\ UNCHANGED <<registryVars, page, challenges, rows, creds, sponsored, token, clerk, traces>>

\* pimlicoService.whitelistSponsored.
Sponsor(r) ==
    LET next == IF run[r].pc = "sponsor" THEN "db" ELSE "db_bare" IN
    /\ run[r].pc \in {"sponsor", "sponsor_bare"} /\ Advance(r, next) /\ Track(r, "pimlico")
    /\ \/ sponsored' = sponsored \cup {run[r].wallet} /\ UNCHANGED faults
       \/ Fault("pimlico") /\ UNCHANGED sponsored
    /\ UNCHANGED <<registryVars, page, challenges, rows, creds, names, token, clerk, traces>>

\* Mutant: the row is best effort as well.
WriteRowLogged(r) ==
    LET w == run[r].wallet IN
    /\ run[r].pc \in {"db", "db_bare"} /\ Advance(r, "finish") /\ Track(r, "db")
    /\ \/ /\ rows' = Put(rows, w, [tag |-> Tag(r), id |-> consumers[w].globalConsumerId,
                                   level |-> 0, idos |-> run[r].pc = "db"])
          /\ UNCHANGED faults
       \/ Fault("db") /\ UNCHANGED rows
    /\ UNCHANGED <<registryVars, traces, page, challenges, creds, remote, token, clerk>>

\* writeConsumerRecord, the last critical step.
WriteRow(r) ==
    LET w == run[r].wallet IN
    /\ run[r].pc \in {"db", "db_bare"} /\ UNCHANGED <<registryVars, traces>>
    /\ \/ /\ rows' = Put(rows, w, [tag |-> Tag(r), id |-> consumers[w].globalConsumerId,
                                   level |-> 0, idos |-> run[r].pc = "db"])
          /\ Advance(r, "finish") /\ Track(r, "db")
          /\ UNCHANGED <<page, challenges, creds, remote, token, clerk, faults>>
       \/ Fault("db") /\ HardFailure(r)

FinishAttempt(r) ==
    /\ run[r].pc = "finish" /\ Advance(r, "credential")
    /\ \/ attempts' = [attempts EXCEPT ![r].status = IF attempts[r] = Blank THEN "none" ELSE "completed"]
          /\ UNCHANGED faults
       \/ Fault("finish") /\ UNCHANGED attempts
    /\ UNCHANGED <<registryVars, page, challenges, rows, creds, remote, token, clerk, traces>>

\* The passkey is stored after the attempt is finished: a failure here is answered
\* as a failed registration.
StoreCredential(r) ==
    /\ run[r].pc = "credential"
    /\ \/ /\ creds' = Put(creds, r[1], run[r].wallet) /\ Advance(r, "answer")
          /\ UNCHANGED <<page, faults>>
       \/ Fault("db") /\ Advance(r, "done") /\ ShowError(r) /\ UNCHANGED creds
    /\ UNCHANGED <<registryVars, challenges, attempts, rows, remote, token, clerk, traces>>

Answer(r) ==
    /\ run[r].pc = "answer" /\ Advance(r, "done")
    /\ \/ /\ r[2] = 1
          /\ token' = [token EXCEPT ![Person(r)] = run[r].wallet]
          /\ page' = [page EXCEPT ![Person(r)].at = "home"] /\ UNCHANGED faults
       \/ r[2] = 2 /\ UNCHANGED <<token, page, faults>>
       \/ Fault("answer") /\ ShowError(r) /\ UNCHANGED token
    /\ UNCHANGED <<registryVars, challenges, tables, remote, clerk, traces>>

\* The process restarts: every request ends and the challenge store is empty.
Restart ==
    /\ Fault("crash")
    /\ run' = [r \in Runs |-> IF run[r].pc = "none" THEN run[r] ELSE [run[r] EXCEPT !.pc = "done"]]
    /\ page' = [p \in Persons |-> IF page[p].at = "waiting" THEN [page[p] EXCEPT !.at = "form"] ELSE page[p]]
    /\ challenges' = {}
    /\ clerk' = [clerk EXCEPT !.pc = "idle"]
    /\ UNCHANGED <<registryVars, tables, remote, token, traces>>

-----------------------------------------------------------------------------
(* Sign-in, recovery and the operator.                                     *)

\* POST /auth/passkey/login: the wallet of the stored passkey.
Login(p, k) ==
    /\ k \in DOMAIN creds /\ k[1] = p /\ token[p] # creds[k]
    /\ token' = [token EXCEPT ![p] = creds[k]]
    /\ UNCHANGED <<registryVars, signUp, tables, remote, clerk, traces, faults>>

\* POST /register/recover, for a consumer whose idOS credential holds the tag.  The
\* registry moves the consumer; then the handler takes the first log of the receipt
\* for WalletRecovered, which is the new Safe's, and throws: neither the name nor
\* the row follow.
Recover(old) ==
    LET w == CHOOSE x \in Wallets \ DOMAIN consumers : TRUE IN
    /\ old \in DOMAIN rows /\ rows[old].idos /\ Wallets \ DOMAIN consumers # {}
    /\ RecoverWallet(old, rows[old].tag, w)
    /\ recovered' = recovered \cup {old} /\ UNCHANGED owner
    /\ UNCHANGED <<signUp, tables, remote, token, clerk, faults>>

\* resolveWalletOrTag.
ResolveTag(tag) == ensByHash[tag]
ResolveAccountNumber(id) ==
    LET known == {w \in DOMAIN rows : rows[w].id = id} IN
    IF known # {} THEN CHOOSE w \in known : TRUE ELSE consumerById[id]
Resolved == {ResolveTag(n) : n \in Names}
            \cup {ResolveAccountNumber(i) : i \in {j \in Ids : consumerById[j] # NoWallet}}

\* POST /consumers/kyc-level: resolve, change the registry, mirror into the row.
\* Requests for the level a consumer has are left out.
StartKyc(w, level) ==
    /\ clerk.pc \in {"idle", "ok"}
    /\ w \in Resolved \ {NoWallet} /\ consumers[w].kycLevel # level
    /\ clerk' = [pc |-> "chain", wallet |-> w, level |-> level]
    /\ UNCHANGED <<registryVars, signUp, tables, remote, token, traces, faults>>

SetKycOnChain ==
    /\ clerk.pc = "chain"
    /\ IF Active(clerk.wallet)
       THEN UpdateKycLevel(clerk.wallet, clerk.level) /\ clerk' = [clerk EXCEPT !.pc = "mirror"]
       ELSE UNCHANGED registryVars /\ clerk' = [clerk EXCEPT !.pc = "idle"]
    /\ UNCHANGED <<signUp, tables, remote, token, traces, faults>>

\* Without a row, or without a tier of that level, the answer is an error although
\* the registry has changed.
MirrorKyc ==
    LET w == clerk.wallet
        tier == clerk.level \in Tiers[consumers[w].countryCode]
    IN
    /\ clerk.pc = "mirror"
    /\ rows' = IF w \in DOMAIN rows
               THEN [rows EXCEPT ![w].level = IF tier THEN clerk.level ELSE -1] ELSE rows
    /\ clerk' = [clerk EXCEPT !.pc = IF w \in DOMAIN rows /\ tier THEN "ok" ELSE "idle"]
    /\ UNCHANGED <<registryVars, signUp, attempts, creds, remote, token, traces, faults>>

\* GET /reports/registrations: an attempt still "started" whose wallet has a row is
\* completed before anything is counted.
HealAttempts ==
    LET healed(r) == attempts[r].status = "started" /\ attempts[r].wallet \in DOMAIN rows IN
    /\ \E r \in Runs : healed(r)
    /\ attempts' = [r \in Runs |-> IF healed(r) THEN [attempts[r] EXCEPT !.status = "completed"] ELSE attempts[r]]
    /\ UNCHANGED <<registryVars, signUp, rows, creds, remote, token, clerk, traces, faults>>

SignUp ==
    \/ \E p \in Persons, tag \in Names : CreateWallet(p, tag)
    \/ \E r \in Runs :
          \/ Redeliver(r) \/ Receive(r) \/ RefuseCeremony(r) \/ ResolveSigner(r)
          \/ Deploy(r) \/ DeployReverts(r) \/ IssueCredential(r) \/ MintName(r) \/ PointName(r)
          \/ Sponsor(r) \/ WriteRow(r) \/ FinishAttempt(r) \/ StoreCredential(r) \/ Answer(r)
    \/ Restart
    \/ HealAttempts

Accounts ==
    \/ \E p \in Persons, k \in Passkeys : Login(p, k)
    \/ \E w \in Wallets : Recover(w)
    \/ \E w \in Wallets, level \in Levels : StartKyc(w, level)
    \/ SetKycOnChain \/ MirrorKyc

\* No bound on the faults that the report does not count: each kind may come again.
FaultsAgain ==
    /\ faults' = faults \cap {"lost", "step"}
    /\ UNCHANGED <<registryVars, signUp, tables, remote, token, clerk, traces>>

\* What else the registry does meanwhile: the cap, linked wallets, remittances, the clock.
RegistryBeside ==
    /\ \/ \E n \in Caps : SetMaxConsumers(n)
       \/ \E w, linked \in Wallets : SetSaveWallet(w, linked) \/ SetUsdWallet(w, linked)
       \/ Spending
    /\ UNCHANGED onboardVars

OnboardNext == SignUp \/ Accounts \/ RegistryBeside \/ FaultsAgain
OnboardSpec == RegistryInit /\ OnboardInit /\ [][OnboardNext]_<<registryVars, onboardVars>>

-----------------------------------------------------------------------------
\* The sign-up funnel adds up: unless a receipt or a tracking write was lost on the
\* way, the attempts counted as completed are the rows of the consumers table, and
\* the wallets of the others are exactly the consumers of the registry that have no
\* row.
Counted(r) ==
    \/ attempts[r].status = "completed"
    \/ attempts[r].status = "started" /\ attempts[r].wallet \in DOMAIN rows
FunnelReconciles ==
    faults \cap {"lost", "step"} = {} =>
       /\ DOMAIN rows = {attempts[r].wallet : r \in {s \in Runs : Counted(s)}}
       /\ DOMAIN owner \ DOMAIN rows =
             {attempts[r].wallet : r \in {s \in Runs : ~Counted(s)}} \ {NoWallet}

\* What a person ends up with fits together, however often a registration broke
\* off and was started again: a passkey is stored only for the one wallet deployed
\* for it, and only if the wallet has a row; the row has the tag, the account number
\* and the name of the registry; until a recovery both the tag and the number pay
\* that wallet; and a level the operator was told is set is in both places.  And the
\* sign-up funnel reconciles.
AccountsWhole ==
    /\ \A v, w \in DOMAIN owner : owner[v] = owner[w] => v = w
    /\ \A k \in DOMAIN creds : creds[k] \in DOMAIN rows /\ owner[creds[k]] = k
    /\ \A p \in Persons : token[p] # NoWallet => \E k \in DOMAIN creds : k[1] = p /\ creds[k] = token[p]
    /\ \A w \in DOMAIN rows :
          /\ w \in DOMAIN owner /\ consumers[w].ens = rows[w].tag
          /\ names[rows[w].tag] \in {"free", "minted", w}
          /\ w \notin recovered => /\ ResolveTag(rows[w].tag) = w
                                   /\ ResolveAccountNumber(rows[w].id) = w
    /\ clerk.pc = "ok" => /\ rows[clerk.wallet].level = clerk.level
                          /\ consumers[clerk.wallet].kycLevel = clerk.level
    /\ FunnelReconciles
=============================================================================
