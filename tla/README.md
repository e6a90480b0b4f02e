# tende: TLA+ models, checks and proofs

tende ("iMali") is a pilot payment platform: consumers hold passkey-controlled
Safe wallets, their money is a claim in the ledger of one on-chain `Vault`, and a
Node server (`src/server/src`) relays their payments, moves claims with its own
operator key and keeps the off-chain side of every process in PostgreSQL. This
directory models the contracts, the services and the pages that move money or keep
its records, checks them with TLC, and proves with TLAPS the ledger arithmetic, the
contracts that hold money and the services that pay it out.

Every module is translated from the source; `PROJECT.json` maps each definition
to its lines, lists the runs, the mutants that show each property can fail, the
findings, the hazards and the theorems.

## 1. The system

| Part | State | Operations | What makes it correct |
|---|---|---|---|
| `Vault.sol` | per currency: shares, totalShares, totalAssets, reserve; token list; destinations; locks | credit, debit, transfer, deposit, withdraw, purchaseUsd, harvest, reconcile, remittance, administration | no rounding lets one holder take from another; books and tokens move together |
| `TreasuryToken.sol` | balances, supply, frozen amounts, gates | mint, burn, transfer, forcedTransfer, freeze, gate changes | supply = balances; frozen <= balance; gates hold |
| `Consumer.sol` | records, two indexes, count, spend accumulators, remittance log | register, recover, link wallets, set level, check and record remittances | lookups never reach a lost wallet; limits hold |
| `SessionTransferModule.sol` | one Session struct per key | add, remove, execute | a signature pays once; caps hold |
| payment relay: `consumer.routes`, `safeRelayService`, `sessionService`, `merchantCheckoutService`, the client's `pay.ts` and `session.ts` | pending map, `session_keys`, Safe nonce, the key stored on a device | prepare, submit, start and revoke a session | one payment per confirmation, at its price, on its row; the account can always pay again |
| `escrowService`, part of `consumer.routes` and `admin.routes` | `pending_claims`, the escrow account | create, redeem, sweep | a claim is paid once, to one party |
| `fulfilmentService`, `merchantSelf.routes` retry | `merchant_sales`, an in-memory queue | record, dequeue, call the API, release or refund, retry | a sale settles once, as the API answered |
| `settlement.routes`, `admin.routes` execute, the members' and operators' payout pages | `settlement_requests`, claim and reserve; rows as a page last saw them | request, approve, reject, execute | what leaves was approved, paid once, and leaves the rest backed |
| `withdrawalService`, `kycSpendService`, `webauthnService` | pending map, challenges, `consumer_withdrawals`, spend events | prepare, submit | one payment per prepare; history tells the truth; limits |
| `cashInService`, `changeVoucherService`, `conversionService`, `treasuryService` | `deposit_references`, `change_vouchers`, treasury tokens and USDC in the Vault | cash in, issue/redeem/send change, convert, buy USDC | every claim is backed; a reference mints once |
| onboarding: `registrationService`, `registration.routes`, recovery | consumer rows, passkeys, attempts, names, the registry | sign up in a dozen steps, retry, recover, set a level | tag, number, passkey and wallet fit together; the funnel reconciles |
| `indexerService` | events, cursor, watched contracts | tick | every confirmed event once |
| gas accounting and history: `gasCostService`, `GET /transactions` | gas rows, rows of other tables | record, backfill, report | each transaction once, under its heading |
| `reports.routes`, `platformStats`, `platformFinancials` | none: computed from tables and chain | reports | the pages agree with each other and with the chain |
| `treasuryDeployService` | proxies, Vault token, `stablecoins` | deploy, align, clean up | a registered token is fully wired |
| merchant organisation: `merchants.routes`, `memberAuth`, `auth.routes`, `storeService` | merchants, seats, passkeys, stores, nonces, tokens | register, invite, claim, sign in, edit | a seat has one holder; the owner gets in |
| catalogue: `productCatalogService`, `productHelpers`, product routes and page | products, feed, sync state | sync, create, edit | after a sync the shelf is the feed |
| till and wallet pages | lists, carts, quotes, requests under way | load, charge, give change; buy, send, convert, receive | what is shown is what is paid |
| configuration, FX clients, labels, other pages, scripts, `lib/forge-std` | not modelled | | |

The parts interact in three ways. Services call contracts: each call is a
transaction that is mined or reverts as a whole, and the service learns the
outcome when `tx.wait()` returns, if it returns. Services share the database and
the accounts of the Vault: every handler is a sequence of awaits, other handlers
run between them, no handler holds a lock or a database transaction across one,
and a restart of the server loses everything in memory. Pages call services: an
answer may be late, lost, or overtaken by another, and the user may press again.

The hard behaviours are therefore: rounding over long sequences of ledger
operations; administrative calls in unusual orders; handlers that read a row,
pay, and only then mark it; multi-transaction payments that fail in the middle;
lost receipts and answers; in-memory queues, maps and challenge stores; limits,
quotes, lists and sums read at one moment and used at another; records made from
several sources that are not equally far. Section 6 lists what the models show
about each.

## 2. Modules

| Module | Models | Shape |
|---|---|---|
| `ShareMath` | `_convertToShares`, `_convertToAssets`, the caps of `_debitAssets` and `transfer` | pure operators; `Total` is the sum of a function |
| `ShareLedger` | one currency of the Vault | abstract specification: Credit, Debit, Move, Accrue, Reconcile |
| `Vault` | all of `Vault.sol` | one action per external function; a revert is a disabled action |
| `TreasuryToken` | all of `TreasuryToken.sol` | one action per external function around the `_update` gates |
| `ConsumerRegistry` | `Consumer.sol` | records by wallet, indexes by name and id, day and month buckets |
| `Onboarding` | sign-up and recovery through the server | extends `ConsumerRegistry`, whose actions are the on-chain steps of a run |
| `SessionModule` | `SessionTransferModule.sol` for one Safe | clock in ticks; signatures are remembered for ever and may be relayed at any time |
| `PaymentRelay` | payments of one account from several devices | extends `SessionModule`; the server's map and tables between a device's program and the chain |
| `EscrowClaims` | claims to people without a wallet | handlers with a program counter, one step per await |
| `SaleFulfilment` | purchases held in escrow | as above, plus the `setImmediate` queue |
| `PlatformEscrow` | the escrow account they share, the server process that runs both, and the operators' escrow page | composes the two with `INSTANCE` |
| `Settlement` | merchant payouts | handlers as above |
| `PayoutPages` | the pages that press them | extends `Settlement`; a page is the rows with buttons it last loaded, its busy mark and a load it still owes |
| `Withdrawals` | USDC withdrawals | handlers as above, plus pending map and challenges |
| `TreasuryBacking` | deposits, change, conversions and their backing | handlers as above; purchases in escrow as transfers |
| `WalletPages` | the consumer's pages Buy, Pay, Convert, Receive, TopUp, Claim | questions under way and answers in any order |
| `Indexer` | `indexerService` over a chain of blocks | blocks, reorganisations, a tick in steps |
| `Books` | gas rows and the consumer's history | operations that send transactions and write rows, beside a report that backfills |
| `Reports` | the operators' reports and dashboard | operators over the state of `Books` and `Indexer`: nothing of its own |
| `TreasuryDeploy` | deployment of treasury tokens | two operators, numbered wiring transactions |
| `MerchantOrg` | registration, seats, sign-in, stores, profile | one page per person, one step per await |
| `Catalogue` | products and feed syncs | a sync looks an item up and writes it in two steps |
| `Till` | the point of sale and its change dialog | extends `Catalogue`; lists arrive in any order |

`Vault` refines `ShareLedger`: `LedgerRefined` in `Vault.tla` instantiates the
ledger once per currency (`L(c) == INSTANCE ShareLedger WITH ...`) and says that
whatever the contract does is one ledger operation, or none, in each currency. The
theorems about `ShareLedger` thus describe the Vault's books.

In the service modules `worker[w]` is a handler in flight (`Idle` or a record
with its program counter and local variables), the chain and the tables are the other
variables, and the faults are

* `throw`: the transaction is not sent, reverts, or a query fails;
* `lost`: the transaction is mined and the handler gets an error;
* `db`: a database write whose failure the code only logs;
* `skip`: a read whose failure the code takes for nothing;
* `answer`: the client never hears of what the server did;
* `crash`: the server restarts; handlers and memory are gone, chain and tables stay.

`Onboarding`, `PaymentRelay`, `Indexer` and the pages name further faults after the
step that fails; in the wallet's pages `refused` is a payment that is not made, `lost` one
whose receipt is, and `mark` the UPDATE of a paid voucher or link that fails. `Faults` says which of them a run allows and `MaxFaults` how many.
History variables that the code does not have record what left an account for whom
(`paid`, `out`, `sent`, `log`) and what happened to a row: `disturbed` is the set
of rows that two handlers held at the same time or that a fault hit, `overlap`
says that two handlers were ever in flight together, `crossed` and `mixed` name the
requests that met another of their kind (a voucher or link also when it was paid and
could not be marked), `till.aged` the lines of the cart that are older than the list, `unread` is the most that one sum of the
claims left out, `slipped` says that a page sent again what was being served.
Properties which the code keeps only for rows that were left alone name these
variables, so that one run checks them in the middle of all the races and faults.

`PlatformEscrow` composes `EscrowClaims` and `SaleFulfilment`: `escrow`,
`worker` and `faults` are the same variables in both, a step of one component
leaves the tables and parties of the other unchanged, and a restart (`Crash`)
takes the handlers of both and the queue. `funded` fixes at the start which
senders and consumers have money, and so which rows a behaviour is about.

Amounts are small integers. Names, phone numbers, secrets, signatures and
references are members of sets: a secret or signature is valid exactly for the
record it was made for. uint256 overflow is out of reach of the real supplies;
sums are bounded by `MaxAssets`, `MaxShares`, `MaxSupply`.

## 3. Runs

Each run asks its questions of one component or composition. A run with several
questions chooses a scenario in the initial state; the components of the other
scenarios then stand still. In the contract and service modules one property of
the run includes the type invariant, which says that no account is overdrawn.

| Run | Questions | Properties |
|---|---|---|
| `ledger` | rounding, over all reachable prices | LedgerInv, Solvent, NoDilution, PaidInFull, LossBounded, WorthlessOnlyByReconcile |
| `vault` | every configuration order; tokens and books | VaultInv, LedgerRefined, MovesKeepSurplus |
| `treasury_token` | movements and gates in any order | TokenInv, StandStill, StaysInCountry |
| `registry` | recoveries; limits over days, months and levels; sign-ups that overlap, fail and are repeated | RegistryInv, IdentityKept, AccountsWhole |
| `session` | old signatures, re-registration, change of day; payments from two devices through every fault | SignaturePaysOnce, DailyCapHolds, PaidAsConfirmed, EventuallyPaid |
| `escrow` | claims and sales on one account, with overlaps, a retry and faults; the operators' page | EscrowCovers, PaidOnce, SettledIsFinal, Settles |
| `settlement` | payouts on either rail and from the pages; a merchant's organisation, catalogue, till and change dialog | BackingHolds, PaidAsPressed, OrgSound, OwnerSeated, CatalogueInSync, QrFits |
| `withdrawals` | different and identical intents, with overlaps and every fault | NoValueCreated, PaidPerPrepare, SentIsShown |
| `backing` | deposits, change, conversions, with overlaps and faults, and with money held in escrow; the wallet's pages | RefPaidOnce, FiatBacked, PaysAsShown |
| `records` | the indexer; gas, history and reports; deployment of tokens | IndexFaithful, IndexCatchesUp, BooksExact, ReportsAgree, TokenWired |
| `escrow_sweeps` | is the sweep idempotent, as its comment says? Violated | SweepsPayOnce |
| `backing_usd` | are USD claims never above the reserve, as the comment says? Violated | UsdBacked |

`LedgerInv` and `TokenInv` join a type invariant with the facts that make it
inductive, `DailyCapHolds` the cap with `CountersAgree`, on which both session
properties rest; `VaultInv` adds that shares add up and that arrays and mappings agree, `RegistryInv`
that the two indexes, the count and the accumulators agree with the records and
the log and that no wallet exceeds its limits. `PaidOnce`, `PaidPerPrepare` and
`RefPaidOnce` also say that a row shown as settled, executed or claimed was paid.

### Bounds

* `ledger`: three users (payer, payee, bystander), up to eight units of assets
  and shares, so that prices above and below one, fractions, full exits and dust
  all occur; corrections to 0, 2 and 7.
* `vault` has two scenarios: "deploy" starts from what `initialize()` leaves, with
  one user, two tokens and three destinations, enough to remove from the middle and
  from the end; "operate" starts from the deployed configuration (two tokens for
  ZAR, one for USDC) and moves money of two users, amounts 1 and 2, fees of none,
  one half and all.
* `treasury_token`: two consumers of different countries and a merchant, two
  units, so that half a balance can be frozen.
* `registry` has four scenarios: "identity", three wallets (two recoveries in a
  row) and two names while the clock stands still; "limits", two wallets over four
  days in two month buckets; "sign-up", two people who want the same tag, or try
  again after a step failed, with one fault; "accounts", the same without faults
  beside recoveries and an operator who sets levels.
* `session`: "contract", one key registered twice, two days of two ticks and the
  start of a third, up to three signatures and four payments: the smallest in which a
  signature of the first registration meets the nonces of the second. "relay", two
  devices with five pairs of errands, among them two purchases and a send of the
  same amount to the same account, which share a content hash; two tries each, one
  fault of nine kinds.
* services: two handlers, two rows of different amounts, up to two faults (one
  in `backing`). Two handlers and two rows are enough for every race between a
  pair of handlers; races of three are not covered. `escrow` takes two claims, two
  sales, or one of each, so that a second payout of one row takes the money of the
  other.
* `settlement` has eight scenarios. "payouts": a request for all of the merchant's rand
  and beside it (`MaxBeside`) one more in rand, one for all of its dollars, or one of
  minus one rand; two faults. Dollars stand for any currency that is not the merchant's
  country's (`Local`). "pages": the same by bank, pressed on two members' pages and the
  operators' queue, up to the first slip. "opening": an owner in two tabs and an
  operator enter one wallet, and steps fail. "organisation": the owner, a colleague,
  stores and profile. "syncs": two syncs over two items, one change of the feed.
  "by hand": one sync beside an edit. "till" and "change": two stores of different
  currency, two list requests under way, two units of a product; a second load of the page
  arrives under a filled cart, and beside the change dialog, whose product is made in rand
  and edited while the dialog is open; the list moves until the first voucher is issued.
* `withdrawals`: two prepares, of 4 or 3 units with a fee of 25 % rounded up, so
  that two identical intents, which share their challenge, are among the cases;
  the second prepare may reach the daily limit.
* `backing` has six scenarios. "backing": handlers that overlap. "holding": one
  handler at a time while one purchase or send at a time sits on the escrow account
  (`Held`). "buying", "sending", "converting", "receiving": one page each, three
  questions under way, two presses, two faults, two rates; "receiving" has a voucher, a
  link and a top-up code (`Codes`, whose row is reserved before anything is paid).
* `records`: pairs of operations of the kinds in `MCRecords`, "cashout" being a full
  withdrawal of dollars after a conversion, over six blocks, one confirmation,
  chunks of two blocks, reorganisations of one block, two faults (a gas row's insert
  fails only beside a report, which alone reads that table); two operators who
  deploy with seven wiring transactions, beside an older token.

### Fairness

`FairSpec` of `PlatformEscrow` and `Withdrawals` assumes weak fairness of the
steps of a handler that has started and of queued callbacks: Node resumes a
handler once its await returns, and each awaited call ends with a result or an
error. `PlatformEscrow` also assumes strong fairness of the sweep: the comment of
`claims/reclaim-expired` intends it for a cron job, which nothing in the repository
sets up, and a call of it is always served, because the server does not limit
the number of its handlers as the model's `Workers` does (a model in which other
requests could occupy every worker for ever would say less than the code does).
`IndexCatchesUp` assumes weak fairness of the indexer's tick: a timer starts it
again after every outcome. `EventuallyPaid` and `OwnerSeated` are about a user who
does not give up, and assume weak fairness of that user's device or tab together
with the handlers it waits for, and of nobody else. No fairness is assumed of
retries by others or of faults. Contract modules, payouts and `TreasuryBacking`
have no liveness properties: nothing in the code resumes an interrupted payout or
deposit.

Deadlock is checked where the system always has a next call; the bounded
service models and the session clock stop when all rows or ticks are used up, and
say `CHECK_DEADLOCK FALSE`.

## 4. Proofs

Each component with theorems has a proof module beside it, which extends it; the
contracts that stand alone, with the ledger first, share `Contracts_proofs`. The
theorems hold for every value of the constants that satisfies the assumptions below,
so for any number of users, accounts, rows and handlers in flight, and any number
of faults; the runs check the same definitions on small instances.

| Proof module | Theorems (property) |
|---|---|
| `ShareMath_proofs` | lemmas on sums, on rounding and on what an operation does to a balance |
| `Contracts_proofs` | of `ShareLedger`: `LedgerInvariant` (LedgerInv), `SharesSumTheorem`, `SolventTheorem` (Solvent), `NoDilutionTheorem` (NoDilution), `PaidInFullTheorem` (PaidInFull), `LossTheorem` (LossBounded), `WorthlessTheorem` (WorthlessOnlyByReconcile); of `TreasuryToken`: `TokenInvariant` (TokenInv), `SupplySumTheorem`, `FrozenCoveredTheorem`, `StandStillTheorem` (StandStill), `StaysTheorem` (StaysInCountry); of `ConsumerRegistry`: `RegistryInvariant` (RegistryInv), `IdentityStays` (IdentityKept); of `TreasuryDeploy`: `DeploysWired` (TokenWired); of `Books` with the indexer: `BooksInvariant`, `IndexFaithfulTheorem` (IndexFaithful), `BooksExactTheorem` (BooksExact); of `Reports`: `ReportInvariant`, `ReportsTheorem` (ReportsAgree) |
| `SessionModule_proofs` | `DailyCap` (DailyCapHolds), `PaysOnce` (SignaturePaysOnce), `PaymentsConfirmed` (PaidAsConfirmed of `PaymentRelay`) |
| `Vault_proofs` | `VaultInvariant` (VaultInv), `LedgerRefinement` (LedgerRefined), `SurplusKept` (MovesKeepSurplus); of `Onboarding` with the registry: `OnboardInvariant`, `AccountsTheorem` (AccountsWhole) |
| `Settlement_proofs` | `Backing` (BackingHolds), `PayoutsAgree` (PaidOnce of `Settlement`), `PressedPayouts` (PaidAsPressed of `PayoutPages`); of `Catalogue` with `Till`: `ShopInvariant`, `CatalogueTheorem` (CatalogueInSync), `QrTheorem` (QrFits); of `MerchantOrg`: `OrgInvariant`, `OrgTheorem` (OrgSound) |
| `Withdrawals_proofs` | `ValueKept` (NoValueCreated), `OnePaymentPerPrepare` (PaidPerPrepare) |
| `PlatformEscrow_proofs` | `AccountCovered` (EscrowCovers), `RowsPayOnce` (PaidOnce), `OutcomeIsFinal` (SettledIsFinal) |
| `TreasuryBacking_proofs` | `MintsOnce` (RefPaidOnce), `ClaimsBacked` (FiatBacked); of `WalletPages`: `PagesInvariant`, `PaysAsShownTheorem` (PaysAsShown) |

Every invariant and action property that a passing run checks is stated by one of these
theorems, except the liveness properties.

*Assumptions.* The named assumption of each component and nothing else: finite sets of users,
accounts, rows and handlers, natural amounts and bounds. Those worth a word: amounts of
claims, sales and intents are positive (the routes refuse others), those of settlement
requests are any integers (`POST /requests` looks at neither sign nor currency); a day is
not longer than the range of the session clock (`DayLength <= MaxTime`: the clock starts on
its second day, so that the bucket of a fresh registration is not today's);
no KYC level has larger limits than the third (DataTypes.sol, lines 35 to 40);
claims and sales are different rows; only known faults occur; a send to a phone number
has no quote, so no foreign currency; no member is called "panel", which names the
operators' queue; what a supplier publishes has natural prices and limits (0 is a missing
one), and no store is called "none". TLC evaluates them in the runs.

*Sums.* `Total` is defined as the cardinality of a set of units, which keeps it
free of recursion. `TotalExcept` says how it changes when one value changes, `TotalMember`
that no value exceeds it, `MoveSum` that a transfer leaves it alone, `TotalBound` that if
every `b[u] * n <= s[u] * m` then the sums are related in the same way. All statements about
money in the service modules are statements about such sums, over rows and over
handlers.

*Rounding.* `Quotient`, `AssetsDownBounds`, `SharesDownBounds`, `SharesUpBounds`
bound each conversion from both sides by products, and the later proofs reason
with these products only. `AffordableShares`: a user whose balance covers an amount
has the shares to burn for it.

*Ledger.* `LedgerInv == TypeOK /\ SharesSum` is inductive: `CreditInv`,
`DebitInv` and `MoveInv` are its cases. `SolventTheorem`: each balance is a rounded-down
share of the assets, and the shares add up to totalShares. `NoDilutionTheorem`: `PriceUp`
shows that an operation which does not lower the price assets/shares does not lower a
bystander's balance, and one lemma per action shows that it does not.
`PaidInFullTheorem`: the shares moved, rounded up, are worth at least the amount to
the payee; if the cap applies the payer is left with nothing. `LossTheorem`: `LossOf` bounds
the loss by the rounding of the shares taken and of the balance before; `DebitLoss` and
`MoveLoss` carry it through the price after the operation (`WorthAfter`).

*Token.* `TokenInv` is inductive; `FrozenCovered` is needed for the subtraction in
`_update`. `StandStillTheorem` follows from the actions alone. `StaysTheorem`: with the
supply unchanged the step is a transfer (a mint or burn of an amount above zero changes the
supply), the gate makes both ends compatriots, and a transfer within a set leaves its sum alone.

*Registry.* `RegistryOk` adds to `RegistryInv` that ids are given out in order
(`IdsInOrder`: the next id is the count, and every record's id is below it) and the type of
the log. Without it a registration could take an id in use. `Leads` states the two indexes
member by member, and `Indexed` that this is `IndexesAgree`. A new entry of the log adds to one sum
(`SentAppended`), and to one bucket of its month (`MonthSumAdds`). `IdentityStays` needs
the indexes: an id that is used leads to an active wallet which has it (`LedBy`), so
a recovery rewrites the entry of its own consumer and no other.

*Deployment.* `DeployInv` says that nothing refers to a proxy that is not on the chain
(`ProxiesOk`) and, while no two deployments met, that one operator is busy at most, with a
currency that has no token yet, and that the Vault holds the proxy being wired, then the one that was
(`OneAtATime`). A failed run leaves a wired proxy behind, and the first wiring transaction of the next one
replaces it in the Vault.

*Session.* `SessionInv == DailyCapHolds /\ SignaturePaysOnce` is inductive: the
properties themselves say how the contract's counters, which remember one day and one
nonce, relate to the history of payments.

*Payments.* `RelayInv` says of each device (`DeviceOk`): `Counted`, its payments are at most its
lost answers and one more if its handler is past the chain; `Priced`, what is prepared is
within the tolerance of what the page showed, and a send never enters the steps that
register a key; `InContext`, the entry its hash leads to goes where the transaction goes, and
is its own unless another device replaced it; `Booked`, no row before the recording,
exactly its row after. Of the tables it says that a row stands for one payment into escrow.
The payment that `TxOf` returns is the device's last (`LastTx`), and another device's payment
leaves it alone (`OtherMined`); a step that neither pays nor records is an instance of
`MoveKept`, one that records of `RecordMove`.

*Vault.* `VaultInv` is inductive: types, shares that add up (without which no debit can be
shown to succeed), and the arrays of tokens and destinations, which list without
repetition exactly what the mappings say; the swap-and-pop of `_removeToken` is the
hardest case. `LedgerRefinement` shows per action and per currency a step of
`ShareLedger` or a stutter (`BookStep`), after `SameArithmetic` has identified the ledger's
operators with the Vault's. The theorems about `ShareLedger` thus hold of the contract.

*Payouts.* The inductive invariant of `Settlement_proofs` has the conjuncts `MoneyInv` (per currency: what is still in
the Vault and what left it add up; what left or is debited and under way for requests in the
currency came out of the merchant's claim in it; so the backing lacks at most `Diverted`,
what bank payouts of requests in other currencies took from it), `RowInv`, `JobInv` (what a handler's program counter says of its row) and
`SingleInv` (of an undisturbed request: one handler, and once paid nothing but the recording
of it is left to do). Above it, `PressInv`: as long as nobody slipped and no step failed, one
payment is under way at a time, for the operators' queue, which marks its row, and decisions
under way are about different rows; so no request is disturbed, and `PaidOnce` gives what the
pages show.

*Withdrawals.* `MoneyInv` as above; `PassInv` counts, per intent, permissions to pay: what was
sent, handlers past the challenge and the open challenge are together at most what was
prepared, which is why a replayed signature pays nothing although identical intents
share a challenge. `PrepInv`: one handler prepares an id.

*Escrow.* Claims and sales are treated alike, as rows with a payer, a payee and a phase; a
handler has rows in hand, at a stage, and a sweep has rows selected. `Truthful` holds of every
row: a row marked for a party was paid to it. `Clean` holds of the rows left alone: one
holder, no payment before the last stage, at most one after. `Money` says that account,
payments and handlers never hold more than was funded, and that while nothing is disturbed
the account is exactly the sum over rows of what it keeps for each (`KeptFor`). The page of
the operators is any selection of rows and transfers (`Pages`): each held row is in its
tables, shown as unallocated or missed, and each settled one is in its tables, left out or
unallocated, so the sums over the rows agree. Each action
moves one row and one handler, or selects rows, and has one lemma; a restart drops all
handlers at once.

*Deposits, change and conversions.* `BackInv` is inductive. `RefsInv`: a handler has a
reference in hand before its mint, or between mint and credit, and no two handlers have the
same one, because the unique row of the reference comes first. `VouchersInv`: a handler of a
voucher moves the voucher's amount, and marks it when it is paid. `OnceInv`, of undisturbed
vouchers: the one that is paid and not marked has a handler about to mark it, and a handler
that has not paid yet finds it unclaimed. `TokensCover` is `FiatBacked` and what the handler in
flight may still credit without a further debit or mint (`Due`): a deposit mints before it credits,
the voucher and the conversion mint what the unallocated tokens do not cover, and the balance
a handler read before it summed the claims is still the balance, because it is `Alone`. There is one
lemma per action: `PlainStep` for those that touch neither reference nor voucher,
`RefStep`, `VoucherStep`, and `HandlersStay` where no handler moves.

*Indexer.* `IndexInv`: the cursor passes only blocks so deep that no reorganisation reaches them
(`Deep`), and every log of a watched contract in a block it passed has its row (`ScannedOk`); the
rows name logs of the chain that stands (`EventsOk`). While a tick inserts, each log of the
blocks it read has its row or waits in the tick (`ReaderOk`), so a tick may be given up at any
point. `IndexFaithfulTheorem` reads off `ScannedOk` and `CursorOk`.

*Books.* `BooksInv` adds to `IndexInv` that a job's transactions are sent in order (`StepsOk`), its
row comes after the last (`RowsOk`), and that the gas row of a transaction has the tag of its
receipt, that of an old release, or the one a report makes of the hash in a row (`GasOk`,
`RecordedAs`): the three ways agree on the category. `BooksSpec` keeps the fault steps of the run,
`FaultsAgain` and `ReorgAgain` let them happen any number of times; the assumption `BooksAssumption`
names the kinds of operation and what an older release recorded.

*Reports.* `ReportInv` adds to `BooksInv` that, while no block has been replaced, a job's second
transaction was sent after its first was mined (`InOrder`); `FaultsAgain` forgets every fault but that one.
The pages are functions of the same state, so the rest is arithmetic over sets of transactions:
`ZarSets` says which mined logs each balance is made of, `ZarBalances` writes the three balances with
four sums, and the reports are other sums of the same (`CaughtUpLogs`). `CreditsBacked` sends each
credit to the mint or the debit before it, and `TotalInjected` bounds the one sum by the other: so the
floor of `PlatformTtza` hides no shortfall. The merchants' figure is the larger of balance and
ledger with *any* set of open requests, the dashboard's dollars the ledger's where no
balance is above zero; that both exceed the balance by no more than `PendingZar` and
`Withdrawals` is the same arithmetic. `ReportsAssumption`: operations are finitely many, a fee is no larger than
its amount, the merchant had what is debited (the contract reverts otherwise), and rand and
USDC are seeded as the migrations do.

*Pages.* `PagesInv` counts, per charge, ticket or recipient, payments made and presses that may still pay,
which are together at most the presses of the user (`CountOk`), and for a code at most one; a purchase in preparation shows
the price it will ask for, and what follows has the server's price at the rate it was made at
(`PriceOk`); of a ticket it says that one being paid alone was not paid before, and one about to be
marked alone was paid once (`TicketOk`).
`PagesSpec` lets faults recur (`PageFaultsAgain`) and answers arrive in any order and number;
`PagesAssumption` says that charges, recipients and tickets have different names.

*Shop.* `StockInv` says of each sync that nothing else wrote beside (`mixed` does not name it:
`Undisturbed`): what it is done with has a row with what the list says or was made by hand, the
row it is about to write is still the one it found, and after the last pass no product that the
list lacks is on sale. `SingleOk`: until syncs overlap or an operator renumbers, one sync is
busy and an item has one row of the supplier's. `TillInv`: the list on the page is a copy of
rows of the table in one currency, each amount in the cart fits the row that prices it
(`CartOk`; another store's list empties the cart, a second load keeps it and makes its
lines `aged`), and an open dialog shows
and waits for what its own turn asked for (`OwnCall`, `QrShown`). `ShopSpec` runs the supplier,
the syncs, all edits by hand and the till together, which the scenarios of the run do only in
part. The two halves share the table alone: `StockStill` and `TillStill` carry each over the
other's steps.

*Onboarding.* `OnboardInv` has four parts. `KeysOk`: the challenge of a passkey lets one of the two
copies of a request in, and only that one deploys a wallet, once (`OneRequest`, `OneWallet`).
`ChainOk`: a wallet deployed for a passkey keeps its tag and its number in the registry, both
indexes lead to it until it is recovered (`Indexed`, `OwnersKnown`), and the name service has its
name unset, minted or pointing at it (`Named`): no other request can get that far with the tag.
`TablesOk`: a row repeats what the registry has of its wallet, a request has one exactly from
"finish" on, a stored passkey leads to the wallet deployed for it, and what the operator was told
of a level is still so. `FunnelOk`: unless a receipt or a tracking write was lost, an attempt has
its request's wallet and a status that fits how far it came. `OnboardSpec` runs both scenarios
of the run at once, for any number of persons and passkeys, beside the other calls of the registry
(`RegistryBeside`), and lets faults recur (`FaultsAgain`); `OnboardAssumption` says only that the
number of passkeys of a person is a number.

*Organisation.* `OrgInv`: `SeatOk` (active exactly with a holder, one holder unless two claims of
the seat raced, one registered seat of a merchant likewise), `MerchantsOk` (a wallet belongs to one merchant) and
`Stands`, what a page in the middle relies on: the seat it is about to claim exists and, unless
raced for, has no holder; a merchant whose owner's seat is about to be inserted has none yet; a page
about to be answered has an owner's seat, a head office and a trusted wallet. `Grows` lists what no
step takes back, and `StandsStill` shows that what one page relies on survives the steps of the
others, except a seat inserted or claimed, where both were in the race (`RacesOk`). `OrgSpec` lets
every person run the organisation and every fault recur; the chain's failure is remembered,
as `OrgSound` speaks of it, and `ChainStillDown` is its repetition.

*Only model-checked.* Liveness under fairness (`Settles`, `EventuallyPaid`, `OwnerSeated`,
`SentIsShown`, `IndexCatchesUp`) is out of this prover's reach and stays with TLC, and so do the
two claims of the code's comments that the runs `escrow_sweeps` and `backing_usd` refute.

## 5. Not modelled

Signature verification, hashing and WebAuthn encodings; role grants and proxy
upgrades; allowances; configuration, labels, and the pages that only list or store
one row (queries and presentation, no protocol); remote services (idOS, ENS, the
paymaster, FX and DEX quotes) beyond what their callers do with an answer; gas
prices. The scripts and `lib/forge-std` are tooling.

Simplifications that matter: `sumAllUserFiatClaimsOnChain` reads its wallets in
one step, though any of them may be skipped; `Vault` transactions in the service
modules are balance changes that succeed exactly when the balance suffices; the FX
rate is constant but for `WalletPages`; reports convert at one rate, and the time
window in which `register_signer` gas is attributed to a sign-up is left out;
a merchant's rail (`onchain`) is fixed within a behaviour; the requests that `Reports` counts as
open have positive amounts;
`merchant_settlement_config`, whose thresholds are shown and decide nothing, has no variable.

## 6. What the models show

* The ledger arithmetic is right: no sequence of operations takes from a
  bystander or leaves a balance that cannot be paid, and only a reconciliation to
  zero can make shares worthless.
* Every service debits before it credits, and that is enough for `NoValueCreated` and
  `BackingHolds` under all faults and overlaps: a failure strands value with the
  platform, it does not create any. One exception is built in: a bank payout debits the
  claim in the request's currency and sweeps as many units of the country's token
  (`settlement.routes.ts:85-87`, `treasuryService.ts:187-208`), and neither the route nor the
  form keeps a request to the merchant's currency. Such a payout takes backing from other
  people's claims, and `BackingHolds` says that it takes that much and no more (`Diverted`).
* Rows tell the truth (the first conjuncts of `PaidOnce`, `PaidPerPrepare` and
  `RefPaidOnce`) and settled rows are final under all faults.
* Paid *once* needs more than the code does: rows are marked after the payment,
  without a claim on the row before it. `PaidOnce`, `PaidAsPressed` and the voucher
  part of `RefPaidOnce` hold for what was not disturbed, and fail without that
  condition. Withdrawals and session payments are the exception: the one-time
  challenge, the Safe's nonce and the session's nonce make each signed request pay at
  most once, without any condition. Two prepares with the same intent share a
  challenge, and then the history may show both payments under one id.
* `FiatBacked` holds while handlers do not overlap, up to what one sum of the claims
  left out; two handlers that read the same unallocated backing both use it.
* An account can always pay again (`EventuallyPaid`) unless the amount is above the
  session's cap or another device takes the session over.
* The indexer neither loses nor doubles an event of a contract it watches, and the
  reports made from it agree with the chain once it has caught up.

Two statements of the repository are put to the model as they stand and fail
(`findings` in `PROJECT.json` quotes them):

* `escrow_sweeps`: the sweep is "safe to call repeatedly". One after another it is;
  overlapping it is not: both calls select the row before either marks it.
* `backing_usd`: the reserve gate of conversions lets USD claims exceed the
  USDC, because it compares each amount with the whole reserve.

Other differences between a comment or document and the code, met while modelling
and seen in counterexamples of the same modules. They are recorded here rather
than as runs; the properties above are stated for what the code does keep.

| Statement | What the code does |
|---|---|
| `Vault.sol:302-303`, transfers are between parties of one country | `transfer` never compares countries |
| `Vault.sol:624-626`, after a harvest totalAssets equals the holdings | they differ by the platform reserve, which is held besides; `MovesKeepSurplus` is stated with it |
| `TreasuryToken.sol:73-74`, only privileged burns unfreeze | `burnOwn`, open to every holder, does too |
| `DataTypes.sol:29-34`, daily and monthly limits | kept per wallet: a recovered consumer starts with empty accumulators |
| `DB_SPEC.md:76`, funds stay in escrow until one release or one refund | a retry that overlaps the first run releases again |
| `merchantSelf.routes.ts:265`, a stuck pending sale can be retried | not after a restart between the status update and the release: `processSaleFulfilment` refuses it |
| `settlement.routes.ts:4-6`, large payouts wait for a different admin | a head-office request is inserted as approved by its requester |
| `Payments.tsx:42`, daily limits are enforced | at prepare; two withdrawals prepared before either is submitted both pass |
| `treasuryService.ts:157`, unallocated means backing no claim | the escrow account's claim is not counted, and a wallet that cannot be read counts as zero |
| `changeVoucherService.ts:300`, a claimed voucher pays nothing more | `FOR UPDATE` outside a transaction holds no lock; two overlapping redemptions both pay |
| `registrationService.ts`, header: a retry skips completed steps | it starts over; a failure after the deployment leaves the tag taken by a wallet without an account |
| `memberAuth.routes.ts:41-43`, only the invited email can claim a seat | the claim stores whatever email it is sent |
| `productCatalogService.ts:285`, hand-edited rows are left alone | a sync overwrites edits of its own rows and re-activates what was switched off |
| `reports.routes.ts:438-441`, net flow equals assets under management | only without deposits, withdrawals, remittances and USD purchases, which emit other events |
| `platformStats.ts:270-271`, the balance is authoritative, the ledger with the open requests is used when the chain cannot be read | the larger of the two is used, always: with a request that is merely open the merchants' figure is above their balance by its amount |
| `platformStats.ts:292`, USDC from on-chain balances | only if they are above zero: after a full withdrawal, which the ledger does not see, the dashboard still shows the ledger's dollars and the balance report none |
| `escrowService.ts:82`, a partial failure cannot create value | it cannot, but a link or a voucher that was paid and not marked (lost receipt, failed UPDATE) is still pending and pays again when it is presented again |

What the properties leave out, by component:

* Payments: pending entries are keyed by a hash of their content, so a later prepare
  of the same amount replaces the context of an earlier one (`crossed`). A device whose
  session another device replaced keeps its stored key and fails on every retry
  (`session.ts:88`). A send whose claim row could not be written leaves the money in
  escrow, and the retry pays again (`consumer.routes.ts:1345`).
* Onboarding: the recovery route reads the first log of the receipt and throws after
  the on-chain recovery, so the row, the name and the passkey never follow; the account number
  then leads to the lost wallet and the tag to the new one.
* Organisation: overlapping claims put two passkeys on one seat; overlapping
  registrations with different emails make two owner seats, and a later one may hand
  out the other's, hence `crossed # {}` in `OwnerSeated`. Roles live in the token until
  it expires; a changed wallet leaves the old one trusted on chain.
* Catalogue: overlapping syncs insert an item twice; a form that was open during a
  sync overwrites it; a partial edit may leave a minimum above the maximum.
* Escrow page: its queries return at most 200 claims, and the sales that are pending or
  at most 30 days old, at most 100, of merchants that still exist; transfers come from
  `chain_events`, at most 100, which lag behind the chain; a query that fails gives an empty
  list (`admin.routes.ts:1020-1060`). A hold shown as unallocated may therefore be a row that
  was cut, released long ago. `EscrowCovers` says what the page lacks for any such selection,
  while no handler is at work: the reads are not one snapshot.
* Till: the products are loaded again when the member's role changes
  (`PointOfSale.tsx:116`), and the cart stays: a line entered before may exceed its product's new
  maximum or fall below its minimum, and a fixed price follows the new list (`till.aged`). After a change of store the old list stays until an answer arrives, and a late
  answer of another store replaces the new list. A change dialog closed and
  reopened shows the earlier voucher when its answer comes (`outlived`), and a retry
  after a lost answer issues a second one.
* Wallet pages: a quote stays on screen until the next answer; a charge without a
  merchant pays the amount of a late quote for another. A poll that fails after the
  payment shows an error, and pressing again pays again; so does a conversion whose
  answer was lost. The client looks for codes that its `api.ts` does not carry.
* Payouts: a request for a negative amount is accepted (`settlement.routes.ts:184` looks for
  a missing amount only). It is never paid, but while it is open it raises what the balance
  page calls available (132-138), so that `BackingHolds` counts it against the others. The fee and the net amount are stored, but the full amount is moved. The
  members' approve button is not disabled while it works. The operators' queue has one
  mark for the row it waits for, and pressing another row, a lost answer or a reload
  lets the first be executed again (`slipped`). A late second approval sets an executed
  request back to approved.
* Records: a token deployed while the server runs is indexed after the next restart;
  overlapping deployments may leave Vault and `stablecoins` with different
  proxies (`treasuryDeployService.ts:226-232`); two addresses with one code overwrite each
  other's totals (`reports.routes.ts:648`); the history shows a withdrawal's fee as a
  payment and not the withdrawal; a conversion row that cannot be written is dropped
  silently; reports sum sales and fees of all currencies as rand.

## 7. Plan

Done: all modules above and the proofs of section 4. Nothing of the plan is left.
