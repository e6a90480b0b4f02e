------------------------------- MODULE Books -------------------------------
(***************************************************************************)
(* What the platform writes down about its transactions, and what its      *)
(* pages make of it: the tables each operation leaves behind, the gas      *)
(* ledger (gasCostService), filled as receipts arrive and again whenever a *)
(* report is opened, and the consumer's history (consumer.routes), which   *)
(* merges those tables with the logs of Indexer.  An operation sends its   *)
(* transactions one after the other, waits for each, and writes its row    *)
(* last; it may stop anywhere in between.                                  *)
(***************************************************************************)
EXTENDS Indexer, Sequences

CONSTANTS
    Jobs,       \* the operations of one account
    KindOf,     \* what each of them is
    Legacy,     \* jobs whose gas row was written by an older release
    Window      \* how many logs the history page fetches

Kinds == {"topup", "purchase", "session", "change", "convert", "settle", "enable",
          "register", "deploy", "harvest", "withdraw"}

VARIABLES
    step,       \* how many transactions of a job have been recorded
    rows,       \* jobs whose row is in the database
    outcome,    \* fulfilment outcome of a purchase row
    gas,        \* protocol_gas_costs: [source, category] by transaction
    report      \* the running ensureGasCostsIndexed

bookVars == <<step, rows, outcome, gas, report>>

\* The transactions of an operation: the log of each, and the source tag with
\* which its receipt is recorded ("none": only a report finds it).
Steps(kind) ==
    LET Tx(log, live) == [log |-> log, live |-> live] IN
    CASE kind = "topup"    -> <<Tx("Minted", "none"), Tx("Credited", "none")>>
      [] kind = "purchase" -> <<Tx("Transferred", "passkey")>>
      [] kind = "session"  -> <<Tx("Transferred", "session")>>
      [] kind = "change"   -> <<Tx("Debited", "none"), Tx("Credited", "none")>>
      [] kind = "convert"  -> <<Tx("Debited", "none"), Tx("Credited", "none")>>
      [] kind = "settle"   -> <<Tx("Debited", "settlement_debit"), Tx("ForcedTransfer", "settlement_sweep")>>
      [] kind = "enable"   -> <<Tx("none", "session_enable")>>
      [] kind = "register" -> <<Tx("ConsumerRegistered", "register_deploy")>>
      [] kind = "deploy"   -> <<Tx("none", "contract_deploy")>>
      [] kind = "harvest"  -> <<Tx("YieldHarvested", "none")>>
      [] kind = "withdraw" -> <<Tx("Withdrawn", "consumer_withdraw"), Tx("Debited", "consumer_withdraw_fee_debit"),
                                Tx("Credited", "consumer_withdraw_fee_credit")>>

\* An older release recorded only what it relayed for a consumer.
ASSUME BooksAssumption ==
    /\ KindOf \in [Jobs -> Kinds]
    /\ Txs = UNION {{<<j, i>> : i \in 1..Len(Steps(KindOf[j]))} : j \in Jobs}
    /\ \A j \in Legacy \cap Jobs : KindOf[j] \in {"purchase", "session", "enable"}
    /\ Window \in Nat

StepOf(t) == Steps(KindOf[t[1]])[t[2]]
LastTx(j) == <<j, Len(Steps(KindOf[j]))>>
NoReport == [pc |-> "idle", todo |-> {}]

-----------------------------------------------------------------------------
(* The gas ledger.                                                         *)

Consumers == {"relay", "passkey", "session", "session_ok", "session_fail",
              "session_enable", "session_add_key", "session_revoke"}

\* Mutant: only the tags of payments count as consumer transactions.
CategoryOfPayments(source) ==
    IF source = "register_deploy" THEN "onboarding"
    ELSE IF source \in {"relay", "passkey", "session"} THEN "transaction"
    ELSE IF source = "contract_deploy" THEN "deployment" ELSE "operations"

CategoryForSource(source) ==
    IF source \in {"register_deploy", "register_signer"} THEN "onboarding"
    ELSE IF source \in Consumers THEN "transaction"
    ELSE IF source = "contract_deploy" THEN "deployment" ELSE "operations"

\* inferConsumerRelaySource: from the transaction's call data.
Relayed == {"purchase", "session", "enable"}
InferSource(t) == IF KindOf[t[1]] \in Relayed THEN StepOf(t).live ELSE "passkey"

\* recordGasFromReceipt: an upsert that replaces source and category.
RecordGas(t, source) ==
    gas' = [u \in DOMAIN gas \cup {t} |->
              IF u = t THEN [source |-> source, category |-> CategoryForSource(source)] ELSE gas[u]]

\* The hashes the tables hold: which transactions of a job its row names.
Named(j) ==
    CASE KindOf[j] \in {"topup", "convert"} -> {<<j, 1>>, <<j, 2>>}
      [] KindOf[j] \in {"purchase", "session", "register", "deploy"} -> {<<j, 1>>}
      [] KindOf[j] = "settle" -> {<<j, 2>>}
      [] OTHER -> {}
KnownHashes == UNION {Named(j) : j \in rows}

\* classifyTxHash: the first table that names the hash, in this order.
Classify(t) ==
    LET kind == KindOf[t[1]] IN
    CASE kind = "register"              -> "register_deploy"
      [] kind \in {"purchase", "session"} -> InferSource(t)
      [] kind = "settle"                -> "settlement"
      [] kind = "convert"               -> "conversion"
      [] kind = "topup"                 -> "cash_in"
      [] kind = "deploy"                -> "contract_deploy"
      [] OTHER                          -> "operations"

-----------------------------------------------------------------------------
(* The operations.                                                         *)

BooksInit ==
    /\ step = [j \in Jobs |-> 0] /\ rows = {} /\ outcome = [j \in Jobs |-> "pending"]
    /\ gas = [t \in {} |-> {}]
    /\ report = NoReport

Send(j) ==
    LET t == <<j, step[j] + 1>> IN
    /\ step[j] < Len(Steps(KindOf[j])) /\ t \notin sent
    /\ step[j] > 0 => at[<<j, step[j]>>] # 0
    /\ sent' = sent \cup {t}
    /\ UNCHANGED <<head, at, indexVars, tokens, bookVars, faults>>

\* The receipt arrives: its gas is recorded if the operation does so.  A failing
\* insert is swallowed.  Rows of an older release carry the tag "relay".
Receive(j) ==
    LET t == <<j, step[j] + 1>> IN
    /\ t \in sent /\ at[t] # 0
    /\ step' = [step EXCEPT ![j] = @ + 1]
    /\ IF StepOf(t).live = "none" THEN UNCHANGED <<gas, faults>>
       ELSE \/ RecordGas(t, IF j \in Legacy THEN "relay" ELSE StepOf(t).live) /\ UNCHANGED faults
            \/ Fault("gas") /\ UNCHANGED gas
    /\ UNCHANGED <<chainVars, indexVars, tokens, rows, outcome, report>>

\* The row comes last; an operation that stops before leaves none.
WriteRow(j) ==
    /\ step[j] = Len(Steps(KindOf[j])) /\ j \notin rows
    /\ rows' = rows \cup {j}
    /\ UNCHANGED <<chainVars, indexVars, tokens, step, outcome, gas, report, faults>>

Fulfil(j) ==
    /\ j \in rows /\ KindOf[j] \in {"purchase", "session"} /\ outcome[j] = "pending"
    /\ outcome' = [outcome EXCEPT ![j] = "refunded"]
    /\ UNCHANGED <<chainVars, indexVars, tokens, step, rows, gas, report, faults>>

-----------------------------------------------------------------------------
(* ensureGasCostsIndexed, at the start of every report on gas.             *)

\* ensureDeploymentGasIndexed and reclassifyLegacyRelaySources come first; then
\* the known hashes that have no row at this moment are listed.
OpenReport ==
    /\ report.pc = "idle"
    /\ gas' = [t \in DOMAIN gas |->
                 IF gas[t].source = "relay"
                 THEN [source |-> InferSource(t), category |-> CategoryForSource(InferSource(t))]
                 ELSE gas[t]]
    /\ report' = [pc |-> "fill", todo |-> KnownHashes \ DOMAIN gas]
    /\ report' # [pc |-> "fill", todo |-> {}] \/ gas' # gas
    /\ UNCHANGED <<chainVars, indexVars, tokens, step, rows, outcome, faults>>

\* A listed hash is recorded even if its receipt came in meanwhile; a receipt
\* that the node does not have (or no longer has) is skipped.
FillReport ==
    /\ report.pc = "fill"
    /\ \E t \in report.todo :
          /\ report' = [report EXCEPT !.todo = @ \ {t}]
          /\ IF at[t] # 0 THEN RecordGas(t, Classify(t)) ELSE UNCHANGED gas
    /\ UNCHANGED <<chainVars, indexVars, tokens, step, rows, outcome, faults>>

CloseReport ==
    /\ report.pc = "fill" /\ report.todo = {}
    /\ report' = NoReport
    /\ UNCHANGED <<chainVars, indexVars, tokens, step, rows, outcome, gas, faults>>

\* getGasFeeTotals: the report source of a row, and the groups.
ReportSource(t) ==
    CASE gas[t].source \in {"session", "session_ok", "session_fail"} ->
            IF t[1] \in rows /\ outcome[t[1]] = "refunded" THEN "session_fail" ELSE "session_ok"
      [] gas[t].source = "relay" -> "passkey"
      [] OTHER -> gas[t].source
Bucket(category, source) == {t \in DOMAIN gas : gas[t].category = category /\ ReportSource(t) = source}
BySource == {Bucket(gas[t].category, ReportSource(t)) : t \in DOMAIN gas}

\* Consumer transactions get a line per source, session payments always two
\* once there is one; every other category is rolled up into one line.
SessionLines == {Bucket("transaction", "session_ok"), Bucket("transaction", "session_fail")}
ConsumerRows ==
    LET plain == {ReportSource(t) : t \in DOMAIN gas} \ {"session", "session_ok", "session_fail"}
    IN  {Bucket("transaction", source) : source \in plain}
            \cup (IF UNION SessionLines # {} THEN SessionLines ELSE {})
Rolled(category) == {t \in DOMAIN gas : gas[t].category = category}
GroupOrder == {"transaction", "onboarding", "operations", "deployment"}
ByGroup(g) == IF g = "transaction" THEN UNION ConsumerRows ELSE Rolled(g)

-----------------------------------------------------------------------------
(* The operations, the report, the indexer and the chain side by side.     *)

\* The process restarts: its tick and its report end, its targets are read again.
ProcessRestarts ==
    /\ Fault("crash")
    /\ reader' = NoTick /\ targets' = {} /\ report' = NoReport
    /\ UNCHANGED <<chainVars, tokens, cursor, events, origin, scanned, step, rows, outcome, gas>>

\* A deployment inserts the row of its token, or replaces the address in it.
TokensDeployed ==
    /\ \E added, replaced : tokens' = (tokens \ {replaced}) \cup {added}
    /\ UNCHANGED <<chainVars, indexVars, faults, bookVars>>

\* No bound on the faults: each kind may come again.  That blocks were replaced
\* stays on record, and more of them may be.
FaultsAgain ==
    /\ faults' = faults \cap {"reorg"}
    /\ UNCHANGED <<chainVars, indexVars, tokens, bookVars>>
ReorgAgain ==
    /\ "reorg" \in faults /\ ReplaceBlocks
    /\ UNCHANGED <<indexVars, tokens, faults, bookVars>>

BooksNext ==
    \/ \E j \in Jobs : Send(j) \/ Receive(j) \/ WriteRow(j) \/ Fulfil(j)
    \/ OpenReport \/ FillReport \/ CloseReport
    \/ (Tick \/ Chain) /\ UNCHANGED bookVars
    \/ TickFails /\ UNCHANGED <<chainVars, tokens, bookVars>>
    \/ ProcessRestarts \/ TokensDeployed \/ FaultsAgain \/ ReorgAgain

booksVars == <<chainVars, indexVars, tokens, faults, bookVars>>
BooksSpec == IndexInit /\ BooksInit /\ [][BooksNext]_booksVars

-----------------------------------------------------------------------------
(* The consumer's history, GET /transactions.                              *)

Ledger == {"Credited", "Debited", "Transferred"}
\* settlements, and change before it is credited, debit the merchant, whose history
\* this is not
OfMerchant(t) == KindOf[t[1]] = "settle" \/ (KindOf[t[1]] = "change" /\ t[2] = 1)
\* the fee of a withdrawal is credited to the platform
OfPlatform(t) == KindOf[t[1]] = "withdraw" /\ t[2] = 3
Mine == {e \in events : StepOf(e.tx).log \in Ledger /\ ~OfMerchant(e.tx) /\ ~OfPlatform(e.tx)}
Later(e, f) == f.block > e.block
Fetched == {e \in Mine : Cardinality({f \in Mine : Later(e, f)}) < Window}

RowOf(kinds, t) == t[1] \in rows /\ KindOf[t[1]] \in kinds
Hidden(e) == StepOf(e.tx).log = "Debited" /\ RowOf({"convert"}, e.tx)
Label(t) ==
    IF StepOf(t).log = "Credited" THEN
         IF RowOf({"convert"}, t) THEN "Converted"
         ELSE IF RowOf({"change"}, t) THEN "Change voucher" ELSE "Top up"
    ELSE IF StepOf(t).log = "Debited" THEN "Payment"
    ELSE IF RowOf({"purchase", "session"}, t) THEN "Purchase" ELSE "Sent"

LogEntries == {[from |-> "log", tx |-> e.tx, type |-> Label(e.tx)] : e \in {f \in Fetched : ~Hidden(f)}}
Seen == {n.tx : n \in LogEntries}
RowEntries ==
    {[from |-> "row", tx |-> LastTx(j), type |-> Label(LastTx(j))] :
        j \in {i \in rows : KindOf[i] \in {"purchase", "session", "change"} /\ LastTx(i) \notin Seen}}
History == LogEntries \cup RowEntries

-----------------------------------------------------------------------------
Entries(t) == {n \in History : n.tx = t}

\* However far the indexer has come, and whatever is outside the page's window,
\* a purchase or claimed change that has a row is listed exactly once and under
\* its name; a conversion that has a row is one entry or none yet, never a
\* payment and a top-up; and nothing that did not happen is listed.
HistoryExact ==
    /\ \A j \in rows : KindOf[j] \in {"purchase", "session", "change"} =>
          \E n \in Entries(LastTx(j)) :
             /\ Entries(LastTx(j)) = {n}
             /\ n.type = IF KindOf[j] = "change" THEN "Change voucher" ELSE "Purchase"
    /\ \A j \in rows : KindOf[j] = "convert" =>
          Entries(<<j, 1>>) = {} /\ \A n \in Entries(<<j, 2>>) : n.type = "Converted"
    /\ \A n \in History : n.tx \in sent

TrueCategory(t) ==
    CASE KindOf[t[1]] \in {"purchase", "session", "enable"} -> "transaction"
      [] KindOf[t[1]] = "register" -> "onboarding"
      [] KindOf[t[1]] = "deploy"   -> "deployment"
      [] OTHER                     -> "operations"

\* The gas of a transaction is counted once and in the right group, whether its
\* receipt, a report or both in either order recorded it, and whichever release
\* wrote the row; so the groups of the report add up to its total, and the two
\* lines for session payments hold session payments only.
GasCounted ==
    /\ \A t \in DOMAIN gas : gas[t].category = TrueCategory(t)
    /\ UNION {ByGroup(g) : g \in GroupOrder} = DOMAIN gas
    /\ UNION BySource = DOMAIN gas
    /\ \A line \in SessionLines : \A t \in line : KindOf[t[1]] = "session"

\* The consumer's history and the gas report are exact whichever of receipt, index,
\* row and report comes first.
BooksExact == HistoryExact /\ GasCounted
=============================================================================
