------------------------------ MODULE MCRecords ------------------------------
(***************************************************************************)
(* Two operations of different kinds at a time, over a chain of a few      *)
(* blocks, beside the indexer ("history") or beside a gas report ("gas");  *)
(* and the deployment of a treasury token by two operators ("deployment"). *)
(* An insert into the gas ledger fails only beside a gas report: nothing   *)
(* else reads that table.  A cash-out of dollars bought just before takes  *)
(* two blocks more than the other pairs, and nothing fails beside it.      *)
(***************************************************************************)
EXTENDS Reports, TreasuryDeploy

VARIABLES
    mode,     \* what runs beside the operations of this behaviour
    active    \* those operations

JobNames == {"topup", "purchase", "session", "change", "convert", "settle", "enable",
             "register", "deploy", "before", "harvest", "withdraw", "cashout"}
\* "before" is a session payment made by an older release; "cashout" withdraws all
\* the dollars there are.
MCKindOf == [j \in JobNames |-> IF j = "before" THEN "session" ELSE IF j = "cashout" THEN "withdraw" ELSE j]
MCTxs == {<<j, 1>> : j \in JobNames}
            \cup {<<j, 2>> : j \in {"topup", "convert", "settle", "change", "withdraw", "cashout"}}
            \cup {<<"withdraw", 3>>, <<"cashout", 3>>}
MCEmitter(t) ==
    CASE t \in {<<"topup", 1>>, <<"settle", 2>>} -> "token"
      [] t[1] \in {"enable", "deploy"} -> "none"
      [] t[1] = "register" -> "registry"
      [] OTHER -> "vault"
MCWorth == [j \in JobNames |->
    CASE j \in {"topup", "convert", "settle", "withdraw"} -> 2 [] j = "harvest" -> 3 [] j = "cashout" -> 4 [] OTHER -> 1]
MCFeeOf == [j \in JobNames |-> IF j \in {"convert", "settle", "harvest", "withdraw", "cashout"} THEN 1 ELSE 0]
MCOpening == [u \in {"consumer", "merchant", "escrow"} |->
                [c \in {"ZAR", "USDC"} |->
                    IF u = "escrow" THEN 0 ELSE IF c = "ZAR" THEN 4 ELSE IF u = "consumer" THEN 2 ELSE 0]]
MCCurrencyRows == [c \in {"ZAR", "USDC", "TTZA"} |->
    CASE c = "ZAR" -> [type |-> "FIAT", base |-> "none"]
      [] c = "USDC" -> [type |-> "STABLECOIN", base |-> "USD"]
      [] c = "TTZA" -> [type |-> "TREASURY", base |-> "ZAR"]]
MCEmitterOf == [t \in MCTxs |-> MCEmitter(t)]

Operations(m) ==
    CASE m = "history" -> {{"session", "convert"}, {"purchase", "change"}, {"topup", "session"},
                           {"settle", "harvest"}, {"withdraw"}, {"convert", "cashout"}}
      [] m = "gas" -> {{"topup", "settle"}, {"session", "convert"}, {"before", "enable"},
                       {"register", "deploy"}, {"purchase", "change"}, {"withdraw"}}
      [] m = "deployment" -> {{}}

MCInit ==
    /\ IndexInit /\ BooksInit /\ DeployInit
    /\ mode \in {"history", "gas", "deployment"}
    /\ active \in Operations(mode)
    /\ tokens = {"token"}

\* The consumer cashes out the dollars just bought with those already there.
Job ==
    \E j \in active :
        /\ j = "cashout" => at[<<"convert", 2>>] # 0 \/ <<j, 1>> \in sent
        /\ Send(j) \/ Receive(j) \/ WriteRow(j) \/ Fulfil(j)

Report == OpenReport \/ FillReport \/ CloseReport

\* The process restarts, and its operations end with its tick and its report.
Restart ==
    /\ ProcessRestarts /\ "cashout" \notin active
    /\ active' = {} /\ UNCHANGED mode
    /\ job' = [o \in Operators |-> Resting]
    /\ UNCHANGED <<deployed, impl, wires, vaultToken, coin, stray, overlap>>

Records ==
    /\ \/ Job
       \/ mode = "gas" /\ Report
       \/ mode = "history" /\ Tick /\ UNCHANGED bookVars
       \/ mode = "history" /\ TickFails /\ UNCHANGED <<chainVars, tokens, bookVars>>
       \/ mode # "deployment" /\ Chain /\ UNCHANGED bookVars
    /\ mode = "history" => "gas" \notin faults'
    /\ IF "cashout" \in active THEN faults' = faults ELSE head' \in {head} \cup 1..MaxHead - 2
    /\ UNCHANGED <<mode, active, deployVars>>

\* A token that is registered is one the next process watches.
Deployment ==
    /\ mode = "deployment"
    /\ DeployNext
    /\ tokens' = {"token"} \cup ({coin'} \ {NoProxy})
    /\ UNCHANGED <<mode, active, chainVars, indexVars, bookVars, faults>>

MCNext == Records \/ Restart \/ Deployment

allVars == <<chainVars, indexVars, tokens, faults, bookVars, mode, active, deployVars>>

\* The poll timer keeps firing, so every tick that can be taken is.
MCSpec ==
    /\ MCInit /\ [][MCNext]_allVars
    /\ WF_allVars(mode = "history" /\ Tick /\ UNCHANGED <<bookVars, mode, active, deployVars>>)
=============================================================================
