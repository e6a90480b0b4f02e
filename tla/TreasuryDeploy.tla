--------------------------- MODULE TreasuryDeploy ---------------------------
(***************************************************************************)
(* Deployment of a treasury token from the operator's pages                *)
(* (treasuryDeployService): a proxy over the shared implementation, the    *)
(* transactions that wire it, and last its row in stablecoins, which is    *)
(* what the server and the indexer read.  The Vault keeps its own mapping, *)
(* set by the first wiring transaction.                                    *)
(***************************************************************************)
EXTENDS Naturals, FiniteSets

CONSTANTS
    Operators,   \* deployments that may run at the same time
    Proxies,     \* addresses of the proxies they may deploy
    Old,         \* a registered instance of another currency, with its own implementation
    NoProxy,
    Wires        \* number of wiring transactions

ASSUME DeployAssumption == Wires \in Nat \ {0} /\ Old \notin Proxies /\ NoProxy \notin Proxies

VARIABLES
    deployed,    \* proxies on the chain
    impl,        \* implementation each proxy points to
    wires,       \* wiring transactions each proxy has seen
    vaultToken,  \* Vault.currencyTreasuryToken of the currency
    coin,        \* stablecoins.contract_address of the currency
    stray,       \* contract_deployments has rows of single instances
    job,         \* what each operator's request is doing
    overlap      \* history: two deployments of the currency ran at the same time

deployVars == <<deployed, impl, wires, vaultToken, coin, stray, job, overlap>>
Resting == [pc |-> "idle", proxy |-> NoProxy]

DeployInit ==
    /\ deployed = {} /\ impl = [p \in Proxies \cup {Old} |-> IF p = Old THEN "own" ELSE "none"]
    /\ wires = [p \in Proxies |-> 0]
    /\ vaultToken = NoProxy /\ coin = NoProxy /\ stray = TRUE
    /\ job = [o \in Operators |-> Resting] /\ overlap = FALSE

\* A currency that has a deployed token is refused.
CheckDeploy(o) ==
    /\ job[o].pc = "idle" /\ coin = NoProxy
    /\ Proxies \ deployed # {}
    /\ job' = [job EXCEPT ![o].pc = "proxy"]
    /\ overlap' = (overlap \/ \E q \in Operators : job[q].pc \in {"proxy", "wire"})
    /\ UNCHANGED <<deployed, impl, wires, vaultToken, coin, stray>>

\* deployTreasuryProxyInstance, over the shared implementation.
DeployProxy(o) ==
    /\ job[o].pc = "proxy"
    /\ \E p \in Proxies \ deployed :
          /\ deployed' = deployed \cup {p}
          /\ impl' = [impl EXCEPT ![p] = "shared"]
          /\ job' = [job EXCEPT ![o] = [pc |-> "wire", proxy |-> p]]
    /\ UNCHANGED <<wires, vaultToken, coin, stray, overlap>>

\* The first transaction points the Vault at the proxy; the others grant the
\* minter and compliance roles, set the registry, the gate and the whitelist.
Wire(o) ==
    LET p == job[o].proxy IN
    /\ job[o].pc = "wire" /\ wires[p] < Wires
    /\ wires' = [wires EXCEPT ![p] = @ + 1]
    /\ vaultToken' = IF wires[p] = 0 THEN p ELSE vaultToken
    /\ UNCHANGED <<deployed, impl, coin, stray, job, overlap>>

\* Mutant: the row is written as soon as the proxy exists.
RegisterEarly(o) ==
    /\ job[o].pc = "wire"
    /\ coin' = job[o].proxy
    /\ job' = [job EXCEPT ![o] = Resting]
    /\ UNCHANGED <<deployed, impl, wires, vaultToken, stray, overlap>>

\* All receipts are in: the row is written, or replaced.
Register(o) ==
    /\ job[o].pc = "wire" /\ wires[job[o].proxy] = Wires
    /\ coin' = job[o].proxy
    /\ job' = [job EXCEPT ![o] = Resting]
    /\ UNCHANGED <<deployed, impl, wires, vaultToken, stray, overlap>>

\* A transaction or a query throws, or the process stops: nothing is undone.
DeployFails(o) ==
    /\ job[o].pc # "idle"
    /\ job' = [job EXCEPT ![o] = Resting]
    /\ UNCHANGED <<deployed, impl, wires, vaultToken, coin, stray, overlap>>

\* reconcileTreasuryInstances: the registered instances one after the other, then
\* the rows.  A step that throws leaves the rest.
Registered == {Old} \cup ({coin} \ {NoProxy})
AlignInstance(p) ==
    /\ p \in Registered /\ impl[p] # "shared"
    /\ impl' = [impl EXCEPT ![p] = "shared"]
    /\ UNCHANGED <<deployed, wires, vaultToken, coin, stray, job, overlap>>
DropStrayRows ==
    /\ stray /\ \A p \in Registered : impl[p] = "shared"
    /\ stray' = FALSE
    /\ UNCHANGED <<deployed, impl, wires, vaultToken, coin, job, overlap>>

DeployNext ==
    \/ \E o \in Operators :
          \/ CheckDeploy(o) \/ DeployProxy(o) \/ Wire(o)
          \/ Register(o) \/ DeployFails(o)
    \/ \E p \in Proxies \cup {Old} : AlignInstance(p)
    \/ DropStrayRows

DeploySpec == DeployInit /\ [][DeployNext]_deployVars

-----------------------------------------------------------------------------
\* A token the platform registers is complete: the Vault holds the same address
\* and all the wiring transactions are mined, however often a deployment failed
\* half-way and was started again.  Two deployments of one currency at the same
\* time are excepted: both pass the check, and the Vault may end up with one
\* proxy and stablecoins with the other.
TokenWired ==
    coin # NoProxy /\ ~overlap =>
        /\ vaultToken = coin /\ wires[coin] = Wires /\ impl[coin] = "shared"
=============================================================================
