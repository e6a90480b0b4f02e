------------------------------ MODULE Indexer ------------------------------
(***************************************************************************)
(* The projection of contract logs into chain_events (indexerService).     *)
(* The chain grows by blocks, and its last blocks may be replaced; a       *)
(* transaction that falls out is mined again later.  The indexer polls: it *)
(* reads the logs of the confirmed blocks after its cursor in chunks,      *)
(* inserts them one by one and then moves the cursor.  It may fail or be   *)
(* restarted at any of these steps.  The contracts it watches are read     *)
(* once, when the process starts.                                          *)
(***************************************************************************)
EXTENDS Integers, FiniteSets, FiniteSetsExt

CONSTANTS
    Txs,            \* transactions, each emitting one log
    EmitterOf,      \* the contract that emits a transaction's log
    Core,           \* the contracts named in the configuration
    EnvTokens,      \* treasury tokens named in the environment, the fallback
    Confirmations, Chunk,
    MaxChunks,      \* chunks read in one tick (maxPerTick)
    ReorgDepth,     \* how many blocks the chain may replace at once
    StartBlock,     \* INDEXER_START_BLOCK, or NoBlock
    MaxHead,        \* bound on the height of the chain
    Faults,         \* what may go wrong
    MaxFaults       \* bound on the number of faults, each kind at most once

\* No cursor row yet; no start block configured.
NoBlock == -1

ASSUME IndexerAssumption ==
    /\ Confirmations \in Nat /\ Chunk \in Nat \ {0} /\ MaxChunks \in Nat \ {0}
    /\ ReorgDepth \in 0..Confirmations
    /\ StartBlock \in Nat \cup {NoBlock}
    /\ MaxHead \in Nat /\ MaxFaults \in Nat

VARIABLES
    head,       \* height of the chain
    at,         \* block of each transaction, 0 when it is in none
    sent,       \* transactions handed to the chain
    tokens,     \* stablecoins: addresses of deployed treasury tokens
    cursor,     \* indexer_cursor, NoBlock when there is no row
    targets,    \* the contracts this process watches, {} before they are read
    reader,     \* the running tick
    events,     \* chain_events: [tx, block]
    origin,     \* history: where the cursor began
    scanned,    \* history: [contract, block] pairs the cursor has passed
    faults

chainVars == <<head, at, sent>>
indexVars == <<cursor, targets, reader, events, origin, scanned>>

NoTick == [pc |-> "idle", safe |-> 0, chunks |-> 0, to |-> 0, logs |-> {}]

IndexInit ==
    /\ head = 1 /\ at = [t \in Txs |-> 0] /\ sent = {}
    /\ cursor = NoBlock /\ targets = {} /\ reader = NoTick /\ events = {}
    /\ origin = NoBlock /\ scanned = {}
    /\ faults = {}

Fault(kind) ==
    /\ kind \in Faults \ faults /\ Cardinality(faults) < MaxFaults
    /\ faults' = faults \cup {kind}

-----------------------------------------------------------------------------
(* The chain.                                                              *)

Unmined == {t \in sent : at[t] = 0}

MineBlock ==
    /\ head < MaxHead
    /\ head' = head + 1
    /\ \E T \in SUBSET Unmined :
          at' = [t \in Txs |-> IF t \in T THEN head' ELSE at[t]]
    /\ UNCHANGED <<sent, faults>>

\* The last k blocks are replaced by as many that hold none of their transactions.
ReplaceBlocks ==
    /\ \E k \in 1..ReorgDepth :
          at' = [t \in Txs |-> IF at[t] > head - k THEN 0 ELSE at[t]]
    /\ UNCHANGED <<head, sent>>
Reorg == Fault("reorg") /\ ReplaceBlocks

-----------------------------------------------------------------------------
(* The indexer.                                                            *)

Watched(read) == Core \cup (IF read = {} THEN EnvTokens ELSE read)

\* A failed query counts as no rows, and no rows as the environment's.
BuildTargets ==
    /\ targets = {}
    /\ \/ targets' = Watched(tokens) /\ UNCHANGED faults
       \/ Fault("query") /\ targets' = Watched({})
    /\ UNCHANGED <<cursor, reader, events, origin, scanned>>

\* Mutant: the newest blocks are read as well.
SafeUnconfirmed == head

Safe == head - Confirmations

\* The head is read, the cursor read or created.
StartTick ==
    LET c == IF cursor # NoBlock THEN cursor ELSE IF StartBlock # NoBlock THEN StartBlock ELSE head
    IN
    /\ reader.pc = "idle" /\ targets # {}
    /\ cursor = NoBlock \/ Safe > cursor
    /\ cursor' = c
    /\ origin' = IF cursor = NoBlock THEN c ELSE origin
    /\ reader' = IF Safe <= c THEN NoTick ELSE [NoTick EXCEPT !.pc = "read", !.safe = Safe]
    /\ UNCHANGED <<targets, events, scanned, faults>>

ReadLogs ==
    LET to == Min({cursor + Chunk, reader.safe}) IN
    /\ reader.pc = "read"
    /\ reader' = [reader EXCEPT !.pc = "insert", !.to = to, !.chunks = @ + 1,
                     !.logs = {[tx |-> t, block |-> at[t]] :
                                 t \in {u \in Txs : at[u] \in cursor + 1..to /\ EmitterOf[u] \in targets}}]
    /\ UNCHANGED <<cursor, targets, events, origin, scanned, faults>>

\* Mutant: a row that is there makes the insert throw, which ends the tick.
InsertThrows ==
    /\ reader.pc = "insert"
    /\ \E l \in reader.logs :
          IF \E e \in events : e.tx = l.tx
          THEN reader' = NoTick /\ UNCHANGED events
          ELSE reader' = [reader EXCEPT !.logs = @ \ {l}] /\ events' = events \cup {l}
    /\ UNCHANGED <<cursor, targets, origin, scanned, faults>>

\* ON CONFLICT DO NOTHING: a log that is there already stays as it is.
InsertLog ==
    /\ reader.pc = "insert"
    /\ \E l \in reader.logs :
          /\ reader' = [reader EXCEPT !.logs = @ \ {l}]
          /\ events' = IF \E e \in events : e.tx = l.tx THEN events ELSE events \cup {l}
    /\ UNCHANGED <<cursor, targets, origin, scanned, faults>>

MoveCursor ==
    /\ reader.pc = "insert" /\ reader.logs = {}
    /\ cursor' = reader.to
    /\ scanned' = scanned \cup (targets \X (cursor + 1..reader.to))
    /\ reader' = IF reader.to < reader.safe /\ reader.chunks < MaxChunks
                 THEN [reader EXCEPT !.pc = "read"] ELSE NoTick
    /\ UNCHANGED <<targets, events, origin, faults>>

\* A call to the node or the database throws: the tick is given up.
TickFails ==
    /\ reader.pc # "idle" /\ Fault("tick") /\ reader' = NoTick
    /\ UNCHANGED <<cursor, targets, events, origin, scanned>>

Tick == (BuildTargets \/ StartTick \/ ReadLogs \/ InsertLog \/ MoveCursor) /\ UNCHANGED <<chainVars, tokens>>
Chain == (MineBlock \/ Reorg) /\ UNCHANGED <<indexVars, tokens>>

-----------------------------------------------------------------------------
Indexed == {e.tx : e \in events}

\* The table holds only logs of the chain that stands, at the block where they
\* stand; and the cursor never passes a log of a watched contract without its
\* row, whatever a restart, a failed tick or a reorganisation interrupts.  For
\* the configured contracts that is every log since the cursor began.
IndexFaithful ==
    /\ \A e \in events : at[e.tx] = e.block
    /\ \A t \in Txs : at[t] # 0 /\ <<EmitterOf[t], at[t]>> \in scanned => t \in Indexed
    /\ \A c \in Core, b \in origin + 1..cursor : cursor # NoBlock => <<c, b>> \in scanned

\* A configured contract's log, deep enough in the chain, that has no row yet.
Behind ==
    /\ cursor # NoBlock
    /\ \E t \in sent : /\ at[t] > cursor /\ at[t] <= head - Confirmations
                       /\ EmitterOf[t] \in Core /\ t \notin Indexed

\* The indexer catches up: a chunk that was half written before a restart is
\* read again and completed.
IndexCatchesUp == Behind ~> ~Behind
=============================================================================
