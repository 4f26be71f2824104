------------------------------ MODULE ChainSync ------------------------------
(***************************************************************************)
(* The ChainSync half of the ingestion layer                               *)
(* (backend/app/ingestion/ogmios_client.py) together with the stores its   *)
(* two handlers write and the two actors that race them: the analysis      *)
(* engine's batch (fetched in one step, its scores inserted in a later     *)
(* one) and the delayed score repurge tasks.                               *)
(*                                                                         *)
(* Every awaited call of _handle_roll_forward and _handle_roll_backward is *)
(* a step of its own, so that a crash, a raised database error or a step   *)
(* of another actor can fall between any two of them.  The value of pc     *)
(* names the call that is about to be made.                                *)
(***************************************************************************)
EXTENDS Naturals, FiniteSets

CONSTANTS
    Block,         \* block points of the ledger, Origin included
    Origin,        \* the point "origin"
    Anchor,        \* a block that every fork shares: no reorganisation reaches Origin
    NoBlock,       \* absent row, status or checkpoint
    Tx,            \* transaction hashes
    Chain,         \* Chain[b]: b and its ancestors
    Slot,          \* Slot[b]: order along a chain, the slot the stores keep
    Txs,           \* Txs[b]: the transactions of block b
    Slotless,      \* blocks delivered without a slot (Byron boundary blocks)
    Undecodable,   \* blocks whose nextBlock frame cannot be decoded
    Headless,      \* undecodable blocks whose id or slot cannot be recovered
    Salvaged,      \* Salvaged[b]: transactions recovered from an undecodable b
    Unparseable,   \* transactions on which parse_ogmios_transaction raises
    NoInputs,      \* transactions with input_count = 0
    RawBlocking,   \* RAW_DATA_MAX_BYTES > 0: the raw store is load-bearing
    Cleanup,       \* ROLLBACK_CLEANUP_ENABLED
    Clustering,    \* CLUSTERING_ENABLED
    EngineOn,      \* whether the analysis engine runs
    DelayCoversBatch,  \* the repurge delay outlasts an engine batch in flight
    MaxAttempts,   \* CLICKHOUSE_INSERT_MAX_RETRIES
    Faults,        \* which failures the environment may inject
    MaxMoves,      \* bound: changes of the node's tip
    MaxFaults      \* bound: injected failures

FaultKinds == {"connection", "crash", "raw", "insert", "lifecycle", "mark",
               "postgres", "purge", "enqueue", "repurge", "clustering", "engine"}

ASSUME ChainAssumption ==
    /\ Origin \in Block
    /\ Anchor \in Block \ {Origin}
    /\ NoBlock \notin Block
    /\ Chain \in [Block -> SUBSET Block]
    /\ Slot \in [Block -> Nat]
    /\ Txs \in [Block -> SUBSET Tx]
    /\ Salvaged \in [Block -> SUBSET Tx]
    /\ \A b \in Block : b \in Chain[b] /\ Origin \in Chain[b]
    /\ Chain[Origin] = {Origin}
    /\ Txs[Origin] = {}
    /\ \A b \in Block \ {Origin} : Anchor \in Chain[b]
    /\ \A b \in Block : \A c \in Chain[b] :
          Chain[c] = {d \in Chain[b] : Slot[d] <= Slot[c]}
    /\ \A b \in Block : \A c, d \in Chain[b] : Slot[c] = Slot[d] => c = d
    /\ \A b \in Block : \A c, d \in Chain[b] : c # d => Txs[c] \cap Txs[d] = {}
    /\ \A b \in Undecodable : Salvaged[b] \subseteq Txs[b]

ASSUME ParameterAssumption ==
    /\ Slotless \subseteq Block \ {Origin, Anchor}
    /\ Undecodable \subseteq Block \ {Origin}
    /\ Headless \subseteq Undecodable
    /\ Unparseable \subseteq Tx
    /\ NoInputs \subseteq Tx
    /\ {RawBlocking, Cleanup, Clustering, EngineOn, DelayCoversBatch} \subseteq BOOLEAN
    /\ MaxAttempts \in Nat \ {0}
    /\ Faults \subseteq FaultKinds
    /\ MaxMoves \in Nat /\ MaxFaults \in Nat

VARIABLES
    tip,          \* the node's current tip
    moves,        \* how often the tip has changed (bounded by MaxMoves)
    cursor,       \* Ogmios' read pointer for our connection
    echo,         \* the next answer is the rollback to the intersection point
    pc,           \* the call the chain-sync coroutine makes next
    blk,          \* the block, or rollback point, being handled
    hashes,       \* purged_hashes of the rollback (or replay) in progress
    attempt,      \* attempt number of _insert_block_with_retry
    faults        \* failures injected so far (bounded by MaxFaults)

VARIABLES
    txRow,        \* ClickHouse transactions: the block a tx row was ingested from
    child,        \* ClickHouse transaction_inputs and _outputs: txs with rows
    score,        \* ClickHouse tx_class_scores: the block the score was computed from
    verdict,      \* the clustering sidecar's rows, by tx
    raw,          \* raw store: txs with a confirmed blob
    life,         \* tx_lifecycle: the block a tx is CONFIRMED in, NoBlock otherwise
    ckpt,         \* sync_checkpoint
    quarantined,  \* quarantined_blocks
    repurge,      \* pending_score_repurges
    tasks,        \* _repurge_tasks: delayed repurges alive in the process
    batch         \* the engine's fetched batch: tx -> block it was read from

\* Observations of the run that the program does not keep.
VARIABLES
    start,        \* where the first run began reading; nothing before it is ingested
    tornRewind,   \* a rollback handler died before it rewound the checkpoint
    lostRepurge   \* transactions whose persisted repurge was never written (the
                  \* handler died after its purge, before its enqueue), or was
                  \* cleared while a later rollback or a stale batch relied on it

node == <<tip, moves>>
session == <<cursor, echo, pc, blk, hashes, attempt, faults>>
warehouse == <<txRow, child, score, verdict>>
operational == <<life, ckpt, quarantined, repurge>>
history == <<start, tornRewind, lostRepurge>>
vars == <<node, session, warehouse, raw, operational, tasks, batch, history>>

-----------------------------------------------------------------------------
MaybeBlock == Block \cup {NoBlock}
NoBatch == [t \in Tx |-> NoBlock]

Forward == {"quarantine", "raw", "insertTx", "insertChild", "life", "save"}
Backward == {"mark", "purgeChild", "purgeScore", "purgeTx", "enqueue", "cluster", "rewind"}
Setup == {"replay", "replayClear", "intersect", "first"}

\* A scheduled repurge: "flying" while an engine batch that was in flight at
\* scheduling time may still insert, "due" once it cannot, "clear" between the
\* ClickHouse delete and the Postgres clear.  id tells two tasks with the same
\* hashes apart: between two rollbacks that purge there is always a move of the
\* tip or a failure.  own is an observation: the hashes whose persisted row no
\* later rollback has written again.
Task == [id : Nat, h : SUBSET Tx, own : SUBSET Tx, st : {"flying", "due", "clear"}]

TypeOK ==
    /\ tip \in Block /\ moves \in Nat
    /\ cursor \in Block /\ echo \in BOOLEAN
    /\ pc \in {"down", "idle"} \cup Setup \cup Forward \cup Backward
    /\ blk \in Block /\ hashes \subseteq Tx
    /\ attempt \in 1..MaxAttempts /\ faults \in Nat
    /\ txRow \in [Tx -> MaybeBlock] /\ child \subseteq Tx
    /\ score \in [Tx -> MaybeBlock] /\ verdict \subseteq Tx
    /\ raw \subseteq Tx
    /\ life \in [Tx -> MaybeBlock] /\ ckpt \in MaybeBlock
    /\ quarantined \subseteq Block /\ repurge \subseteq Tx
    /\ tasks \subseteq Task /\ batch \in [Tx -> MaybeBlock]
    /\ start \in Block /\ tornRewind \in BOOLEAN /\ lostRepurge \subseteq Tx

Init ==
    /\ tip \in Block /\ moves = 0
    /\ cursor = Origin /\ echo = FALSE /\ pc = "down" /\ blk = Origin
    /\ hashes = {} /\ attempt = 1 /\ faults = 0
    /\ txRow = [t \in Tx |-> NoBlock] /\ child = {}
    /\ score = [t \in Tx |-> NoBlock] /\ verdict = {}
    /\ raw = {}
    /\ life = [t \in Tx |-> NoBlock] /\ ckpt = NoBlock
    /\ quarantined = {} /\ repurge = {}
    /\ tasks = {} /\ batch = NoBatch
    /\ start = Origin /\ tornRewind = FALSE /\ lostRepurge = {}

-----------------------------------------------------------------------------
\* What the parser makes of block b: the decodable transactions that parse.
Parsed(b) == (IF b \in Undecodable THEN Salvaged[b] ELSE Txs[b]) \ Unparseable

\* Set the entry of every t in S to b.
Put(f, S, b) == [t \in Tx |-> IF t \in S THEN b ELSE f[t]]

\* The hashes delete_rolled_back_txs selects for a rollback to point p.
PastSlot(f, p) == {t \in Tx : f[t] # NoBlock /\ Slot[f[t]] > Slot[p]}

\* An entry computed from a block that no longer carries the transaction's row.
Stale(f, t) == f[t] # NoBlock /\ f[t] # txRow[t]

Fault(kind) ==
    /\ kind \in Faults
    /\ faults < MaxFaults
    /\ faults' = faults + 1

\* A rollback handler is under way that will move an existing checkpoint.
Rewinding == pc \in Backward /\ ckpt \notin {NoBlock, blk}

\* The exception leaves _chain_sync_loop; run_with_reconnect closes the socket.
SessionEnds ==
    /\ pc' = "down"
    /\ hashes' = {}
    /\ tornRewind' = (tornRewind \/ Rewinding)
    /\ lostRepurge' = lostRepurge \cup (IF pc = "enqueue" THEN hashes ELSE {})
    /\ UNCHANGED <<cursor, echo, blk, attempt, start>>

-----------------------------------------------------------------------------
(* Broken variants of definitions below, one per checked property: each is a *)
(* plausible slip in the code, and the run that checks the property must      *)
(* reject it.  Nothing else refers to them.                                   *)

\* A rollback to the intersection point is taken for a plain acknowledgement.
NextBackwardSkipsEcho ==
    /\ pc = "idle"
    /\ echo \/ cursor \notin Chain[tip]
    /\ \E p \in Chain[cursor] \cap Chain[tip] :
          /\ \A q \in Chain[cursor] \cap Chain[tip] : Slot[q] <= Slot[p]
          /\ cursor' = p
          /\ blk' = p
          /\ pc' = IF p = Origin \/ echo THEN "idle" ELSE "mark"
    /\ echo' = FALSE
    /\ UNCHANGED <<node, hashes, attempt, faults, warehouse, raw, operational,
                   tasks, batch, history>>

\* The block is recorded as quarantined only on a best-effort basis.
QuarantineForgets ==
    /\ pc = "quarantine"
    /\ pc' = IF Salvaged[blk] \ Unparseable = {} THEN "save" ELSE "raw"
    /\ UNCHANGED <<node, cursor, echo, blk, hashes, attempt, faults, warehouse, raw,
                   operational, tasks, batch, history>>

\* A raw-store failure is swallowed even when ClickHouse truncates.
WriteRawBestEffort ==
    /\ pc = "raw"
    /\ \/ raw' = raw \cup Parsed(blk) /\ UNCHANGED faults
       \/ Fault("raw") /\ UNCHANGED raw
    /\ pc' = "insertTx"
    /\ attempt' = 1
    /\ UNCHANGED <<node, cursor, echo, blk, hashes, warehouse, operational, tasks,
                   batch, history>>

\* The retry loop gives up on the block without raising BlockPersistError.
InsertFailsSwallowed ==
    /\ pc \in {"insertTx", "insertChild"}
    /\ Fault("insert")
    /\ attempt' = IF attempt < MaxAttempts THEN attempt + 1 ELSE attempt
    /\ pc' = IF attempt < MaxAttempts THEN "insertTx" ELSE "life"
    /\ UNCHANGED <<node, cursor, echo, blk, hashes, warehouse, raw, operational,
                   tasks, batch, history>>

\* The repurge runs at once instead of after the delay.
TaskDeleteAtOnce(k) ==
    /\ k.st \in {"due", "flying"}
    /\ score' = Put(score, k.h, NoBlock)
    /\ tasks' = (tasks \ {k}) \cup {[k EXCEPT !.st = "clear"]}
    /\ UNCHANGED <<node, session, txRow, child, verdict, raw, operational, batch, history>>

-----------------------------------------------------------------------------
(* The node (external): it extends its chain or switches to a fork. *)
NodeAdopts(b) ==
    /\ moves < MaxMoves
    /\ b \in Block \ Chain[tip]
    /\ tip' = b
    /\ moves' = moves + 1
    /\ UNCHANGED <<session, warehouse, raw, operational, tasks, batch, history>>

-----------------------------------------------------------------------------
(* Connecting: replay the persisted repurges, then intersect. *)
Connect ==
    /\ pc = "down"
    /\ pc' = "replay"
    /\ UNCHANGED <<node, cursor, echo, blk, hashes, attempt, faults, warehouse,
                   raw, operational, tasks, batch, history>>

ReplayDelete ==
    /\ pc = "replay"
    /\ hashes' = repurge
    /\ score' = Put(score, repurge, NoBlock)
    /\ pc' = IF repurge = {} THEN "intersect" ELSE "replayClear"
    /\ lostRepurge' = lostRepurge \cup {t \in repurge : Stale(batch, t)}
    /\ UNCHANGED <<node, cursor, echo, blk, attempt, faults, txRow, child, verdict,
                   raw, operational, tasks, batch, start, tornRewind>>

ReplayClear ==
    /\ pc = "replayClear"
    /\ repurge' = repurge \ hashes
    /\ hashes' = {}
    /\ pc' = "intersect"
    /\ UNCHANGED <<node, cursor, echo, blk, attempt, faults, warehouse, raw,
                   life, ckpt, quarantined, tasks, batch, history>>

\* Either half of the replay failing is logged and the sync goes on.
ReplayFails ==
    /\ pc \in {"replay", "replayClear"}
    /\ Fault("repurge")
    /\ hashes' = {}
    /\ pc' = "intersect"
    /\ UNCHANGED <<node, cursor, echo, blk, attempt, warehouse, raw, operational,
                   tasks, batch, history>>

\* findIntersection with the one saved point: found, or IntersectionNotFoundError.
Resume ==
    /\ pc = "intersect"
    /\ ckpt # NoBlock
    /\ \/ /\ ckpt \in Chain[tip]
          /\ cursor' = ckpt
          /\ echo' = TRUE
          /\ pc' = "idle"
          /\ UNCHANGED <<blk, hashes, attempt, start, tornRewind, lostRepurge>>
       \/ /\ ckpt \notin Chain[tip]
          /\ SessionEnds
    /\ UNCHANGED <<node, faults, warehouse, raw, operational, tasks, batch>>

\* First run: intersect at origin and read the tip out of the answer ...
FirstOrigin ==
    /\ pc = "intersect"
    /\ ckpt = NoBlock
    /\ cursor' = Origin
    /\ echo' = TRUE
    /\ blk' = tip
    /\ pc' = "first"
    /\ UNCHANGED <<node, hashes, attempt, faults, warehouse, raw, operational,
                   tasks, batch, history>>

\* ... then intersect at that tip; an error answer is not looked at, and the
\* read pointer stays at origin.
FirstTip ==
    /\ pc = "first"
    /\ cursor' = IF blk \in Chain[tip] THEN blk ELSE cursor
    /\ start' = cursor'
    /\ pc' = "idle"
    /\ UNCHANGED <<node, echo, blk, hashes, attempt, faults, warehouse, raw,
                   operational, tasks, batch, tornRewind, lostRepurge>>

-----------------------------------------------------------------------------
(* nextBlock (the node's answer is external). *)

\* rollBackward: to the intersection point, or to the fork point when the
\* node has left the branch the pointer is on.  A rollback to origin does
\* nothing: no mark, no purge, no checkpoint.
NextBackward ==
    /\ pc = "idle"
    /\ echo \/ cursor \notin Chain[tip]
    /\ \E p \in Chain[cursor] \cap Chain[tip] :
          /\ \A q \in Chain[cursor] \cap Chain[tip] : Slot[q] <= Slot[p]
          /\ cursor' = p
          /\ blk' = p
          /\ pc' = IF p = Origin THEN "idle" ELSE "mark"
    /\ echo' = FALSE
    /\ UNCHANGED <<node, hashes, attempt, faults, warehouse, raw, operational,
                   tasks, batch, history>>

\* Where _handle_roll_forward goes first for block b.
Dispatch(b) ==
    IF Parsed(b) = {} THEN "save" ELSE "raw"

NextForward ==
    /\ pc = "idle"
    /\ ~echo
    /\ \E b \in Chain[tip] \ {cursor} :
          /\ Chain[b] = Chain[cursor] \cup {b}
          /\ cursor' = b
          /\ \/ /\ b \in Undecodable \ Headless
                /\ pc' = "quarantine"
                /\ blk' = b
             \/ /\ b \notin Undecodable
                /\ b \notin Slotless
                /\ pc' = Dispatch(b)
                /\ blk' = b
             \/ /\ b \in Slotless \ Undecodable
                /\ Txs[b] = {}
                /\ UNCHANGED <<pc, blk>>
             \/ /\ b \in Headless \/ (b \in Slotless \ Undecodable /\ Txs[b] # {})
                /\ pc' = "down"
                /\ UNCHANGED blk
    /\ UNCHANGED <<node, echo, hashes, attempt, faults, warehouse, raw,
                   operational, tasks, batch, history>>

-----------------------------------------------------------------------------
(* _quarantine_undecodable_block, then _handle_roll_forward. *)
Quarantine ==
    /\ pc = "quarantine"
    /\ quarantined' = quarantined \cup {blk}
    /\ pc' = Dispatch(blk)
    /\ UNCHANGED <<node, cursor, echo, blk, hashes, attempt, faults, warehouse, raw,
                   life, ckpt, repurge, tasks, batch, history>>

\* _write_raw_payloads; a failure is swallowed when ClickHouse holds the full copy.
WriteRaw ==
    /\ pc = "raw"
    /\ \/ raw' = raw \cup Parsed(blk) /\ UNCHANGED faults
       \/ ~RawBlocking /\ Fault("raw") /\ UNCHANGED raw
    /\ pc' = "insertTx"
    /\ attempt' = 1
    /\ UNCHANGED <<node, cursor, echo, blk, hashes, warehouse, operational, tasks,
                   batch, history>>

\* insert_transactions_batch: transactions first, the child tables after it.
InsertTx ==
    /\ pc = "insertTx"
    /\ txRow' = Put(txRow, Parsed(blk), blk)
    /\ pc' = "insertChild"
    /\ UNCHANGED <<node, cursor, echo, blk, hashes, attempt, faults, child, score,
                   verdict, raw, operational, tasks, batch, history>>

InsertChild ==
    /\ pc = "insertChild"
    /\ child' = child \cup Parsed(blk)
    /\ pc' = "life"
    /\ UNCHANGED <<node, cursor, echo, blk, hashes, attempt, faults, txRow, score,
                   verdict, raw, operational, tasks, batch, history>>

\* A failed insert is retried from its first statement, then BlockPersistError.
InsertFails ==
    /\ pc \in {"insertTx", "insertChild"}
    /\ Fault("insert")
    /\ \/ /\ attempt < MaxAttempts
          /\ attempt' = attempt + 1
          /\ pc' = "insertTx"
          /\ UNCHANGED <<cursor, echo, blk, hashes, history>>
       \/ /\ attempt = MaxAttempts
          /\ SessionEnds
    /\ UNCHANGED <<node, warehouse, raw, operational, tasks, batch>>

\* batch_upsert_lifecycle_confirmed: its failure is swallowed.
UpsertLifecycle ==
    /\ pc = "life"
    /\ \/ life' = Put(life, Parsed(blk), blk) /\ UNCHANGED faults
       \/ Fault("lifecycle") /\ UNCHANGED life
    /\ pc' = "save"
    /\ UNCHANGED <<node, cursor, echo, blk, hashes, attempt, warehouse, raw, ckpt,
                   quarantined, repurge, tasks, batch, history>>

SaveSyncPoint ==
    /\ pc = "save"
    /\ ckpt' = blk
    /\ pc' = "idle"
    /\ UNCHANGED <<node, cursor, echo, blk, hashes, attempt, faults, warehouse, raw,
                   life, quarantined, repurge, tasks, batch, history>>

-----------------------------------------------------------------------------
(* _handle_roll_backward to the point blk. *)

\* mark_lifecycle_rolled_back: its failure is swallowed.
MarkRolledBack ==
    /\ pc = "mark"
    /\ \/ life' = Put(life, PastSlot(life, blk), NoBlock) /\ UNCHANGED faults
       \/ Fault("mark") /\ UNCHANGED life
    /\ pc' = IF Cleanup THEN "purgeChild" ELSE "rewind"
    /\ UNCHANGED <<node, cursor, echo, blk, hashes, attempt, warehouse, raw, ckpt,
                   quarantined, repurge, tasks, batch, history>>

\* delete_rolled_back_txs: select the hashes, then one DELETE per table with
\* tx_class_scores second to last and transactions last.
PurgeChildren ==
    /\ pc = "purgeChild"
    /\ hashes' = PastSlot(txRow, blk)
    /\ child' = child \ hashes'
    /\ pc' = IF hashes' = {} THEN "rewind" ELSE "purgeScore"
    /\ UNCHANGED <<node, cursor, echo, blk, attempt, faults, txRow, score, verdict,
                   raw, operational, tasks, batch, history>>

PurgeScores ==
    /\ pc = "purgeScore"
    /\ score' = Put(score, hashes, NoBlock)
    /\ pc' = "purgeTx"
    /\ UNCHANGED <<node, cursor, echo, blk, hashes, attempt, faults, txRow, child,
                   verdict, raw, operational, tasks, batch, history>>

PurgeTransactions ==
    /\ pc = "purgeTx"
    /\ txRow' = Put(txRow, hashes, NoBlock)
    /\ pc' = "enqueue"
    /\ UNCHANGED <<node, cursor, echo, blk, hashes, attempt, faults, child, score,
                   verdict, raw, operational, tasks, batch, history>>

\* add_pending_score_repurges, then create_task with no await in between.
EnqueueRepurge ==
    /\ pc = "enqueue"
    /\ repurge' = repurge \cup hashes
    /\ tasks' = {[k EXCEPT !.own = k.own \ hashes] : k \in tasks} \cup
         {[id |-> moves + faults, h |-> hashes, own |-> hashes,
           st |-> IF batch = NoBatch THEN "due" ELSE "flying"]}
    /\ pc' = "cluster"
    /\ lostRepurge' = lostRepurge \ hashes
    /\ UNCHANGED <<node, cursor, echo, blk, hashes, attempt, faults, warehouse, raw,
                   life, ckpt, quarantined, batch, start, tornRewind>>

\* delete_clustering_rows: a no-op when the module is off; errors are swallowed.
PurgeClustering ==
    /\ pc = "cluster"
    /\ \/ verdict' = (IF Clustering THEN verdict \ hashes ELSE verdict) /\ UNCHANGED faults
       \/ Clustering /\ Fault("clustering") /\ UNCHANGED verdict
    /\ pc' = "rewind"
    /\ UNCHANGED <<node, cursor, echo, blk, hashes, attempt, txRow, child, score, raw,
                   operational, tasks, batch, history>>

RewindSyncPoint ==
    /\ pc = "rewind"
    /\ ckpt' = blk
    /\ hashes' = {}
    /\ pc' = "idle"
    /\ UNCHANGED <<node, cursor, echo, blk, attempt, faults, warehouse, raw, life,
                   quarantined, repurge, tasks, batch, history>>

-----------------------------------------------------------------------------
(* Failures that leave the handler. *)

\* The calls that are deliberately not wrapped in try/except.
Raises(kind) ==
    CASE kind = "raw" -> pc = "raw" /\ RawBlocking
      [] kind = "postgres" -> pc \in {"quarantine", "save", "rewind"}
      [] kind = "purge" -> pc \in {"purgeChild", "purgeScore", "purgeTx"}
      [] kind = "enqueue" -> pc = "enqueue"
      [] kind = "connection" -> pc \in {"idle", "intersect", "first"}

StepRaises ==
    /\ \E kind \in {"raw", "postgres", "purge", "enqueue", "connection"} :
          Raises(kind) /\ Fault(kind)
    /\ SessionEnds
    /\ UNCHANGED <<node, warehouse, raw, operational, tasks, batch>>

\* The process dies: coroutines, tasks and the engine's batch go with it.
Crash ==
    /\ Fault("crash")
    /\ SessionEnds
    /\ tasks' = {}
    /\ batch' = NoBatch
    /\ UNCHANGED <<node, warehouse, raw, operational>>

-----------------------------------------------------------------------------
(* _delayed_score_repurge: delete the scores, then clear the persisted row. *)
TaskDelete(k) ==
    /\ k.st = "due" \/ (k.st = "flying" /\ ~DelayCoversBatch)
    /\ score' = Put(score, k.h, NoBlock)
    /\ tasks' = (tasks \ {k}) \cup {[k EXCEPT !.st = "clear"]}
    /\ UNCHANGED <<node, session, txRow, child, verdict, raw, operational, batch, history>>

TaskClear(k) ==
    /\ k.st = "clear"
    /\ repurge' = repurge \ k.h
    /\ tasks' = tasks \ {k}
    /\ lostRepurge' = lostRepurge \cup (k.h \ k.own)
    /\ UNCHANGED <<node, session, warehouse, raw, life, ckpt, quarantined, batch, start,
                   tornRewind>>

\* A failure of either call is logged; the persisted row stays.
TaskFails(k) ==
    /\ Fault("repurge")
    /\ tasks' = tasks \ {k}
    /\ UNCHANGED <<node, cursor, echo, pc, blk, hashes, attempt, warehouse, raw,
                   operational, batch, history>>

-----------------------------------------------------------------------------
(* The analysis engine's run_once, reduced to its two ClickHouse accesses. *)

\* get_unanalyzed_transactions: rows with no score whose inputs are visible.
Unanalyzed == {t \in Tx : /\ txRow[t] # NoBlock
                          /\ score[t] = NoBlock
                          /\ t \in child \cup NoInputs}

EnginePoll ==
    /\ EngineOn
    /\ batch = NoBatch
    /\ \E S \in SUBSET Unanalyzed \ {{}} :
          batch' = [t \in Tx |-> IF t \in S THEN txRow[t] ELSE NoBlock]
    /\ UNCHANGED <<node, session, warehouse, raw, operational, tasks, history>>

BatchEnds == tasks' = {IF k.st = "flying" THEN [k EXCEPT !.st = "due"] ELSE k : k \in tasks}

EngineInsert ==
    /\ batch # NoBatch
    /\ score' = [t \in Tx |-> IF batch[t] # NoBlock THEN batch[t] ELSE score[t]]
    /\ batch' = NoBatch
    /\ BatchEnds
    /\ UNCHANGED <<node, session, txRow, child, verdict, raw, operational, history>>

EngineFails ==
    /\ batch # NoBatch
    /\ Fault("engine")
    /\ batch' = NoBatch
    /\ BatchEnds
    /\ UNCHANGED <<node, cursor, echo, pc, blk, hashes, attempt, warehouse, raw,
                   operational, history>>

\* The clustering sidecar (external here) publishes a verdict for a visible row.
SidecarVerdict(t) ==
    /\ Clustering
    /\ txRow[t] # NoBlock
    /\ t \notin verdict
    /\ verdict' = verdict \cup {t}
    /\ UNCHANGED <<node, session, txRow, child, score, raw, operational, tasks, batch, history>>

-----------------------------------------------------------------------------
ConnectStep == Connect \/ ReplayDelete \/ ReplayClear \/ Resume \/ FirstOrigin \/ FirstTip
ForwardStep == NextForward \/ Quarantine \/ WriteRaw \/ InsertTx \/ InsertChild
               \/ UpsertLifecycle \/ SaveSyncPoint
BackwardStep == NextBackward \/ MarkRolledBack \/ PurgeChildren \/ PurgeScores
                \/ PurgeTransactions \/ EnqueueRepurge \/ PurgeClustering \/ RewindSyncPoint
ChainSyncStep == ConnectStep \/ ForwardStep \/ BackwardStep
TaskStep == \E k \in tasks : TaskDelete(k) \/ TaskClear(k)
EngineStep == EnginePoll \/ EngineInsert
Failure == ReplayFails \/ InsertFails \/ StepRaises \/ Crash \/ EngineFails
           \/ \E k \in tasks : TaskFails(k)

Next ==
    \/ \E b \in Block : NodeAdopts(b)
    \/ ChainSyncStep
    \/ TaskStep
    \/ EngineStep
    \/ \E t \in Tx : SidecarVerdict(t)
    \/ Failure

Spec == Init /\ [][Next]_vars

\* asyncio keeps running the coroutine, its tasks and the engine thread.
Fairness == WF_vars(ChainSyncStep) /\ WF_vars(TaskStep) /\ WF_vars(EngineStep)
FairSpec == Spec /\ Fairness

-----------------------------------------------------------------------------
(* Correctness. *)

\* Every transaction of b that the parser accepts has its row from b, or is a
\* casualty of an undecodable frame whose block is on record as quarantined.
Ingested(b) ==
    \A t \in Txs[b] \ Unparseable :
        \/ txRow[t] = b
        \/ b \in Undecodable \cap quarantined /\ t \notin Salvaged[b]

\* The checkpoint never passes a block whose transactions are not in the
\* warehouse (save_sync_point is the last call of _handle_roll_forward), over
\* all replays, retries, rollbacks and crashes; while a rollback is being
\* handled the same is true up to the rollback point.  The one exception is a
\* checkpoint left behind by a rollback handler that died (tornRewind).
CheckpointComplete ==
    ckpt # NoBlock /\ ~tornRewind =>
        \A b \in Chain[IF Rewinding THEN blk ELSE ckpt] \ Chain[start] : Ingested(b)

\* CheckpointComplete without its exception: what the rollback handler's
\* comment claims when it says that the connection resets and "the node
\* re-sends the rollback (the cleanup is idempotent)".
CheckpointAlwaysComplete ==
    pc = "idle" /\ ~echo /\ ckpt # NoBlock =>
        \A b \in Chain[ckpt] \ Chain[start] : Ingested(b)

\* Between two blocks the warehouse holds only rows of the branch that is
\* being followed: delete_rolled_back_txs, which goes by slot alone, removes
\* every row of an abandoned branch and nothing else ever leaves one behind.
NoOrphanRows ==
    Cleanup /\ pc = "idle" /\ ~echo /\ ckpt # NoBlock =>
        \A t \in Tx : txRow[t] # NoBlock => txRow[t] \in Chain[cursor]

\* When ClickHouse holds only a truncated copy, a row visible to the engine's
\* poll always has its blob in the raw store ("Raw store FIRST").
RawBeforeRow ==
    RawBlocking => \A t \in Tx : txRow[t] # NoBlock => t \in raw

\* A persisted repurge of t survives any crash; the handler in progress is about
\* to write it.
Covered(t) == t \in repurge \/ (pc = "enqueue" /\ t \in hashes)

\* Every stale score row, which hides its transaction from the unanalyzed poll
\* for good, is still due to be purged by a persisted repurge, whatever dies in
\* between.  The exceptions are the three ways the code has of losing the row
\* (lostRepurge), and a repurge delay shorter than a batch.
StaleScoreCovered ==
    Cleanup /\ DelayCoversBatch =>
        \A t \in Tx \ lostRepurge : Stale(score, t) => Covered(t)

\* The node's chain no longer contains the saved checkpoint, or holds a block
\* the client refuses to pass: both need an operator.
Stranded == ckpt # NoBlock /\ ckpt \notin Chain[tip]
Halted == \E b \in Chain[tip] : b \in Headless \/ (b \in Slotless \ Undecodable /\ Txs[b] # {})

\* A stale score that nothing will delete: its persisted repurge is lost, or the
\* delayed task failed and the row waits for the replay of the next connection,
\* which a connection that holds never makes.
Blocked(t) ==
    /\ Stale(score, t)
    /\ t \in lostRepurge \/ (t \in repurge /\ \A k \in tasks : t \notin k.h)

Settled ==
    /\ pc = "idle" /\ ~echo /\ cursor = tip
    /\ \A t \in Tx : txRow[t] # NoBlock => score[t] = txRow[t] \/ Blocked(t)

\* Once the node stops moving and failures stop, the client catches up with the
\* tip and every ingested transaction has a score of its current block, unless
\* its repurge is lost or waits for a reconnect (Blocked).  Left aside: the two
\* states that need an operator, and a rollback handler that died before it
\* rewound the checkpoint.
EventuallySettled == <>[](Settled \/ Stranded \/ Halted \/ tornRewind)
=============================================================================
