------------------------------ MODULE Mempool ------------------------------
(***************************************************************************)
(* The mempool monitor (ingestion/mempool_monitor.py) and the chain-sync   *)
(* handlers that call into it.  Both are coroutines of one event loop, so  *)
(* they interleave exactly at their awaits: mpc and cpc name the awaited   *)
(* call that comes next, and everything up to the following await is one   *)
(* step.  The state is the pending-transaction index, the dedup set, the   *)
(* enrichment cache, and the rows of tx_lifecycle, mempool_collisions and  *)
(* transactions that the two coroutines write.                             *)
(***************************************************************************)
EXTENDS Integers, Sequences, FiniteSets, SequencesExt, SeqFilter

CONSTANTS
  Tx,           \* transactions
  NoTx,         \* no transaction
  Ref,          \* unspent outputs they refer to
  Spends,       \* Spends[t]: the regular inputs of t
  Collateral,   \* Collateral[t]: its collateral inputs
  Failed,       \* transactions whose scripts fail when they are included
  Undecodable,  \* transactions whose nextTransaction frame does not decode
  PruneEvery,   \* MEMPOOL_PRUNE_EVERY_N_TXS
  SeenMax,      \* MEMPOOL_SEEN_TXS_MAX
  MaxBlock,     \* bound: transactions in a block
  MaxEvents,    \* bound: blocks and rollbacks the node produces
  MaxFaults     \* bound: calls that fail

ASSUME MempoolAssumption ==
  /\ NoTx \notin Tx
  /\ Spends \in [Tx -> SUBSET Ref \ {{}}]
  /\ Collateral \in [Tx -> SUBSET Ref]
  /\ Failed \subseteq Tx
  /\ Undecodable \subseteq Tx
  /\ PruneEvery \in Nat \ {0}
  /\ SeenMax \in Nat
  /\ MaxBlock \in Nat
  /\ MaxEvents \in Nat
  /\ MaxFaults \in Nat

VARIABLES
  pool,       \* the node's mempool, in the order nextTransaction walks it
  chain,      \* the blocks up to the client's checkpoint; the slot is the index
  events, faults,             \* what the environment has used of its bounds
  mpc, snap, cur, others,     \* monitor: next call, rest of the snapshot,
                              \* transaction in hand, collisions left to record
  seen,       \* _seen_mempool_txs
  entries,    \* keys of PendingTxIndex._entries
  refIndex,   \* PendingTxIndex._ref_index
  cache,      \* keys of _pending_input_cache
  sincePrune, \* _mempool_txs_since_prune
  cpc, block, enriched, todo, conf, victims, target,
              \* chain handler: next call, block in hand, its transactions
              \* parsed with enrichment, transactions left, the one being
              \* compared, pending ones left to compare, slot to roll back to
  row,        \* transactions table: the copy that wins the merge
  life, slot, \* tx_lifecycle: status and slot
  rows,       \* mempool_collisions
  late, lostRow, lostLife, swept
              \* read by properties only: transactions tracked since the
              \* displacement scan began; rows, lifecycle updates and cache
              \* entries lost to a failed call or to the sweep

monitorVars == <<mpc, snap, cur, others>>
indexVars == <<seen, entries, refIndex, cache, sincePrune>>
handlerVars == <<cpc, block, enriched, todo, conf, victims, target>>
lifeVars == <<life, slot>>
historyVars == <<late, lostRow, lostLife, swept>>
vars == <<pool, chain, events, faults, monitorVars, indexVars, handlerVars,
          row, lifeVars, rows, historyVars>>

Status == {"none", "PENDING", "CONFIRMED", "ROLLED_BACK", "DROPPED"}
Collision == [a : Tx, b : Tx, out : {"BOTH_PENDING", "A", "B"}]

Init ==
  /\ pool = <<>> /\ chain = <<>> /\ events = 0 /\ faults = 0
  /\ mpc = "down" /\ snap = <<>> /\ cur = NoTx /\ others = {}
  /\ seen = {} /\ entries = {} /\ cache = {} /\ sincePrune = 0
  /\ refIndex = [r \in Ref |-> {}]
  /\ cpc = "idle" /\ block = {} /\ enriched = {} /\ todo = {}
  /\ conf = NoTx /\ victims = {} /\ target = 0
  /\ row = [t \in Tx |-> "none"]
  /\ life = [t \in Tx |-> "none"] /\ slot = [t \in Tx |-> 0]
  /\ rows = {}
  /\ late = {} /\ lostRow = {} /\ lostLife = {} /\ swept = {}

-----------------------------------------------------------------------------
(* The ledger and the node                                                 *)

\* What a transaction spends when a block includes it.
Consumed(t) == IF t \in Failed THEN Collateral[t] ELSE Spends[t]

\* broken: a failed transaction counts as consuming nothing
ConsumedRefsIfValid(t) == IF t \in Failed THEN {} ELSE Spends[t]
\* The same as _consumed_refs computes it from the parsed transaction.
ConsumedRefs(t) == IF t \in Failed THEN Collateral[t] ELSE Spends[t]

OnChain == UNION Range(chain)
Spent == UNION {Consumed(t) : t \in OnChain \cup block}

\* The node admits a transaction whose inputs are unspent and not spent by
\* another transaction of its mempool.
NodeAdmits(t) ==
  /\ t \notin Range(pool) \cup OnChain \cup block
  /\ Spends[t] \cap (Spent \cup UNION {Spends[p] : p \in Range(pool)}) = {}
  /\ pool' = Append(pool, t)
  /\ UNCHANGED <<chain, events, faults, monitorVars, indexVars, handlerVars,
                 row, lifeVars, rows, historyVars>>

Valid(S) ==
  /\ S \cap OnChain = {}
  /\ \A t \in S : (Spends[t] \cup Collateral[t]) \cap UNION {Consumed(u) : u \in OnChain} = {}
  /\ \A t, u \in S : t # u => Consumed(t) \cap Consumed(u) = {}

\* The transactions past a slot.
Past(n) == UNION {chain[i] : i \in (n + 1)..Len(chain)}

Fault == faults < MaxFaults /\ faults' = faults + 1
NoFault == UNCHANGED faults

-----------------------------------------------------------------------------
(* PendingTxIndex                                                          *)

Track(t) ==
  /\ entries' = entries \cup {t}
  /\ refIndex' = [r \in Ref |-> IF r \in Spends[t] THEN refIndex[r] \cup {t}
                                ELSE refIndex[r]]

\* broken: an id leaves the ref index only while others remain under the ref
UntrackedIndexKeepsLast(S, e, idx) ==
  [r \in Ref |-> IF idx[r] \subseteq S THEN idx[r] ELSE idx[r] \ S]
\* untrack, for a set of ids, from the entries e and the ref index idx.
UntrackedIndex(S, e, idx) ==
  [r \in Ref |-> idx[r] \ {t \in S \cap e : r \in Spends[t]}]

Sharing(R) == UNION {refIndex[r] : r \in R}

\* update_collision_outcome for one confirmed transaction.
Resolved(t, R) ==
  {IF c.out = "BOTH_PENDING" /\ t \in {c.a, c.b}
   THEN [c EXCEPT !.out = IF c.a = t THEN "A" ELSE "B"] ELSE c : c \in R}

-----------------------------------------------------------------------------
(* The monitor: _mempool_loop                                              *)

\* The dedup set is cleared on every (re)connect.
Connect ==
  /\ mpc = "down"
  /\ mpc' = "acquire"
  /\ seen' = {}
  /\ UNCHANGED <<pool, chain, events, faults, snap, cur, others, entries, refIndex,
                 cache, sincePrune, handlerVars, row, lifeVars, rows, historyVars>>

Acquire ==
  /\ mpc = "acquire"
  /\ pool # <<>>    \* an empty snapshot is acquired again
  /\ snap' = pool
  /\ mpc' = "walk"
  /\ UNCHANGED <<pool, chain, events, faults, cur, others, indexVars, handlerVars,
                 row, lifeVars, rows, historyVars>>

\* broken: an undecodable frame ends the session
AfterSkipTearsDown(t) == IF t \in Undecodable THEN "down" ELSE "walk"
\* Where the loop goes on after a transaction it skips.
AfterSkip(t) == "walk"

\* The end of the snapshot; an undecodable frame and a transaction that was
\* already seen are skipped.
Skip ==
  /\ mpc = "walk"
  /\ \/ snap = <<>> /\ mpc' = "acquire" /\ UNCHANGED snap
     \/ /\ snap # <<>>
        /\ Head(snap) \in Undecodable \cup seen
        /\ snap' = Tail(snap)
        /\ mpc' = AfterSkip(Head(snap))
  /\ UNCHANGED <<pool, chain, events, faults, cur, others, indexVars, handlerVars,
                 row, lifeVars, rows, historyVars>>

\* The pending transactions it is compared with.
Colliding(t) == Sharing(Spends[t]) \ {t}

\* A new transaction: the pending ones that share an input are looked up once,
\* before the first await; its own entry from an earlier session is left out.
Observe ==
  /\ mpc = "walk"
  /\ snap # <<>>
  /\ Head(snap) \notin Undecodable \cup seen
  /\ LET t == Head(snap) IN
       /\ seen' = seen \cup {t}
       /\ cur' = t
       /\ others' = Colliding(t)
  /\ snap' = Tail(snap)
  /\ mpc' = "collide"
  /\ UNCHANGED <<pool, chain, events, faults, entries, refIndex, cache, sincePrune,
                 handlerVars, row, lifeVars, rows, historyVars>>

\* One insert_mempool_collision of _record_mempool_collisions; an id that was
\* untracked meanwhile is skipped, a failed insert is logged.
RecordCollision ==
  /\ mpc = "collide"
  /\ \E o \in others :
       /\ others' = others \ {o}
       /\ \/ o \notin entries /\ NoFault /\ UNCHANGED <<rows, lostRow>>
          \/ /\ o \in entries /\ NoFault
             /\ rows' = rows \cup {[a |-> o, b |-> cur, out |-> "BOTH_PENDING"]}
             /\ UNCHANGED lostRow
          \/ /\ o \in entries /\ Fault
             /\ lostRow' = lostRow \cup {<<o, cur>>}
             /\ UNCHANGED rows
  /\ UNCHANGED <<pool, chain, events, mpc, snap, cur, indexVars, handlerVars, row,
                 lifeVars, late, lostLife, swept>>

\* The counter of processed transactions, and not the size of the dedup set,
\* decides when the sweep runs.
PruneDue == sincePrune + 1 >= PruneEvery

\* The sweep at the end of _record_mempool_collisions: pending entries past
\* their TTL with their cache entries, cache entries past it, the dedup cap.
\* The entry just tracked is not past it.
TrackAndPrune ==
  /\ mpc = "collide"
  /\ others = {}
  /\ mpc' = "resolve"
  /\ late' = IF cpc \in {"displace", "settle"} THEN late \cup {cur} ELSE late
  /\ IF ~PruneDue
     THEN /\ Track(cur)
          /\ sincePrune' = sincePrune + 1
          /\ UNCHANGED <<seen, cache, swept>>
     ELSE \E aged \in SUBSET (entries \cup cache) :
            /\ entries' = (entries \ aged) \cup {cur}
            /\ refIndex' =
                 UntrackedIndex(aged \ {cur}, entries,
                   [r \in Ref |-> IF r \in Spends[cur] THEN refIndex[r] \cup {cur}
                                  ELSE refIndex[r]])
            /\ cache' = cache \ aged
            /\ swept' = swept \cup (cache \cap aged)
            /\ seen' = IF Cardinality(seen) > SeenMax THEN {} ELSE seen
            /\ sincePrune' = 0
  /\ UNCHANGED <<pool, chain, events, faults, snap, cur, others, handlerVars, row,
                 lifeVars, rows, lostRow, lostLife>>

\* Collision tracking raised before track(): logged, the loop goes on.
TrackRaises ==
  /\ mpc = "collide"
  /\ Fault
  /\ mpc' = "resolve"
  /\ others' = {}
  /\ UNCHANGED <<pool, chain, events, snap, cur, indexVars, handlerVars, row,
                 lifeVars, rows, historyVars>>

\* queryLedgerState/utxo: what it finds of the inputs is cached, also when that is a
\* part of them; nothing is when all are spent by now or the query fails.
ResolveInputs ==
  /\ mpc = "resolve"
  /\ mpc' = "upsert"
  /\ \/ /\ ~(Spends[cur] \subseteq Spent) /\ NoFault
        /\ cache' = cache \cup {cur}
     \/ Spends[cur] \subseteq Spent /\ NoFault /\ UNCHANGED cache
     \/ Fault /\ UNCHANGED cache
  /\ UNCHANGED <<pool, chain, events, snap, cur, others, seen, entries, refIndex,
                 sincePrune, handlerVars, row, lifeVars, rows, historyVars>>

\* broken: ON CONFLICT DO UPDATE
OnConflictUpdate(status) == "PENDING"
\* upsert_lifecycle_pending: ON CONFLICT DO NOTHING.
OnConflict(status) == IF status = "none" THEN "PENDING" ELSE status

UpsertPending ==
  /\ mpc = "upsert"
  /\ mpc' = "walk"
  /\ cur' = NoTx
  /\ \/ /\ NoFault
        /\ life' = [life EXCEPT ![cur] = OnConflict(@)]
        /\ UNCHANGED lostLife
     \/ /\ Fault
        /\ lostLife' = IF life[cur] = "none" THEN lostLife \cup {cur} ELSE lostLife
        /\ UNCHANGED life
  /\ UNCHANGED <<pool, chain, events, snap, others, indexVars, handlerVars, row,
                 slot, rows, late, lostRow, swept>>

MonitorFails ==
  /\ mpc \in {"acquire", "walk"}
  /\ Fault
  /\ mpc' = "down"
  /\ snap' = <<>>
  /\ UNCHANGED <<pool, chain, events, cur, others, indexVars, handlerVars, row,
                 lifeVars, rows, historyVars>>

-----------------------------------------------------------------------------
(* The chain-sync handlers                                                 *)

\* A block arrives and is parsed: enrichment is read, not consumed.  The node
\* has dropped from its mempool what the block includes or spends.
NextForward ==
  /\ cpc = "idle"
  /\ events < MaxEvents
  /\ \E S \in SUBSET Tx :
       /\ S # {} /\ Cardinality(S) <= MaxBlock /\ Valid(S)
       /\ block' = S
       /\ enriched' = S \cap cache
       /\ pool' = Keep(pool, {p \in Tx \ S :
                               Spends[p] \cap UNION {Consumed(u) : u \in S} = {}})
  /\ events' = events + 1
  /\ cpc' = "insert"
  /\ UNCHANGED <<chain, faults, monitorVars, indexVars, todo, conf, victims, target,
                 row, lifeVars, rows, historyVars>>

\* The warehouse row; the later insert wins.
InsertBlock ==
  /\ cpc = "insert"
  /\ row' = [t \in Tx |-> IF t \in enriched THEN "enriched"
                          ELSE IF t \in block THEN "plain" ELSE row[t]]
  /\ cpc' = "life"
  /\ UNCHANGED <<pool, chain, events, faults, monitorVars, indexVars, block, enriched,
                 todo, conf, victims, target, lifeVars, rows, historyVars>>

\* A call that is not caught ends the session; the block will be read again.
HandlerFails ==
  /\ cpc \in {"insert", "save", "purge", "rewind"}
  /\ Fault
  /\ cpc' = "idle"
  /\ block' = {} /\ enriched' = {}
  /\ lostLife' = IF cpc \in {"purge", "rewind"} THEN lostLife \cup Past(target)
                                                 ELSE lostLife
  /\ UNCHANGED <<pool, chain, events, monitorVars, indexVars, todo, conf, victims,
                 target, row, lifeVars, rows, late, lostRow, swept>>

\* batch_upsert_lifecycle_confirmed; a failure is logged.
UpsertConfirmed ==
  /\ cpc = "life"
  /\ cpc' = "displace"
  /\ todo' = block
  /\ late' = {}
  /\ \/ /\ NoFault
        /\ life' = [t \in Tx |-> IF t \in block THEN "CONFIRMED" ELSE life[t]]
        /\ slot' = [t \in Tx |-> IF t \in block THEN Len(chain) + 1 ELSE slot[t]]
        /\ lostLife' = lostLife \ block
     \/ /\ Fault
        /\ lostLife' = lostLife \cup block
        /\ UNCHANGED lifeVars
  /\ UNCHANGED <<pool, chain, events, monitorVars, indexVars, block, enriched, conf,
                 victims, target, row, rows, lostRow, swept>>

\* record_displacements: the next transaction of the block is looked up.
ScanDisplaced ==
  /\ cpc = "displace"
  /\ victims = {}
  /\ IF todo = {}
     THEN /\ cpc' = "settle" /\ todo' = block /\ conf' = NoTx
          /\ UNCHANGED victims
     ELSE \E t \in todo :
            /\ todo' = todo \ {t}
            /\ conf' = t
            /\ victims' = Sharing(ConsumedRefs(t)) \ block
            /\ UNCHANGED cpc
  /\ UNCHANGED <<pool, chain, events, faults, monitorVars, indexVars, block, enriched,
                 target, row, lifeVars, rows, historyVars>>

\* One displaced transaction: the row and its outcome, in one try block.
RecordDisplacement ==
  /\ cpc = "displace"
  /\ \E p \in victims :
       /\ victims' = victims \ {p}
       /\ LET new == rows \cup {[a |-> p, b |-> conf, out |-> "BOTH_PENDING"]} IN
            \/ p \notin entries /\ NoFault /\ UNCHANGED <<rows, lostRow>>
            \/ p \in entries /\ NoFault /\ rows' = Resolved(conf, new) /\ UNCHANGED lostRow
            \/ p \in entries /\ Fault /\ rows' = new /\ UNCHANGED lostRow
            \/ p \in entries /\ Fault /\ lostRow' = lostRow \cup {<<p, conf>>} /\ UNCHANGED rows
  /\ UNCHANGED <<pool, chain, events, monitorVars, indexVars, cpc, block, enriched,
                 todo, conf, target, row, lifeVars, late, lostLife, swept>>

\* settle_confirmed: untrack and resolve the outcomes of one transaction; a
\* failed update is swallowed.  After the last one the dedup entries go.
SettleTx(t, consumed) ==
  /\ todo' = todo \ {t}
  /\ entries' = entries \ {t}
  /\ refIndex' = UntrackedIndex({t}, entries, refIndex)
  /\ cache' = cache \ consumed
  /\ \/ NoFault /\ rows' = Resolved(t, rows)
     \/ Fault /\ UNCHANGED rows
  /\ IF todo = {t}
     THEN /\ cpc' = "save" /\ seen' = seen \ block
          /\ late' = {} /\ lostRow' = {}
     ELSE UNCHANGED <<cpc, seen, late, lostRow>>
  /\ UNCHANGED <<pool, chain, events, monitorVars, sincePrune, block, enriched,
                 conf, victims, target, row, lifeVars, lostLife, swept>>
\* broken: settlement consumes the enrichment before the checkpoint
SettleAndConsume == cpc = "settle" /\ \E t \in todo : SettleTx(t, {t})
SettleOne == cpc = "settle" /\ \E t \in todo : SettleTx(t, {})

\* save_sync_point, and only then the enrichment is consumed.
SaveSyncPoint ==
  /\ cpc = "save"
  /\ chain' = Append(chain, block)
  /\ cache' = cache \ block
  /\ swept' = swept \ block
  /\ cpc' = "idle"
  /\ block' = {} /\ enriched' = {}
  /\ UNCHANGED <<pool, events, faults, monitorVars, seen, entries, refIndex,
                 sincePrune, todo, conf, victims, target, row, lifeVars, rows, late,
                 lostRow, lostLife>>

\* A rollback to an earlier slot: mark_lifecycle_rolled_back, whose failure is
\* logged, comes first.  What was included may enter the mempool again.
NextBackward ==
  /\ cpc = "idle"
  /\ events < MaxEvents
  /\ \E n \in 0..(Len(chain) - 1) :
       /\ target' = n
       /\ \/ /\ NoFault
             /\ life' = [t \in Tx |-> IF life[t] = "CONFIRMED" /\ slot[t] > n
                                      THEN "ROLLED_BACK" ELSE life[t]]
             /\ UNCHANGED lostLife
          \/ Fault /\ UNCHANGED life
             /\ lostLife' = lostLife \cup Past(n)
  /\ events' = events + 1
  /\ cpc' = "purge"
  /\ UNCHANGED <<pool, chain, monitorVars, indexVars, block, enriched, todo, conf,
                 victims, row, slot, rows, late, lostRow, swept>>

PurgeRows ==
  /\ cpc = "purge"
  /\ row' = [t \in Tx |-> IF t \in Past(target) THEN "none" ELSE row[t]]
  /\ cpc' = "rewind"
  /\ UNCHANGED <<pool, chain, events, faults, monitorVars, indexVars, block, enriched,
                 todo, conf, victims, target, lifeVars, rows, historyVars>>

\* save_sync_point and clear_on_rollback.
Rewind ==
  /\ cpc = "rewind"
  /\ chain' = SubSeq(chain, 1, target)
  /\ seen' = {}
  /\ cpc' = "idle"
  /\ target' = 0
  /\ UNCHANGED <<pool, events, faults, monitorVars, entries, refIndex, cache,
                 sincePrune, block, enriched, todo, conf, victims, row,
                 lifeVars, rows, historyVars>>

-----------------------------------------------------------------------------
(* Housekeeping, at any time                                               *)

\* mark_dropped_pending_txs: a PENDING row past the TTL.
MarkDropped(t) ==
  /\ life[t] = "PENDING"
  /\ life' = [life EXCEPT ![t] = "DROPPED"]
  /\ UNCHANGED <<pool, chain, events, faults, monitorVars, indexVars, handlerVars,
                 row, slot, rows, historyVars>>

\* prune_terminal_lifecycle: DROPPED and ROLLED_BACK rows past the retention.
PruneTerminal(t) ==
  /\ life[t] \in {"DROPPED", "ROLLED_BACK"}
  /\ life' = [life EXCEPT ![t] = "none"]
  /\ UNCHANGED <<pool, chain, events, faults, monitorVars, indexVars, handlerVars,
                 row, slot, rows, historyVars>>

MonitorStep ==
  \/ Connect \/ Acquire \/ Skip \/ Observe \/ RecordCollision \/ TrackAndPrune
  \/ ResolveInputs \/ UpsertPending

HandlerStep ==
  \/ InsertBlock \/ UpsertConfirmed \/ ScanDisplaced \/ RecordDisplacement
  \/ SettleOne \/ SaveSyncPoint \/ PurgeRows \/ Rewind

Next ==
  \/ \E t \in Tx : NodeAdmits(t) \/ MarkDropped(t) \/ PruneTerminal(t)
  \/ MonitorStep \/ TrackRaises \/ MonitorFails
  \/ NextForward \/ NextBackward \/ HandlerStep \/ HandlerFails

\* The two coroutines are resumed by the event loop; the node, the failures
\* and housekeeping owe nothing.
Spec == Init /\ [][Next]_vars /\ WF_vars(MonitorStep) /\ WF_vars(HandlerStep)

-----------------------------------------------------------------------------
TypeOK ==
  /\ pool \in Seq(Tx) /\ chain \in Seq(SUBSET Tx)
  /\ events \in 0..MaxEvents /\ faults \in 0..MaxFaults
  /\ mpc \in {"down", "acquire", "walk", "collide", "resolve", "upsert"}
  /\ snap \in Seq(Tx) /\ cur \in Tx \cup {NoTx} /\ others \subseteq Tx
  /\ seen \subseteq Tx /\ entries \subseteq Tx /\ cache \subseteq Tx
  /\ refIndex \in [Ref -> SUBSET Tx] /\ sincePrune \in 0..(PruneEvery - 1)
  /\ cpc \in {"idle", "insert", "life", "displace", "settle", "save", "purge", "rewind"}
  /\ block \subseteq Tx /\ enriched \subseteq block /\ todo \subseteq Tx
  /\ conf \in Tx \cup {NoTx} /\ victims \subseteq Tx /\ target \in Nat
  /\ row \in [Tx -> {"none", "plain", "enriched"}]
  /\ life \in [Tx -> Status] /\ slot \in [Tx -> Nat]
  /\ rows \subseteq Collision
  /\ late \subseteq Tx /\ lostLife \subseteq Tx /\ swept \subseteq Tx
  /\ lostRow \subseteq Tx \X Tx

\* PendingTxIndex: the inverted index lists under every input exactly the
\* pending entries that spend it, through observation, settlement and sweeps,
\* so that a collision lookup by input misses nobody and finds no ghost.
IndexAgrees ==
  \A r \in Ref : refIndex[r] = {t \in entries : r \in Spends[t]}

\* _record_mempool_collisions: a transaction is never recorded as colliding
\* with itself, although its entry outlives the dedup set that a reconnect, a
\* rollback or the cap clears.
NoSelfCollision == \A c \in rows : c.a # c.b

\* record_displacements: when a block has been compared with the pending
\* index, every pending transaction that wanted an output the block consumed
\* (the collateral, for a transaction whose script failed) has its collision
\* row, unless the insert failed or it was tracked while the scan was running.
DisplacementNoted ==
  cpc = "settle" =>
    \A t \in block, p \in entries \ (block \cup late) :
      Spends[p] \cap Consumed(t) # {} =>
        \/ <<p, t>> \in lostRow
        \/ \E c \in rows : c.a = p /\ c.b = t

\* tx_lifecycle: what is on the client's chain stays CONFIRMED at its slot,
\* whatever the monitor (which may see it late, in an old snapshot), the
\* DROPPED sweep and the retention do; only a rollback may take it back.
ConfirmedStands ==
  \A i \in 1..Len(chain) : \A t \in chain[i] \ (lostLife \cup block) :
    \/ life[t] = "CONFIRMED" /\ slot[t] = i
    \/ cpc \in {"purge", "rewind"} /\ i > target

\* consume_enrichment: a block that is read again after a failed insert or a
\* failed checkpoint never replaces an enriched row by one without the resolved
\* inputs; the entry is gone only if the sweep took it.
EnrichmentKept ==
  [][\A t \in Tx : row[t] = "enriched" /\ row'[t] = "plain" => t \in swept]_vars

\* _mempool_loop: a transaction that stays in the node's mempool gets a
\* lifecycle row, although an undecodable transaction comes before it in every
\* snapshot and the session may be lost; only its own failed write excuses it.
PendingObserved ==
  \A t \in Tx \ Undecodable :
    (t \in Range(pool) /\ t \notin seen) ~>
      (t \notin Range(pool) \/ life[t] # "none" \/ t \in lostLife)

\* The state of the monitor is well formed and its two indexes agree.
IndexSound == TypeOK /\ IndexAgrees

\* mempool_collisions: nobody collides with itself, and everybody the chain
\* displaced is on record.
CollisionsRight == NoSelfCollision /\ DisplacementNoted
=============================================================================
