---------------------------- MODULE MempoolProofs ----------------------------
(***************************************************************************)
(* Proofs about Mempool for any transactions, outputs and bounds: the      *)
(* pending index agrees with its entries, the collision rows are right,    *)
(* confirmed lifecycle rows stand, and no enriched row is replaced by a    *)
(* plain one.                                                              *)
(***************************************************************************)
EXTENDS Mempool, DataLemmas

\* The monitor holds a transaction from Observe on; a rollback goes back.
CurInHand == mpc \in {"collide", "resolve", "upsert"} => cur \in Tx
TargetBehind == cpc \in {"purge", "rewind"} => target < Len(chain)

\* Pending transactions are compared with one of the block only, never with each
\* other.
VictimsOfBlock ==
  /\ victims \cap block = {}
  /\ victims # {} => cpc = "displace" /\ conf \in block
  /\ cpc = "displace" => todo \subseteq block

TypeInv == TypeOK /\ CurInHand /\ TargetBehind /\ VictimsOfBlock

\* What the monitor has to compare its transaction with is never that one itself.
NotItself == cur \notin others

\* The pair has its row among R, or its insert failed.
Noted(p, t, R, L) == <<p, t>> \in L \/ \E c \in R : c.a = p /\ c.b = t

\* While the scan runs, what it has passed is noted, but for the victims of the
\* transaction it is at.
ScanSoFar ==
  cpc = "displace" =>
    \A t \in block \ todo, p \in entries \ (block \cup late) :
      Spends[p] \cap Consumed(t) # {} =>
        Noted(p, t, rows, lostRow) \/ (t = conf /\ p \in victims)

CollisionInv == NotItself /\ NoSelfCollision /\ ScanSoFar /\ DisplacementNoted

\* No transaction is in two blocks, and a block is in hand only in onForward.
BlocksApart ==
  /\ \A i, j \in 1..Len(chain) : i # j => chain[i] \cap chain[j] = {}
  /\ \A i \in 1..Len(chain) : chain[i] \cap block = {}
  /\ cpc \in {"idle", "purge", "rewind"} => block = {}

\* From batch_upsert_lifecycle_confirmed on, the block in hand is CONFIRMED at the
\* slot its checkpoint will have.
BlockConfirmed ==
  cpc \in {"displace", "settle", "save"} =>
    \A t \in block \ lostLife : life[t] = "CONFIRMED" /\ slot[t] = Len(chain) + 1

LifecycleInv == BlocksApart /\ BlockConfirmed /\ ConfirmedStands

\* An enriched row has its enrichment in the cache until its block is saved; only
\* the sweep takes it earlier.
EnrichmentHeld ==
  /\ \A t \in Tx : row[t] = "enriched" => t \in cache \cup swept \cup OnChain
  /\ cpc = "rewind" => \A t \in Past(target) : row[t] = "none"
  /\ cpc = "insert" =>
       /\ enriched \subseteq cache \cup swept
       /\ \A t \in block \ enriched : row[t] = "enriched" => t \in swept

-----------------------------------------------------------------------------
(* What the operators of the index, the chain and the rows return          *)

\* PendingTxIndex.sharing returns pending transactions, at most the ones the index
\* lists, and exactly the entries that spend one of the outputs if it agrees.
LEMMA SharingType ==
  ASSUME refIndex \in [Ref -> SUBSET Tx], NEW R \in SUBSET Ref PROVE Sharing(R) \subseteq Tx
  BY DEF Sharing

\* untrack leaves an index over the same outputs and transactions.
LEMMA UntrackedType ==
  ASSUME NEW S, NEW e, NEW idx \in [Ref -> SUBSET Tx]
  PROVE  UntrackedIndex(S, e, idx) \in [Ref -> SUBSET Tx]
  BY DEF UntrackedIndex

\* What the chain holds past a slot is made of transactions.
LEMMA PastType ==
  ASSUME chain \in Seq(SUBSET Tx), NEW n \in Nat PROVE Past(n) \subseteq Tx
  BY DEF Past

\* update_collision_outcome changes outcomes only: the rows stay rows, and the
\* pairs they are about stay the same.
LEMMA ResolvedKeepsPairs ==
  ASSUME NEW t \in Tx, NEW R \in SUBSET Collision
  PROVE  /\ Resolved(t, R) \subseteq Collision
         /\ \A c \in R : \E d \in Resolved(t, R) : d.a = c.a /\ d.b = c.b
         /\ \A d \in Resolved(t, R) : \E c \in R : d.a = c.a /\ d.b = c.b
<1>. DEFINE New(c) == IF c.out = "BOTH_PENDING" /\ t \in {c.a, c.b}
                      THEN [c EXCEPT !.out = IF c.a = t THEN "A" ELSE "B"] ELSE c
<1>1. ASSUME NEW c \in R PROVE New(c) \in Collision /\ New(c).a = c.a /\ New(c).b = c.b
  BY DEF Collision
<1>2. Resolved(t, R) = {New(c) : c \in R}
  BY DEF Resolved
<1>. QED BY <1>1, <1>2

-----------------------------------------------------------------------------
\* The variables keep their types; Observe puts a transaction in hand before the
\* monitor uses it, and NextBackward names a slot the chain is past.
LEMMA TypeInductive == TypeInv /\ [Next]_vars => TypeInv'
<1>. SUFFICES ASSUME TypeInv, [Next]_vars PROVE TypeInv'
  OBVIOUS
<1>. USE MempoolAssumption DEF TypeInv, TypeOK, CurInHand, TargetBehind, VictimsOfBlock, monitorVars, indexVars,
       handlerVars, lifeVars, historyVars, Fault, NoFault
<1>1. CASE \E t \in Tx : NodeAdmits(t)
  <2>1. pool' \in Seq(Tx)
    BY <1>1 DEF NodeAdmits
  <2>2. UNCHANGED <<chain, events, faults, mpc, snap, cur, others, seen, entries, refIndex, cache,
                    sincePrune, cpc, block, enriched, todo, conf, victims, target, row, life, slot,
                    rows, late, lostRow, lostLife, swept>>
    BY <1>1 DEF NodeAdmits
  <2>. QED BY <2>1, <2>2
<1>2. CASE \E t \in Tx : MarkDropped(t)
  BY <1>2 DEF MarkDropped, Status
<1>3. CASE \E t \in Tx : PruneTerminal(t)
  BY <1>3 DEF PruneTerminal, Status
<1>4. CASE Connect
  BY <1>4 DEF Connect
<1>5. CASE Acquire
  BY <1>5 DEF Acquire
<1>6. CASE Skip
  <2>1. CASE snap = <<>>
    BY <1>6, <2>1 DEF Skip
  <2>2. CASE snap # <<>>
    <3>1. snap' = Tail(snap) /\ mpc' = "walk"
      BY <1>6, <2>2 DEF Skip, AfterSkip
    <3>2. snap' \in Seq(Tx)
      BY <2>2, <3>1
    <3>. QED BY <1>6, <3>1, <3>2 DEF Skip
  <2>. QED BY <2>1, <2>2
<1>7. CASE Observe
  <2>1. Head(snap) \in Tx /\ snap' \in Seq(Tx) /\ cur' = Head(snap) /\ seen' = seen \cup {Head(snap)}
    BY <1>7 DEF Observe
  <2>2. others' \subseteq Tx
    <3>1. Spends[Head(snap)] \in SUBSET Ref
      BY <2>1
    <3>. QED BY <1>7, <3>1, SharingType DEF Observe, Colliding
  <2>. QED BY <1>7, <2>1, <2>2 DEF Observe
<1>8. CASE RecordCollision
  BY <1>8 DEF RecordCollision, Collision
<1>9. CASE TrackAndPrune
  <2>. DEFINE tracked == [r \in Ref |-> IF r \in Spends[cur] THEN refIndex[r] \cup {cur} ELSE refIndex[r]]
  <2>1. cur \in Tx /\ tracked \in [Ref -> SUBSET Tx]
    BY <1>9 DEF TrackAndPrune
  <2>. HIDE DEF tracked
  <2>2. mpc' = "resolve" /\ late' \subseteq Tx
    BY <1>9, <2>1 DEF TrackAndPrune
  <2>3. CASE ~PruneDue
    <3>1. refIndex' = tracked /\ entries' = entries \cup {cur} /\ sincePrune' = sincePrune + 1
      BY <1>9, <2>3 DEF TrackAndPrune, Track, tracked
    <3>2. sincePrune' \in 0..(PruneEvery - 1)
      BY <2>3, <3>1 DEF PruneDue
    <3>. QED BY <1>9, <2>1, <2>2, <2>3, <3>1, <3>2 DEF TrackAndPrune
  <2>4. CASE PruneDue
    <3>1. PICK aged \in SUBSET (entries \cup cache) :
            /\ entries' = (entries \ aged) \cup {cur}
            /\ refIndex' = UntrackedIndex(aged \ {cur}, entries, tracked)
            /\ cache' = cache \ aged
            /\ swept' = swept \cup (cache \cap aged)
            /\ seen' = IF Cardinality(seen) > SeenMax THEN {} ELSE seen
            /\ sincePrune' = 0
      BY <1>9, <2>4 DEF TrackAndPrune, tracked
    <3>2. refIndex' \in [Ref -> SUBSET Tx]
      BY <2>1, <3>1, UntrackedType
    <3>3. seen' \subseteq Tx /\ sincePrune' \in 0..(PruneEvery - 1)
      BY <3>1
    <3>. QED BY <1>9, <2>1, <2>2, <3>1, <3>2, <3>3 DEF TrackAndPrune
  <2>. QED BY <2>3, <2>4
<1>10. CASE ResolveInputs
  BY <1>10 DEF ResolveInputs
<1>11. CASE UpsertPending
  <2>1. cur \in Tx /\ life[cur] \in Status
    BY <1>11 DEF UpsertPending
  <2>2. OnConflict(life[cur]) \in Status
    BY <2>1 DEF OnConflict, Status
  <2>3. life' = life \/ life' = [life EXCEPT ![cur] = OnConflict(life[cur])]
    BY <1>11 DEF UpsertPending
  <2>4. life \in [Tx -> Status]
    OBVIOUS
  <2>5. life' \in [Tx -> Status]
    BY ONLY <2>1, <2>2, <2>3, <2>4
  <2>. QED BY <1>11, <2>5 DEF UpsertPending
<1>12. CASE TrackRaises
  BY <1>12 DEF TrackRaises
<1>13. CASE MonitorFails
  BY <1>13 DEF MonitorFails
<1>14. CASE NextForward
  <2>1. PICK S \in SUBSET Tx :
          /\ block' = S /\ enriched' = S \cap cache
          /\ pool' = Keep(pool, {p \in Tx \ S : Spends[p] \cap UNION {Consumed(u) : u \in S} = {}})
    BY <1>14 DEF NextForward
  <2>2. pool' \in Seq(Tx)
    <3>. DEFINE K == {p \in Tx \ S : Spends[p] \cap UNION {Consumed(u) : u \in S} = {}}
    <3>1. Keep(pool, K) \in Seq(Tx \cap K)
      BY KeepType
    <3>. QED BY <2>1, <3>1, SeqMonotonic, Tx \cap K \subseteq Tx
  <2>3. events' \in 0..MaxEvents
    BY <1>14 DEF NextForward
  <2>. QED BY <1>14, <2>1, <2>2, <2>3 DEF NextForward
<1>15. CASE NextBackward
  <2>1. PICK n \in 0..(Len(chain) - 1) :
          /\ target' = n
          /\ \/ /\ NoFault
                /\ life' = [t \in Tx |-> IF life[t] = "CONFIRMED" /\ slot[t] > n
                                         THEN "ROLLED_BACK" ELSE life[t]]
                /\ UNCHANGED lostLife
             \/ Fault /\ UNCHANGED life /\ lostLife' = lostLife \cup Past(n)
    BY <1>15 DEF NextBackward
  <2>2. life' \in [Tx -> Status] /\ faults' \in 0..MaxFaults
    BY <2>1 DEF Status
  <2>3. Past(n) \subseteq Tx
    BY <2>1, PastType
  <2>4. events' \in 0..MaxEvents
    BY <1>15 DEF NextBackward
  <2>5. target' \in Nat /\ target' < Len(chain)
    BY <2>1
  <2>. QED BY <1>15, <2>1, <2>2, <2>3, <2>4, <2>5 DEF NextBackward
<1>16. CASE InsertBlock
  BY <1>16 DEF InsertBlock
<1>17. CASE UpsertConfirmed
  <2>1. life' \in [Tx -> Status]
    BY <1>17 DEF UpsertConfirmed, Status
  <2>2. Len(chain) + 1 \in Nat
    BY LenProperties
  <2>3. slot' \in [Tx -> Nat]
    BY <1>17, <2>2, ZenonT(60) DEF UpsertConfirmed
  <2>4. lostLife' \subseteq Tx /\ faults' \in 0..MaxFaults
    BY <1>17 DEF UpsertConfirmed
  <2>. QED BY <1>17, <2>1, <2>3, <2>4 DEF UpsertConfirmed
<1>18. CASE ScanDisplaced
  <2>1. CASE todo = {}
    BY <1>18, <2>1 DEF ScanDisplaced
  <2>2. CASE todo # {}
    <3>1. PICK t \in todo : /\ todo' = todo \ {t} /\ conf' = t /\ cpc' = cpc
                            /\ victims' = Sharing(ConsumedRefs(t)) \ block
      BY <1>18, <2>2 DEF ScanDisplaced
    <3>2. ConsumedRefs(t) \in SUBSET Ref
      BY DEF ConsumedRefs
    <3>3. Sharing(ConsumedRefs(t)) \subseteq Tx
      BY <3>2, SharingType
    <3>4. victims' \subseteq Tx /\ victims' \cap block = {} /\ todo' \subseteq Tx /\ conf' \in Tx
      BY <3>1, <3>3
    <3>5. t \in block
      BY <1>18 DEF ScanDisplaced
    <3>. QED BY <1>18, <3>1, <3>4, <3>5 DEF ScanDisplaced
  <2>. QED BY <2>1, <2>2
<1>19. CASE RecordDisplacement
  <2>1. PICK p \in victims :
          LET new == rows \cup {[a |-> p, b |-> conf, out |-> "BOTH_PENDING"]} IN
          /\ victims' = victims \ {p}
          /\ \/ UNCHANGED <<rows, lostRow>>
             \/ rows' = Resolved(conf, new) /\ UNCHANGED lostRow
             \/ rows' = new /\ UNCHANGED lostRow
             \/ lostRow' = lostRow \cup {<<p, conf>>} /\ UNCHANGED rows
    BY <1>19 DEF RecordDisplacement
  <2>. DEFINE new == rows \cup {[a |-> p, b |-> conf, out |-> "BOTH_PENDING"]}
  <2>2. conf \in Tx
    BY <1>19 DEF RecordDisplacement, VictimsOfBlock
  <2>3. new \in SUBSET Collision
    BY <2>2 DEF Collision
  <2>. HIDE DEF new
  <2>4. Resolved(conf, new) \subseteq Collision
    BY <2>2, <2>3, ResolvedKeepsPairs
  <2>5. faults' \in 0..MaxFaults
    BY <1>19 DEF RecordDisplacement
  <2>6. rows' \subseteq Collision
    BY <2>1, <2>3, <2>4 DEF new
  <2>7. <<p, conf>> \in Tx \X Tx
    BY <2>2
  <2>8. lostRow' \subseteq Tx \X Tx
    BY <2>1, <2>7
  <2>. QED BY <1>19, <2>1, <2>5, <2>6, <2>8 DEF RecordDisplacement
<1>20. CASE SettleOne
  <2>1. PICK t \in todo : SettleTx(t, {})
    BY <1>20 DEF SettleOne
  <2>2. rows' \subseteq Collision
    <3>1. Resolved(t, rows) \subseteq Collision
      BY ResolvedKeepsPairs
    <3>. QED BY <2>1, <3>1 DEF SettleTx
  <2>3. refIndex' \in [Ref -> SUBSET Tx]
    BY <2>1, UntrackedType DEF SettleTx
  <2>4. /\ cpc' \in {"settle", "save"} /\ seen' \subseteq Tx /\ late' \subseteq Tx
        /\ lostRow' \subseteq Tx \X Tx
    BY <1>20, <2>1 DEF SettleOne, SettleTx
  <2>5. victims = {} /\ cpc' \notin {"purge", "rewind", "displace"}
    BY <1>20, <2>4 DEF SettleOne
  <2>6. faults' \in 0..MaxFaults /\ entries' \subseteq Tx /\ cache' \subseteq Tx /\ todo' \subseteq Tx
    BY <2>1 DEF SettleTx
  <2>7. UNCHANGED <<pool, chain, events, mpc, snap, cur, others, sincePrune, block, enriched,
                    conf, victims, target, row, life, slot, lostLife, swept>>
    BY <2>1 DEF SettleTx
  <2>. QED BY <2>2, <2>3, <2>4, <2>5, <2>6, <2>7
<1>21. CASE SaveSyncPoint
  BY <1>21 DEF SaveSyncPoint
<1>22. CASE PurgeRows
  BY <1>22 DEF PurgeRows
<1>23. CASE Rewind
  BY <1>23 DEF Rewind
<1>24. CASE HandlerFails
  BY <1>24 DEF HandlerFails, Past
<1>25. CASE UNCHANGED vars
  BY <1>25 DEF vars
<1>. QED
  BY <1>1, <1>2, <1>3, <1>4, <1>5, <1>6, <1>7, <1>8, <1>9, <1>10, <1>11, <1>12, <1>13, <1>14, <1>15, <1>16, <1>17, <1>18, <1>19, <1>20, <1>21, <1>22, <1>23, <1>24, <1>25 DEF Next, MonitorStep, HandlerStep

-----------------------------------------------------------------------------
(* The pending index                                                       *)

\* The steps that leave the pending index alone.
QuietStep ==
  \/ \E t \in Tx : NodeAdmits(t) \/ MarkDropped(t) \/ PruneTerminal(t)
  \/ Connect \/ Acquire \/ Skip \/ Observe \/ RecordCollision \/ ResolveInputs \/ UpsertPending
  \/ TrackRaises \/ MonitorFails \/ NextForward \/ NextBackward
  \/ InsertBlock \/ UpsertConfirmed \/ ScanDisplaced \/ RecordDisplacement
  \/ SaveSyncPoint \/ PurgeRows \/ Rewind \/ HandlerFails \/ UNCHANGED vars

\* Only tracking with its sweep and settlement write the index.
LEMMA QuietSteps ==
  /\ [Next]_vars <=> QuietStep \/ TrackAndPrune \/ SettleOne
  /\ QuietStep => UNCHANGED <<entries, refIndex>>
<1>1. [Next]_vars <=> QuietStep \/ TrackAndPrune \/ SettleOne
  BY DEF Next, MonitorStep, HandlerStep, QuietStep
<1>2. QuietStep => UNCHANGED <<entries, refIndex>>
  BY DEF QuietStep, NodeAdmits, MarkDropped, PruneTerminal, Connect, Acquire, Skip, Observe,
         RecordCollision, ResolveInputs, UpsertPending, TrackRaises, MonitorFails, NextForward,
         NextBackward, InsertBlock, UpsertConfirmed, ScanDisplaced, RecordDisplacement,
         SaveSyncPoint, PurgeRows, Rewind, HandlerFails, vars, indexVars
<1>. QED BY <1>1, <1>2

\* Track, untrack and the sweep change _entries and _ref_index together.
LEMMA IndexInductive == TypeInv /\ IndexAgrees /\ [Next]_vars => IndexAgrees'
<1>. SUFFICES ASSUME TypeInv, IndexAgrees, [Next]_vars PROVE IndexAgrees'
  OBVIOUS
<1>. USE DEF IndexAgrees
<1>1. CASE QuietStep
  BY <1>1, QuietSteps
<1>2. CASE TrackAndPrune
  <2>1. cur \in Tx
    BY <1>2 DEF TypeInv, CurInHand, TrackAndPrune
  <2>. DEFINE tracked == [r \in Ref |-> IF r \in Spends[cur] THEN refIndex[r] \cup {cur} ELSE refIndex[r]]
  <2>2. CASE ~PruneDue
    BY <1>2, <2>2 DEF TrackAndPrune, Track
  <2>3. CASE PruneDue
    <3>1. PICK aged \in SUBSET (entries \cup cache) :
            /\ entries' = (entries \ aged) \cup {cur}
            /\ refIndex' = UntrackedIndex(aged \ {cur}, entries, tracked)
      BY <1>2, <2>3 DEF TrackAndPrune
    <3>2. \A r \in Ref : refIndex'[r] = tracked[r] \ {t \in (aged \ {cur}) \cap entries : r \in Spends[t]}
      BY <3>1 DEF UntrackedIndex
    <3>. QED BY <3>1, <3>2
  <2>. QED BY <2>2, <2>3
<1>3. CASE SettleOne
  BY <1>3 DEF SettleOne, SettleTx, UntrackedIndex
<1>. QED BY <1>1, <1>2, <1>3, QuietSteps

\* Nothing is tracked at the start.
LEMMA IndexInit == Init => TypeInv /\ IndexAgrees
  BY MempoolAssumption, EmptySeq DEF Init, TypeInv, TypeOK, CurInHand, TargetBehind, VictimsOfBlock,
     IndexAgrees, Status

\* PendingTxIndex, for any transactions and bounds: the state is well formed and the
\* inverted index lists under every output exactly the pending entries that spend it.
THEOREM PendingIndexSound == Spec => []IndexSound
<1>1. TypeInv /\ IndexAgrees => IndexSound
  BY DEF TypeInv, IndexSound
<1>. QED BY <1>1, IndexInit, TypeInductive, IndexInductive, PTL DEF Spec

-----------------------------------------------------------------------------
(* The collision rows                                                      *)

\* Rows and failed inserts that grow, and pending entries that go, keep what is noted.
LEMMA NotedGrows ==
  ASSUME NEW p, NEW t, NEW R, NEW L, NEW R2, NEW L2,
         L \subseteq L2, \A c \in R : \E d \in R2 : d.a = c.a /\ d.b = c.b,
         Noted(p, t, R, L)
  PROVE  Noted(p, t, R2, L2)
  BY DEF Noted

\* The monitor never compares a transaction with itself, and the rows it and the
\* block handler write are between different transactions.
LEMMA SelfInductive ==
  TypeInv /\ NotItself /\ NoSelfCollision /\ [Next]_vars => NotItself' /\ NoSelfCollision'
<1>. SUFFICES ASSUME TypeInv, NotItself, NoSelfCollision, [Next]_vars
              PROVE  NotItself' /\ NoSelfCollision'
  OBVIOUS
<1>. USE DEF NotItself, NoSelfCollision
<1>1. CASE Observe
  BY <1>1 DEF Observe, Colliding
<1>2. CASE RecordCollision
  BY <1>2 DEF RecordCollision
<1>3. CASE UpsertPending
  <2>1. NoTx \notin others
    BY MempoolAssumption DEF TypeInv, TypeOK
  <2>. QED BY <1>3, <2>1 DEF UpsertPending
<1>4. CASE TrackRaises
  BY <1>4 DEF TrackRaises
<1>5. CASE RecordDisplacement
  <2>1. PICK p \in victims :
          LET new == rows \cup {[a |-> p, b |-> conf, out |-> "BOTH_PENDING"]} IN
          rows' \in {rows, new, Resolved(conf, new)}
    BY <1>5 DEF RecordDisplacement
  <2>. DEFINE row1 == [a |-> p, b |-> conf, out |-> "BOTH_PENDING"]
              new == rows \cup {row1}
  <2>2. conf \in Tx /\ p \in Tx /\ p # conf
    BY DEF TypeInv, TypeOK, VictimsOfBlock
  <2>3. row1 \in Collision /\ row1.a # row1.b
    BY <2>2 DEF Collision
  <2>4. new \in SUBSET Collision /\ \A c \in new : c.a # c.b
    BY <2>3 DEF TypeInv, TypeOK
  <2>. HIDE DEF row1, new
  <2>5. \A c \in Resolved(conf, new) : c.a # c.b
    BY <2>2, <2>4, ResolvedKeepsPairs
  <2>6. UNCHANGED <<cur, others>>
    BY <1>5 DEF RecordDisplacement, monitorVars
  <2>7. rows' \in {rows, new, Resolved(conf, new)}
    BY <2>1 DEF new, row1
  <2>. QED BY <2>4, <2>5, <2>6, <2>7
<1>6. CASE SettleOne
  <2>1. PICK t \in todo : rows' \in {rows, Resolved(t, rows)}
    BY <1>6 DEF SettleOne, SettleTx
  <2>2. t \in Tx /\ rows \in SUBSET Collision
    BY DEF TypeInv, TypeOK
  <2>3. \A c \in Resolved(t, rows) : c.a # c.b
    BY <2>2, ResolvedKeepsPairs
  <2>4. UNCHANGED <<cur, others>>
    BY <1>6 DEF SettleOne, SettleTx, monitorVars
  <2>. QED BY <2>1, <2>3, <2>4
<1>7. CASE ~(Observe \/ RecordCollision \/ UpsertPending \/ TrackRaises \/ RecordDisplacement \/ SettleOne)
  <2>1. UNCHANGED <<cur, others, rows>>
    BY <1>7 DEF Next, MonitorStep, HandlerStep, NodeAdmits, MarkDropped, PruneTerminal, Connect,
       Acquire, Skip, TrackAndPrune, ResolveInputs, MonitorFails, NextForward, NextBackward,
       InsertBlock, UpsertConfirmed, ScanDisplaced, SaveSyncPoint, PurgeRows, Rewind, HandlerFails,
       vars, monitorVars
  <2>. QED BY <2>1
<1>. QED BY <1>1, <1>2, <1>3, <1>4, <1>5, <1>6, <1>7

\* record_displacements visits every transaction of the block and looks the pending
\* ones up in the index; what the monitor tracks meanwhile is late.
LEMMA ScanInductive ==
  TypeInv /\ IndexAgrees /\ ScanSoFar /\ DisplacementNoted /\ [Next]_vars
    => ScanSoFar' /\ DisplacementNoted'
<1>. SUFFICES ASSUME TypeInv, IndexAgrees, ScanSoFar, DisplacementNoted, [Next]_vars
              PROVE  ScanSoFar' /\ DisplacementNoted'
  OBVIOUS
<1>0. DisplacementNoted <=>
        (cpc = "settle" => \A t \in block, p \in entries \ (block \cup late) :
           Spends[p] \cap Consumed(t) # {} => Noted(p, t, rows, lostRow))
  BY DEF DisplacementNoted, Noted
<1>. DEFINE Settled == cpc = "settle" => \A t \in block, p \in entries \ (block \cup late) :
           Spends[p] \cap Consumed(t) # {} => Noted(p, t, rows, lostRow)
<1>00. DisplacementNoted' <=> Settled'
  BY DEF DisplacementNoted, Noted
<1>. SUFFICES ScanSoFar' /\ Settled'
  BY <1>00
<1>. HIDE DEF Settled
<1>a. Settled
  BY <1>0 DEF Settled
<1>b. /\ todo \subseteq Tx /\ block \subseteq Tx /\ entries \subseteq Tx /\ victims \subseteq Tx
      /\ rows \in SUBSET Collision /\ victims \cap block = {}
      /\ victims # {} => cpc = "displace" /\ conf \in block
      /\ cpc = "displace" => todo \subseteq block
  BY DEF TypeInv, TypeOK, VictimsOfBlock
\* A step that only adds rows and failed inserts, or takes pending entries away.
<1>c. ASSUME UNCHANGED <<cpc, block, todo, conf, victims>>,
             cpc \in {"displace", "settle"} =>
               entries' \ (block \cup late') \subseteq entries \ (block \cup late),
             lostRow \subseteq lostRow', \A c \in rows : \E d \in rows' : d.a = c.a /\ d.b = c.b
      PROVE  ScanSoFar' /\ Settled'
  <2>1. \A p, t : Noted(p, t, rows, lostRow) => Noted(p, t, rows', lostRow')
    BY <1>c, NotedGrows
  <2>2. ScanSoFar'
    BY <1>c, <2>1 DEF ScanSoFar
  <2>3. Settled'
    BY <1>a, <1>c, <2>1 DEF Settled
  <2>. QED BY <2>2, <2>3
<1>1. CASE RecordCollision
  BY <1>1, <1>c DEF RecordCollision, indexVars, handlerVars
<1>2. CASE TrackAndPrune
  <2>1. entries' \subseteq entries \cup {cur}
    BY <1>2 DEF TrackAndPrune, Track
  <2>2. cpc \in {"displace", "settle"} => late' = late \cup {cur}
    BY <1>2 DEF TrackAndPrune
  <2>3. UNCHANGED <<cpc, block, todo, conf, victims, rows, lostRow>>
    BY <1>2 DEF TrackAndPrune, handlerVars
  <2>. QED BY <1>c, <2>1, <2>2, <2>3
<1>3. CASE UpsertConfirmed
  BY <1>3 DEF UpsertConfirmed, ScanSoFar, Settled
<1>4. CASE ScanDisplaced
  <2>1. cpc = "displace" /\ victims = {} /\ UNCHANGED <<block, entries, late, rows, lostRow>>
    BY <1>4 DEF ScanDisplaced, indexVars, historyVars
  <2>2. CASE todo = {}
    <3>1. cpc' = "settle"
      BY <1>4, <2>2 DEF ScanDisplaced
    <3>2. \A t \in block, p \in entries \ (block \cup late) :
            Spends[p] \cap Consumed(t) # {} => Noted(p, t, rows, lostRow)
      BY <2>1, <2>2 DEF ScanSoFar
    <3>. QED BY <2>1, <3>1, <3>2 DEF ScanSoFar, Settled
  <2>3. CASE todo # {}
    <3>1. PICK t \in todo : /\ todo' = todo \ {t} /\ conf' = t /\ cpc' = cpc
                            /\ victims' = Sharing(ConsumedRefs(t)) \ block
      BY <1>4, <2>3 DEF ScanDisplaced
    <3>2. ASSUME NEW p \in entries \ (block \cup late), Spends[p] \cap Consumed(t) # {}
          PROVE  p \in victims'
      <4>1. PICK r : r \in Spends[p] /\ r \in Consumed(t)
        BY <3>2
      <4>2. r \in Ref
        BY <1>b, <4>1, MempoolAssumption
      <4>3. p \in refIndex[r]
        BY <4>1, <4>2 DEF IndexAgrees
      <4>. QED BY <3>1, <4>1, <4>3 DEF Sharing, ConsumedRefs, Consumed
    <3>3. ScanSoFar'
      <4>1. \A u \in (block \ todo') : u = t \/ u \in block \ todo
        BY <3>1
      <4>. QED BY <2>1, <3>1, <3>2, <4>1 DEF ScanSoFar
    <3>. QED BY <2>1, <3>1, <3>3 DEF Settled
  <2>. QED BY <2>2, <2>3
<1>5. CASE RecordDisplacement
  <2>1. cpc = "displace" /\ UNCHANGED <<cpc, block, todo, conf, entries, late>>
    BY <1>5 DEF RecordDisplacement, indexVars
  <2>2. PICK p \in victims :
          LET new == rows \cup {[a |-> p, b |-> conf, out |-> "BOTH_PENDING"]} IN
          /\ victims' = victims \ {p}
          /\ \/ p \notin entries /\ rows' = rows /\ lostRow' = lostRow
             \/ rows' = Resolved(conf, new) /\ lostRow' = lostRow
             \/ rows' = new /\ lostRow' = lostRow
             \/ lostRow' = lostRow \cup {<<p, conf>>} /\ rows' = rows
    BY <1>5 DEF RecordDisplacement
  <2>. DEFINE row1 == [a |-> p, b |-> conf, out |-> "BOTH_PENDING"]
              new == rows \cup {row1}
  <2>3. conf \in Tx /\ p \in Tx
    BY <1>b
  <2>4. new \in SUBSET Collision /\ row1 \in new /\ row1.a = p /\ row1.b = conf /\ rows \subseteq new
    BY <1>b, <2>3 DEF Collision
  <2>. HIDE DEF row1, new
  <2>5. \A c \in new : \E d \in Resolved(conf, new) : d.a = c.a /\ d.b = c.b
    BY <2>3, <2>4, ResolvedKeepsPairs
  <2>6. \/ p \notin entries /\ rows' = rows /\ lostRow' = lostRow
        \/ rows' = Resolved(conf, new) /\ lostRow' = lostRow
        \/ rows' = new /\ lostRow' = lostRow
        \/ lostRow' = lostRow \cup {<<p, conf>>} /\ rows' = rows
    BY <2>2 DEF new, row1
  <2>7. lostRow \subseteq lostRow' /\ \A c \in rows : \E d \in rows' : d.a = c.a /\ d.b = c.b
    BY <2>4, <2>5, <2>6
  <2>8. p \notin entries \/ Noted(p, conf, rows', lostRow')
    BY <2>4, <2>5, <2>6 DEF Noted
  <2>9. \A q, t : Noted(q, t, rows, lostRow) => Noted(q, t, rows', lostRow')
    BY <2>7, NotedGrows
  <2>10. ScanSoFar'
    BY <2>1, <2>2, <2>8, <2>9 DEF ScanSoFar
  <2>. QED BY <2>1, <2>10 DEF Settled
<1>6. CASE SettleOne
  <2>1. PICK t \in todo : SettleTx(t, {})
    BY <1>6 DEF SettleOne
  <2>2. \A c \in rows : \E d \in rows' : d.a = c.a /\ d.b = c.b
    <3>1. \A c \in rows : \E d \in Resolved(t, rows) : d.a = c.a /\ d.b = c.b
      BY <1>b, ResolvedKeepsPairs
    <3>. QED BY <2>1, <3>1 DEF SettleTx
  <2>3. cpc = "settle" /\ block' = block /\ entries' \subseteq entries
    BY <1>6, <2>1 DEF SettleOne, SettleTx
  <2>4. CASE todo = {t}
    <3>1. cpc' = "save"
      BY <2>1, <2>4 DEF SettleTx
    <3>. QED BY <3>1 DEF ScanSoFar, Settled
  <2>5. CASE todo # {t}
    <3>1. UNCHANGED <<cpc, late, lostRow>>
      BY <2>1, <2>5 DEF SettleTx
    <3>2. \A p, u : Noted(p, u, rows, lostRow) => Noted(p, u, rows', lostRow')
      BY <2>2, <3>1, NotedGrows
    <3>. QED BY <1>a, <2>3, <3>1, <3>2 DEF ScanSoFar, Settled
  <2>. QED BY <2>4, <2>5
<1>7. CASE NextForward \/ NextBackward \/ InsertBlock \/ HandlerFails \/ SaveSyncPoint \/ PurgeRows \/ Rewind
  <2>1. cpc' \notin {"displace", "settle"}
    BY <1>7 DEF NextForward, NextBackward, InsertBlock, HandlerFails, SaveSyncPoint, PurgeRows, Rewind
  <2>. QED BY <2>1 DEF ScanSoFar, Settled
<1>8. CASE ~(\/ RecordCollision \/ TrackAndPrune \/ UpsertConfirmed \/ ScanDisplaced \/ RecordDisplacement
             \/ SettleOne \/ NextForward \/ NextBackward \/ InsertBlock \/ HandlerFails
             \/ SaveSyncPoint \/ PurgeRows \/ Rewind)
  <2>1. UNCHANGED <<cpc, block, todo, conf, victims, entries, late, rows, lostRow>>
    BY <1>8 DEF Next, MonitorStep, HandlerStep, NodeAdmits, MarkDropped, PruneTerminal, Connect,
       Acquire, Skip, Observe, ResolveInputs, UpsertPending, TrackRaises, MonitorFails,
       vars, indexVars, handlerVars, historyVars
  <2>. QED BY <1>c, <2>1
<1>. QED BY <1>1, <1>2, <1>3, <1>4, <1>5, <1>6, <1>7, <1>8

\* The collision log, for any transactions and bounds: nobody is recorded as colliding
\* with itself, and a block that has been compared with the pending index has a row for
\* every pending transaction it displaced, but for inserts that failed and transactions
\* tracked during the scan.
THEOREM CollisionLogRight == Spec => []CollisionsRight
<1>. DEFINE Inv == TypeInv /\ IndexAgrees /\ CollisionInv
<1>1. Init => Inv
  <2>1. Init => CollisionInv
    BY DEF Init, CollisionInv, NotItself, NoSelfCollision, ScanSoFar, DisplacementNoted
  <2>. QED BY <2>1, IndexInit
<1>2. Inv /\ [Next]_vars => Inv'
  BY TypeInductive, IndexInductive, SelfInductive, ScanInductive DEF CollisionInv
<1>3. Inv => CollisionsRight
  BY DEF CollisionsRight, CollisionInv
<1>. QED BY <1>1, <1>2, <1>3, PTL DEF Spec

-----------------------------------------------------------------------------
(* The lifecycle rows                                                      *)

\* The steps that leave the chain, the block in hand and the confirmed rows alone:
\* neither the monitor's upsert nor the DROPPED and retention sweeps touch a
\* CONFIRMED row.
LifeQuiet ==
  /\ UNCHANGED <<chain, block, cpc, slot, target>>
  /\ \A t \in Tx : life[t] = "CONFIRMED" => life'[t] = "CONFIRMED"
  /\ lostLife \subseteq lostLife'

\* The chain is made of disjoint blocks, the checkpoint appends the block in hand as
\* it was confirmed, and a rollback takes back rows past its target only.
LEMMA LifecycleInductive == TypeInv /\ LifecycleInv /\ [Next]_vars => LifecycleInv'
<1>. SUFFICES ASSUME TypeInv, LifecycleInv, [Next]_vars PROVE LifecycleInv'
  OBVIOUS
<1>0. /\ chain \in Seq(SUBSET Tx) /\ Len(chain) \in Nat /\ \A i \in 1..Len(chain) : chain[i] \subseteq Tx
      /\ block \subseteq Tx /\ lostLife \subseteq Tx /\ target \in Nat
      /\ life \in [Tx -> Status] /\ slot \in [Tx -> Nat]
      /\ cpc \in {"purge", "rewind"} => target < Len(chain)
  BY LenProperties, ElementOfSeq DEF TypeInv, TypeOK, TargetBehind
<1>. USE DEF LifecycleInv, BlocksApart, BlockConfirmed, ConfirmedStands
<1>1. CASE LifeQuiet
  BY <1>0, <1>1 DEF LifeQuiet
<1>2. CASE NextForward
  <2>1. PICK S \in SUBSET Tx : Valid(S) /\ block' = S
    BY <1>2 DEF NextForward
  <2>2. UNCHANGED <<chain, life, slot, lostLife, target>> /\ cpc = "idle" /\ cpc' = "insert"
    BY <1>2 DEF NextForward, lifeVars, historyVars
  <2>3. \A i \in 1..Len(chain) : chain[i] \cap S = {}
    BY <1>0, <2>1 DEF Valid, OnChain, Range
  <2>. QED BY <1>0, <2>1, <2>2, <2>3
<1>3. CASE InsertBlock
  <2>1. UNCHANGED <<chain, block, life, slot, lostLife, target>> /\ cpc = "insert" /\ cpc' = "life"
    BY <1>3 DEF InsertBlock, lifeVars, historyVars
  <2>. QED BY <2>1
<1>4. CASE HandlerFails
  <2>1. UNCHANGED <<chain, life, slot, target>> /\ cpc' = "idle" /\ block' = {}
    BY <1>4 DEF HandlerFails, lifeVars
  <2>2. lostLife \subseteq lostLife' /\ (cpc \in {"purge", "rewind"} => Past(target) \subseteq lostLife')
    BY <1>4 DEF HandlerFails
  <2>3. \A i \in 1..Len(chain) : i > target => chain[i] \subseteq Past(target)
    BY <1>0 DEF Past
  <2>. QED BY <1>0, <2>1, <2>2, <2>3
<1>5. CASE UpsertConfirmed
  <2>1. UNCHANGED <<chain, block, target>> /\ cpc = "life" /\ cpc' = "displace"
    BY <1>5 DEF UpsertConfirmed
  <2>2. \/ /\ lostLife' = lostLife \ block
           /\ \A t \in Tx : IF t \in block THEN life'[t] = "CONFIRMED" /\ slot'[t] = Len(chain) + 1
                                           ELSE life'[t] = life[t] /\ slot'[t] = slot[t]
        \/ lostLife' = lostLife \cup block /\ UNCHANGED <<life, slot>>
    BY <1>5 DEF UpsertConfirmed, lifeVars
  <2>. QED BY <1>0, <2>1, <2>2
<1>6. CASE ScanDisplaced \/ RecordDisplacement \/ SettleOne
  <2>1. UNCHANGED <<chain, block, life, slot, lostLife, target>>
    BY <1>6 DEF ScanDisplaced, RecordDisplacement, SettleOne, SettleTx, lifeVars, historyVars
  <2>2. cpc \in {"displace", "settle"} /\ cpc' \in {"displace", "settle", "save"}
    BY <1>6 DEF ScanDisplaced, RecordDisplacement, SettleOne, SettleTx
  <2>. QED BY <2>1, <2>2
<1>7. CASE SaveSyncPoint
  <2>1. /\ chain' = Append(chain, block) /\ block' = {} /\ cpc = "save" /\ cpc' = "idle"
        /\ UNCHANGED <<life, slot, lostLife, target>>
    BY <1>7 DEF SaveSyncPoint, lifeVars
  <2>2. /\ Len(chain') = Len(chain) + 1 /\ chain'[Len(chain) + 1] = block
        /\ \A i \in 1..Len(chain) : chain'[i] = chain[i]
    BY <1>0, <2>1
  <2>3. \A i \in 1..Len(chain') : i \in 1..Len(chain) \/ i = Len(chain) + 1
    BY <1>0, <2>2
  <2>4. BlocksApart'
    BY <2>1, <2>2, <2>3
  <2>5. ConfirmedStands'
    BY <2>1, <2>2, <2>3
  <2>. QED BY <2>1, <2>4, <2>5
<1>8. CASE NextBackward
  <2>1. UNCHANGED <<chain, block, slot>> /\ cpc = "idle" /\ cpc' = "purge" /\ block = {}
    BY <1>8 DEF NextBackward
  <2>2. PICK n \in 0..(Len(chain) - 1) :
          /\ target' = n
          /\ \/ /\ life' = [t \in Tx |-> IF life[t] = "CONFIRMED" /\ slot[t] > n
                                         THEN "ROLLED_BACK" ELSE life[t]]
                /\ lostLife' = lostLife
             \/ life' = life /\ lostLife' = lostLife \cup Past(n)
    BY <1>8 DEF NextBackward
  <2>3. ASSUME NEW i \in 1..Len(chain), NEW t \in chain[i] \ (lostLife' \cup block'), i <= n
        PROVE  life'[t] = "CONFIRMED" /\ slot'[t] = i
    <3>1. t \in Tx /\ life[t] = "CONFIRMED" /\ slot[t] = i
      BY <1>0, <2>1, <2>2
    <3>. QED BY <2>1, <2>2, <2>3, <3>1
  <2>. QED BY <1>0, <2>1, <2>2, <2>3
<1>9. CASE PurgeRows
  <2>1. UNCHANGED <<chain, block, life, slot, lostLife, target>> /\ cpc = "purge" /\ cpc' = "rewind"
    BY <1>9 DEF PurgeRows, lifeVars, historyVars
  <2>. QED BY <2>1
<1>10. CASE Rewind
  <2>1. /\ chain' = SubSeq(chain, 1, target) /\ UNCHANGED <<block, life, slot, lostLife>>
        /\ cpc = "rewind" /\ cpc' = "idle"
    BY <1>10 DEF Rewind, lifeVars, historyVars
  <2>2. Len(chain') = target /\ \A i \in 1..target : i \in 1..Len(chain) /\ chain'[i] = chain[i]
    BY <1>0, <2>1
  <2>3. BlocksApart' /\ BlockConfirmed'
    BY <2>1, <2>2
  <2>4. \A i \in 1..target : i \in 1..Len(chain) /\ ~(i > target)
    BY <1>0, <2>1
  <2>5. ConfirmedStands'
    BY <2>1, <2>2, <2>4
  <2>. QED BY <2>3, <2>5
<1>11. CASE ~(\/ NextForward \/ InsertBlock \/ HandlerFails \/ UpsertConfirmed \/ ScanDisplaced
              \/ RecordDisplacement \/ SettleOne \/ SaveSyncPoint \/ NextBackward \/ PurgeRows \/ Rewind)
  <2>1. UNCHANGED <<chain, block, cpc, slot, target>> /\ lostLife \subseteq lostLife'
    BY <1>11 DEF Next, MonitorStep, HandlerStep, NodeAdmits, MarkDropped, PruneTerminal, Connect,
       Acquire, Skip, Observe, RecordCollision, TrackAndPrune, ResolveInputs, UpsertPending,
       TrackRaises, MonitorFails, vars, handlerVars, lifeVars, historyVars
  <2>2. \A t \in Tx : life[t] = "CONFIRMED" => life'[t] = "CONFIRMED"
    BY <1>0, <1>11 DEF Next, MonitorStep, HandlerStep, NodeAdmits, MarkDropped, PruneTerminal, Connect,
       Acquire, Skip, Observe, RecordCollision, TrackAndPrune, ResolveInputs, UpsertPending,
       OnConflict, TrackRaises, MonitorFails, vars, lifeVars
  <2>. QED BY <1>1, <2>1, <2>2 DEF LifeQuiet
<1>. QED BY <1>2, <1>3, <1>4, <1>5, <1>6, <1>7, <1>8, <1>9, <1>10, <1>11

\* tx_lifecycle, for any transactions and bounds: what is on the client's chain stays
\* CONFIRMED at its slot through late snapshots, the DROPPED sweep and the retention;
\* only a rollback or a failed lifecycle write of its own takes it back.
THEOREM ConfirmedRowsStand == Spec => []ConfirmedStands
<1>. DEFINE Inv == TypeInv /\ LifecycleInv
<1>1. Init => Inv
  <2>1. Init => LifecycleInv
    BY DEF Init, LifecycleInv, BlocksApart, BlockConfirmed, ConfirmedStands
  <2>. QED BY <2>1, IndexInit
<1>2. Inv /\ [Next]_vars => Inv'
  BY TypeInductive, LifecycleInductive
<1>3. Inv => ConfirmedStands
  BY DEF LifecycleInv
<1>. QED BY <1>1, <1>2, <1>3, PTL DEF Spec

-----------------------------------------------------------------------------
(* The enrichment                                                          *)

\* The cache loses an entry to the sweep, which keeps count, or to the checkpoint
\* of its block, from when on it is on the chain.
LEMMA EnrichmentInductive ==
  TypeInv /\ BlocksApart /\ EnrichmentHeld /\ [Next]_vars => EnrichmentHeld'
<1>. SUFFICES ASSUME TypeInv, BlocksApart, EnrichmentHeld, [Next]_vars PROVE EnrichmentHeld'
  OBVIOUS
<1>0. /\ chain \in Seq(SUBSET Tx) /\ Len(chain) \in Nat /\ target \in Nat
      /\ block \subseteq Tx /\ enriched \subseteq block
      /\ row \in [Tx -> {"none", "plain", "enriched"}]
      /\ \A i \in 1..Len(chain) : chain[i] \subseteq Tx
      /\ cpc \in {"purge", "rewind"} => target < Len(chain)
  BY LenProperties, ElementOfSeq DEF TypeInv, TypeOK, TargetBehind
<1>00. OnChain = UNION {chain[i] : i \in 1..Len(chain)}
  BY <1>0 DEF OnChain, Range
\* A step that leaves the rows, the chain and the block in hand alone and loses no
\* cache entry unaccounted for.
<1>c. ASSUME UNCHANGED <<row, chain, cpc, block, enriched, target>>,
             swept \subseteq swept', cache \subseteq cache' \cup swept'
      PROVE  EnrichmentHeld'
  BY <1>c DEF EnrichmentHeld, OnChain, Past
<1>1. CASE NextForward
  <2>1. PICK S \in SUBSET Tx : Valid(S) /\ block' = S /\ enriched' = S \cap cache
    BY <1>1 DEF NextForward
  <2>2. UNCHANGED <<chain, row, cache, swept, target>> /\ cpc' = "insert"
    BY <1>1 DEF NextForward, indexVars, historyVars
  <2>3. S \cap OnChain = {}
    BY <2>1 DEF Valid
  <2>4. OnChain' = OnChain
    BY <2>2 DEF OnChain
  <2>. QED BY <2>1, <2>2, <2>3, <2>4 DEF EnrichmentHeld
<1>2. CASE InsertBlock
  <2>1. UNCHANGED <<chain, cache, swept, target>> /\ cpc = "insert" /\ cpc' = "life"
    BY <1>2 DEF InsertBlock, indexVars, historyVars
  <2>2. \A t \in Tx : row'[t] = "enriched" => t \in enriched \/ row[t] = "enriched"
    BY <1>2 DEF InsertBlock
  <2>3. OnChain' = OnChain
    BY <2>1 DEF OnChain
  <2>. QED BY <2>1, <2>2, <2>3 DEF EnrichmentHeld
<1>3. CASE SaveSyncPoint
  <2>1. /\ chain' = Append(chain, block) /\ cache' = cache \ block /\ swept' = swept \ block
        /\ row' = row /\ cpc' = "idle"
    BY <1>3 DEF SaveSyncPoint
  <2>2. OnChain' = OnChain \cup block
    <3>1. Len(chain') = Len(chain) + 1 /\ chain'[Len(chain) + 1] = block
          /\ \A i \in 1..Len(chain) : chain'[i] = chain[i]
      BY <1>0, <2>1
    <3>2. OnChain' = UNION {chain'[i] : i \in 1..Len(chain')}
      BY <1>0, <2>1 DEF OnChain, Range
    <3>. QED BY <1>0, <1>00, <3>1, <3>2
  <2>. QED BY <2>1, <2>2 DEF EnrichmentHeld
<1>4. CASE PurgeRows
  <2>1. /\ row' = [t \in Tx |-> IF t \in Past(target) THEN "none" ELSE row[t]]
        /\ UNCHANGED <<chain, cache, swept, target>> /\ cpc' = "rewind"
    BY <1>4 DEF PurgeRows, indexVars, historyVars
  <2>2. OnChain' = OnChain /\ Past(target)' = Past(target)
    BY <2>1 DEF OnChain, Past
  <2>3. Past(target) \subseteq Tx
    BY <1>0, PastType
  <2>. QED BY <1>0, <2>1, <2>2, <2>3 DEF EnrichmentHeld
<1>5. CASE Rewind
  <2>1. /\ chain' = SubSeq(chain, 1, target) /\ UNCHANGED <<row, cache, swept>>
        /\ cpc = "rewind" /\ cpc' = "idle"
    BY <1>5 DEF Rewind, historyVars
  <2>2. Len(chain') = target /\ \A i \in 1..target : chain'[i] = chain[i]
    BY <1>0, <2>1
  <2>3. OnChain' = UNION {chain'[i] : i \in 1..target}
    <3>1. chain' \in Seq(SUBSET Tx)
      BY <1>0, <2>1
    <3>. QED BY <2>2, <3>1 DEF OnChain, Range
  <2>4. \A t \in OnChain : t \in OnChain' \/ t \in Past(target)
    <3>1. \A i \in 1..Len(chain) : i \in 1..target \/ i \in (target + 1)..Len(chain)
      BY <1>0
    <3>. QED BY <1>00, <2>2, <2>3, <3>1 DEF Past
  <2>. QED BY <2>1, <2>4 DEF EnrichmentHeld
<1>6. CASE HandlerFails \/ UpsertConfirmed \/ ScanDisplaced \/ RecordDisplacement \/ SettleOne \/ NextBackward
  <2>1. UNCHANGED <<chain, row, cache, swept>>
    BY <1>6 DEF HandlerFails, UpsertConfirmed, ScanDisplaced, RecordDisplacement, SettleOne, SettleTx,
       NextBackward, indexVars, historyVars
  <2>2. cpc' \notin {"insert", "rewind"}
    BY <1>6 DEF HandlerFails, UpsertConfirmed, ScanDisplaced, RecordDisplacement, SettleOne, SettleTx,
       NextBackward
  <2>3. OnChain' = OnChain
    BY <2>1 DEF OnChain
  <2>. QED BY <2>1, <2>2, <2>3 DEF EnrichmentHeld
<1>7. CASE ~(\/ NextForward \/ InsertBlock \/ HandlerFails \/ UpsertConfirmed \/ ScanDisplaced
             \/ RecordDisplacement \/ SettleOne \/ SaveSyncPoint \/ NextBackward \/ PurgeRows \/ Rewind)
  <2>1. UNCHANGED <<row, chain, cpc, block, enriched, target>> /\ swept \subseteq swept'
    BY <1>7 DEF Next, MonitorStep, HandlerStep, NodeAdmits, MarkDropped, PruneTerminal, Connect,
       Acquire, Skip, Observe, RecordCollision, TrackAndPrune, ResolveInputs, UpsertPending,
       TrackRaises, MonitorFails, vars, handlerVars, historyVars
  <2>2. cache \subseteq cache' \cup swept'
    BY <1>7 DEF Next, MonitorStep, HandlerStep, NodeAdmits, MarkDropped, PruneTerminal, Connect,
       Acquire, Skip, Observe, RecordCollision, TrackAndPrune, ResolveInputs, UpsertPending,
       TrackRaises, MonitorFails, vars, indexVars
  <2>. QED BY <1>c, <2>1, <2>2
<1>. QED BY <1>1, <1>2, <1>3, <1>4, <1>5, <1>6, <1>7

\* A step that takes the enrichment off a row is an InsertBlock of a block parsed
\* after the sweep took the cache entry.
LEMMA EnrichmentStep ==
  ASSUME TypeInv, EnrichmentHeld, [Next]_vars, NEW t \in Tx, row[t] = "enriched", row'[t] = "plain"
  PROVE  t \in swept
<1>1. CASE InsertBlock
  <2>1. cpc = "insert" /\ t \in block \ enriched
    BY <1>1 DEF InsertBlock, TypeInv, TypeOK
  <2>. QED BY <2>1 DEF EnrichmentHeld
<1>2. CASE PurgeRows
  BY <1>2 DEF PurgeRows
<1>3. CASE ~(InsertBlock \/ PurgeRows)
  <2>1. row' = row
    BY <1>3 DEF Next, MonitorStep, HandlerStep, NodeAdmits, MarkDropped, PruneTerminal, Connect,
       Acquire, Skip, Observe, RecordCollision, TrackAndPrune, ResolveInputs, UpsertPending,
       TrackRaises, MonitorFails, NextForward, NextBackward, UpsertConfirmed, ScanDisplaced,
       RecordDisplacement, SettleOne, SettleTx, SaveSyncPoint, Rewind, HandlerFails, vars
  <2>. QED BY <2>1
<1>. QED BY <1>1, <1>2, <1>3

\* consume_enrichment, for any transactions and bounds: a block that is read again
\* after a failed insert or checkpoint never replaces an enriched row by a plain one,
\* unless the sweep took the cache entry.
THEOREM EnrichmentIsKept == Spec => EnrichmentKept
<1>. DEFINE Inv == TypeInv /\ LifecycleInv /\ EnrichmentHeld
<1>1. Init => Inv
  <2>1. Init => LifecycleInv /\ EnrichmentHeld
    BY DEF Init, LifecycleInv, BlocksApart, BlockConfirmed, ConfirmedStands, EnrichmentHeld
  <2>. QED BY <2>1, IndexInit
<1>2. Inv /\ [Next]_vars => Inv'
  BY TypeInductive, LifecycleInductive, EnrichmentInductive DEF LifecycleInv
<1>3. Inv /\ [Next]_vars => [\A t \in Tx : row[t] = "enriched" /\ row'[t] = "plain" => t \in swept]_vars
  BY EnrichmentStep
<1>. QED BY <1>1, <1>2, <1>3, PTL DEF Spec, EnrichmentKept
==============================================================================
