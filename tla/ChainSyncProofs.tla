--------------------------- MODULE ChainSyncProofs ---------------------------
(***************************************************************************)
(* Proofs about ChainSync, for every block tree, every set of              *)
(* transactions, every configuration and every set of injected failures.   *)
(***************************************************************************)
EXTENDS ChainSync, TLAPS

\* Everything on the branch of c after the starting point has been ingested.
Handled(c) == \A b \in Chain[c] \ Chain[start] : Ingested(b)

\* Where the read pointer, the block in hand and the checkpoint stand to one
\* another: the pointer is never behind the checkpoint while a session lives.
Positions ==
    /\ tip = Origin => cursor = Origin /\ ckpt = NoBlock /\ blk = Origin
    /\ ckpt # Origin
    /\ pc = "first" => ckpt = NoBlock /\ cursor = Origin /\ echo
    /\ pc \in Forward => /\ blk = cursor /\ blk # Origin /\ ~echo
                         /\ ckpt # NoBlock => ckpt \in Chain[cursor] \ {cursor}
                         /\ ckpt = NoBlock => cursor = Anchor
    /\ pc \in Backward => blk = cursor /\ blk # Origin /\ ~echo
    /\ pc = "idle" /\ ckpt # NoBlock => ckpt \in Chain[cursor] /\ cursor # Origin
    /\ pc = "idle" /\ ckpt = NoBlock /\ ~echo => cursor = Origin
    /\ pc = "idle" /\ ckpt # NoBlock /\ echo => cursor = ckpt

\* What the forward handler has made durable when it is about to make each call.
ForwardProgress ==
    /\ pc \in {"insertChild", "life", "save"} => \A t \in Parsed(blk) : txRow[t] = blk
    /\ pc \in Forward \ {"quarantine"} /\ blk \in Undecodable => blk \in quarantined

\* No transaction of a block that has been handled is missing.
Completeness ==
    ~tornRewind =>
        /\ ckpt # NoBlock /\ ~Rewinding => Handled(ckpt)
        /\ pc = "idle" => Handled(cursor)
        /\ pc \in Forward => \A b \in Chain[blk] \ ({blk} \cup Chain[start]) : Ingested(b)
        /\ pc \in Backward => Handled(blk)

\* The purge list is exactly what lies past the rollback point.
PurgeList ==
    pc \in {"purgeScore", "purgeTx"} => hashes = PastSlot(txRow, blk)

\* Rows not on the branch of c lie past it, where a rollback to c finds them.
Separable(c) == \A t \in Tx : txRow[t] # NoBlock =>
                    txRow[t] \in Chain[c] \/ Slot[txRow[t]] > Slot[c]
OnBranch(c) == \A t \in Tx : txRow[t] # NoBlock => txRow[t] \in Chain[c]

RowPlaces ==
    Cleanup =>
        /\ ckpt # NoBlock => Separable(ckpt)
        /\ ckpt = NoBlock => \A t \in Tx : txRow[t] \in {NoBlock, Anchor}
        /\ pc \in Backward => Separable(blk)
        /\ pc \in {"enqueue", "cluster", "rewind"} => OnBranch(blk)
        /\ pc \in Forward => OnBranch(cursor)
        /\ pc = "idle" /\ ~echo /\ ckpt # NoBlock => OnBranch(cursor)

RawFirst ==
    RawBlocking =>
        /\ \A t \in Tx : txRow[t] # NoBlock => t \in raw
        /\ pc \in {"insertTx", "insertChild", "life"} => Parsed(blk) \subseteq raw

IInv == TypeOK /\ Positions /\ ForwardProgress /\ Completeness /\ PurgeList /\ RowPlaces /\ RawFirst

-----------------------------------------------------------------------------
(* Types. *)

LEMMA PutType ==
    ASSUME NEW f \in [Tx -> MaybeBlock], NEW S, NEW b \in MaybeBlock
    PROVE  Put(f, S, b) \in [Tx -> MaybeBlock]
  BY DEF Put

LEMMA SessionEndsTypes ==
    ASSUME TypeOK, SessionEnds
    PROVE  /\ pc' = "down" /\ hashes' \subseteq Tx
           /\ tornRewind' \in BOOLEAN /\ lostRepurge' \subseteq Tx
           /\ cursor' \in Block /\ echo' \in BOOLEAN /\ blk' \in Block
           /\ attempt' \in 1..MaxAttempts /\ start' \in Block
  BY Zenon DEF TypeOK, SessionEnds

LEMMA BatchEndsTypes ==
    ASSUME tasks \subseteq Task, BatchEnds
    PROVE  tasks' \subseteq Task
<1> SUFFICES ASSUME NEW k \in tasks
             PROVE  (IF k.st = "flying" THEN [k EXCEPT !.st = "due"] ELSE k) \in Task
  BY DEF BatchEnds
<1>1. k \in Task OBVIOUS
<1> QED BY <1>1 DEF Task

LEMMA NodeTypes ==
    ASSUME TypeOK, NEW b \in Block, NodeAdopts(b)
    PROVE  TypeOK'
  BY DEF TypeOK, NodeAdopts, session, warehouse, operational, history

LEMMA ConnectTypes ==
    ASSUME TypeOK, ConnectStep
    PROVE  TypeOK'
<1> USE ChainAssumption DEF TypeOK, Setup, node, session, warehouse, operational, history
<1>1. CASE Connect BY <1>1 DEF Connect
<1>2. CASE ReplayDelete
  <2>1. score' \in [Tx -> MaybeBlock] BY <1>2, PutType DEF ReplayDelete, MaybeBlock
  <2> QED BY <1>2, <2>1 DEF ReplayDelete
<1>3. CASE ReplayClear BY <1>3 DEF ReplayClear
<1>4. CASE Resume
  <2>1. CASE SessionEnds BY <1>4, <2>1, SessionEndsTypes DEF Resume
  <2>2. CASE ~SessionEnds
    <3>1. cursor' \in Block BY <1>4, <2>2 DEF Resume, MaybeBlock
    <3>2. /\ echo' = TRUE /\ pc' = "idle"
          /\ UNCHANGED <<blk, hashes, attempt, start, tornRewind, lostRepurge>>
      BY <1>4, <2>2 DEF Resume
    <3> QED BY <1>4, <3>1, <3>2 DEF Resume
  <2> QED BY <2>1, <2>2
<1>5. CASE FirstOrigin BY <1>5 DEF FirstOrigin
<1>6. CASE FirstTip BY <1>6 DEF FirstTip
<1> QED BY <1>1, <1>2, <1>3, <1>4, <1>5, <1>6 DEF ConnectStep

\* A task that gives up hashes to a later one is a task.
LEMMA DisownType ==
  ASSUME NEW k \in Task, NEW H
  PROVE  [k EXCEPT !.own = k.own \ H] \in Task
BY DEF Task

LEMMA ForwardTypes ==
    ASSUME TypeOK, ForwardStep
    PROVE  TypeOK'
<1> USE ChainAssumption, ParameterAssumption
    DEF TypeOK, Forward, node, session, warehouse, operational, history
<1>1. CASE NextForward BY <1>1 DEF NextForward, Dispatch
<1>2. CASE Quarantine BY <1>2 DEF Quarantine, Dispatch
<1>3. CASE WriteRaw
  <2>1. Parsed(blk) \subseteq Tx BY DEF Parsed
  <2> QED BY <1>3, <2>1 DEF WriteRaw, Fault
<1>4. CASE InsertTx
  <2>1. txRow' \in [Tx -> MaybeBlock] BY <1>4, PutType DEF InsertTx, MaybeBlock
  <2> QED BY <1>4, <2>1 DEF InsertTx
<1>5. CASE InsertChild
  <2>1. Parsed(blk) \subseteq Tx BY DEF Parsed
  <2> QED BY <1>5, <2>1 DEF InsertChild
<1>6. CASE UpsertLifecycle
  <2>1. life' \in [Tx -> MaybeBlock] BY <1>6, PutType DEF UpsertLifecycle, MaybeBlock
  <2> QED BY <1>6, <2>1 DEF UpsertLifecycle, Fault
<1>7. CASE SaveSyncPoint BY <1>7 DEF SaveSyncPoint, MaybeBlock
<1> QED BY <1>1, <1>2, <1>3, <1>4, <1>5, <1>6, <1>7 DEF ForwardStep

LEMMA BackwardTypes ==
    ASSUME TypeOK, BackwardStep
    PROVE  TypeOK'
<1> USE ChainAssumption, ParameterAssumption
    DEF TypeOK, Backward, node, session, warehouse, operational, history
<1>1. CASE NextBackward
  <2>1. PICK p \in Chain[cursor] \cap Chain[tip] :
           cursor' = p /\ blk' = p /\ pc' = IF p = Origin THEN "idle" ELSE "mark"
    BY <1>1 DEF NextBackward
  <2>2. p \in Block OBVIOUS
  <2> QED BY <1>1, <2>1, <2>2 DEF NextBackward
<1>2. CASE MarkRolledBack
  <2>1. life' \in [Tx -> MaybeBlock] BY <1>2, PutType DEF MarkRolledBack, MaybeBlock
  <2> QED BY <1>2, <2>1 DEF MarkRolledBack, Fault
<1>3. CASE PurgeChildren BY <1>3 DEF PurgeChildren, PastSlot
<1>4. CASE PurgeScores
  <2>1. score' \in [Tx -> MaybeBlock] BY <1>4, PutType DEF PurgeScores, MaybeBlock
  <2> QED BY <1>4, <2>1 DEF PurgeScores
<1>5. CASE PurgeTransactions
  <2>1. txRow' \in [Tx -> MaybeBlock] BY <1>5, PutType DEF PurgeTransactions, MaybeBlock
  <2> QED BY <1>5, <2>1 DEF PurgeTransactions
<1>6. CASE EnqueueRepurge
  <2>1. \A k \in tasks : [k EXCEPT !.own = k.own \ hashes] \in Task BY DisownType
  <2>2. [id |-> moves + faults, h |-> hashes, own |-> hashes,
         st |-> IF batch = NoBatch THEN "due" ELSE "flying"] \in Task
    BY DEF Task
  <2>3. tasks' \subseteq Task BY <1>6, <2>1, <2>2 DEF EnqueueRepurge
  <2> QED BY <1>6, <2>3 DEF EnqueueRepurge
<1>7. CASE PurgeClustering BY <1>7 DEF PurgeClustering, Fault
<1>8. CASE RewindSyncPoint BY <1>8 DEF RewindSyncPoint, MaybeBlock
<1> QED BY <1>1, <1>2, <1>3, <1>4, <1>5, <1>6, <1>7, <1>8 DEF BackwardStep

LEMMA OtherTypes ==
    ASSUME TypeOK, TaskStep \/ EngineStep \/ (\E t \in Tx : SidecarVerdict(t))
    PROVE  TypeOK'
<1> USE ChainAssumption DEF TypeOK, node, session, warehouse, operational, history
<1>1. CASE TaskStep
  <2>1. PICK k \in tasks : TaskDelete(k) \/ TaskClear(k) BY <1>1 DEF TaskStep
  <2>2. k \in Task OBVIOUS
  <2>3. CASE TaskDelete(k)
    <3>1. score' \in [Tx -> MaybeBlock] BY <2>3, PutType DEF TaskDelete, MaybeBlock
    <3>2. [k EXCEPT !.st = "clear"] \in Task BY <2>2 DEF Task
    <3>3. tasks' \subseteq Task
      <4> DEFINE cleared == [k EXCEPT !.st = "clear"]
      <4>1. tasks \subseteq Task /\ cleared \in Task BY <3>2
      <4>2. tasks' = (tasks \ {k}) \cup {cleared} BY <2>3 DEF TaskDelete
      <4> HIDE DEF cleared
      <4> QED BY ONLY <4>1, <4>2
    <3> QED BY <2>3, <3>1, <3>3 DEF TaskDelete
  <2>4. CASE TaskClear(k)
    <3>1. k.h \subseteq Tx BY <2>2 DEF Task
    <3> QED BY <2>4, <3>1 DEF TaskClear
  <2> QED BY <2>1, <2>3, <2>4
<1>2. CASE EnginePoll
  <2>1. batch' \in [Tx -> MaybeBlock] BY <1>2 DEF EnginePoll, MaybeBlock
  <2> QED BY <1>2, <2>1 DEF EnginePoll
<1>3. CASE EngineInsert
  <2>1. tasks' \subseteq Task BY <1>3, BatchEndsTypes DEF EngineInsert
  <2>2. score' \in [Tx -> MaybeBlock] BY <1>3 DEF EngineInsert
  <2>3. batch' \in [Tx -> MaybeBlock] BY <1>3 DEF EngineInsert, NoBatch, MaybeBlock
  <2> QED BY <1>3, <2>1, <2>2, <2>3 DEF EngineInsert
<1>4. CASE \E t \in Tx : SidecarVerdict(t) BY <1>4 DEF SidecarVerdict
<1> QED BY <1>1, <1>2, <1>3, <1>4 DEF EngineStep

LEMMA FailureTypes ==
    ASSUME TypeOK, Failure
    PROVE  TypeOK'
<1> USE ChainAssumption, ParameterAssumption
    DEF TypeOK, node, session, warehouse, operational, history, Fault
<1>1. CASE ReplayFails BY <1>1 DEF ReplayFails, Setup
<1>2. CASE InsertFails
  <2>1. CASE SessionEnds BY <1>2, <2>1, SessionEndsTypes DEF InsertFails
  <2>2. CASE ~SessionEnds BY <1>2, <2>2 DEF InsertFails, Forward
  <2> QED BY <2>1, <2>2
<1>3. CASE StepRaises
  <2>1. faults' \in Nat BY <1>3 DEF StepRaises
  <2> QED BY <1>3, <2>1, SessionEndsTypes DEF StepRaises
<1>4. CASE Crash BY <1>4, SessionEndsTypes DEF Crash, NoBatch, MaybeBlock
<1>5. CASE EngineFails
  <2>1. tasks' \subseteq Task BY <1>5, BatchEndsTypes DEF EngineFails
  <2> QED BY <1>5, <2>1 DEF EngineFails, NoBatch, MaybeBlock
<1>6. CASE \E k \in tasks : TaskFails(k) BY <1>6 DEF TaskFails
<1> QED BY <1>1, <1>2, <1>3, <1>4, <1>5, <1>6 DEF Failure

LEMMA InitTypes == Init => TypeOK
<1> SUFFICES ASSUME Init PROVE TypeOK OBVIOUS
<1>1. attempt \in 1..MaxAttempts BY ParameterAssumption DEF Init
<1>2. /\ txRow \in [Tx -> MaybeBlock] /\ score \in [Tx -> MaybeBlock]
      /\ life \in [Tx -> MaybeBlock] /\ batch \in [Tx -> MaybeBlock]
  BY DEF Init, NoBatch, MaybeBlock
<1> QED BY <1>1, <1>2, ChainAssumption DEF Init, TypeOK, MaybeBlock

LEMMA NextTypes == TypeOK /\ [Next]_vars => TypeOK'
<1> SUFFICES ASSUME TypeOK, [Next]_vars PROVE TypeOK' OBVIOUS
<1>1. CASE UNCHANGED vars
  BY <1>1 DEF vars, TypeOK, node, session, warehouse, operational, history
<1>2. CASE Next
  BY <1>2, NodeTypes, ConnectTypes, ForwardTypes, BackwardTypes, OtherTypes, FailureTypes
  DEF Next, ChainSyncStep
<1> QED BY <1>1, <1>2

\* Every variable of the chain-sync component keeps its type: no handler, failure
\* or racing actor leaves a store, a local or a task in a shape the code never wrote.
THEOREM TypeCorrect == Spec => []TypeOK
<1>1. Init => TypeOK BY InitTypes
<1>2. TypeOK /\ [Next]_vars => TypeOK' BY NextTypes
<1> QED BY <1>1, <1>2, PTL DEF Spec

-----------------------------------------------------------------------------
(* The block tree. *)

LEMMA ChainTrans ==
    ASSUME NEW b \in Block, NEW c \in Chain[b]
    PROVE  c \in Block /\ Chain[c] \subseteq Chain[b] /\ Slot[c] <= Slot[b]
<1>1. Chain[b] \subseteq Block BY ChainAssumption
<1>2. Chain[b] = {d \in Chain[b] : Slot[d] <= Slot[b]} BY ChainAssumption
<1>3. Chain[c] = {d \in Chain[b] : Slot[d] <= Slot[c]} BY ChainAssumption
<1> QED BY <1>1, <1>2, <1>3

LEMMA ChainCut ==
    ASSUME NEW b \in Block, NEW c \in Chain[b], NEW d \in Chain[b], Slot[d] <= Slot[c]
    PROVE  d \in Chain[c]
  BY ChainAssumption

LEMMA ChainNext ==
    ASSUME NEW b \in Block, NEW c \in Block, b # c, Chain[b] = Chain[c] \cup {b}
    PROVE  /\ b \notin Chain[c] /\ c \in Chain[b] /\ b # Origin
           /\ c = Origin => b = Anchor
<1>1. c \in Chain[c] /\ b \in Chain[b] /\ Origin \in Chain[c] BY ChainAssumption
<1>2. c \in Chain[b] BY <1>1
<1>3. b \notin Chain[c]
  <2> SUFFICES ASSUME b \in Chain[c] PROVE FALSE OBVIOUS
  <2>1. Slot[b] <= Slot[c] /\ Slot[c] <= Slot[b] BY <1>2, ChainTrans
  <2>2. Slot \in [Block -> Nat] BY ChainAssumption
  <2>3. Slot[b] = Slot[c] BY <2>1, <2>2
  <2>4. b = c BY <2>3, <1>1, ChainAssumption
  <2> QED BY <2>4
<1>4. b # Origin BY <1>1, <1>3
<1>5. c = Origin => b = Anchor
  <2>1. Anchor \in Chain[b] /\ Chain[Origin] = {Origin} /\ Anchor # Origin
    BY <1>4, ChainAssumption
  <2> QED BY <2>1
<1> QED BY <1>2, <1>3, <1>4, <1>5

LEMMA AnchorFirst ==
    ASSUME NEW b \in Block \ {Origin}, NEW p \in Chain[b], Slot[Anchor] <= Slot[p]
    PROVE  p # Origin
<1> SUFFICES ASSUME p = Origin PROVE FALSE OBVIOUS
<1>1. Anchor \in Chain[b] /\ Anchor # Origin /\ Chain[Origin] = {Origin} BY ChainAssumption
<1>2. Anchor \in Chain[Origin] BY <1>1, ChainCut
<1> QED BY <1>1, <1>2

-----------------------------------------------------------------------------
(* Steps that disturb nothing the invariant speaks of, and dying sessions. *)

LEMMA Quiet ==
    ASSUME IInv, TypeOK',
           UNCHANGED <<tip, cursor, echo, pc, blk, hashes, ckpt, txRow, quarantined,
                       raw, start, tornRewind>>
    PROVE  IInv'
  BY DEF IInv, Positions, ForwardProgress, Completeness, PurgeList, RowPlaces, RawFirst,
         Handled, Ingested, Rewinding, Separable, OnBranch, PastSlot

LEMMA SessionDies ==
    ASSUME IInv, TypeOK', SessionEnds,
           UNCHANGED <<tip, ckpt, txRow, quarantined, raw>>
    PROVE  IInv'
<1>1. /\ pc' = "down"
      /\ UNCHANGED <<cursor, echo, blk, start>>
      /\ ~tornRewind' => ~tornRewind /\ ~Rewinding
  BY Zenon DEF SessionEnds
<1>2. Positions' BY <1>1 DEF IInv, Positions, Forward, Backward
<1>3. ForwardProgress' /\ PurgeList' BY <1>1 DEF ForwardProgress, PurgeList, Forward
<1>4. Completeness'
  <2> SUFFICES ASSUME ~tornRewind', ckpt' # NoBlock PROVE Handled(ckpt)'
    BY <1>1 DEF Completeness, Forward, Backward
  <2>1. Handled(ckpt) BY <1>1 DEF IInv, Completeness
  <2> QED BY <1>1, <2>1 DEF Handled, Ingested
<1>5. RowPlaces' BY <1>1 DEF IInv, RowPlaces, Separable, Forward, Backward
<1>6. RawFirst' BY <1>1 DEF IInv, RawFirst
<1> QED BY <1>2, <1>3, <1>4, <1>5, <1>6 DEF IInv

LEMMA InitIInv == Init => IInv
<1> SUFFICES ASSUME Init, TypeOK PROVE IInv
  BY InitTypes
<1>1. pc = "down" /\ ckpt = NoBlock /\ cursor = Origin /\ blk = Origin /\ txRow = [t \in Tx |-> NoBlock]
  BY DEF Init
<1>2. Positions BY <1>1, ChainAssumption DEF Positions, Forward, Backward
<1>3. ForwardProgress /\ PurgeList /\ Completeness
  BY <1>1 DEF ForwardProgress, PurgeList, Completeness, Forward, Backward
<1>4. RowPlaces /\ RawFirst BY <1>1 DEF RowPlaces, RawFirst, Forward, Backward
<1> QED BY <1>2, <1>3, <1>4 DEF IInv

LEMMA TipMoves ==
    ASSUME IInv, TypeOK', NEW b \in Block, NodeAdopts(b)
    PROVE  IInv'
<1>1. tip' # Origin BY ChainAssumption DEF NodeAdopts, IInv, TypeOK
<1>2. UNCHANGED <<cursor, echo, pc, blk, hashes, ckpt, txRow, quarantined, raw, start, tornRewind>>
  BY DEF NodeAdopts, session, warehouse, operational, history
<1>3. Positions' BY <1>1, <1>2 DEF IInv, Positions
<1>4. ForwardProgress' /\ PurgeList' /\ RowPlaces' /\ RawFirst'
  BY <1>2 DEF IInv, ForwardProgress, PurgeList, RowPlaces, RawFirst, Separable, OnBranch, PastSlot
<1>5. Completeness' BY <1>2 DEF IInv, Completeness, Handled, Ingested, Rewinding
<1> QED BY <1>3, <1>4, <1>5 DEF IInv

-----------------------------------------------------------------------------
(* Connecting. *)

LEMMA SetupMoves ==
    ASSUME IInv, TypeOK', pc \notin {"idle"} \cup Forward \cup Backward,
           pc' \in {"replay", "replayClear", "intersect"},
           UNCHANGED <<tip, cursor, echo, blk, ckpt, txRow, quarantined, raw, start, tornRewind>>
    PROVE  IInv'
<1>0. pc' \notin {"idle", "first"} \cup Forward \cup Backward BY DEF Forward, Backward
<1>1. Positions' BY <1>0 DEF IInv, Positions
<1>2. ForwardProgress' /\ PurgeList'
  BY <1>0 DEF ForwardProgress, PurgeList, Forward, Backward
<1>3. Completeness' BY <1>0 DEF IInv, Completeness, Handled, Ingested, Rewinding
<1>4. RowPlaces' BY <1>0 DEF IInv, RowPlaces, Separable, Backward
<1>5. RawFirst' BY <1>0 DEF IInv, RawFirst, Forward
<1> QED BY <1>1, <1>2, <1>3, <1>4, <1>5 DEF IInv

LEMMA ResumeKeeps ==
    ASSUME IInv, TypeOK', Resume
    PROVE  IInv'
<1>0. UNCHANGED <<tip, ckpt, txRow, quarantined, raw>> /\ ckpt # NoBlock /\ pc = "intersect"
  BY DEF Resume, node, warehouse, operational
<1>1. CASE SessionEnds BY <1>0, <1>1, SessionDies
<1>2. CASE ~SessionEnds
  <2>1. /\ cursor' = ckpt /\ echo' = TRUE /\ pc' = "idle" /\ ckpt \in Chain[tip]
        /\ UNCHANGED <<blk, start, tornRewind>>
    BY <1>2 DEF Resume
  <2>2. ckpt \in Block \ {Origin} /\ ckpt \in Chain[ckpt]
    BY <1>0, ChainAssumption DEF IInv, Positions, TypeOK, MaybeBlock
  <2>3. Positions' BY <1>0, <2>1, <2>2 DEF IInv, Positions, Forward, Backward
  <2>4. ForwardProgress' /\ PurgeList'
    BY <2>1 DEF ForwardProgress, PurgeList, Forward, Backward
  <2>5. Completeness'
    <3> SUFFICES ASSUME ~tornRewind' PROVE Handled(ckpt)'
      BY <1>0, <2>1 DEF Completeness, Handled, Ingested, Forward, Backward
    <3>1. Handled(ckpt) BY <1>0, <2>1 DEF IInv, Completeness, Rewinding, Backward
    <3> QED BY <1>0, <2>1, <3>1 DEF Handled, Ingested
  <2>6. RowPlaces' BY <1>0, <2>1 DEF IInv, RowPlaces, Separable, Forward, Backward
  <2>7. RawFirst' BY <1>0, <2>1 DEF IInv, RawFirst
  <2> QED BY <2>3, <2>4, <2>5, <2>6, <2>7 DEF IInv
<1> QED BY <1>1, <1>2

LEMMA FirstOriginKeeps ==
    ASSUME IInv, TypeOK', FirstOrigin
    PROVE  IInv'
<1>1. /\ pc' = "first" /\ ckpt' = NoBlock /\ cursor' = Origin /\ echo' = TRUE /\ blk' = tip
      /\ UNCHANGED <<tip, ckpt, txRow, quarantined, raw, start, tornRewind>>
  BY DEF FirstOrigin, node, warehouse, operational, history
<1>2. Positions' BY <1>1, ChainAssumption DEF Positions, Forward, Backward
<1>3. ForwardProgress' /\ PurgeList' /\ Completeness'
  BY <1>1 DEF ForwardProgress, PurgeList, Completeness, Forward, Backward
<1>4. RowPlaces' BY <1>1 DEF IInv, RowPlaces, Forward, Backward
<1>5. RawFirst' BY <1>1 DEF IInv, RawFirst
<1> QED BY <1>2, <1>3, <1>4, <1>5 DEF IInv

LEMMA FirstTipKeeps ==
    ASSUME IInv, TypeOK', FirstTip
    PROVE  IInv'
<1>1. /\ pc' = "idle" /\ ckpt = NoBlock /\ cursor = Origin /\ echo
      /\ start' = cursor' /\ cursor' \in {blk, Origin}
      /\ UNCHANGED <<tip, echo, blk, ckpt, txRow, quarantined, raw, tornRewind>>
  BY DEF FirstTip, IInv, Positions, node, warehouse, operational
<1>2. Positions' BY <1>1, ChainAssumption DEF IInv, Positions, Forward, Backward
<1>3. ForwardProgress' /\ PurgeList' BY <1>1 DEF ForwardProgress, PurgeList, Forward, Backward
<1>4. Completeness' BY <1>1 DEF Completeness, Handled, Forward, Backward
<1>5. RowPlaces' BY <1>1 DEF IInv, RowPlaces, Forward, Backward
<1>6. RawFirst' BY <1>1 DEF IInv, RawFirst
<1> QED BY <1>2, <1>3, <1>4, <1>5, <1>6 DEF IInv

-----------------------------------------------------------------------------
(* The node's answers. *)

LEMMA NextBackwardKeeps ==
    ASSUME IInv, TypeOK', NextBackward
    PROVE  IInv'
<1>1. PICK p \in Chain[cursor] \cap Chain[tip] :
         /\ \A q \in Chain[cursor] \cap Chain[tip] : Slot[q] <= Slot[p]
         /\ cursor' = p /\ blk' = p /\ pc' = IF p = Origin THEN "idle" ELSE "mark"
  BY DEF NextBackward
<1>2. /\ pc = "idle" /\ echo' = FALSE
      /\ UNCHANGED <<tip, ckpt, txRow, quarantined, raw, start, tornRewind>>
  BY DEF NextBackward, node, warehouse, operational, history
<1>3. /\ tip \in Block /\ cursor \in Block /\ p \in Block
      /\ p \in Chain[p] /\ Chain[p] \subseteq Chain[cursor] /\ Slot[p] <= Slot[cursor]
  BY ChainTrans, ChainAssumption DEF IInv, TypeOK
<1>4. tip = Origin => p = Origin BY ChainAssumption
<1>5. ckpt # NoBlock => p # Origin
  <2> SUFFICES ASSUME ckpt # NoBlock PROVE p # Origin OBVIOUS
  <2>1. cursor # Origin /\ tip # Origin BY <1>2 DEF IInv, Positions
  <2>2. Anchor \in Chain[cursor] \cap Chain[tip] BY <1>3, <2>1, ChainAssumption
  <2>3. Slot[Anchor] <= Slot[p] BY <1>1, <2>2
  <2> QED BY <1>3, <2>1, <2>3, AnchorFirst
<1>6. Positions'
  BY <1>1, <1>2, <1>4, <1>5 DEF IInv, Positions, Forward, Backward
<1>7. ForwardProgress' /\ PurgeList'
  BY <1>1 DEF ForwardProgress, PurgeList, Forward, Backward
<1>8. Completeness'
  <2> SUFFICES ASSUME ~tornRewind PROVE Completeness' BY <1>2 DEF Completeness
  <2>1. Handled(cursor) BY <1>2 DEF IInv, Completeness
  <2>2. Handled(p)' BY <1>2, <1>3, <2>1 DEF Handled, Ingested
  <2>3. ckpt # NoBlock => Handled(ckpt)'
    <3>1. ckpt # NoBlock => Handled(ckpt)
      BY <1>2 DEF IInv, Completeness, Rewinding, Backward
    <3> QED BY <1>2, <3>1 DEF Handled, Ingested
  <2>4. pc' \notin Forward BY <1>1 DEF Forward
  <2>5. Handled(cursor)' /\ Handled(blk)' BY <1>1, <2>2 DEF Handled
  <2>6. ckpt' # NoBlock => Handled(ckpt)' BY <1>2, <2>3
  <2> QED BY <2>4, <2>5, <2>6 DEF Completeness
<1>9. RowPlaces'
  <2> SUFFICES ASSUME Cleanup PROVE RowPlaces' BY DEF RowPlaces
  <2>1. p # Origin => Separable(p)
    <3> SUFFICES ASSUME p # Origin, NEW t \in Tx, txRow[t] # NoBlock
                 PROVE  txRow[t] \in Chain[p] \/ Slot[txRow[t]] > Slot[p]
      BY DEF Separable
    <3>0. txRow[t] \in Block BY DEF IInv, TypeOK, MaybeBlock
    <3>1. CASE ckpt = NoBlock
      <4>1. txRow[t] = Anchor BY <3>1 DEF IInv, RowPlaces
      <4> QED BY <4>1, <1>3, ChainAssumption
    <3>2. CASE ckpt # NoBlock
      <4>1. txRow[t] \in Chain[cursor] \/ Slot[txRow[t]] > Slot[cursor]
        BY <1>2, <3>2 DEF IInv, RowPlaces, Positions, Separable, OnBranch
      <4>2. Slot[txRow[t]] \in Nat /\ Slot[p] \in Nat /\ Slot[cursor] \in Nat
        BY <1>3, <3>0, ChainAssumption
      <4>3. Slot[txRow[t]] > Slot[cursor] => Slot[txRow[t]] > Slot[p] BY <1>3, <4>2
      <4>4. txRow[t] \in Chain[cursor] /\ Slot[txRow[t]] <= Slot[p] => txRow[t] \in Chain[p]
        BY <1>3, ChainCut
      <4> QED BY <4>1, <4>2, <4>3, <4>4
    <3> QED BY <3>1, <3>2
  <2>2. pc' \in Backward => Separable(blk)'
    BY <1>1, <1>2, <2>1 DEF Separable, Backward
  <2>3. /\ pc' \notin Forward /\ pc' \notin {"enqueue", "cluster", "rewind"}
        /\ ckpt' # NoBlock => pc' # "idle"
    BY <1>1, <1>2, <1>5 DEF Forward
  <2>4. /\ ckpt' # NoBlock => Separable(ckpt)'
        /\ ckpt' = NoBlock => \A t \in Tx : txRow'[t] \in {NoBlock, Anchor}
    BY <1>2 DEF IInv, RowPlaces, Separable
  <2> QED BY <2>2, <2>3, <2>4 DEF RowPlaces
<1>10. RawFirst' BY <1>1, <1>2 DEF IInv, RawFirst
<1> QED BY <1>6, <1>7, <1>8, <1>9, <1>10 DEF IInv

LEMMA NextForwardKeeps ==
    ASSUME IInv, TypeOK', NextForward
    PROVE  IInv'
<1>1. PICK b \in Chain[tip] \ {cursor} :
         /\ Chain[b] = Chain[cursor] \cup {b}
         /\ cursor' = b
         /\ \/ /\ b \in Undecodable /\ pc' = "quarantine" /\ blk' = b
            \/ /\ b \notin Undecodable /\ pc' = Dispatch(b) /\ blk' = b
            \/ /\ b \in Slotless /\ Txs[b] = {} /\ pc' = pc /\ blk' = blk
            \/ /\ pc' = "down" /\ blk' = blk
  BY DEF NextForward
<1>2. /\ pc = "idle" /\ ~echo
      /\ UNCHANGED <<tip, echo, ckpt, txRow, quarantined, raw, start, tornRewind>>
  BY DEF NextForward, node, warehouse, operational, history
<1>3. /\ tip \in Block /\ cursor \in Block /\ b \in Block /\ b \in Chain[b]
      /\ cursor \in Chain[cursor]
  BY ChainAssumption DEF IInv, TypeOK
<1>4. b \notin Chain[cursor] /\ b # Origin /\ (cursor = Origin => b = Anchor)
  BY <1>1, <1>3, ChainNext
<1>5. tip # Origin
  BY <1>4, ChainAssumption
<1>6. ckpt = NoBlock => cursor = Origin /\ b = Anchor /\ b \notin Slotless
  BY <1>2, <1>4, ParameterAssumption DEF IInv, Positions
<1>7. ckpt # NoBlock => ckpt \in Chain[b] \ {b}
  BY <1>1, <1>2, <1>4 DEF IInv, Positions
<1>8. Dispatch(b) \in {"raw", "save"} /\ (Dispatch(b) = "save" => Parsed(b) = {})
  BY DEF Dispatch
<1>9. Positions'
  <2>1. ckpt' # Origin /\ tip' # Origin BY <1>2, <1>5 DEF IInv, Positions
  <2> QED BY <1>1, <1>2, <1>4, <1>6, <1>7, <1>8, <2>1 DEF Positions, Forward, Backward
<1>10. ForwardProgress' /\ PurgeList'
  BY <1>1, <1>2, <1>8 DEF ForwardProgress, PurgeList, Forward, Backward
<1>11. Completeness'
  <2> SUFFICES ASSUME ~tornRewind PROVE Completeness' BY <1>2 DEF Completeness
  <2>1. \A c \in Block : Handled(c) => Handled(c)' BY <1>2 DEF Handled, Ingested
  <2>2. Handled(cursor) /\ (ckpt # NoBlock => Handled(ckpt))
    BY <1>2 DEF IInv, Completeness, Rewinding, Backward
  <2>3. \A c \in Chain[b] \ ({b} \cup Chain[start]) : Ingested(c)'
    BY <1>1, <1>2, <2>2 DEF Handled, Ingested
  <2>4. Txs[b] = {} => Handled(b)' BY <1>2, <2>3 DEF Handled, Ingested
  <2>5. ckpt' # NoBlock => Handled(ckpt)'
    BY <1>2, <2>2 DEF Handled, Ingested
  <2>6. pc' \in Forward => \A c \in Chain[blk'] \ ({blk'} \cup Chain[start']) : Ingested(c)'
    BY <1>1, <1>2, <2>3 DEF Forward
  <2>7. pc' = "idle" => Handled(cursor)'
    BY <1>1, <1>8, <2>4 DEF Handled
  <2>8. pc' \notin Backward BY <1>1, <1>2, <1>8 DEF Backward
  <2> QED BY <2>5, <2>6, <2>7, <2>8 DEF Completeness
<1>12. RowPlaces'
  <2> SUFFICES ASSUME Cleanup PROVE RowPlaces' BY DEF RowPlaces
  <2>1. OnBranch(b)'
    <3> SUFFICES ASSUME NEW t \in Tx, txRow[t] # NoBlock PROVE txRow[t] \in Chain[b]
      BY <1>2 DEF OnBranch
    <3>1. CASE ckpt = NoBlock BY <3>1, <1>3, <1>6 DEF IInv, RowPlaces
    <3>2. CASE ckpt # NoBlock BY <3>2, <1>1, <1>2 DEF IInv, RowPlaces, OnBranch
    <3> QED BY <3>1, <3>2
  <2>2. OnBranch(cursor)' BY <1>1, <2>1 DEF OnBranch
  <2>3. pc' \notin Backward BY <1>1, <1>2, <1>8 DEF Backward
  <2>4. /\ ckpt' # NoBlock => Separable(ckpt)'
        /\ ckpt' = NoBlock => \A t \in Tx : txRow'[t] \in {NoBlock, Anchor}
    BY <1>2 DEF IInv, RowPlaces, Separable
  <2> QED BY <2>2, <2>3, <2>4 DEF RowPlaces, Backward
<1>13. RawFirst' BY <1>1, <1>2, <1>8 DEF IInv, RawFirst
<1> QED BY <1>9, <1>10, <1>11, <1>12, <1>13 DEF IInv

-----------------------------------------------------------------------------
(* The forward handler. *)

LEMMA ForwardMoves ==
    ASSUME IInv, TypeOK', pc \in Forward, pc' \in Forward \ {"quarantine"},
           UNCHANGED <<tip, cursor, echo, blk, hashes, ckpt, txRow, start, tornRewind>>,
           quarantined \subseteq quarantined', raw \subseteq raw', ForwardProgress',
           RawBlocking /\ pc' \in {"insertTx", "insertChild", "life"} => Parsed(blk) \subseteq raw'
    PROVE  IInv'
<1>0. /\ pc \notin {"idle", "first"} \cup Backward
      /\ pc' \notin {"idle", "first"} \cup Backward
  BY DEF Forward, Backward
<1>1. Positions' BY <1>0 DEF IInv, Positions
<1>2. PurgeList' BY <1>0 DEF PurgeList, Backward
<1>3. \A b \in Block : Ingested(b) => Ingested(b)' BY DEF Ingested
<1>4. Completeness'
  <2> SUFFICES ASSUME ~tornRewind PROVE Completeness' BY DEF Completeness
  <2>1. blk \in Block /\ Chain[blk] \subseteq Block BY ChainAssumption DEF IInv, TypeOK
  <2>2. ckpt # NoBlock => Chain[ckpt] \subseteq Block
    BY ChainAssumption DEF IInv, TypeOK, MaybeBlock
  <2>3. ckpt # NoBlock => Handled(ckpt)'
    BY <1>0, <1>3, <2>2 DEF IInv, Completeness, Handled, Rewinding
  <2>4. \A b \in Chain[blk] \ ({blk} \cup Chain[start]) : Ingested(b)'
    BY <1>3, <2>1 DEF IInv, Completeness
  <2>5. ckpt' # NoBlock => Handled(ckpt)' BY <2>3
  <2>6. \A b \in Chain[blk'] \ ({blk'} \cup Chain[start']) : Ingested(b)' BY <2>4
  <2> QED BY <1>0, <2>5, <2>6 DEF Completeness
<1>5. RowPlaces' BY <1>0 DEF IInv, RowPlaces, Separable, OnBranch, Backward
<1>6. RawFirst' BY DEF IInv, RawFirst, Parsed
<1> QED BY <1>1, <1>2, <1>4, <1>5, <1>6 DEF IInv

LEMMA ParsedTxs ==
    ASSUME NEW b \in Block
    PROVE  Parsed(b) \subseteq Txs[b] \ Unparseable
  BY ChainAssumption, ParameterAssumption DEF Parsed

LEMMA InsertTxKeeps ==
    ASSUME IInv, TypeOK', InsertTx
    PROVE  IInv'
<1>1. /\ pc = "insertTx" /\ pc' = "insertChild"
      /\ txRow' = [t \in Tx |-> IF t \in Parsed(blk) THEN blk ELSE txRow[t]]
      /\ UNCHANGED <<tip, cursor, echo, blk, ckpt, quarantined, raw, start, tornRewind>>
  BY DEF InsertTx, Put, node, operational, history
<1>2. /\ blk \in Block \ {Origin} /\ blk = cursor /\ blk \in Chain[blk] /\ blk # NoBlock
      /\ ckpt # NoBlock => ckpt \in Chain[blk] \ {blk}
      /\ ckpt = NoBlock => blk = Anchor
  BY <1>1, ChainAssumption DEF IInv, Positions, TypeOK, Forward
<1>3. Parsed(blk) \subseteq Tx /\ Parsed(blk) \subseteq Txs[blk]
  BY <1>2, ParsedTxs, ChainAssumption
<1>4. Positions' BY <1>1 DEF IInv, Positions, Forward, Backward
<1>5. ForwardProgress' /\ PurgeList'
  BY <1>1, <1>3 DEF IInv, ForwardProgress, PurgeList, Parsed, Forward
<1>6. \A c \in Chain[blk] : Ingested(c) => Ingested(c)'
  <2> SUFFICES ASSUME NEW c \in Chain[blk], Ingested(c),
                      NEW t \in Txs[c] \ Unparseable
               PROVE  \/ txRow'[t] = c
                      \/ c \in Undecodable \cap quarantined' /\ t \notin Salvaged[c]
    BY DEF Ingested
  <2>1. c \in Block /\ t \in Tx BY <1>2, ChainAssumption
  <2>2. c # blk => t \notin Parsed(blk)
    BY <1>2, <1>3, ChainAssumption
  <2>3. txRow'[t] = IF t \in Parsed(blk) THEN blk ELSE txRow[t] BY <1>1, <2>1
  <2> QED BY <1>1, <2>2, <2>3 DEF Ingested
<1>7. Completeness'
  <2> SUFFICES ASSUME ~tornRewind PROVE Completeness' BY <1>1 DEF Completeness
  <2>1. \A b \in Chain[blk] \ ({blk} \cup Chain[start]) : Ingested(b)'
    BY <1>1, <1>6 DEF IInv, Completeness, Forward
  <2>2. ckpt # NoBlock => Handled(ckpt)'
    <3> SUFFICES ASSUME ckpt # NoBlock PROVE Handled(ckpt)' OBVIOUS
    <3>1. Handled(ckpt) BY <1>1 DEF IInv, Completeness, Rewinding, Backward
    <3>2. Chain[ckpt] \subseteq Chain[blk] BY <1>2, ChainTrans
    <3>3. \A b \in Chain[ckpt] \ Chain[start] : Ingested(b)' BY <1>6, <3>1, <3>2 DEF Handled
    <3> QED BY <1>1, <3>3 DEF Handled
  <2>3. ckpt' # NoBlock => Handled(ckpt)' BY <1>1, <2>2
  <2>4. \A b \in Chain[blk'] \ ({blk'} \cup Chain[start']) : Ingested(b)' BY <1>1, <2>1
  <2>5. pc' # "idle" /\ pc' \notin Backward BY <1>1 DEF Backward
  <2> QED BY <2>3, <2>4, <2>5 DEF Completeness
<1>8. RowPlaces'
  <2> SUFFICES ASSUME Cleanup PROVE RowPlaces' BY DEF RowPlaces
  <2>1. OnBranch(cursor) BY <1>1 DEF IInv, RowPlaces, Forward
  <2>2. OnBranch(cursor)' BY <1>1, <1>2, <2>1 DEF OnBranch
  <2>3. ckpt # NoBlock => \A t \in Tx : txRow'[t] # NoBlock =>
            txRow'[t] \in Chain[ckpt] \/ Slot[txRow'[t]] > Slot[ckpt]
    <3> SUFFICES ASSUME ckpt # NoBlock, NEW t \in Tx, txRow'[t] # NoBlock
                 PROVE  txRow'[t] \in Chain[ckpt] \/ Slot[txRow'[t]] > Slot[ckpt]
      OBVIOUS
    <3>1. ckpt \in Block /\ Slot[ckpt] <= Slot[blk] /\ Slot[ckpt] # Slot[blk]
      BY <1>2, ChainTrans, ChainAssumption
    <3>2. Slot[blk] > Slot[ckpt]
      <4>1. Slot[ckpt] \in Nat /\ Slot[blk] \in Nat BY <1>2, <3>1, ChainAssumption
      <4> QED BY <3>1, <4>1
    <3>3. txRow'[t] = IF t \in Parsed(blk) THEN blk ELSE txRow[t] BY <1>1
    <3> QED BY <3>2, <3>3 DEF IInv, RowPlaces, Separable
  <2>4. ckpt = NoBlock => \A t \in Tx : txRow'[t] \in {NoBlock, Anchor}
    BY <1>1, <1>2 DEF IInv, RowPlaces
  <2>5. ckpt' # NoBlock => Separable(ckpt)' BY <1>1, <2>3 DEF Separable
  <2>6. ckpt' = NoBlock => \A t \in Tx : txRow'[t] \in {NoBlock, Anchor} BY <1>1, <2>4
  <2>7. pc' # "idle" /\ pc' \notin Backward BY <1>1 DEF Backward
  <2> QED BY <2>2, <2>5, <2>6, <2>7 DEF RowPlaces, Backward
<1>9. RawFirst'
  <2>1. RawBlocking => Parsed(blk) \subseteq raw BY <1>1 DEF IInv, RawFirst
  <2>2. Parsed(blk)' = Parsed(blk) BY <1>1 DEF Parsed
  <2> QED BY <1>1, <2>1, <2>2 DEF IInv, RawFirst
<1> QED BY <1>4, <1>5, <1>7, <1>8, <1>9 DEF IInv

LEMMA SaveKeeps ==
    ASSUME IInv, TypeOK', SaveSyncPoint
    PROVE  IInv'
<1>1. /\ pc = "save" /\ pc' = "idle" /\ ckpt' = blk
      /\ UNCHANGED <<tip, cursor, echo, blk, txRow, quarantined, raw, start, tornRewind>>
  BY DEF SaveSyncPoint, node, warehouse, history
<1>2. blk \in Block \ {Origin} /\ blk = cursor /\ ~echo /\ blk \in Chain[blk] /\ blk # NoBlock
  BY <1>1, ChainAssumption DEF IInv, Positions, TypeOK, Forward
<1>3. Positions' BY <1>1, <1>2 DEF IInv, Positions, Forward, Backward
<1>4. ForwardProgress' /\ PurgeList' BY <1>1 DEF ForwardProgress, PurgeList, Forward
<1>5. Completeness'
  <2> SUFFICES ASSUME ~tornRewind PROVE Completeness' BY <1>1 DEF Completeness
  <2>1. Ingested(blk)
    <3>1. \A t \in Parsed(blk) : txRow[t] = blk BY <1>1 DEF IInv, ForwardProgress
    <3>2. blk \in Undecodable => blk \in quarantined
      BY <1>1 DEF IInv, ForwardProgress, Forward
    <3> QED BY <3>1, <3>2 DEF Ingested, Parsed
  <2>2. \A b \in Chain[blk] \ ({blk} \cup Chain[start]) : Ingested(b)
    BY <1>1 DEF IInv, Completeness, Forward
  <2>3. Handled(blk)' BY <1>1, <2>1, <2>2 DEF Handled, Ingested
  <2>4. Handled(cursor)' /\ Handled(ckpt)' BY <1>1, <1>2, <2>3 DEF Handled
  <2>5. pc' \notin Forward /\ pc' \notin Backward BY <1>1 DEF Forward, Backward
  <2> QED BY <2>4, <2>5 DEF Completeness
<1>6. RowPlaces'
  <2> SUFFICES ASSUME Cleanup PROVE RowPlaces' BY DEF RowPlaces
  <2>1. OnBranch(blk) BY <1>1, <1>2 DEF IInv, RowPlaces, Forward
  <2>2. OnBranch(cursor)' /\ Separable(ckpt)'
    BY <1>1, <1>2, <2>1 DEF OnBranch, Separable
  <2> QED BY <1>1, <1>2, <2>2 DEF RowPlaces, Forward, Backward
<1>7. RawFirst' BY <1>1 DEF IInv, RawFirst
<1> QED BY <1>3, <1>4, <1>5, <1>6, <1>7 DEF IInv

-----------------------------------------------------------------------------
(* The rollback handler. *)

LEMMA BackwardMoves ==
    ASSUME IInv, TypeOK', pc \in Backward, pc' \in Backward, PurgeList',
           UNCHANGED <<tip, cursor, echo, blk, ckpt, txRow, quarantined, raw, start, tornRewind>>,
           Cleanup /\ pc' \in {"enqueue", "cluster", "rewind"} => OnBranch(blk)
    PROVE  IInv'
<1>0. /\ pc \notin {"idle", "first"} \cup Forward
      /\ pc' \notin {"idle", "first"} \cup Forward
  BY DEF Forward, Backward
<1>1. Positions' BY <1>0 DEF IInv, Positions
<1>2. ForwardProgress' BY <1>0 DEF ForwardProgress, Forward
<1>3. Completeness' BY <1>0 DEF IInv, Completeness, Handled, Ingested, Rewinding
<1>4. RowPlaces' BY <1>0 DEF IInv, RowPlaces, Separable, OnBranch
<1>5. RawFirst' BY <1>0 DEF IInv, RawFirst, Forward
<1> QED BY <1>1, <1>2, <1>3, <1>4, <1>5 DEF IInv

LEMMA PurgeKeeps ==
    ASSUME IInv, TypeOK', PurgeTransactions
    PROVE  IInv'
<1>1. /\ pc = "purgeTx" /\ pc' = "enqueue"
      /\ txRow' = [t \in Tx |-> IF t \in hashes THEN NoBlock ELSE txRow[t]]
      /\ UNCHANGED <<tip, cursor, echo, blk, ckpt, quarantined, raw, start, tornRewind>>
  BY DEF PurgeTransactions, Put, node, operational, history
<1>2. blk \in Block /\ hashes = PastSlot(txRow, blk)
  BY <1>1 DEF IInv, TypeOK, PurgeList
<1>3. \A t \in Tx : txRow'[t] = NoBlock \/ (txRow'[t] = txRow[t] /\ ~(Slot[txRow[t]] > Slot[blk]))
  BY <1>1, <1>2 DEF PastSlot
<1>4. Positions' BY <1>1 DEF IInv, Positions, Forward, Backward
<1>5. ForwardProgress' /\ PurgeList' BY <1>1 DEF ForwardProgress, PurgeList, Forward
<1>6. \A c \in Chain[blk] : Ingested(c) => Ingested(c)'
  <2> SUFFICES ASSUME NEW c \in Chain[blk], NEW t \in Txs[c] \ Unparseable, txRow[t] = c
               PROVE  txRow'[t] = c
    BY <1>1 DEF Ingested
  <2>1. c \in Block /\ t \in Tx /\ Slot[c] <= Slot[blk]
    BY <1>2, ChainTrans, ChainAssumption
  <2>2. Slot[c] \in Nat /\ Slot[blk] \in Nat BY <1>2, <2>1, ChainAssumption
  <2>3. ~(Slot[c] > Slot[blk]) BY <2>1, <2>2
  <2>4. t \notin hashes BY <1>2, <2>3 DEF PastSlot
  <2> QED BY <1>1, <2>1, <2>4
<1>7. Completeness'
  <2> SUFFICES ASSUME ~tornRewind PROVE Completeness' BY <1>1 DEF Completeness
  <2>1. Handled(blk) BY <1>1 DEF IInv, Completeness, Backward
  <2>2. Handled(blk)' BY <1>1, <1>6, <2>1 DEF Handled
  <2>3. ckpt' # NoBlock /\ ~Rewinding' => Handled(ckpt)'
    BY <1>1, <2>2 DEF Rewinding, Backward, Handled
  <2> QED BY <1>1, <2>2, <2>3 DEF Completeness, Forward
<1>8. RowPlaces'
  <2> SUFFICES ASSUME Cleanup PROVE RowPlaces' BY DEF RowPlaces
  <2>2. Separable(blk) BY <1>1 DEF IInv, RowPlaces, Backward
  <2>3. OnBranch(blk)' BY <1>1, <1>3, <2>2 DEF OnBranch, Separable
  <2>4. Separable(blk)' BY <2>3 DEF OnBranch, Separable
  <2>5. ckpt' # NoBlock => Separable(ckpt)'
    BY <1>1, <1>3 DEF IInv, RowPlaces, Separable
  <2>6. ckpt' = NoBlock => \A t \in Tx : txRow'[t] \in {NoBlock, Anchor}
    BY <1>1, <1>3 DEF IInv, RowPlaces
  <2>7. pc' \notin Forward /\ pc' # "idle" BY <1>1 DEF Forward
  <2> QED BY <2>3, <2>4, <2>5, <2>6, <2>7 DEF RowPlaces
<1>9. RawFirst' BY <1>1, <1>3 DEF IInv, RawFirst
<1> QED BY <1>4, <1>5, <1>7, <1>8, <1>9 DEF IInv

LEMMA RewindKeeps ==
    ASSUME IInv, TypeOK', RewindSyncPoint
    PROVE  IInv'
<1>1. /\ pc = "rewind" /\ pc' = "idle" /\ ckpt' = blk
      /\ UNCHANGED <<tip, cursor, echo, blk, txRow, quarantined, raw, start, tornRewind>>
  BY DEF RewindSyncPoint, node, warehouse, history
<1>2. blk \in Block \ {Origin} /\ blk = cursor /\ ~echo /\ blk \in Chain[blk] /\ blk # NoBlock
  BY <1>1, ChainAssumption DEF IInv, Positions, TypeOK, Backward
<1>3. Positions' BY <1>1, <1>2 DEF IInv, Positions, Forward, Backward
<1>4. ForwardProgress' /\ PurgeList' BY <1>1 DEF ForwardProgress, PurgeList, Forward
<1>5. Completeness'
  <2> SUFFICES ASSUME ~tornRewind PROVE Completeness' BY <1>1 DEF Completeness
  <2>1. Handled(blk) BY <1>1 DEF IInv, Completeness, Backward
  <2>2. Handled(cursor)' /\ Handled(ckpt)' BY <1>1, <1>2, <2>1 DEF Handled, Ingested
  <2> QED BY <1>1, <2>2 DEF Completeness, Forward, Backward
<1>6. RowPlaces'
  <2> SUFFICES ASSUME Cleanup PROVE RowPlaces' BY DEF RowPlaces
  <2>1. OnBranch(blk) BY <1>1 DEF IInv, RowPlaces
  <2>2. OnBranch(cursor)' /\ Separable(ckpt)'
    BY <1>1, <1>2, <2>1 DEF OnBranch, Separable
  <2> QED BY <1>1, <1>2, <2>2 DEF RowPlaces, Forward, Backward
<1>7. RawFirst' BY <1>1 DEF IInv, RawFirst
<1> QED BY <1>3, <1>4, <1>5, <1>6, <1>7 DEF IInv

-----------------------------------------------------------------------------
(* The invariant is inductive. *)

LEMMA ConnectKeeps ==
    ASSUME IInv, TypeOK', ConnectStep \/ ReplayFails
    PROVE  IInv'
<1> USE DEF node, warehouse, operational, history, Forward, Backward
<1>1. CASE Connect BY <1>1, SetupMoves DEF Connect
<1>2. CASE ReplayDelete BY <1>2, SetupMoves DEF ReplayDelete
<1>3. CASE ReplayClear BY <1>3, SetupMoves DEF ReplayClear
<1>4. CASE ReplayFails BY <1>4, SetupMoves DEF ReplayFails
<1> QED BY <1>1, <1>2, <1>3, <1>4, ResumeKeeps, FirstOriginKeeps, FirstTipKeeps DEF ConnectStep

LEMMA ForwardKeeps ==
    ASSUME IInv, TypeOK', ForwardStep \/ InsertFails
    PROVE  IInv'
<1> USE DEF node, warehouse, operational, history, Forward
<1>1. CASE Quarantine
  <2>1. /\ pc = "quarantine" /\ quarantined' = quarantined \cup {blk} /\ pc' = Dispatch(blk)
        /\ UNCHANGED <<tip, cursor, echo, blk, hashes, ckpt, txRow, raw, start, tornRewind>>
    BY <1>1 DEF Quarantine
  <2>2. Dispatch(blk) \in {"raw", "save"} /\ (Dispatch(blk) = "save" => Parsed(blk) = {})
    BY DEF Dispatch
  <2>3. ForwardProgress' BY <2>1, <2>2 DEF ForwardProgress, Parsed
  <2> QED BY <2>1, <2>2, <2>3, ForwardMoves
<1>2. CASE WriteRaw
  <2>1. /\ pc = "raw" /\ pc' = "insertTx" /\ raw \subseteq raw'
        /\ RawBlocking => Parsed(blk) \subseteq raw'
        /\ UNCHANGED <<tip, cursor, echo, blk, hashes, ckpt, txRow, quarantined, start, tornRewind>>
    BY <1>2 DEF WriteRaw
  <2>2. ForwardProgress' BY <2>1 DEF IInv, ForwardProgress
  <2> QED BY <2>1, <2>2, ForwardMoves
<1>3. CASE InsertChild
  <2>1. /\ pc = "insertChild" /\ pc' = "life"
        /\ UNCHANGED <<tip, cursor, echo, blk, hashes, ckpt, txRow, quarantined, raw, start, tornRewind>>
    BY <1>3 DEF InsertChild
  <2>2. ForwardProgress' BY <2>1 DEF IInv, ForwardProgress, Parsed
  <2>3. RawBlocking => Parsed(blk) \subseteq raw' BY <2>1 DEF IInv, RawFirst
  <2> QED BY <2>1, <2>2, <2>3, ForwardMoves
<1>4. CASE UpsertLifecycle
  <2>1. /\ pc = "life" /\ pc' = "save"
        /\ UNCHANGED <<tip, cursor, echo, blk, hashes, ckpt, txRow, quarantined, raw, start, tornRewind>>
    BY <1>4 DEF UpsertLifecycle
  <2>2. ForwardProgress' BY <2>1 DEF IInv, ForwardProgress, Parsed
  <2> QED BY <2>1, <2>2, ForwardMoves
<1>5. CASE InsertFails
  <2>0. UNCHANGED <<tip, ckpt, txRow, quarantined, raw>> BY <1>5 DEF InsertFails
  <2>1. CASE SessionEnds BY <2>0, <2>1, SessionDies
  <2>2. CASE ~SessionEnds
    <3>1. /\ pc \in {"insertTx", "insertChild"} /\ pc' = "insertTx"
          /\ UNCHANGED <<cursor, echo, blk, hashes, start, tornRewind>>
      BY <1>5, <2>2 DEF InsertFails
    <3>2. ForwardProgress' BY <2>0, <3>1 DEF IInv, ForwardProgress
    <3>3. RawBlocking => Parsed(blk) \subseteq raw' BY <2>0, <3>1 DEF IInv, RawFirst
    <3> QED BY <2>0, <3>1, <3>2, <3>3, ForwardMoves
  <2> QED BY <2>1, <2>2
<1> QED BY <1>1, <1>2, <1>3, <1>4, <1>5, NextForwardKeeps, InsertTxKeeps, SaveKeeps DEF ForwardStep

LEMMA BackwardKeeps ==
    ASSUME IInv, TypeOK', BackwardStep
    PROVE  IInv'
<1> USE DEF node, warehouse, operational, history, Backward
<1> DEFINE Still == UNCHANGED <<tip, cursor, echo, blk, ckpt, txRow, quarantined, raw, start, tornRewind>>
<1>1. CASE MarkRolledBack
  <2>1. /\ pc = "mark" /\ pc' = IF Cleanup THEN "purgeChild" ELSE "rewind"
        /\ Still
    BY <1>1 DEF MarkRolledBack
  <2> QED BY <2>1, BackwardMoves DEF PurgeList
<1>2. CASE PurgeChildren
  <2>1. /\ pc = "purgeChild" /\ hashes' = PastSlot(txRow, blk)
        /\ pc' = IF hashes' = {} THEN "rewind" ELSE "purgeScore"
        /\ Still
    BY <1>2 DEF PurgeChildren
  <2>2. PurgeList' BY <2>1 DEF PurgeList, PastSlot
  <2>3. Cleanup /\ pc' = "rewind" => OnBranch(blk)
    <3> SUFFICES ASSUME Cleanup, PastSlot(txRow, blk) = {} PROVE OnBranch(blk) BY <2>1
    <3>1. Separable(blk) BY <2>1 DEF IInv, RowPlaces
    <3> QED BY <3>1 DEF Separable, OnBranch, PastSlot
  <2> QED BY <2>1, <2>2, <2>3, BackwardMoves
<1>3. CASE PurgeScores
  <2>1. /\ pc = "purgeScore" /\ pc' = "purgeTx" /\ hashes' = hashes
        /\ Still
    BY <1>3 DEF PurgeScores
  <2>2. PurgeList' BY <2>1 DEF IInv, PurgeList, PastSlot
  <2> QED BY <2>1, <2>2, BackwardMoves
<1>4. CASE EnqueueRepurge
  <2>1. pc = "enqueue" /\ pc' = "cluster" /\ Still BY <1>4 DEF EnqueueRepurge
  <2>2. Cleanup => OnBranch(blk) BY <2>1 DEF IInv, RowPlaces
  <2> QED BY <2>1, <2>2, BackwardMoves DEF PurgeList
<1>5. CASE PurgeClustering
  <2>1. pc = "cluster" /\ pc' = "rewind" /\ Still BY <1>5 DEF PurgeClustering
  <2>2. Cleanup => OnBranch(blk) BY <2>1 DEF IInv, RowPlaces
  <2> QED BY <2>1, <2>2, BackwardMoves DEF PurgeList
<1> QED BY <1>1, <1>2, <1>3, <1>4, <1>5, NextBackwardKeeps, PurgeKeeps, RewindKeeps
    DEF BackwardStep

LEMMA OthersKeep ==
    ASSUME IInv, TypeOK', TaskStep \/ EngineStep \/ (\E t \in Tx : SidecarVerdict(t)) \/ Failure
    PROVE  IInv'
<1> USE DEF node, session, warehouse, operational, history
<1>1. CASE TaskStep
  <2>1. PICK k \in tasks : TaskDelete(k) \/ TaskClear(k) BY <1>1 DEF TaskStep
  <2> QED BY <2>1, Quiet DEF TaskDelete, TaskClear
<1>2. CASE EngineStep BY <1>2, Quiet DEF EngineStep, EnginePoll, EngineInsert
<1>3. CASE \E t \in Tx : SidecarVerdict(t) BY <1>3, Quiet DEF SidecarVerdict
<1>4. CASE StepRaises BY <1>4, SessionDies DEF StepRaises
<1>5. CASE Crash BY <1>5, SessionDies DEF Crash
<1>6. CASE EngineFails BY <1>6, Quiet DEF EngineFails
<1>7. CASE \E k \in tasks : TaskFails(k) BY <1>7, Quiet DEF TaskFails
<1> QED BY <1>1, <1>2, <1>3, <1>4, <1>5, <1>6, <1>7, ConnectKeeps, ForwardKeeps DEF Failure

LEMMA NextIInv == IInv /\ [Next]_vars => IInv'
<1> SUFFICES ASSUME IInv, [Next]_vars PROVE IInv' OBVIOUS
<1>0. TypeOK' BY NextTypes DEF IInv
<1>1. CASE UNCHANGED vars
  BY <1>0, <1>1, Quiet DEF vars, node, session, warehouse, operational, history
<1>2. CASE Next
  BY <1>0, <1>2, TipMoves, ConnectKeeps, ForwardKeeps, BackwardKeeps, OthersKeep
  DEF Next, ChainSyncStep
<1> QED BY <1>1, <1>2

LEMMA IInvAlways == Spec => []IInv
  BY InitIInv, NextIInv, PTL DEF Spec

-----------------------------------------------------------------------------
\* For every block tree and every placement of crashes, retries and rollbacks,
\* save_sync_point never moves the checkpoint past a block that
\* insert_transactions_batch has not made durable (unless a rollback died half way).
THEOREM CheckpointIsComplete == Spec => []CheckpointComplete
<1>1. IInv => CheckpointComplete
  BY DEF IInv, Completeness, Handled, CheckpointComplete, Rewinding
<1> QED BY <1>1, IInvAlways, PTL

\* delete_rolled_back_txs selects by slot alone, and that is enough on every tree:
\* between blocks no row of an abandoned branch is left, torn rollbacks included.
THEOREM NoOrphans == Spec => []NoOrphanRows
<1>1. IInv => NoOrphanRows
  BY DEF IInv, RowPlaces, OnBranch, NoOrphanRows
<1> QED BY <1>1, IInvAlways, PTL

\* _write_raw_payloads before insert_transactions_batch: a row the engine can see
\* has its blob in the raw store whenever the raw store is load-bearing.
THEOREM RawIsFirst == Spec => []RawBeforeRow
<1>1. IInv => RawBeforeRow
  BY DEF IInv, RawFirst, RawBeforeRow
<1> QED BY <1>1, IInvAlways, PTL

-----------------------------------------------------------------------------
(* Scores across rollbacks. *)

\* A row is always of a block that carries the transaction.
RowHome == \A t \in Tx : txRow[t] # NoBlock => t \in Txs[txRow[t]]

OwnRows == \A k \in tasks : k.own \subseteq k.h

AtEnqueue(t) == pc = "enqueue" /\ t \in hashes

\* Besides the cover of a stale score: a stale batch entry is inserted before the
\* task that wrote the row stops waiting for it, that task clears the row only
\* when no stale score is left, and so does the replay.
Guarded(t) ==
    /\ Stale(score, t) => Covered(t)
    /\ Stale(batch, t) =>
          AtEnqueue(t) \/ (t \in repurge /\ \A k \in tasks : t \in k.own => k.st = "flying")
    /\ \A k \in tasks : t \in k.own /\ k.st = "clear" => AtEnqueue(t) \/ ~Stale(score, t)
    /\ pc = "replayClear" /\ t \in hashes => ~Stale(score, t) /\ ~Stale(batch, t)

ScoreGuard == Cleanup /\ DelayCoversBatch => \A t \in Tx \ lostRepurge : Guarded(t)

ScoreInv == RowHome /\ OwnRows /\ ScoreGuard

LEMMA InitScoreInv == Init => ScoreInv
  BY DEF Init, ScoreInv, RowHome, OwnRows, ScoreGuard, Guarded, Stale, NoBatch

\* A step that touches no score, batch, row or repurge and does not leave "enqueue".
LEMMA ScoreQuiet ==
    ASSUME ScoreInv, UNCHANGED <<txRow, score, batch, tasks, repurge, lostRepurge>>,
           (pc # "enqueue" /\ pc' # "replayClear") \/ UNCHANGED <<pc, hashes>>
    PROVE  ScoreInv'
<1>1. RowHome' /\ OwnRows' BY DEF ScoreInv, RowHome, OwnRows
<1>2. ScoreGuard'
  <2> SUFFICES ASSUME Cleanup, DelayCoversBatch, NEW t \in Tx \ lostRepurge PROVE Guarded(t)'
    BY DEF ScoreGuard
  <2>1. Guarded(t) BY DEF ScoreInv, ScoreGuard
  <2>2. Stale(score, t)' = Stale(score, t) /\ Stale(batch, t)' = Stale(batch, t) BY DEF Stale
  <2> QED BY <2>1, <2>2 DEF Guarded, Covered, AtEnqueue
<1> QED BY <1>1, <1>2 DEF ScoreInv

LEMMA ScoreSessionEnds ==
    ASSUME ScoreInv, SessionEnds, UNCHANGED <<txRow, score, repurge>>,
           UNCHANGED <<tasks, batch>> \/ (tasks' = {} /\ batch' = NoBatch)
    PROVE  ScoreInv'
<1>1. pc' = "down" /\ lostRepurge' = lostRepurge \cup (IF pc = "enqueue" THEN hashes ELSE {})
  BY DEF SessionEnds
<1>2. RowHome' /\ OwnRows' BY DEF ScoreInv, RowHome, OwnRows
<1>3. ScoreGuard'
  <2> SUFFICES ASSUME Cleanup, DelayCoversBatch, NEW t \in Tx \ lostRepurge' PROVE Guarded(t)'
    BY DEF ScoreGuard
  <2>1. Guarded(t) /\ ~AtEnqueue(t) BY <1>1 DEF ScoreInv, ScoreGuard, AtEnqueue
  <2>2. Stale(score, t)' = Stale(score, t) /\ (Stale(batch, t)' => Stale(batch, t) /\ tasks' = tasks)
    BY DEF Stale, NoBatch
  <2> QED BY <1>1, <2>1, <2>2 DEF Guarded, Covered, AtEnqueue
<1> QED BY <1>2, <1>3 DEF ScoreInv

LEMMA ScoreReplayDelete ==
    ASSUME ScoreInv, TypeOK, ReplayDelete
    PROVE  ScoreInv'
<1>1. /\ pc = "replay" /\ hashes' = repurge /\ pc' \in {"intersect", "replayClear"}
      /\ score' = Put(score, repurge, NoBlock)
      /\ lostRepurge' = lostRepurge \cup {t \in repurge : Stale(batch, t)}
      /\ UNCHANGED <<txRow, batch, tasks, repurge>>
  BY DEF ReplayDelete, operational
<1>2. RowHome' /\ OwnRows' BY <1>1 DEF ScoreInv, RowHome, OwnRows
<1>3. ScoreGuard'
  <2> SUFFICES ASSUME Cleanup, DelayCoversBatch, NEW t \in Tx \ lostRepurge' PROVE Guarded(t)'
    BY DEF ScoreGuard
  <2>1. Guarded(t) /\ ~AtEnqueue(t) /\ (t \in repurge => ~Stale(batch, t))
    BY <1>1 DEF ScoreInv, ScoreGuard, AtEnqueue
  <2>2. Stale(batch, t)' = Stale(batch, t) BY <1>1 DEF Stale
  <2>3. Stale(score, t)' => Stale(score, t) /\ t \notin repurge BY <1>1 DEF Stale, Put
  <2> QED BY <1>1, <2>1, <2>2, <2>3 DEF Guarded, Covered, AtEnqueue
<1> QED BY <1>2, <1>3 DEF ScoreInv

LEMMA ScoreReplayClear ==
    ASSUME ScoreInv, ReplayClear
    PROVE  ScoreInv'
<1>1. /\ pc = "replayClear" /\ pc' = "intersect" /\ repurge' = repurge \ hashes
      /\ UNCHANGED <<txRow, score, batch, tasks, lostRepurge>>
  BY DEF ReplayClear, warehouse, history
<1>2. RowHome' /\ OwnRows' BY <1>1 DEF ScoreInv, RowHome, OwnRows
<1>3. ScoreGuard'
  <2> SUFFICES ASSUME Cleanup, DelayCoversBatch, NEW t \in Tx \ lostRepurge PROVE Guarded(t)'
    BY <1>1 DEF ScoreGuard
  <2>1. Guarded(t) /\ ~AtEnqueue(t) BY <1>1 DEF ScoreInv, ScoreGuard, AtEnqueue
  <2>2. Stale(score, t)' = Stale(score, t) /\ Stale(batch, t)' = Stale(batch, t)
    BY <1>1 DEF Stale
  <2> QED BY <1>1, <2>1, <2>2 DEF Guarded, Covered, AtEnqueue
<1> QED BY <1>2, <1>3 DEF ScoreInv

\* The inserted rows replace none of another block, so nothing turns stale.
LEMMA ScoreInsertTx ==
    ASSUME IInv, ScoreInv, InsertTx
    PROVE  ScoreInv'
<1>1. /\ pc = "insertTx" /\ pc' = "insertChild"
      /\ txRow' = [t \in Tx |-> IF t \in Parsed(blk) THEN blk ELSE txRow[t]]
      /\ UNCHANGED <<score, batch, tasks, repurge, lostRepurge>>
  BY DEF InsertTx, Put, operational, history
<1>2. blk \in Block /\ blk = cursor /\ blk \in Chain[blk]
  BY <1>1, ChainAssumption DEF IInv, Positions, TypeOK, Forward
<1>3. Parsed(blk) \subseteq Txs[blk] BY <1>2, ParsedTxs
<1>4. RowHome' BY <1>1, <1>3 DEF ScoreInv, RowHome
<1>5. OwnRows' BY <1>1 DEF ScoreInv, OwnRows
<1>6. ScoreGuard'
  <2> SUFFICES ASSUME Cleanup, DelayCoversBatch, NEW t \in Tx \ lostRepurge PROVE Guarded(t)'
    BY <1>1 DEF ScoreGuard
  <2>1. Guarded(t) /\ ~AtEnqueue(t) BY <1>1 DEF ScoreInv, ScoreGuard, AtEnqueue
  <2>2. t \in Parsed(blk) => txRow[t] \in {NoBlock, blk}
    <3> SUFFICES ASSUME t \in Parsed(blk), txRow[t] # NoBlock PROVE txRow[t] = blk OBVIOUS
    <3>1. txRow[t] \in Chain[blk]
      BY <1>1, <1>2 DEF IInv, RowPlaces, OnBranch, Forward
    <3>2. t \in Txs[txRow[t]] BY DEF ScoreInv, RowHome
    <3> QED BY <1>2, <1>3, <3>1, <3>2, ChainAssumption
  <2>3. (Stale(score, t)' => Stale(score, t)) /\ (Stale(batch, t)' => Stale(batch, t))
    BY <1>1, <2>2 DEF Stale
  <2> QED BY <1>1, <2>1, <2>3 DEF Guarded, Covered, AtEnqueue
<1> QED BY <1>4, <1>5, <1>6 DEF ScoreInv

LEMMA ScorePurges ==
    ASSUME ScoreInv, TypeOK, PurgeScores \/ PurgeTransactions
    PROVE  ScoreInv'
<1>1. /\ pc \in {"purgeScore", "purgeTx"} /\ pc' \in {"purgeTx", "enqueue"} /\ hashes' = hashes
      /\ UNCHANGED <<batch, tasks, repurge, lostRepurge>>
      /\ \/ score' = Put(score, hashes, NoBlock) /\ txRow' = txRow
         \/ score' = score /\ txRow' = Put(txRow, hashes, NoBlock) /\ pc' = "enqueue"
  BY DEF PurgeScores, PurgeTransactions, operational, history
<1>2. RowHome' BY <1>1 DEF ScoreInv, RowHome, Put
<1>3. OwnRows' BY <1>1 DEF ScoreInv, OwnRows
<1>4. ScoreGuard'
  <2> SUFFICES ASSUME Cleanup, DelayCoversBatch, NEW t \in Tx \ lostRepurge PROVE Guarded(t)'
    BY <1>1 DEF ScoreGuard
  <2>1. Guarded(t) /\ ~AtEnqueue(t) BY <1>1 DEF ScoreInv, ScoreGuard, AtEnqueue
  <2>2. ~AtEnqueue(t)' => (Stale(score, t)' => Stale(score, t)) /\ (Stale(batch, t)' => Stale(batch, t))
    BY <1>1 DEF Stale, Put, AtEnqueue
  <2> QED BY <1>1, <2>1, <2>2 DEF Guarded, Covered, AtEnqueue
<1> QED BY <1>2, <1>3, <1>4 DEF ScoreInv

LEMMA ScoreEnqueue ==
    ASSUME ScoreInv, TypeOK, EnqueueRepurge
    PROVE  ScoreInv'
<1> DEFINE new == [id |-> moves + faults, h |-> hashes, own |-> hashes,
                   st |-> IF batch = NoBatch THEN "due" ELSE "flying"]
<1>1. /\ pc = "enqueue" /\ pc' = "cluster" /\ repurge' = repurge \cup hashes
      /\ tasks' = {[k EXCEPT !.own = k.own \ hashes] : k \in tasks} \cup {new}
      /\ lostRepurge' = lostRepurge \ hashes
      /\ UNCHANGED <<txRow, score, batch>>
  BY DEF EnqueueRepurge, warehouse
<1>2. /\ new.own = hashes /\ new.h = hashes /\ new.st # "clear"
      /\ batch # NoBatch => new.st = "flying"
  OBVIOUS
<1>3. \A j \in tasks' : j = new \/ \E k \in tasks : j.own = k.own \ hashes /\ j.st = k.st /\ j.h = k.h
  <2> SUFFICES ASSUME NEW k \in tasks
               PROVE  LET j == [k EXCEPT !.own = k.own \ hashes]
                      IN  j.own = k.own \ hashes /\ j.st = k.st /\ j.h = k.h
    BY <1>1
  <2>1. k \in Task BY DEF TypeOK
  <2> QED BY <2>1 DEF Task
<1> HIDE DEF new
<1>4. RowHome' BY <1>1 DEF ScoreInv, RowHome
<1>5. OwnRows' BY <1>2, <1>3 DEF ScoreInv, OwnRows
<1>6. ScoreGuard'
  <2> SUFFICES ASSUME Cleanup, DelayCoversBatch, NEW t \in Tx \ lostRepurge' PROVE Guarded(t)'
    BY <1>1 DEF ScoreGuard
  <2>1. t \notin hashes => Guarded(t) BY <1>1 DEF ScoreInv, ScoreGuard
  <2>2. Stale(score, t)' = Stale(score, t) /\ Stale(batch, t)' = Stale(batch, t)
    BY <1>1 DEF Stale
  <2>3. Stale(batch, t) => batch # NoBatch BY DEF Stale, NoBatch
  <2>4. CASE t \in hashes
    <3>1. \A j \in tasks' : t \in j.own => j = new BY <1>3, <2>4
    <3> QED BY <1>1, <1>2, <2>2, <2>3, <2>4, <3>1 DEF Guarded, Covered
  <2>5. CASE t \notin hashes
    <3>1. \A j \in tasks' : t \in j.own => \E k \in tasks : t \in k.own /\ j.st = k.st
      BY <1>2, <1>3, <2>5
    <3> QED BY <1>1, <2>1, <2>2, <2>5, <3>1 DEF Guarded, Covered, AtEnqueue
  <2> QED BY <2>4, <2>5
<1> QED BY <1>4, <1>5, <1>6 DEF ScoreInv

LEMMA ScoreTasks ==
    ASSUME ScoreInv, TypeOK, NEW k \in tasks, TaskDelete(k) \/ TaskClear(k) \/ TaskFails(k)
    PROVE  ScoreInv'
<1>1. UNCHANGED <<txRow, batch, pc, hashes>>
  BY DEF TaskDelete, TaskClear, TaskFails, session, warehouse
<1>2. RowHome' BY <1>1 DEF ScoreInv, RowHome
<1>3. k \in Task /\ k.own \subseteq k.h BY DEF TypeOK, ScoreInv, OwnRows
<1>4. CASE TaskDelete(k)
  <2> DEFINE next == [k EXCEPT !.st = "clear"]
  <2>1. next.own = k.own /\ next.h = k.h /\ next.st = "clear" BY <1>3 DEF Task
  <2>2. /\ tasks' = (tasks \ {k}) \cup {next} /\ score' = Put(score, k.h, NoBlock)
        /\ UNCHANGED <<repurge, lostRepurge>>
        /\ DelayCoversBatch => k.st = "due"
    BY <1>4 DEF TaskDelete, operational, history
  <2> HIDE DEF next
  <2>3. OwnRows' BY <1>3, <2>1, <2>2 DEF ScoreInv, OwnRows
  <2>4. ScoreGuard'
    <3> SUFFICES ASSUME Cleanup, DelayCoversBatch, NEW t \in Tx \ lostRepurge PROVE Guarded(t)'
      BY <2>2 DEF ScoreGuard
    <3>1. Guarded(t) BY DEF ScoreInv, ScoreGuard
    <3>2. /\ Stale(batch, t)' = Stale(batch, t)
          /\ Stale(score, t)' => Stale(score, t) /\ t \notin k.h
      BY <1>1, <2>2 DEF Stale, Put
    <3>3. t \in k.own /\ Stale(batch, t) => AtEnqueue(t) BY <2>2, <3>1 DEF Guarded
    <3> QED BY <1>1, <1>3, <2>1, <2>2, <3>1, <3>2, <3>3 DEF Guarded, Covered, AtEnqueue
  <2> QED BY <1>2, <2>3, <2>4 DEF ScoreInv
<1>5. CASE TaskClear(k)
  <2>1. /\ tasks' = tasks \ {k} /\ score' = score /\ repurge' = repurge \ k.h
        /\ lostRepurge' = lostRepurge \cup (k.h \ k.own) /\ k.st = "clear"
    BY <1>5 DEF TaskClear, warehouse
  <2>2. OwnRows' BY <2>1 DEF ScoreInv, OwnRows
  <2>3. ScoreGuard'
    <3> SUFFICES ASSUME Cleanup, DelayCoversBatch, NEW t \in Tx \ lostRepurge' PROVE Guarded(t)'
      BY DEF ScoreGuard
    <3>1. Guarded(t) /\ (t \in k.h => t \in k.own) BY <2>1 DEF ScoreInv, ScoreGuard
    <3>2. Stale(batch, t)' = Stale(batch, t) /\ Stale(score, t)' = Stale(score, t)
      BY <1>1, <2>1 DEF Stale
    <3>3. t \in k.own => AtEnqueue(t) \/ (~Stale(score, t) /\ ~Stale(batch, t))
      BY <2>1, <3>1 DEF Guarded
    <3> QED BY <1>1, <2>1, <3>1, <3>2, <3>3 DEF Guarded, Covered, AtEnqueue
  <2> QED BY <1>2, <2>2, <2>3 DEF ScoreInv
<1>6. CASE TaskFails(k)
  <2>1. tasks' = tasks \ {k} /\ UNCHANGED <<score, repurge, lostRepurge>>
    BY <1>6 DEF TaskFails, warehouse, operational, history
  <2>2. OwnRows' BY <2>1 DEF ScoreInv, OwnRows
  <2>3. ScoreGuard'
    <3> SUFFICES ASSUME Cleanup, DelayCoversBatch, NEW t \in Tx \ lostRepurge PROVE Guarded(t)'
      BY <2>1 DEF ScoreGuard
    <3>1. Guarded(t) BY DEF ScoreInv, ScoreGuard
    <3>2. Stale(batch, t)' = Stale(batch, t) /\ Stale(score, t)' = Stale(score, t)
      BY <1>1, <2>1 DEF Stale
    <3> QED BY <1>1, <2>1, <3>1, <3>2 DEF Guarded, Covered, AtEnqueue
  <2> QED BY <1>2, <2>2, <2>3 DEF ScoreInv
<1> QED BY <1>4, <1>5, <1>6

LEMMA ScoreEngine ==
    ASSUME ScoreInv, TypeOK, EnginePoll \/ EngineInsert \/ EngineFails
    PROVE  ScoreInv'
<1>1. UNCHANGED <<txRow, pc, hashes, repurge, lostRepurge>>
  BY DEF EnginePoll, EngineInsert, EngineFails, session, warehouse, operational, history
<1>2. RowHome' BY <1>1 DEF ScoreInv, RowHome
<1>3. CASE EnginePoll
  <2>1. UNCHANGED <<tasks, score>> BY <1>3 DEF EnginePoll, warehouse
  <2>2. PICK S \in SUBSET Unanalyzed :
           batch' = [t \in Tx |-> IF t \in S THEN txRow[t] ELSE NoBlock]
    BY <1>3 DEF EnginePoll
  <2>3. \A t \in Tx : ~Stale(batch, t)' BY <1>1, <2>2 DEF Stale
  <2>4. \A t \in Tx : Stale(score, t)' = Stale(score, t) BY <1>1, <2>1 DEF Stale
  <2>5. OwnRows' BY <2>1 DEF ScoreInv, OwnRows
  <2>6. ScoreGuard'
    BY <1>1, <2>1, <2>3, <2>4 DEF ScoreInv, ScoreGuard, Guarded, Covered, AtEnqueue
  <2> QED BY <1>2, <2>5, <2>6 DEF ScoreInv
<1>4. CASE EngineInsert \/ EngineFails
  <2>1. /\ batch' = NoBatch
        /\ \A t \in Tx : score'[t] = score[t] \/ (batch[t] # NoBlock /\ score'[t] = batch[t])
        /\ BatchEnds
    BY <1>4 DEF EngineInsert, EngineFails, warehouse
  <2>2. \A j \in tasks' : \E k \in tasks : j.own = k.own /\ j.h = k.h /\ (j.st = "clear" => k.st = "clear")
    <3> SUFFICES ASSUME NEW k \in tasks
                 PROVE  LET j == IF k.st = "flying" THEN [k EXCEPT !.st = "due"] ELSE k
                        IN  j.own = k.own /\ j.h = k.h /\ (j.st = "clear" => k.st = "clear")
      BY <2>1 DEF BatchEnds
    <3>1. k \in Task BY DEF TypeOK
    <3> QED BY <3>1 DEF Task
  <2>3. OwnRows' BY <2>2 DEF ScoreInv, OwnRows
  <2>4. ScoreGuard'
    <3> SUFFICES ASSUME Cleanup, DelayCoversBatch, NEW t \in Tx \ lostRepurge PROVE Guarded(t)'
      BY <1>1 DEF ScoreGuard
    <3>1. Guarded(t) BY DEF ScoreInv, ScoreGuard
    <3>2. ~Stale(batch, t)' BY <2>1 DEF Stale, NoBatch
    <3>3. Stale(score, t)' => Stale(score, t) \/ Stale(batch, t) BY <1>1, <2>1 DEF Stale
    <3>4. Stale(score, t)' => Covered(t)' BY <1>1, <3>1, <3>3 DEF Guarded, Covered, AtEnqueue
    <3>5. ASSUME NEW j \in tasks', t \in j.own, j.st = "clear"
          PROVE  AtEnqueue(t)' \/ ~Stale(score, t)'
      <4>1. PICK k \in tasks : t \in k.own /\ k.st = "clear" BY <2>2, <3>5
      <4> QED BY <1>1, <3>1, <3>3, <4>1 DEF Guarded, AtEnqueue
    <3> QED BY <1>1, <3>1, <3>2, <3>3, <3>4, <3>5 DEF Guarded
  <2> QED BY <1>2, <2>3, <2>4 DEF ScoreInv
<1> QED BY <1>3, <1>4

LEMMA NextScoreInv == IInv /\ ScoreInv /\ [Next]_vars => ScoreInv'
<1> SUFFICES ASSUME IInv, ScoreInv, [Next]_vars PROVE ScoreInv' OBVIOUS
<1>0. TypeOK BY DEF IInv
<1>1. CASE UNCHANGED vars \/ (\E b \in Block : NodeAdopts(b)) \/ (\E t \in Tx : SidecarVerdict(t))
  <2>1. UNCHANGED <<txRow, score, batch, tasks, repurge, lostRepurge, pc, hashes>>
    BY <1>1 DEF vars, NodeAdopts, SidecarVerdict, session, warehouse, operational, history
  <2> QED BY <2>1, ScoreQuiet
<1>2. CASE ConnectStep
  <2>1. CASE ReplayDelete \/ ReplayClear BY <1>0, <2>1, ScoreReplayDelete, ScoreReplayClear
  <2>2. CASE Connect \/ FirstOrigin \/ FirstTip \/ (Resume /\ ~SessionEnds)
    <3>1. /\ UNCHANGED <<txRow, score, batch, tasks, repurge, lostRepurge>>
          /\ pc # "enqueue" /\ pc' # "replayClear"
      BY <2>2 DEF Connect, FirstOrigin, FirstTip, Resume, warehouse, operational, history
    <3> QED BY <3>1, ScoreQuiet
  <2>3. CASE Resume /\ SessionEnds
    <3>1. UNCHANGED <<txRow, score, repurge, tasks, batch>>
      BY <2>3 DEF Resume, warehouse, operational
    <3> QED BY <2>3, <3>1, ScoreSessionEnds
  <2> QED BY <1>2, <2>1, <2>2, <2>3 DEF ConnectStep
<1>3. CASE ForwardStep
  <2>1. CASE InsertTx BY <2>1, ScoreInsertTx
  <2>2. CASE ~InsertTx
    <3>1. /\ UNCHANGED <<txRow, score, batch, tasks, repurge, lostRepurge>>
          /\ pc # "enqueue" /\ pc' # "replayClear"
      BY <1>3, <2>2 DEF ForwardStep, NextForward, Dispatch, Quarantine, WriteRaw, InsertChild,
         UpsertLifecycle, SaveSyncPoint, warehouse, operational, history
    <3> QED BY <3>1, ScoreQuiet
  <2> QED BY <2>1, <2>2
<1>4. CASE BackwardStep
  <2>1. CASE PurgeScores \/ PurgeTransactions BY <1>0, <2>1, ScorePurges
  <2>2. CASE EnqueueRepurge BY <1>0, <2>2, ScoreEnqueue
  <2>3. CASE NextBackward \/ MarkRolledBack \/ PurgeChildren \/ PurgeClustering \/ RewindSyncPoint
    <3>1. /\ UNCHANGED <<txRow, score, batch, tasks, repurge, lostRepurge>>
          /\ pc # "enqueue" /\ pc' # "replayClear"
      BY <2>3 DEF NextBackward, MarkRolledBack, PurgeChildren, PurgeClustering, RewindSyncPoint,
         warehouse, operational, history
    <3> QED BY <3>1, ScoreQuiet
  <2> QED BY <1>4, <2>1, <2>2, <2>3 DEF BackwardStep
<1>5. CASE TaskStep BY <1>0, <1>5, ScoreTasks DEF TaskStep
<1>6. CASE EngineStep BY <1>0, <1>6, ScoreEngine DEF EngineStep
<1>7. CASE Failure
  <2>1. CASE ReplayFails
    <3>1. /\ UNCHANGED <<txRow, score, batch, tasks, repurge, lostRepurge>>
          /\ pc # "enqueue" /\ pc' # "replayClear"
      BY <2>1 DEF ReplayFails, warehouse, operational, history
    <3> QED BY <3>1, ScoreQuiet
  <2>2. CASE InsertFails /\ ~SessionEnds
    <3>1. /\ UNCHANGED <<txRow, score, batch, tasks, repurge, lostRepurge>>
          /\ pc # "enqueue" /\ pc' # "replayClear"
      BY <2>2 DEF InsertFails, warehouse, operational, history
    <3> QED BY <3>1, ScoreQuiet
  <2>3. CASE (InsertFails \/ StepRaises \/ Crash) /\ SessionEnds
    <3>1. /\ UNCHANGED <<txRow, score, repurge>>
          /\ UNCHANGED <<tasks, batch>> \/ (tasks' = {} /\ batch' = NoBatch)
      BY <2>3 DEF InsertFails, StepRaises, Crash, warehouse, operational
    <3> QED BY <2>3, <3>1, ScoreSessionEnds
  <2>4. CASE EngineFails BY <1>0, <2>4, ScoreEngine
  <2>5. CASE \E k \in tasks : TaskFails(k) BY <1>0, <2>5, ScoreTasks
  <2>6. StepRaises \/ Crash => SessionEnds BY DEF StepRaises, Crash
  <2> QED BY <1>7, <2>1, <2>2, <2>3, <2>4, <2>5, <2>6 DEF Failure
<1> QED BY <1>1, <1>2, <1>3, <1>4, <1>5, <1>6, <1>7 DEF Next, ChainSyncStep

\* A score left behind by a rollback (the engine's batch was read before
\* delete_rolled_back_txs and inserted after it) is named by a persisted repurge
\* until it is deleted, across crashes, reconnects, replays and any number of
\* rollbacks, except where the code loses the row: see lostRepurge.
THEOREM StaleScoresCovered == Spec => []StaleScoreCovered
<1>1. ScoreInv => StaleScoreCovered
  BY DEF ScoreInv, ScoreGuard, Guarded, StaleScoreCovered
<1>2. Init => ScoreInv BY InitScoreInv
<1>3. IInv /\ ScoreInv /\ [Next]_vars => ScoreInv' BY NextScoreInv
<1> QED BY <1>1, <1>2, <1>3, IInvAlways, PTL DEF Spec
=============================================================================
