--------------------------- MODULE AnalysisProofs ---------------------------
(***************************************************************************)
(* Proofs about the analysis: Engine, for any set of transactions and      *)
(* workers and for every value of the settings (type correctness, the      *)
(* paced raw-data budget, and, with an unbounded rescan, that the          *)
(* watermark never passes over a row that no pass has looked at), and      *)
(* CycleSearch, for any transactions, limits and index.                    *)
(***************************************************************************)
EXTENDS Engine, CycleSearch, DataLemmas

\* Type correctness is inductive.
LEMMA TypeInductive == TypeOK /\ [Next]_vars => TypeOK'
<1>. SUFFICES ASSUME TypeOK, [Next]_vars PROVE TypeOK'
  OBVIOUS
<1>. USE EngineAssumption DEF TypeOK, tables, cursors, budgets, passes, history, Fault, Zero
<1>1. CASE Tick BY <1>1 DEF Tick
<1>2. CASE \E t \in Tx : Parse(t) BY <1>2 DEF Parse
<1>3. CASE \E t \in Tx : BecomeVisible(t) BY <1>3 DEF BecomeVisible
<1>4. CASE RescanIntervalOver BY <1>4 DEF RescanIntervalOver
<1>5. CASE \E t \in Tx : RawWindowOver(t) BY <1>5 DEF RawWindowOver
<1>6. CASE \E t \in Tx : DeferWindowOver(t) BY <1>6 DEF DeferWindowOver
<1>7. CASE \E w \in Worker : StartTask(w) BY <1>7 DEF StartTask
<1>8. CASE StopTask BY <1>8 DEF StopTask
<1>9. CASE Restart BY <1>9 DEF Restart
<1>10. ASSUME NEW w \in Worker, Poll(w) PROVE TypeOK'
  <2>1. PICK rows \in SUBSET Tx :
          /\ fetched' = [fetched EXCEPT ![w] = rows]
          /\ IF rows = {}
             THEN UNCHANGED <<pc, full>>
             ELSE pc' = [pc EXCEPT ![w] = "resolve"] /\ full' = [full EXCEPT ![w] = rescanDue]
          /\ rescanDue' = IF rows = {} THEN FALSE ELSE rescanDue
    BY <1>10 DEF Poll, Fetch
  <2>2. pc' \in [Worker -> {"idle", "resolve", "score", "insert"}] /\ full' \in [Worker -> BOOLEAN]
    BY <2>1
  <2>3. rescanDue' \in BOOLEAN
    BY <2>1
  <2>4. fetched' \in [Worker -> SUBSET Tx]
    BY <2>1
  <2> QED BY <1>10, <2>2, <2>3, <2>4 DEF Poll
<1>11. ASSUME NEW w \in Worker, PollFails(w) PROVE TypeOK'
  <2>1. rescanDue' \in BOOLEAN
    BY <1>11 DEF PollFails
  <2>2. /\ fetched' \in [Worker -> SUBSET Tx]
        /\ pc' \in [Worker -> {"idle", "resolve", "score", "insert"}]
    <3>1. \/ UNCHANGED <<fetched, pc>>
          \/ \E rows \in SUBSET Tx : /\ fetched' = [fetched EXCEPT ![w] = rows]
                                      /\ pc' = [pc EXCEPT ![w] = "resolve"]
      BY <1>11, Zenon DEF PollFails
    <3> QED BY <3>1
  <2> QED BY <1>11, <2>1, <2>2 DEF PollFails
<1>12. ASSUME NEW w \in Worker, ResolveRawData(w) PROVE TypeOK'
  <2>1. PICK missing \in SUBSET (fetched[w] \cap Truncated) :
         LET count == {t \in missing : ~RawInWindow(t)}
             spent == {t \in count : RawSpent(t)}
             wait  == missing \ spent
             rows  == fetched[w] \ wait
         IN  /\ rawTries' = [t \in Tx |->
                    IF t \in spent \/ t \in (fetched[w] \cap Truncated) \ missing THEN 0
                    ELSE IF t \in count THEN rawTries[t] + 1 ELSE rawTries[t]]
             /\ rawPaced' = (rawPaced \ (fetched[w] \cap Truncated)) \cup wait
             /\ deferred' = deferred \cup wait
             /\ IF rows = {}
                THEN Finish(w) /\ ArmIfFull(w)
                ELSE /\ pc' = [pc EXCEPT ![w] = "score"]
                     /\ kept' = [kept EXCEPT ![w] = rows]
                     /\ UNCHANGED <<full, fetched, rescanDue>>
    BY <1>12 DEF ResolveRawData, MissingPayloads
  <2>2. rawTries' \in [Tx -> 0 .. RawAttempts - 1]
    BY <2>1 DEF RawSpent
  <2>3. rescanDue' \in BOOLEAN
    <3>1. ArmIfFull(w) \/ rescanDue' = rescanDue
      BY <2>1, Zenon DEF cursors
    <3> QED BY <3>1 DEF ArmIfFull
  <2>4. /\ rawPaced' \subseteq Tx /\ deferred' \subseteq Tx
    BY <2>1
  <2>6. /\ pc' \in [Worker -> {"idle", "resolve", "score", "insert"}]
        /\ full' \in [Worker -> BOOLEAN]
        /\ fetched' \in [Worker -> SUBSET Tx] /\ kept' \in [Worker -> SUBSET Tx]
    <3>1. \/ Finish(w)
          \/ /\ pc' = [pc EXCEPT ![w] = "score"]
             /\ \E rows \in SUBSET Tx : kept' = [kept EXCEPT ![w] = rows]
             /\ UNCHANGED <<full, fetched>>
      <4>1. fetched[w] \subseteq Tx /\ kept[w] \subseteq Tx
        OBVIOUS
      <4> QED BY <2>1, <4>1
    <3>2. CASE Finish(w)
      BY <3>2 DEF Finish
    <3> QED BY <3>1, <3>2
  <2> QED BY <1>12, <2>2, <2>3, <2>4, <2>6 DEF ResolveRawData
<1>13. ASSUME NEW w \in Worker, ScoreRows(w) PROVE TypeOK'
  <2>1. PICK failing \in SUBSET kept[w] :
         LET count == {t \in failing : ~DeferInWindow(t)}
             spent == {t \in count : DeferSpent(t)}
             wait  == IF DeferEnabled THEN failing \ spent ELSE {}
             rows  == kept[w] \ wait
         IN  /\ IF DeferEnabled
                THEN /\ defTries' = [t \in Tx |->
                            IF t \in spent \/ t \in kept[w] \ failing THEN 0
                            ELSE IF t \in count THEN defTries[t] + 1 ELSE defTries[t]]
                     /\ defPaced' = (defPaced \ kept[w]) \cup wait
                ELSE UNCHANGED <<defTries, defPaced>>
             /\ deferred' = deferred \cup wait
             /\ IF rows = {}
                THEN Finish(w) /\ ArmIfFull(w) /\ AdvanceWatermark(w)
                ELSE /\ pc' = [pc EXCEPT ![w] = "insert"]
                     /\ kept' = [kept EXCEPT ![w] = rows]
                     /\ UNCHANGED <<full, fetched, cursors>>
    BY <1>13 DEF ScoreRows, IncompleteRows
  <2>2. defTries' \in [Tx -> 0 .. DeferAttempts - 1]
    BY <2>1 DEF DeferSpent
  <2>3. rescanDue' \in BOOLEAN
    <3>1. ArmIfFull(w) \/ rescanDue' = rescanDue
      BY <2>1, Zenon DEF cursors
    <3> QED BY <3>1 DEF ArmIfFull
  <2>4. watermark' \in Nat
    BY <2>1 DEF AdvanceWatermark
  <2>5. /\ defPaced' \subseteq Tx /\ deferred' \subseteq Tx
    BY <2>1
  <2>6. /\ pc' \in [Worker -> {"idle", "resolve", "score", "insert"}]
        /\ full' \in [Worker -> BOOLEAN]
        /\ fetched' \in [Worker -> SUBSET Tx] /\ kept' \in [Worker -> SUBSET Tx]
    <3>1. \/ Finish(w)
          \/ /\ pc' = [pc EXCEPT ![w] = "insert"]
             /\ \E rows \in SUBSET Tx : kept' = [kept EXCEPT ![w] = rows]
             /\ UNCHANGED <<full, fetched>>
      <4>1. fetched[w] \subseteq Tx /\ kept[w] \subseteq Tx
        OBVIOUS
      <4> QED BY <2>1, <4>1
    <3>2. CASE Finish(w)
      BY <3>2 DEF Finish
    <3> QED BY <3>1, <3>2
  <2> QED BY <1>13, <2>2, <2>3, <2>4, <2>5, <2>6 DEF ScoreRows
<1>14. ASSUME NEW w \in Worker, InsertScores(w) PROVE TypeOK'
  <2>1. rescanDue' \in BOOLEAN
    BY <1>14 DEF InsertScores, ArmIfFull
  <2>2. watermark' \in Nat
    BY <1>14 DEF InsertScores, AdvanceWatermark
  <2> QED BY <1>14, <2>1, <2>2 DEF InsertScores, Finish
<1>15. ASSUME NEW w \in Worker, InsertFails(w) PROVE TypeOK'
  BY <1>15 DEF InsertFails, Finish
<1>16. CASE UNCHANGED vars BY <1>16 DEF vars
<1> QED
  BY <1>1, <1>2, <1>3, <1>4, <1>5, <1>6, <1>7, <1>8, <1>9, <1>10, <1>11, <1>12, <1>13,
     <1>14, <1>15, <1>16 DEF Next

\* Type correctness: every state the engine can reach is well typed, and in
\* particular a counted attempt never reaches its budget.
THEOREM TypeCorrect == Spec => []TypeOK
<1>1. Init => TypeOK
  BY EngineAssumption DEF Init, TypeOK, Zero
<1> QED BY <1>1, TypeInductive, PTL DEF Spec

-----------------------------------------------------------------------------
(* The paced budget.                                                       *)

\* Every counted attempt but the one whose window is still open has been paid
\* for with a gap; a lost row that is past the raw-data step has paid in full.
BudgetInv ==
    /\ \A t \in Tx : rawTries[t] <= gaps[t] + (IF t \in rawPaced THEN 1 ELSE 0)
    /\ \A w \in Worker : pc[w] \in {"score", "insert"} =>
          \A t \in kept[w] \cap Lost : gaps[t] >= RawAttempts - 1
    /\ BudgetIsPaced

\* ResolveRawData keeps the budget invariant: a lost row stays in the batch only
\* when its attempts, none of them inside a window, have reached the budget.
LEMMA BudgetResolve ==
    ASSUME TypeOK, BudgetInv, NEW w \in Worker, ResolveRawData(w)
    PROVE  BudgetInv'
<1>. USE EngineAssumption DEF TypeOK
<1>1. PICK missing \in SUBSET (fetched[w] \cap Truncated) :
         LET count == {t \in missing : ~RawInWindow(t)}
             spent == {t \in count : RawSpent(t)}
             wait  == missing \ spent
             rows  == fetched[w] \ wait
         IN  /\ fetched[w] \cap Lost \subseteq missing
             /\ rawTries' = [t \in Tx |->
                    IF t \in spent \/ t \in (fetched[w] \cap Truncated) \ missing THEN 0
                    ELSE IF t \in count THEN rawTries[t] + 1 ELSE rawTries[t]]
             /\ rawPaced' = (rawPaced \ (fetched[w] \cap Truncated)) \cup wait
             /\ deferred' = deferred \cup wait
             /\ IF rows = {}
                THEN Finish(w) /\ ArmIfFull(w)
                ELSE /\ pc' = [pc EXCEPT ![w] = "score"]
                     /\ kept' = [kept EXCEPT ![w] = rows]
                     /\ UNCHANGED <<full, fetched, rescanDue>>
  BY DEF ResolveRawData, MissingPayloads
<1>2. UNCHANGED <<scored, gaps>>
  BY DEF ResolveRawData, tables
<1>. DEFINE spent == {t \in missing : ~RawInWindow(t) /\ RawSpent(t)}
            wait == missing \ spent
<1>3. \A t \in spent : gaps[t] >= RawAttempts - 1
  BY DEF BudgetInv, RawInWindow, RawSpent
<1>4. \A t \in Tx : rawTries'[t] <= gaps[t] + (IF t \in rawPaced' THEN 1 ELSE 0)
  <2>. SUFFICES ASSUME NEW t \in Tx
               PROVE  rawTries'[t] <= gaps[t] + (IF t \in rawPaced' THEN 1 ELSE 0)
    OBVIOUS
  <2>1. CASE t \in wait
    <3>1. t \in rawPaced'
      BY <1>1, <2>1
    <3>2. rawTries'[t] <= gaps[t] + 1
      BY <1>1, <2>1 DEF BudgetInv, RawInWindow
    <3> QED BY <3>1, <3>2
  <2>2. CASE t \in (fetched[w] \cap Truncated) \ wait
    <3>1. rawTries'[t] = 0
      BY <1>1, <2>2
    <3> QED BY <3>1
  <2>3. CASE t \notin fetched[w] \cap Truncated
    <3>1. rawTries'[t] = rawTries[t] /\ (t \in rawPaced' <=> t \in rawPaced)
      BY <1>1, <2>3
    <3> QED BY <3>1 DEF BudgetInv
  <2> QED BY <2>1, <2>2, <2>3
<1>5. ASSUME NEW v \in Worker, pc'[v] \in {"score", "insert"}, NEW t \in kept'[v] \cap Lost
      PROVE  gaps[t] >= RawAttempts - 1
  <2>1. CASE v # w
    <3>1. pc'[v] = pc[v] /\ kept'[v] = kept[v]
      BY <1>1, <2>1 DEF Finish
    <3> QED BY <1>5, <3>1 DEF BudgetInv
  <2>2. CASE v = w
    <3>1. kept'[w] = fetched[w] \ wait
      BY <1>1, <1>5, <2>2 DEF Finish
    <3>2. t \in spent
      BY <1>1, <1>5, <2>2, <3>1
    <3> QED BY <1>3, <3>2
  <2> QED BY <2>1, <2>2
<1> QED BY <1>2, <1>4, <1>5 DEF BudgetInv, BudgetIsPaced

\* The budget invariant is inductive.
LEMMA BudgetInductive == TypeOK /\ BudgetInv /\ [Next]_vars => BudgetInv'
<1>. SUFFICES ASSUME TypeOK, BudgetInv, [Next]_vars PROVE BudgetInv'
  OBVIOUS
<1>. USE EngineAssumption DEF tables, cursors, budgets, passes, history, Fault
<1>1. CASE Tick BY <1>1 DEF Tick, BudgetInv, BudgetIsPaced
<1>2. CASE \E t \in Tx : Parse(t) BY <1>2 DEF Parse, BudgetInv, BudgetIsPaced
<1>3. CASE \E t \in Tx : BecomeVisible(t) BY <1>3 DEF BecomeVisible, BudgetInv, BudgetIsPaced
<1>4. CASE RescanIntervalOver BY <1>4 DEF RescanIntervalOver, BudgetInv, BudgetIsPaced
<1>5. ASSUME NEW t \in Tx, RawWindowOver(t) PROVE BudgetInv'
  <2>1. /\ gaps' = [gaps EXCEPT ![t] = IF @ < RawAttempts - 1 THEN @ + 1 ELSE @]
        /\ rawPaced' = rawPaced \ {t}
        /\ UNCHANGED <<rawTries, pc, kept, scored>>
    BY <1>5 DEF RawWindowOver
  <2>2. \A x \in Tx : gaps'[x] >= gaps[x] /\ gaps'[x] \in Nat
    BY <2>1 DEF TypeOK
  <2>3. \A x \in Tx : rawTries'[x] <= gaps'[x] + (IF x \in rawPaced' THEN 1 ELSE 0)
    BY <2>1, <2>2 DEF TypeOK, BudgetInv
  <2> QED BY <2>1, <2>2, <2>3 DEF TypeOK, BudgetInv, BudgetIsPaced
<1>6. CASE \E t \in Tx : DeferWindowOver(t) BY <1>6 DEF DeferWindowOver, BudgetInv, BudgetIsPaced
<1>7. CASE \E w \in Worker : StartTask(w) BY <1>7 DEF StartTask, BudgetInv, BudgetIsPaced
<1>8. CASE StopTask BY <1>8 DEF StopTask, BudgetInv, BudgetIsPaced
<1>9. CASE Restart BY <1>9 DEF Restart, BudgetInv, BudgetIsPaced, TypeOK, Zero
<1>10. ASSUME NEW w \in Worker, Poll(w) PROVE BudgetInv'
  <2>1. UNCHANGED <<rawTries, rawPaced, gaps, scored, kept>>
    BY <1>10 DEF Poll
  <2>2. pc' = pc \/ pc' = [pc EXCEPT ![w] = "resolve"]
    BY <1>10 DEF Poll, Fetch
  <2> QED BY <2>1, <2>2 DEF BudgetInv, BudgetIsPaced, TypeOK
<1>11. ASSUME NEW w \in Worker, PollFails(w) PROVE BudgetInv'
  <2>1. UNCHANGED <<rawTries, rawPaced, gaps, scored, kept>>
    BY <1>11 DEF PollFails
  <2>2. pc' = pc \/ pc' = [pc EXCEPT ![w] = "resolve"]
    BY <1>11, Zenon DEF PollFails
  <2> QED BY <2>1, <2>2 DEF BudgetInv, BudgetIsPaced, TypeOK
<1>12. ASSUME NEW w \in Worker, ResolveRawData(w) PROVE BudgetInv'
  BY <1>12, BudgetResolve
<1>13. ASSUME NEW w \in Worker, ScoreRows(w) PROVE BudgetInv'
  <2>1. pc[w] = "score" /\ UNCHANGED <<rawTries, rawPaced, gaps, scored>>
    BY <1>13 DEF ScoreRows, IncompleteRows
  <2>2. \/ Finish(w)
        \/ /\ pc' = [pc EXCEPT ![w] = "insert"]
           /\ \E rows \in SUBSET kept[w] : kept' = [kept EXCEPT ![w] = rows]
    BY <1>13 DEF ScoreRows, IncompleteRows
  <2> QED BY <2>1, <2>2 DEF BudgetInv, BudgetIsPaced, TypeOK, Finish
<1>14. ASSUME NEW w \in Worker, InsertScores(w) PROVE BudgetInv'
  BY <1>14 DEF InsertScores, Finish, BudgetInv, BudgetIsPaced, TypeOK
<1>15. ASSUME NEW w \in Worker, InsertFails(w) PROVE BudgetInv'
  BY <1>15 DEF InsertFails, Finish, BudgetInv, BudgetIsPaced, TypeOK
<1>16. CASE UNCHANGED vars BY <1>16 DEF vars, BudgetInv, BudgetIsPaced
<1> QED
  BY <1>1, <1>2, <1>3, <1>4, <1>5, <1>6, <1>7, <1>8, <1>9, <1>10, <1>11, <1>12, <1>13,
     <1>14, <1>15, <1>16 DEF Next

\* A row whose blob is gone is never scored without it before the whole paced
\* retry budget has passed, however many passes overlap and whatever fails.
THEOREM BudgetPaced == Spec => []BudgetIsPaced
<1>1. Init => BudgetInv
  BY EngineAssumption DEF Init, BudgetInv, BudgetIsPaced, Zero
<1>2. BudgetInv => BudgetIsPaced
  BY DEF BudgetInv
<1> QED BY <1>1, <1>2, TypeCorrect, BudgetInductive, PTL DEF Spec

-----------------------------------------------------------------------------
(* The watermark.                                                          *)

Excused == deferred \cup late

\* What a pass in flight may later do to the watermark is already harmless: a row
\* it left out that is older than a fetched one by more than the overlap is
\* excused, and so is a fetched row it no longer keeps.
PassInv(w) ==
    /\ pc[w] = "idle" => fetched[w] = {}
    /\ kept[w] \subseteq fetched[w]
    /\ \A f \in fetched[w] : stage[f] = "ready"
    /\ \A f \in fetched[w], t \in Tx \ fetched[w] :
          Unscored(t) /\ ts[t] + Overlap < ts[f] => t \in Excused
    /\ pc[w] \in {"score", "insert"} => fetched[w] \ kept[w] \subseteq Excused

CursorInv ==
    /\ watermark + Overlap <= clock
    /\ \A t \in Tx : stage[t] # "absent" => ts[t] <= clock
    /\ WatermarkSafe
    /\ \A w \in Worker : PassInv(w)

\* A batch fetched with the watermark bound, or with none, leaves out only rows
\* that are excused or no older than every row it holds.
LEMMA FetchedBatch ==
    ASSUME TypeOK, CursorInv, NEW since \in Nat, since <= watermark,
           NEW rows \in SUBSET Tx, GetUnanalyzed(since, rows),
           NEW f \in rows, NEW t \in Tx \ rows, Unscored(t), ts[t] + Overlap < ts[f]
    PROVE  t \in Excused
<1>. USE EngineAssumption
<1>1. ts[t] \in Nat /\ ts[f] \in Nat /\ Overlap \in Nat /\ watermark \in Nat
  BY DEF TypeOK
<1>2. CASE ts[t] >= since
  <2>1. t \in Unanalyzed(since) \ rows
    BY <1>2 DEF Unanalyzed, Unscored
  <2>2. ts[f] <= ts[t]
    BY <2>1 DEF GetUnanalyzed
  <2> QED BY <1>1, <2>2
<1>3. CASE ts[t] < since
  BY <1>1, <1>3 DEF CursorInv, WatermarkSafe, Excused
<1> QED BY <1>1, <1>2, <1>3

\* A step that only takes rows out of the unscored set, excuses more rows and
\* leaves the other passes alone keeps their part of the invariant.
LEMMA OtherPass ==
    ASSUME TypeOK, NEW w \in Worker, PassInv(w),
           UNCHANGED <<ts, stage>>, scored \subseteq scored', Excused \subseteq Excused',
           pc'[w] = pc[w], fetched'[w] = fetched[w], kept'[w] = kept[w]
    PROVE  PassInv(w)'
BY DEF PassInv, Unscored

\* A pass that has ended satisfies its part of the invariant.
LEMMA EndedPass ==
    ASSUME TypeOK, NEW w \in Worker, Finish(w)
    PROVE  PassInv(w)'
BY DEF PassInv, Finish, TypeOK

\* Advancing over a batch whose rows are all scored or excused is safe.
LEMMA AdvanceIsSafe ==
    ASSUME TypeOK, CursorInv, NEW w \in Worker, AdvanceWatermark(w),
           UNCHANGED <<clock, ts, stage>>, scored \subseteq scored', Excused \subseteq Excused',
           fetched[w] \subseteq scored' \cup Excused'
    PROVE  WatermarkSafe' /\ watermark' + Overlap <= clock
<1>. USE EngineAssumption DEF TypeOK
<1>1. PICK n \in fetched[w] :
        watermark' = IF ts[n] - Overlap > watermark THEN ts[n] - Overlap ELSE watermark
  BY DEF AdvanceWatermark
<1>2. n \in Tx /\ ts[n] \in Nat /\ ts[n] <= clock
  BY <1>1 DEF CursorInv, PassInv
<1>3. ASSUME NEW t \in Tx, Unscored(t)', ts[t] < watermark'
      PROVE  t \in Excused'
  <2>1. Unscored(t)
    BY <1>3 DEF Unscored
  <2>2. CASE ts[t] < watermark
    BY <2>1, <2>2 DEF CursorInv, WatermarkSafe, Excused
  <2>3. CASE t \in fetched[w]
    BY <1>3, <2>3 DEF Unscored
  <2>4. CASE ~(ts[t] < watermark) /\ t \notin fetched[w]
    <3>1. ts[t] + Overlap < ts[n]
      BY <1>1, <1>2, <1>3, <2>4
    <3>2. t \in Excused
      BY <1>1, <2>1, <2>4, <3>1 DEF CursorInv, PassInv
    <3> QED BY <3>2
  <2> QED BY <2>2, <2>3, <2>4
<1>4. watermark' + Overlap <= clock
  BY <1>1, <1>2 DEF CursorInv
<1> QED BY <1>3, <1>4 DEF WatermarkSafe, Excused

\* A batch is fetched: the step of Poll, and of PollFails' fallback.
LEMMA FetchKeeps ==
    ASSUME TypeOK, TypeOK', CursorInv, NEW w \in Worker, NEW since \in Nat, since <= watermark,
           NEW rows \in SUBSET Tx, GetUnanalyzed(since, rows),
           fetched' = [fetched EXCEPT ![w] = rows],
           \/ rows = {} /\ pc' = pc
           \/ rows # {} /\ pc' = [pc EXCEPT ![w] = "resolve"],
           pc[w] = "idle",
           UNCHANGED <<clock, ts, stage, scored, watermark, kept, deferred, late>>
    PROVE  CursorInv'
<1>1. ASSUME NEW v \in Worker PROVE PassInv(v)'
  <2>1. CASE v # w
    <3>1. pc'[v] = pc[v] /\ fetched'[v] = fetched[v] /\ kept'[v] = kept[v]
      BY <2>1 DEF TypeOK
    <3>2. PassInv(v)
      BY DEF CursorInv
    <3> QED BY <3>1, <3>2, OtherPass DEF Excused
  <2>2. CASE v = w
    <3>1. fetched'[w] = rows /\ kept'[w] = {} /\ pc'[w] \in {"idle", "resolve"}
      BY DEF TypeOK, CursorInv, PassInv
    <3>2. pc'[w] = "idle" => rows = {}
      BY DEF TypeOK
    <3>3. \A f \in rows : stage[f] = "ready"
      BY DEF GetUnanalyzed, Unanalyzed
    <3>4. \A f \in rows, t \in Tx \ rows :
             Unscored(t) /\ ts[t] + Overlap < ts[f] => t \in Excused
      BY FetchedBatch
    <3> QED BY <2>2, <3>1, <3>2, <3>3, <3>4 DEF PassInv, Unscored, Excused
  <2> QED BY <2>1, <2>2
<1> QED BY <1>1 DEF CursorInv, WatermarkSafe, Unscored

\* ResolveRawData and ScoreRows when some rows stay in the batch.
LEMMA KeepSome ==
    ASSUME TypeOK, TypeOK', CursorInv, NEW w \in Worker, NEW rows \in SUBSET fetched[w],
           fetched[w] \ rows \subseteq Excused',
           NEW next \in {"score", "insert"}, pc' = [pc EXCEPT ![w] = next],
           kept' = [kept EXCEPT ![w] = rows], Excused \subseteq Excused',
           UNCHANGED <<clock, ts, stage, scored, watermark, fetched>>
    PROVE  CursorInv'
<1>1. ASSUME NEW v \in Worker PROVE PassInv(v)'
  <2>0. PassInv(v)
    BY DEF CursorInv
  <2>1. CASE v # w
    <3>1. pc'[v] = pc[v] /\ fetched'[v] = fetched[v] /\ kept'[v] = kept[v]
      BY <2>1 DEF TypeOK
    <3> QED BY <3>1, <2>0, OtherPass
  <2>2. CASE v = w
    <3>1. fetched'[w] = fetched[w] /\ kept'[w] = rows /\ pc'[w] = next
      BY DEF TypeOK
    <3> QED BY <2>0, <2>2, <3>1 DEF PassInv, Unscored
  <2> QED BY <2>1, <2>2
<1>2. WatermarkSafe'
  BY DEF CursorInv, WatermarkSafe, Unscored, Excused
<1> QED BY <1>1, <1>2 DEF CursorInv

\* A pass that ends leaves the other passes and, if the watermark stays safe, the
\* whole invariant intact.
LEMMA EndKeeps ==
    ASSUME TypeOK, CursorInv, NEW w \in Worker, Finish(w),
           UNCHANGED <<clock, ts, stage>>, scored \subseteq scored', Excused \subseteq Excused',
           WatermarkSafe', watermark' + Overlap <= clock
    PROVE  CursorInv'
<1>1. ASSUME NEW v \in Worker PROVE PassInv(v)'
  <2>1. CASE v # w
    <3>1. pc'[v] = pc[v] /\ fetched'[v] = fetched[v] /\ kept'[v] = kept[v]
      BY <2>1 DEF TypeOK, Finish
    <3>2. PassInv(v)
      BY DEF CursorInv
    <3> QED BY <3>1, <3>2, OtherPass
  <2>2. CASE v = w
    BY <2>2, EndedPass
  <2> QED BY <2>1, <2>2
<1> QED BY <1>1 DEF CursorInv

\* With an unbounded rescan the cursor invariant is inductive.
LEMMA CursorInductive ==
    ASSUME Window = 0
    PROVE  TypeOK /\ TypeOK' /\ CursorInv /\ [Next]_vars => CursorInv'
<1>. SUFFICES ASSUME TypeOK, TypeOK', CursorInv, [Next]_vars PROVE CursorInv'
  OBVIOUS
<1>. USE EngineAssumption DEF tables, cursors, budgets, passes, history, Fault
<1>0. ASSUME UNCHANGED <<ts, stage, scored, watermark, pc, fetched, kept, deferred, late>>,
             clock' >= clock
      PROVE  CursorInv'
  <2>1. WatermarkSafe' /\ \A w \in Worker : PassInv(w)'
    BY <1>0 DEF CursorInv, PassInv, WatermarkSafe, Unscored, Excused
  <2>2. watermark' + Overlap <= clock' /\ \A t \in Tx : stage'[t] # "absent" => ts'[t] <= clock'
    BY <1>0 DEF CursorInv, TypeOK
  <2> QED BY <2>1, <2>2 DEF CursorInv
<1>1. CASE Tick BY <1>0, <1>1 DEF Tick, TypeOK
<1>2. ASSUME NEW t \in Tx, Parse(t) PROVE CursorInv'
  <2>1. /\ stage[t] = "absent" /\ stage' = [stage EXCEPT ![t] = "stamped"]
        /\ ts' = [ts EXCEPT ![t] = clock]
        /\ UNCHANGED <<clock, scored, watermark, pc, fetched, kept, deferred, late>>
    BY <1>2 DEF Parse
  <2>2. \A x \in Tx : Unscored(x)' => Unscored(x) /\ x # t /\ ts'[x] = ts[x]
    BY <2>1 DEF Unscored, TypeOK
  <2>3. \A w \in Worker : \A f \in fetched[w] : f # t /\ ts'[f] = ts[f] /\ stage'[f] = "ready"
    BY <2>1 DEF CursorInv, PassInv, TypeOK
  <2>4. \A w \in Worker : PassInv(w)'
    BY <2>1, <2>2, <2>3 DEF CursorInv, PassInv, Excused, TypeOK
  <2>5. \A x \in Tx : stage'[x] # "absent" => ts'[x] <= clock'
    BY <2>1 DEF CursorInv, TypeOK
  <2>6. WatermarkSafe'
    BY <2>1, <2>2 DEF CursorInv, WatermarkSafe
  <2> QED BY <2>1, <2>4, <2>5, <2>6 DEF CursorInv
<1>3. ASSUME NEW t \in Tx, BecomeVisible(t) PROVE CursorInv'
  <2>1. /\ stage[t] = "stamped" /\ stage' = [stage EXCEPT ![t] = "ready"]
        /\ late \subseteq late' /\ (t \notin late' => ts[t] + Overlap >= clock)
        /\ UNCHANGED <<clock, ts, scored, watermark, pc, fetched, kept, deferred>>
    BY <1>3 DEF BecomeVisible, TypeOK
  <2>2. \A x \in Tx : Unscored(x)' => Unscored(x) \/ x = t
    BY <2>1 DEF Unscored, TypeOK
  <2>3. ASSUME NEW w \in Worker PROVE PassInv(w)'
    <3>1. \A f \in fetched[w] : f \in Tx /\ ts[f] <= clock /\ stage'[f] = "ready"
      BY <2>1 DEF CursorInv, PassInv, TypeOK
    <3>2. \A f \in fetched[w], x \in Tx \ fetched[w] :
             Unscored(x)' /\ ts[x] + Overlap < ts[f] => x \in Excused'
      BY <2>1, <2>2, <3>1 DEF CursorInv, PassInv, Excused, TypeOK
    <3> QED BY <2>1, <3>1, <3>2 DEF CursorInv, PassInv, Excused
  <2>4. WatermarkSafe'
    BY <2>1, <2>2 DEF CursorInv, WatermarkSafe, TypeOK
  <2>5. \A x \in Tx : stage'[x] # "absent" => ts'[x] <= clock'
    BY <2>1 DEF CursorInv, TypeOK
  <2> QED BY <2>1, <2>3, <2>4, <2>5 DEF CursorInv
<1>4. CASE RescanIntervalOver BY <1>0, <1>4 DEF RescanIntervalOver, TypeOK
<1>5. CASE \E t \in Tx : RawWindowOver(t) BY <1>0, <1>5 DEF RawWindowOver, TypeOK
<1>6. CASE \E t \in Tx : DeferWindowOver(t) BY <1>0, <1>6 DEF DeferWindowOver, TypeOK
<1>7. CASE \E w \in Worker : StartTask(w) BY <1>0, <1>7 DEF StartTask, TypeOK
<1>8. CASE StopTask BY <1>0, <1>8 DEF StopTask, TypeOK
<1>9. CASE Restart
  <2>1. \A w \in Worker : PassInv(w)'
    BY <1>9 DEF Restart, PassInv
  <2> QED BY <1>9, <2>1 DEF Restart, CursorInv, WatermarkSafe, TypeOK
<1>10. ASSUME NEW w \in Worker, Poll(w) PROVE CursorInv'
  <2>1. PollSince \in Nat /\ PollSince <= watermark
    BY DEF PollSince, TypeOK
  <2>2. PICK rows \in SUBSET Tx :
          /\ GetUnanalyzed(PollSince, rows)
          /\ fetched' = [fetched EXCEPT ![w] = rows]
          /\ \/ rows = {} /\ pc' = pc
             \/ rows # {} /\ pc' = [pc EXCEPT ![w] = "resolve"]
    BY <1>10 DEF Poll, Fetch
  <2>3. pc[w] = "idle"
        /\ UNCHANGED <<clock, ts, stage, scored, watermark, kept, deferred, late>>
    BY <1>10 DEF Poll
  <2> QED BY <2>1, <2>2, <2>3, FetchKeeps
<1>11. ASSUME NEW w \in Worker, PollFails(w) PROVE CursorInv'
  <2>1. pc[w] = "idle"
        /\ UNCHANGED <<clock, ts, stage, scored, watermark, kept, deferred, late>>
    BY <1>11 DEF PollFails
  <2>2. \/ UNCHANGED <<fetched, pc>>
        \/ \E rows \in SUBSET Tx :
              /\ GetUnanalyzed(watermark, rows) /\ rows # {}
              /\ fetched' = [fetched EXCEPT ![w] = rows]
              /\ pc' = [pc EXCEPT ![w] = "resolve"]
    BY <1>11, Zenon DEF PollFails
  <2>3. CASE UNCHANGED <<fetched, pc>>
    BY <1>0, <2>1, <2>3 DEF TypeOK
  <2>4. ASSUME NEW rows \in SUBSET Tx, GetUnanalyzed(watermark, rows), rows # {},
               fetched' = [fetched EXCEPT ![w] = rows], pc' = [pc EXCEPT ![w] = "resolve"]
        PROVE  CursorInv'
    <3>1. watermark \in Nat /\ watermark <= watermark
      BY DEF TypeOK
    <3> QED BY <2>1, <2>4, <3>1, FetchKeeps
  <2> QED BY <2>2, <2>3, <2>4
<1>12. ASSUME NEW w \in Worker, ResolveRawData(w) PROVE CursorInv'
  <2>1. UNCHANGED <<clock, ts, stage, scored, watermark, late>>
    BY <1>12 DEF ResolveRawData, MissingPayloads
  <2>2. PICK wait \in SUBSET fetched[w] :
          /\ deferred' = deferred \cup wait
          /\ \/ Finish(w)
             \/ /\ pc' = [pc EXCEPT ![w] = "score"]
                /\ kept' = [kept EXCEPT ![w] = fetched[w] \ wait]
                /\ fetched' = fetched
    BY <1>12 DEF ResolveRawData, MissingPayloads
  <2>3. Excused \subseteq Excused' /\ wait \subseteq Excused'
    BY <2>1, <2>2 DEF Excused
  <2>4. CASE Finish(w)
    <3>1. WatermarkSafe' /\ watermark' + Overlap <= clock
      BY <2>1, <2>3 DEF CursorInv, WatermarkSafe, Unscored, Excused
    <3> QED BY <2>1, <2>3, <2>4, <3>1, EndKeeps
  <2>5. CASE ~Finish(w)
    <3>1. fetched[w] \ (fetched[w] \ wait) \subseteq Excused'
      BY <2>3
    <3> QED BY <2>1, <2>2, <2>3, <2>5, <3>1, KeepSome
  <2> QED BY <2>4, <2>5
<1>13. ASSUME NEW w \in Worker, ScoreRows(w) PROVE CursorInv'
  <2>1. pc[w] = "score" /\ UNCHANGED <<clock, ts, stage, scored, late>>
    BY <1>13 DEF ScoreRows, IncompleteRows
  <2>2. PICK wait \in SUBSET kept[w] :
          /\ deferred' = deferred \cup wait
          /\ \/ kept[w] \ wait = {} /\ Finish(w) /\ AdvanceWatermark(w)
             \/ /\ pc' = [pc EXCEPT ![w] = "insert"]
                /\ kept' = [kept EXCEPT ![w] = kept[w] \ wait]
                /\ UNCHANGED <<fetched, watermark>>
    BY <1>13 DEF ScoreRows, IncompleteRows
  <2>3. Excused \subseteq Excused' /\ wait \subseteq Excused'
    BY <2>1, <2>2 DEF Excused
  <2>4. kept[w] \subseteq fetched[w] /\ fetched[w] \ kept[w] \subseteq Excused
    BY <2>1 DEF CursorInv, PassInv
  <2>5. CASE kept[w] \ wait = {} /\ Finish(w) /\ AdvanceWatermark(w)
    <3>1. fetched[w] \subseteq scored' \cup Excused'
      BY <2>3, <2>4, <2>5
    <3>2. WatermarkSafe' /\ watermark' + Overlap <= clock
      BY <2>1, <2>3, <2>5, <3>1, AdvanceIsSafe
    <3> QED BY <2>1, <2>3, <2>5, <3>2, EndKeeps
  <2>6. CASE /\ pc' = [pc EXCEPT ![w] = "insert"]
             /\ kept' = [kept EXCEPT ![w] = kept[w] \ wait]
             /\ UNCHANGED <<fetched, watermark>>
    <3>1. fetched[w] \ (kept[w] \ wait) \subseteq Excused' /\ kept[w] \ wait \subseteq fetched[w]
      BY <2>3, <2>4
    <3> QED BY <2>1, <2>3, <2>6, <3>1, KeepSome
  <2> QED BY <2>2, <2>5, <2>6
<1>14. ASSUME NEW w \in Worker, InsertScores(w) PROVE CursorInv'
  <2>1. /\ pc[w] = "insert" /\ scored' = scored \cup kept[w] /\ AdvanceWatermark(w) /\ Finish(w)
        /\ UNCHANGED <<clock, ts, stage, deferred, late>>
    BY <1>14 DEF InsertScores
  <2>2. Excused' = Excused /\ scored \subseteq scored' /\ fetched[w] \subseteq scored' \cup Excused'
    BY <2>1 DEF CursorInv, PassInv, Excused
  <2>3. WatermarkSafe' /\ watermark' + Overlap <= clock
    BY <2>1, <2>2, AdvanceIsSafe
  <2> QED BY <2>1, <2>2, <2>3, EndKeeps
<1>15. ASSUME NEW w \in Worker, InsertFails(w) PROVE CursorInv'
  <2>1. Finish(w) /\ UNCHANGED <<clock, ts, stage, scored, watermark, deferred, late>>
    BY <1>15 DEF InsertFails
  <2>2. WatermarkSafe' /\ watermark' + Overlap <= clock
    BY <2>1 DEF CursorInv, WatermarkSafe, Unscored
  <2> QED BY <2>1, <2>2, EndKeeps DEF Excused
<1>16. CASE UNCHANGED vars BY <1>0, <1>16 DEF vars, TypeOK
<1> QED
  BY <1>1, <1>2, <1>3, <1>4, <1>5, <1>6, <1>7, <1>8, <1>9, <1>10, <1>11, <1>12, <1>13,
     <1>14, <1>15, <1>16 DEF Next

\* With UNANALYZED_FULL_RESCAN_WINDOW_SECONDS = 0 the watermark never passes over a
\* row that was visible within the overlap and that no pass has deferred: failed
\* polls and inserts, restarts, orphaned passes and late rows included.
THEOREM NeverPassedOver ==
    ASSUME Window = 0
    PROVE  Spec => []WatermarkSafe
<1>1. Init => CursorInv
  BY EngineAssumption DEF Init, CursorInv, PassInv, WatermarkSafe, Unscored, Excused, Zero
<1>2. CursorInv => WatermarkSafe
  BY DEF CursorInv
<1>3. TypeOK /\ TypeOK' /\ CursorInv /\ [Next]_vars => CursorInv'
  BY CursorInductive
<1> QED BY <1>1, <1>2, <1>3, TypeCorrect, PTL DEF Spec

-----------------------------------------------------------------------------
(* What the search for a cycle reports                                     *)

LEMMA CycleConstants ==
  /\ \A t \in Txs : /\ t \in Nat
                    /\ Pool[t].spends \in SUBSET Nat
                    /\ Pool[t].pays \in Seq([addr : Nat, amt : Nat])
                    /\ Pool[t].slot \in Int
  /\ Origin \in Txs
  /\ MaxHops \in Nat \ {0} /\ MaxFanout \in Nat \ {0} /\ RowLimit \in Nat \ {0}
  /\ IsFiniteSet(Txs)
  /\ OriginSlot \in Nat
<1>. DEFINE Tx0 == [spends : SUBSET Nat, pays : Seq([addr : Nat, amt : Nat]), slot : Int]
<1>1. Pool \in Seq(Tx0) /\ Origin \in DOMAIN Pool
      /\ MaxHops \in Nat \ {0} /\ MaxFanout \in Nat \ {0} /\ RowLimit \in Nat \ {0}
  BY CycleAssumption
<1>2. ASSUME NEW t \in Txs
      PROVE  t \in Nat /\ Pool[t] \in Tx0
  <2>. HIDE DEF Tx0
  <2>. QED BY <1>1, LenProperties, ElementOfSeq DEF Txs
<1>3. IsFiniteSet(Txs)
  <2>. HIDE DEF Tx0
  <2>1. Len(Pool) \in Nat /\ Txs = 1 .. Len(Pool)
    BY <1>1, LenProperties DEF Txs
  <2>. QED BY <2>1, FS_Interval
<1>4. ASSUME NEW t \in Txs
      PROVE  /\ Pool[t].spends \in SUBSET Nat
             /\ Pool[t].pays \in Seq([addr : Nat, amt : Nat])
             /\ Pool[t].slot \in Int
  <2>1. Pool[t] \in Tx0 BY <1>2
  <2>. QED BY <2>1
<1>5. Origin \in Txs BY <1>1 DEF Txs
<1>6. OriginSlot \in Nat
  BY <1>4, <1>5 DEF OriginSlot
<1>. QED BY <1>1, <1>2, <1>3, <1>4, <1>5, <1>6

LEMMA PaidIn ==
  ASSUME NEW t \in Txs
  PROVE  Paid(t) \subseteq Nat /\ IsFiniteSet(Paid(t))
<1>1. Pool[t].pays \in Seq([addr : Nat, amt : Nat])
  BY CycleConstants
<1>. DEFINE p == Pool[t].pays
            f == [i \in DOMAIN p |-> p[i].addr]
<1>2. Len(p) \in Nat /\ DOMAIN p = 1 .. Len(p)
  BY <1>1, LenProperties
<1>3. \A i \in DOMAIN p : p[i] \in [addr : Nat, amt : Nat]
  BY <1>1, <1>2, ElementOfSeq
<1>4. \A i \in DOMAIN p : p[i].addr \in Nat
  BY <1>3
<1>5. IsFiniteSet(DOMAIN p)
  BY <1>2, FS_Interval
<1>6. Paid(t) \subseteq {f[i] : i \in DOMAIN p} /\ DOMAIN f = DOMAIN p
  BY DEF Paid
<1>7. IsFiniteSet(Paid(t))
  <2>. HIDE DEF p, f
  <2>. QED BY <1>5, <1>6, FiniteImage
<1>. QED BY <1>4, <1>7 DEF Paid

\* Every address that some transaction pays.
Payees == UNION {Paid(t) : t \in Txs}

LEMMA PayeesFinite == IsFiniteSet(Payees) /\ Payees \subseteq Nat
<1>. DEFINE F == [t \in Txs |-> Paid(t)]
            S == {Paid(t) : t \in Txs}
<1>1. S \subseteq {F[t] : t \in Txs} /\ DOMAIN F = Txs
  OBVIOUS
<1>2. IsFiniteSet(S)
  <2>. HIDE DEF F, S
  <2>. QED BY <1>1, FiniteImage, CycleConstants
<1>3. \A T \in S : IsFiniteSet(T) /\ T \subseteq Nat
  BY PaidIn
<1>4. IsFiniteSet(UNION S)
  <2>. HIDE DEF S
  <2>. QED BY <1>2, <1>3, FS_UNION
<1>. QED BY <1>3, <1>4 DEF Payees

\* A row of a hop names a payment of a transaction of the warehouse that spends from
\* the addresses asked for.
LEMMA RowMeaning ==
  ASSUME ledger \in SUBSET Txs, NEW addrs, NEW r \in AllRows(addrs)
  PROVE  /\ r.tx \in ledger /\ Spends(r.tx, addrs) /\ r.addr \in Paid(r.tx)
         /\ r = HopRow(r.tx, r.addr)
         /\ r.slot \in Nat /\ r.tx \in Nat /\ r.addr \in Nat
<1>1. PICK t \in ledger : Spends(t, addrs) /\ r \in RowsOf(t)
  BY DEF AllRows
<1>2. PICK a \in Paid(t) : r = HopRow(t, a)
  BY <1>1 DEF RowsOf
<1>3. r.tx = t /\ r.addr = a /\ r.slot = Pool[t].slot
  BY <1>2 DEF HopRow
<1>4. Pool[t].slot \in Int /\ t \in Nat /\ a \in Nat
  BY CycleConstants, PaidIn, <1>2
<1>5. Pool[t].slot \in OriginSlot .. OriginSlot + MaxAge
  BY <1>1 DEF Spends, InWindow
<1>6. Pool[t].slot \in Nat
  BY <1>4, <1>5, CycleConstants
<1>. QED BY <1>1, <1>2, <1>3, <1>4, <1>6

LEMMA RowExists ==
  ASSUME NEW addrs, NEW t \in ledger, Spends(t, addrs), Indexed(t, addrs), NEW a \in Paid(t)
  PROVE  HopRow(t, a) \in AllRows(addrs) /\ HopRow(t, a).addr = a
<1>1. HopRow(t, a) \in RowsOf(t)
  BY DEF RowsOf
<1>2. RowsOf(t) \in {RowsOf(u) : u \in {v \in ledger : Spends(v, addrs) /\ Indexed(v, addrs)}}
  OBVIOUS
<1>3. HopRow(t, a).addr = a
  BY DEF HopRow
<1>. QED BY <1>1, <1>2, <1>3 DEF AllRows

LEMMA AllRowsFinite ==
  ASSUME ledger \in SUBSET Txs, NEW addrs
  PROVE  IsFiniteSet(AllRows(addrs))
<1>. DEFINE D == ledger \X Payees
            f == [p \in D |-> HopRow(p[1], p[2])]
<1>1. IsFiniteSet(ledger)
  BY CycleConstants, FS_Subset
<1>2. IsFiniteSet(D)
  BY <1>1, PayeesFinite, FS_Product
<1>3. ASSUME NEW r \in AllRows(addrs) PROVE r \in {f[p] : p \in D}
  <2>1. r.tx \in ledger /\ r.addr \in Paid(r.tx) /\ r = HopRow(r.tx, r.addr)
    BY RowMeaning
  <2>2. r.addr \in Payees
    BY <2>1 DEF Payees
  <2>3. <<r.tx, r.addr>> \in D /\ f[<<r.tx, r.addr>>] = r
    BY <2>1, <2>2
  <2>. QED BY <2>3
<1>4. DOMAIN f = D /\ AllRows(addrs) \subseteq {f[p] : p \in D}
  BY <1>3
<1>. HIDE DEF D, f
<1>. QED BY <1>2, <1>4, FiniteImage

\* Rows have an oldest: the one the code meets first.
LEMMA OldestRow ==
  ASSUME ledger \in SUBSET Txs, NEW addrs, NEW R, R \subseteq AllRows(addrs), R # {}
  PROVE  \E r \in R : Ahead(R, r) = {}
<1>1. \A r \in R : r.slot \in Nat /\ r.tx \in Nat /\ r.addr \in Nat
  BY RowMeaning
<1>. DEFINE SlotsOf == {r.slot : r \in R}
<1>2. PICK x \in SlotsOf : \A y \in SlotsOf : x <= y
  <2>1. SlotsOf \in SUBSET Nat /\ SlotsOf # {}
    BY <1>1
  <2>. HIDE DEF SlotsOf
  <2>. QED BY <2>1, LeastNat
<1>. DEFINE R2 == {r \in R : r.slot = x}
            TxsOf == {r.tx : r \in R2}
<1>3. PICK t \in TxsOf : \A y \in TxsOf : t <= y
  <2>1. TxsOf \in SUBSET Nat /\ TxsOf # {}
    BY <1>1, <1>2
  <2>. HIDE DEF TxsOf
  <2>. QED BY <2>1, LeastNat
<1>. DEFINE R3 == {r \in R2 : r.tx = t}
            AddrsOf == {r.addr : r \in R3}
<1>4. PICK a \in AddrsOf : \A y \in AddrsOf : a <= y
  <2>1. AddrsOf \in SUBSET Nat /\ AddrsOf # {}
    BY <1>1, <1>3
  <2>. HIDE DEF AddrsOf
  <2>. QED BY <2>1, LeastNat
<1>5. PICK r \in R3 : r.addr = a
  BY <1>4
<1>6. ASSUME NEW q \in R PROVE ~ RowOrder(q, r)
  <2>1. x <= q.slot /\ r.slot = x /\ r.tx = t /\ r.addr = a
    BY <1>2, <1>5
  <2>2. q.slot = x => t <= q.tx
    BY <1>3
  <2>3. q.slot = x /\ q.tx = t => a <= q.addr
    BY <1>4
  <2>4. q.slot \in Nat /\ q.tx \in Nat /\ q.addr \in Nat /\ r.slot \in Nat /\ r.tx \in Nat /\ r.addr \in Nat
    BY <1>1, <1>5
  <2>. HIDE DEF R2, R3, SlotsOf, TxsOf, AddrsOf
  <2>. QED BY <2>1, <2>2, <2>3, <2>4 DEF RowOrder
<1>. QED BY <1>5, <1>6 DEF Ahead

LEMMA FirstIsOldest ==
  ASSUME ledger \in SUBSET Txs, NEW addrs, NEW R, R \subseteq AllRows(addrs), R # {}
  PROVE  First(R) \in R /\ Ahead(R, First(R)) = {}
BY OldestRow DEF First

\* The row limit never hides the oldest row.
LEMMA SomeRowRead ==
  ASSUME ledger \in SUBSET Txs, NEW addrs, HopRows(addrs) = {}
  PROVE  AllRows(addrs) = {}
<1>. SUFFICES ASSUME AllRows(addrs) # {} PROVE FALSE
  OBVIOUS
<1>1. PICK r \in AllRows(addrs) : Ahead(AllRows(addrs), r) = {}
  BY OldestRow
<1>2. Cardinality(Ahead(AllRows(addrs), r)) < RowLimit
  BY <1>1, FS_EmptySet, CycleConstants
<1>. QED BY <1>2 DEF HopRows

\* A hop within the row limit reads every row, and a frontier within the fan-out limit
\* is asked whole.
LEMMA AllRowsRead ==
  ASSUME ledger \in SUBSET Txs, NEW addrs, ~ (Cardinality(AllRows(addrs)) > RowLimit)
  PROVE  HopRows(addrs) = AllRows(addrs)
<1>. DEFINE R == AllRows(addrs)
<1>1. IsFiniteSet(R) /\ Cardinality(R) \in Nat
  BY AllRowsFinite, FS_CardinalityType
<1>2. ASSUME NEW r \in R PROVE Cardinality(Ahead(R, r)) < RowLimit
  <2>1. ~ RowOrder(r, r)
    <3>1. r.slot \in Nat /\ r.tx \in Nat /\ r.addr \in Nat
      BY RowMeaning
    <3>. QED BY <3>1 DEF RowOrder
  <2>2. Ahead(R, r) \in SUBSET (R \ {r})
    BY <2>1 DEF Ahead
  <2>. HIDE DEF R
  <2>3. IsFiniteSet(R \ {r}) /\ Cardinality(R \ {r}) = Cardinality(R) - 1
    BY <1>1, FS_RemoveElement
  <2>4. IsFiniteSet(Ahead(R, r)) /\ Cardinality(Ahead(R, r)) <= Cardinality(R \ {r})
    BY <2>2, <2>3, FS_Subset
  <2>5. Cardinality(Ahead(R, r)) \in Nat
    BY <2>4, FS_CardinalityType
  <2>. QED BY <1>1, <2>3, <2>4, <2>5, CycleConstants DEF R
<1>. QED BY <1>2 DEF HopRows

LEMMA AllAsked ==
  ASSUME NEW F \in SUBSET Payees, ~ (Cardinality(F) > MaxFanout)
  PROVE  Asked(F) = F
<1>1. IsFiniteSet(F) /\ F \subseteq Nat
  BY PayeesFinite, FS_Subset
<1>2. Cardinality(F) \in Nat
  BY <1>1, FS_CardinalityType
<1>3. ASSUME NEW a \in F PROVE Cardinality(SortedBefore(F, a)) < MaxFanout
  <2>1. SortedBefore(F, a) \in SUBSET (F \ {a})
    BY <1>1 DEF SortedBefore
  <2>2. IsFiniteSet(F \ {a}) /\ Cardinality(F \ {a}) = Cardinality(F) - 1
    BY <1>1, FS_RemoveElement
  <2>3. IsFiniteSet(SortedBefore(F, a)) /\ Cardinality(SortedBefore(F, a)) <= Cardinality(F \ {a})
    BY <2>1, <2>2, FS_Subset
  <2>4. Cardinality(SortedBefore(F, a)) \in Nat
    BY <2>3, FS_CardinalityType
  <2>. QED BY <1>2, <2>2, <2>3, <2>4, CycleConstants
<1>. QED BY <1>3 DEF Asked

LEMMA AskedWithin ==
  ASSUME NEW F PROVE Asked(F) \subseteq F
BY DEF Asked

\* Where the index has a row for every spend of the warehouse, every spend from the
\* addresses is found.
LEMMA NoGapIndexed ==
  ASSUME IndexGaps = {}, NEW addrs, NEW t \in ledger, Spends(t, addrs)
  PROVE  Indexed(t, addrs)
<1>1. PICK a \in Pool[t].spends : a \in addrs
  BY DEF Spends
<1>2. <<t, a>> \notin unindexed
  <2>. SUFFICES ASSUME <<t, a>> \in unindexed PROVE FALSE
    OBVIOUS
  <2>1. <<t, a>> \in IndexGaps
    BY <1>1 DEF IndexGaps
  <2>. QED BY <2>1
<1>. QED BY <1>1, <1>2 DEF Indexed, Touched

LEMMA SpendsMore ==
  ASSUME NEW t, NEW A, NEW B, A \subseteq B, Spends(t, A)
  PROVE  Spends(t, B)
BY DEF Spends

LEMMA PaidFromMore ==
  ASSUME NEW L, NEW M, L \subseteq M, NEW A, NEW B, A \subseteq B
  PROVE  PaidFrom(L, A) \subseteq PaidFrom(M, B)
<1>. SUFFICES ASSUME NEW x \in PaidFrom(L, A) PROVE x \in PaidFrom(M, B)
  OBVIOUS
<1>1. PICK t \in L : Spends(t, A) /\ x \in Paid(t)
  BY DEF PaidFrom
<1>2. t \in {u \in M : Spends(u, B)}
  BY <1>1, SpendsMore
<1>. QED BY <1>1, <1>2 DEF PaidFrom

\* The recursive function of ReachedIn is the one its equation describes.
ReachStep(L, f, i) == IF i = 0 THEN Recipients ELSE f[i - 1] \cup PaidFrom(L, f[i - 1])

LEMMA ReachedUpToDef ==
  ASSUME NEW L, NEW k \in Nat
  PROVE  ReachedUpTo(L, k) = [i \in 0..k |-> ReachStep(L, ReachedUpTo(L, k), i)]
<1>. DEFINE T == {n \in Nat : \E f : f = [i \in 0..n |-> ReachStep(L, f, i)]}
<1>1. 0 \in T
  <2>. DEFINE g == [i \in 0..0 |-> Recipients]
  <2>1. g = [i \in 0..0 |-> ReachStep(L, g, i)]
    BY DEF ReachStep
  <2>. QED BY <2>1
<1>2. ASSUME NEW n \in Nat, n \in T PROVE n + 1 \in T
  <2>1. PICK f : f = [i \in 0..n |-> ReachStep(L, f, i)]
    BY <1>2
  <2>. DEFINE g == [i \in 0..(n+1) |-> IF i <= n THEN f[i] ELSE ReachStep(L, f, i)]
  <2>2. ASSUME NEW i \in 0..(n+1) PROVE g[i] = ReachStep(L, g, i)
    <3>1. CASE i = 0
      BY <3>1, <2>1 DEF ReachStep
    <3>2. CASE i # 0
      <4>1. i - 1 \in 0..n /\ g[i-1] = f[i-1]
        BY <3>2
      <4>2. ReachStep(L, g, i) = ReachStep(L, f, i)
        BY <4>1 DEF ReachStep
      <4>3. g[i] = ReachStep(L, f, i)
        BY <2>1
      <4>. QED BY <4>2, <4>3
    <3>. QED BY <3>1, <3>2
  <2>3. g = [i \in 0..(n+1) |-> ReachStep(L, g, i)]
    BY <2>2
  <2>. HIDE DEF g
  <2>. QED BY <2>3
<1>3. k \in T
  <2>. HIDE DEF T
  <2>. QED BY <1>1, <1>2, NatSetInduction
<1>4. PICK f : f = [i \in 0..k |-> ReachStep(L, f, i)]
  BY <1>3
<1>5. ReachedUpTo(L, k) = CHOOSE h : h = [i \in 0..k |-> ReachStep(L, h, i)]
  BY DEF ReachedUpTo, ReachStep
<1>. QED BY <1>4, <1>5

\* How far a walk of k hops gets does not depend on how many more may follow.
LEMMA ReachedAt ==
  ASSUME NEW L
  PROVE  \A k \in Nat : \A i \in 0..k : ReachedUpTo(L, k)[i] = ReachedIn(L, i)
<1>. DEFINE T == {n \in Nat : \A k \in Nat : n <= k => ReachedUpTo(L, k)[n] = ReachedIn(L, n)}
<1>1. 0 \in T
  <2>1. ASSUME NEW k \in Nat PROVE ReachedUpTo(L, k)[0] = Recipients
    <3>1. 0 \in 0..k /\ ReachStep(L, ReachedUpTo(L, k), 0) = Recipients
      BY DEF ReachStep
    <3>. QED BY <3>1, ReachedUpToDef
  <2>. QED BY <2>1 DEF ReachedIn
<1>2. ASSUME NEW n \in Nat, n \in T PROVE n + 1 \in T
  <2>1. ASSUME NEW k \in Nat, n + 1 <= k
        PROVE  ReachedUpTo(L, k)[n + 1] = ReachedIn(L, n) \cup PaidFrom(L, ReachedIn(L, n))
    <3>1. n + 1 \in 0..k /\ n + 1 # 0 /\ (n + 1) - 1 = n /\ n <= k
      BY <2>1
    <3>2. ReachedUpTo(L, k)[n + 1] = ReachStep(L, ReachedUpTo(L, k), n + 1)
      BY <3>1, ReachedUpToDef
    <3>3. ReachedUpTo(L, k)[n] = ReachedIn(L, n)
      BY <1>2, <3>1
    <3>. QED BY <3>1, <3>2, <3>3 DEF ReachStep
  <2>2. ReachedIn(L, n + 1) = ReachedIn(L, n) \cup PaidFrom(L, ReachedIn(L, n))
    <3>1. n + 1 \in Nat /\ n + 1 <= n + 1
      OBVIOUS
    <3>. QED BY <2>1, <3>1 DEF ReachedIn
  <2>3. ASSUME NEW k \in Nat, n + 1 <= k PROVE ReachedUpTo(L, k)[n + 1] = ReachedIn(L, n + 1)
    BY <2>1, <2>2, <2>3
  <2>. QED BY <2>3
<1>3. Nat \subseteq T
  <2>. HIDE DEF T
  <2>. QED BY <1>1, <1>2, NatSetInduction
<1>. QED BY <1>3

LEMMA ReachedStepwise ==
  ASSUME NEW L
  PROVE  /\ ReachedIn(L, 0) = Recipients
         /\ \A k \in Nat : ReachedIn(L, k + 1) = ReachedIn(L, k) \cup PaidFrom(L, ReachedIn(L, k))
<1>1. ReachedIn(L, 0) = Recipients
  <2>1. 0 \in Nat /\ 0 \in 0..0 OBVIOUS
  <2>2. ReachedUpTo(L, 0)[0] = ReachStep(L, ReachedUpTo(L, 0), 0)
    BY <2>1, ReachedUpToDef
  <2>. QED BY <2>2 DEF ReachStep, ReachedIn
<1>2. ASSUME NEW k \in Nat
      PROVE  ReachedIn(L, k + 1) = ReachedIn(L, k) \cup PaidFrom(L, ReachedIn(L, k))
  <2>1. k + 1 \in Nat /\ k + 1 \in 0..(k + 1) /\ k \in 0..(k + 1) /\ k + 1 # 0 /\ (k + 1) - 1 = k
    OBVIOUS
  <2>2. ReachedUpTo(L, k + 1)[k + 1] = ReachStep(L, ReachedUpTo(L, k + 1), k + 1)
    BY <2>1, ReachedUpToDef
  <2>3. ReachedUpTo(L, k + 1)[k] = ReachedIn(L, k)
    BY <2>1, ReachedAt
  <2>. QED BY <2>1, <2>2, <2>3 DEF ReachStep, ReachedIn
<1>. QED BY <1>1, <1>2

LEMMA ReachedGrows ==
  ASSUME NEW L, NEW M, L \subseteq M, NEW k \in Nat
  PROVE  ReachedIn(L, k) \subseteq ReachedIn(M, k)
<1>. DEFINE T == {n \in Nat : ReachedIn(L, n) \subseteq ReachedIn(M, n)}
<1>1. 0 \in T BY ReachedStepwise
<1>2. ASSUME NEW n \in Nat, n \in T PROVE n + 1 \in T
  <2>1. PaidFrom(L, ReachedIn(L, n)) \subseteq PaidFrom(M, ReachedIn(M, n))
    BY <1>2, PaidFromMore
  <2>2. ReachedIn(L, n + 1) = ReachedIn(L, n) \cup PaidFrom(L, ReachedIn(L, n))
    BY ReachedStepwise
  <2>3. ReachedIn(M, n + 1) = ReachedIn(M, n) \cup PaidFrom(M, ReachedIn(M, n))
    BY ReachedStepwise
  <2>4. ReachedIn(L, n + 1) \subseteq ReachedIn(M, n + 1)
    BY <1>2, <2>1, <2>2, <2>3
  <2>. QED BY <2>4
<1>3. Nat \subseteq T
  <2>. HIDE DEF T
  <2>. QED BY <1>1, <1>2, NatSetInduction
<1>. QED BY <1>3

LEMMA ReachedWithin ==
  ASSUME NEW L, NEW V, Recipients \subseteq V, PaidFrom(L, V) \subseteq V, NEW k \in Nat
  PROVE  ReachedIn(L, k) \subseteq V
<1>. DEFINE T == {n \in Nat : ReachedIn(L, n) \subseteq V}
<1>1. 0 \in T BY ReachedStepwise
<1>2. ASSUME NEW n \in Nat, n \in T PROVE n + 1 \in T
  <2>1. PaidFrom(L, ReachedIn(L, n)) \subseteq PaidFrom(L, V)
    BY <1>2, PaidFromMore
  <2>. QED BY <1>2, <2>1, ReachedStepwise
<1>3. Nat \subseteq T
  <2>. HIDE DEF T
  <2>. QED BY <1>1, <1>2, NatSetInduction
<1>. QED BY <1>3

-----------------------------------------------------------------------------
\* The recursive function of RingPath is the one its equation describes.
RingStep(closing, qs, c, f, k) ==
  IF k = 0 THEN [txs |-> {closing}, path |-> {}]
  ELSE [txs |-> {c[a] : a \in Spenders(f[k - 1].txs, qs[Len(qs) + 1 - k])} \ {Origin},
        path |-> f[k - 1].path \cup Spenders(f[k - 1].txs, qs[Len(qs) + 1 - k])]

LEMMA RingLevelsDef ==
  ASSUME NEW closing, NEW qs, Len(qs) \in Nat, NEW c
  PROVE  RingLevels(closing, qs, c)
           = [k \in 0..Len(qs) |-> RingStep(closing, qs, c, RingLevels(closing, qs, c), k)]
<1>. DEFINE St(f, k) == RingStep(closing, qs, c, f, k)
            T == {n \in Nat : \E f : f = [i \in 0..n |-> St(f, i)]}
<1>1. 0 \in T
  <2>. DEFINE g == [i \in 0..0 |-> [txs |-> {closing}, path |-> {}]]
  <2>1. g = [i \in 0..0 |-> St(g, i)]
    BY DEF RingStep
  <2>. QED BY <2>1
<1>2. ASSUME NEW n \in Nat, n \in T PROVE n + 1 \in T
  <2>1. PICK f : f = [i \in 0..n |-> St(f, i)]
    BY <1>2
  <2>. DEFINE g == [i \in 0..(n+1) |-> IF i <= n THEN f[i] ELSE St(f, i)]
  <2>2. ASSUME NEW i \in 0..(n+1) PROVE g[i] = St(g, i)
    <3>1. CASE i = 0
      <4>1. St(f, 0) = St(g, 0) BY DEF RingStep
      <4>2. g[0] = f[0] /\ f[0] = St(f, 0) BY <2>1
      <4>. QED BY <3>1, <4>1, <4>2
    <3>2. CASE i # 0
      <4>1. i - 1 \in 0..n /\ g[i-1] = f[i-1]
        BY <3>2
      <4>2. St(g, i) = St(f, i)
        <5>. HIDE DEF g
        <5>. QED BY <4>1, <3>2 DEF RingStep
      <4>3. g[i] = St(f, i)
        <5>. HIDE DEF St
        <5>. QED BY <2>1
      <4>. QED BY <4>2, <4>3
    <3>. QED BY <3>1, <3>2
  <2>3. g = [i \in 0..(n+1) |-> St(g, i)]
    <3>. HIDE DEF St
    <3>. QED BY <2>2
  <2>. HIDE DEF g, St
  <2>. QED BY <2>3
<1>3. Len(qs) \in T
  <2>. HIDE DEF T
  <2>. QED BY <1>1, <1>2, NatSetInduction
<1>4. PICK f : f = [i \in 0..Len(qs) |-> St(f, i)]
  BY <1>3
<1>5. RingLevels(closing, qs, c) = CHOOSE h : h = [i \in 0..Len(qs) |-> St(h, i)]
  BY DEF RingLevels, RingStep
<1>. HIDE DEF St
<1>6. RingLevels(closing, qs, c) = [i \in 0..Len(qs) |-> St(RingLevels(closing, qs, c), i)]
  BY <1>4, <1>5
<1>. QED BY <1>6 DEF St

\* The transaction that first paid a is one after the origin that spent from A.
Linked(c, a, A) == a \in DOMAIN c /\ c[a] # Origin /\ Pool[c[a]].spends \cap A # {}

\* Every address asked for at a hop was first paid by a transaction that spent from the
\* addresses of the hop before.
Chained(qs, c) == \A k \in 1..(Len(qs) - 1) : \A a \in qs[k + 1] : Linked(c, a, qs[k])

\* The walk back from the closing transaction finds spenders at every hop.
LEMMA RingPathMeetsAll ==
  ASSUME NEW closing, NEW X, NEW qs \in Seq(X), NEW c, Chained(qs, c), Len(qs) > 0,
         Pool[closing].spends \cap qs[Len(qs)] # {}
  PROVE  \A i \in 1..Len(qs) : RingPath(closing, qs, c) \cap qs[i] # {}
<1>. DEFINE n == Len(qs)
            f == RingLevels(closing, qs, c)
            Ok(k) == /\ k < n => f[k].txs # {} /\ \A t \in f[k].txs : Pool[t].spends \cap qs[n - k] # {}
                     /\ \A i \in (n + 1 - k)..n : f[k].path \cap qs[i] # {}
            T == {k \in Nat : k <= n => Ok(k)}
<1>1. n \in Nat
  BY LenProperties
<1>2. f = [k \in 0..n |-> RingStep(closing, qs, c, f, k)]
  BY <1>1, RingLevelsDef
<1>. HIDE DEF f, n
<1>3. 0 \in T
  <2>1. f[0] = [txs |-> {closing}, path |-> {}]
    BY <1>1, <1>2 DEF RingStep
  <2>2. f[0].txs = {closing}
    BY <2>1
  <2>3. (n + 1 - 0)..n = {} /\ n - 0 = n
    BY <1>1
  <2>4. Ok(0)
    BY <2>2, <2>3 DEF n
  <2>. QED BY <2>4
<1>4. ASSUME NEW k \in Nat, k \in T PROVE k + 1 \in T
  <2>. SUFFICES ASSUME k + 1 <= n PROVE Ok(k + 1)
    OBVIOUS
  <2>1. k < n /\ k <= n /\ n - k \in 1..n /\ k + 1 \in 0..n /\ (k + 1) - 1 = k
        /\ n + 1 - (k + 1) = n - k
    BY <1>1
  <2>. DEFINE sp == Spenders(f[k].txs, qs[n - k])
  <2>2. f[k + 1] = [txs |-> {c[a] : a \in sp} \ {Origin}, path |-> f[k].path \cup sp]
    <3>1. f[k + 1] = RingStep(closing, qs, c, f, k + 1)
      BY <1>2, <2>1
    <3>2. Len(qs) + 1 - (k + 1) = n - k /\ k + 1 # 0
      BY <2>1 DEF n
    <3>. QED BY <3>1, <3>2, <2>1 DEF RingStep
  <2>3. Ok(k)
    <3>. HIDE DEF Ok
    <3>. QED BY <1>4, <2>1
  <2>4. PICK a0 : a0 \in sp
    <3>1. PICK t \in f[k].txs : Pool[t].spends \cap qs[n - k] # {}
      BY <2>1, <2>3
    <3>2. PICK a \in qs[n - k] : a \in Pool[t].spends
      BY <3>1
    <3>3. a \in sp
      BY <3>1, <3>2 DEF Spenders
    <3>. QED BY <3>3
  <2>5. sp \subseteq qs[n - k]
    BY DEF Spenders
  <2>. HIDE DEF sp
  <2>6. f[k + 1].txs = {c[a] : a \in sp} \ {Origin} /\ f[k + 1].path = f[k].path \cup sp
    BY <2>2
  <2>7. ASSUME k + 1 < n
        PROVE  f[k + 1].txs # {} /\ \A t \in f[k + 1].txs : Pool[t].spends \cap qs[n - (k + 1)] # {}
    <3>1. n - (k + 1) \in 1..(n - 1) /\ (n - (k + 1)) + 1 = n - k
      BY <1>1, <2>7
    <3>2. \A a \in qs[n - k] : Linked(c, a, qs[n - (k + 1)])
      BY <3>1 DEF Chained, n
    <3>3. \A a \in sp : c[a] # Origin /\ Pool[c[a]].spends \cap qs[n - (k + 1)] # {}
      BY <3>2, <2>5 DEF Linked
    <3>4. c[a0] \in f[k + 1].txs
      BY <3>3, <2>4, <2>6
    <3>. QED BY <3>3, <3>4, <2>6
  <2>8. ASSUME NEW i \in (n - k)..n PROVE f[k + 1].path \cap qs[i] # {}
    <3>1. CASE i = n - k
      BY <3>1, <2>4, <2>5, <2>6
    <3>2. CASE i # n - k
      <4>1. i \in (n + 1 - k)..n
        BY <1>1, <3>2, <2>1
      <4>2. f[k].path \cap qs[i] # {}
        BY <2>3, <4>1
      <4>. QED BY <4>2, <2>6
    <3>. QED BY <3>1, <3>2
  <2>. QED BY <2>1, <2>7, <2>8
<1>5. n \in T
  <2>. HIDE DEF T
  <2>. QED BY <1>1, <1>3, <1>4, NatSetInduction
<1>6. Ok(n)
  <2>. HIDE DEF Ok
  <2>. QED BY <1>1, <1>5
<1>7. n + 1 - n = 1
  BY <1>1
<1>8. \A i \in 1..n : f[n].path \cap qs[i] # {}
  BY <1>6, <1>7
<1>. QED BY <1>8 DEF RingPath, f, n

-----------------------------------------------------------------------------
SearchFields == {"at", "base", "frontier", "visited", "queried", "creator", "reps", "amounts",
                 "cut", "found"}

SearchShape ==
  /\ DOMAIN search = SearchFields /\ ledger \in SUBSET Txs
  /\ search.at \in {"start", "hop", "done"} /\ search.queried \in Seq(SUBSET Payees)
  /\ search.at = "start" => search.found = NoCycle /\ search.queried = << >>

\* What a running search holds: the frontier is reached by walks in the warehouse, and
\* every address of it was first paid out of the hop before.
OnItsWay ==
  /\ search.found = NoCycle /\ search.base \subseteq ledger
  /\ search.frontier \in SUBSET Payees
  /\ search.frontier \subseteq ReachedIn(ledger, Len(search.queried))
  /\ Senders \subseteq search.visited /\ DOMAIN search.creator \subseteq search.visited
  /\ Chained(search.queried, search.creator)
  /\ Len(search.queried) > 0 =>
       \A a \in search.frontier : Linked(search.creator, a, search.queried[Len(search.queried)])

\* The addresses a search has met, the sender's aside.
Met == search.visited \ Senders

\* What a search that nothing has cut short knows of the transactions that were there
\* when it started: an address it met and does not ask next pays addresses it met, the
\* sender's never.
NothingMissed ==
  /\ Len(search.queried) < MaxHops
  /\ search.frontier \subseteq Met /\ Recipients \subseteq Met
  /\ ReachedIn(search.base, Len(search.queried)) \subseteq Met
  /\ PaidFrom(search.base, Met \ search.frontier) \subseteq Met

CycleInv ==
  /\ SearchShape
  /\ search.at = "hop" => OnItsWay
  /\ search.at = "hop" /\ ~ search.cut /\ IndexGaps = {} => NothingMissed
  /\ CycleVerdictRight /\ RingPathWhole

LEMMA CycleInitInv == CycleInit(TRUE) => CycleInv
<1>. SUFFICES ASSUME CycleInit(TRUE) PROVE CycleInv
  OBVIOUS
<1>1. ledger \in SUBSET Txs
  BY DEF CycleInit
<1>2. /\ search.at = "start" /\ DOMAIN search = SearchFields
      /\ search.queried = << >> /\ search.found = NoCycle
  BY DEF CycleInit, SearchFields
<1>3. << >> \in Seq(SUBSET Payees)
  BY EmptySeq
<1>. QED BY <1>1, <1>2, <1>3 DEF CycleInv, SearchShape, CycleVerdictRight, RingPathWhole

\* No cycle closes where the addresses met, which hold what MaxHops - 1 hops reach, pay
\* none of the sender's.
LEMMA NoneCloses ==
  ASSUME NEW L, NEW V, NEW W, ReachedIn(L, MaxHops - 1) \subseteq V,
         PaidFrom(L, V) \subseteq W, W \cap Senders = {}
  PROVE  ~ ClosesBy(L, MaxHops - 1)
<1>. SUFFICES ASSUME ClosesBy(L, MaxHops - 1) PROVE FALSE
  OBVIOUS
<1>1. PICK t \in L : /\ Spends(t, ReachedIn(L, MaxHops - 1) \ Senders)
                     /\ Paid(t) \cap Senders # {}
  BY DEF ClosesBy
<1>2. Spends(t, V)
  BY <1>1, SpendsMore
<1>3. Paid(t) \subseteq PaidFrom(L, V)
  BY <1>2 DEF PaidFrom
<1>. QED BY <1>1, <1>3

LEMMA NoCycleLength == NoCycle.length = 0 /\ ~ Scorable(NoCycle.length)
BY CycleAssumption DEF NoCycle, Scorable

LEMMA StartSearchKeeps == CycleInv /\ StartSearch => CycleInv'
<1>. SUFFICES ASSUME CycleInv, StartSearch PROVE CycleInv'
  OBVIOUS
<1>. DEFINE skip == Senders = {} \/ Recipients = {} \/ Cardinality(Recipients) > MaxOutputFanout
<1>1. /\ DOMAIN search = SearchFields /\ ledger \in SUBSET Txs
      /\ search.found = NoCycle /\ search.queried = << >> /\ search.at = "start"
  BY DEF CycleInv, SearchShape, StartSearch
<1>2. /\ ledger' = ledger /\ unindexed' = unindexed
      /\ DOMAIN search' = SearchFields
      /\ search'.at = (IF skip THEN "done" ELSE "hop")
      /\ search'.base = ledger /\ search'.frontier = Recipients
      /\ search'.visited = Senders \cup Recipients
      /\ search'.creator = [a \in Recipients |-> Origin]
      /\ search'.queried = << >> /\ search'.found = NoCycle
  BY <1>1 DEF StartSearch, SearchFields
<1>3. search'.cut = (Cardinality(Recipients) > MaxOutputFanout)
  BY <1>1 DEF StartSearch, SearchFields
<1>4. << >> \in Seq(SUBSET Payees) /\ Len(<< >>) = 0
  BY EmptySeq
<1>5. Recipients \in SUBSET Payees /\ Recipients \cap Senders = {}
  BY CycleConstants DEF Recipients, Payees
<1>6. SearchShape'
  BY <1>1, <1>2, <1>4 DEF SearchShape
<1>7. OnItsWay'
  <2>1. Recipients \subseteq ReachedIn(ledger, 0)
    BY ReachedStepwise
  <2>2. Chained(<< >>, search'.creator)
    BY <1>4 DEF Chained
  <2>. QED BY <1>2, <1>4, <1>5, <2>1, <2>2 DEF OnItsWay
<1>8. NothingMissed'
  <2>1. Met' = Recipients
    BY <1>2, <1>5 DEF Met
  <2>2. ReachedIn(ledger, 0) = Recipients
    BY ReachedStepwise
  <2>3. PaidFrom(ledger, Recipients \ Recipients) = {}
    BY DEF PaidFrom, Spends
  <2>4. Len(search'.queried) = 0 /\ 0 < MaxHops
    BY <1>2, <1>4, CycleConstants
  <2>5. PaidFrom(search'.base, Met' \ search'.frontier) = {}
    BY <1>2, <2>1, <2>3
  <2>6. ReachedIn(search'.base, Len(search'.queried)) = Recipients
    BY <1>2, <2>2, <2>4
  <2>. QED BY <1>2, <2>1, <2>4, <2>5, <2>6 DEF NothingMissed
<1>9. CycleVerdictRight'
  <2>1. ASSUME search'.at = "done", ~ search'.cut PROVE ~ ClosesBy(ledger, MaxHops - 1)
    <3>1. Senders = {} \/ Recipients = {}
      BY <2>1, <1>2, <1>3
    <3>2. CASE Senders = {}
      BY <3>2 DEF ClosesBy
    <3>3. CASE Recipients = {}
      <4>1. PaidFrom(ledger, {}) = {}
        BY DEF PaidFrom, Spends
      <4>2. MaxHops - 1 \in Nat
        BY CycleConstants
      <4>3. ReachedIn(ledger, MaxHops - 1) \subseteq {}
        BY <3>3, <4>1, <4>2, ReachedWithin
      <4>. QED BY <4>1, <4>3, NoneCloses
    <3>. QED BY <3>1, <3>2, <3>3
  <2>2. search'.found.length = 0
    BY <1>2, NoCycleLength
  <2>. QED BY <1>2, <2>1, <2>2 DEF CycleVerdictRight
<1>10. RingPathWhole'
  BY <1>2, NoCycleLength DEF RingPathWhole
<1>. QED BY <1>6, <1>7, <1>8, <1>9, <1>10 DEF CycleInv

LEMMA ArriveTxKeeps == CycleInv /\ (\E t \in Txs : ArriveTx(t)) => CycleInv'
<1>. SUFFICES ASSUME CycleInv, NEW t \in Txs, ArriveTx(t) PROVE CycleInv'
  OBVIOUS
<1>1. /\ search' = search /\ unindexed' = unindexed /\ ledger' = ledger \cup {t}
      /\ search.at = "hop" /\ SearchShape /\ OnItsWay
  BY DEF CycleInv, ArriveTx, Searching
<1>2. SearchShape'
  BY <1>1 DEF SearchShape
<1>3. OnItsWay'
  <2>1. Len(search.queried) \in Nat
    BY <1>1, LenProperties DEF SearchShape
  <2>2. ReachedIn(ledger, Len(search.queried)) \subseteq ReachedIn(ledger', Len(search.queried))
    BY <1>1, <2>1, ReachedGrows
  <2>. QED BY <1>1, <2>2 DEF OnItsWay
<1>4. ASSUME ~ search'.cut, IndexGaps' = {} PROVE NothingMissed'
  <2>1. IndexGaps \subseteq IndexGaps'
    BY <1>1 DEF IndexGaps
  <2>2. NothingMissed
    BY <1>1, <1>4, <2>1 DEF CycleInv
  <2>. QED BY <1>1, <2>2 DEF NothingMissed, Met
<1>5. CycleVerdictRight' /\ RingPathWhole'
  BY <1>1 DEF CycleVerdictRight, RingPathWhole
<1>. QED BY <1>1, <1>2, <1>3, <1>4, <1>5 DEF CycleInv

\* A hop that reads no row of one that nothing has cut short: nobody of the frontier pays.
LEMMA HopDone ==
  ASSUME CycleInv, Searching, ~ search.cut, IndexGaps = {},
         ~ (Cardinality(search.frontier) > MaxFanout)
  PROVE  /\ Asked(search.frontier) = search.frontier
         /\ PaidFrom(search.base, search.frontier) \subseteq {r.addr : r \in AllRows(search.frontier)}
<1>1. OnItsWay
  BY DEF CycleInv, Searching
<1>2. Asked(search.frontier) = search.frontier
  BY <1>1, AllAsked DEF OnItsWay
<1>3. ASSUME NEW x \in PaidFrom(search.base, search.frontier)
      PROVE  x \in {r.addr : r \in AllRows(search.frontier)}
  <2>1. PICK t \in search.base : Spends(t, search.frontier) /\ x \in Paid(t)
    BY DEF PaidFrom
  <2>2. t \in ledger
    BY <1>1 DEF OnItsWay
  <2>3. Indexed(t, search.frontier)
    BY <2>1, <2>2, NoGapIndexed
  <2>. QED BY <2>1, <2>2, <2>3, RowExists
<1>. QED BY <1>2, <1>3

\* The fields of the search after each outcome of a hop.
LEMMA EmptyHopFields ==
  ASSUME DOMAIN search = SearchFields, NEW s,
         s = [search EXCEPT !.at = "done",
                            !.cut = @ \/ Cardinality(search.frontier) > MaxFanout]
  PROVE  /\ DOMAIN s = SearchFields /\ s.at = "done" /\ s.found = search.found
         /\ s.queried = search.queried /\ s.base = search.base
         /\ ~ s.cut => ~ search.cut /\ ~ (Cardinality(search.frontier) > MaxFanout)
BY DEF SearchFields

LEMMA NextFrontierFields ==
  ASSUME DOMAIN search = SearchFields, NEW rows
  PROVE  /\ DOMAIN NextFrontier(rows) = SearchFields
         /\ NextFrontier(rows).at = IF NewAddresses(rows) = {} \/ Len(search.queried) + 1 >= MaxHops
                                    THEN "done" ELSE "hop"
         /\ NextFrontier(rows).found = search.found /\ NextFrontier(rows).base = search.base
         /\ NextFrontier(rows).frontier = NewAddresses(rows)
         /\ NextFrontier(rows).visited = search.visited \cup NewAddresses(rows)
         /\ NextFrontier(rows).queried = Append(search.queried, Asked(search.frontier))
         /\ DOMAIN NextFrontier(rows).creator = DOMAIN search.creator \cup NewAddresses(rows)
         /\ \A a \in DOMAIN search.creator : NextFrontier(rows).creator[a] = search.creator[a]
         /\ \A a \in NewAddresses(rows) \ DOMAIN search.creator :
              NextFrontier(rows).creator[a] = First(Paying(rows, {a})).tx
         /\ ~ NextFrontier(rows).cut =>
              /\ ~ search.cut /\ ~ (Cardinality(search.frontier) > MaxFanout)
              /\ ~ (Cardinality(AllRows(Asked(search.frontier))) > RowLimit)
BY DEF NextFrontier, SearchFields

ClosedBy(s, row, qs) ==
  /\ DOMAIN s = SearchFields /\ s.at = "done" /\ s.queried = qs
  /\ s.found.length = Len(qs) + 1 /\ s.found.closing = row.tx
  /\ Scorable(Len(qs) + 1) /\ ~ s.found.unavailable /\ RingPath(row.tx, qs, search.creator) # {} =>
       s.found.path = RingPath(row.tx, qs, search.creator)

LEMMA ClosesFields ==
  ASSUME DOMAIN search = SearchFields, NEW rows, NEW legFails \in BOOLEAN, NEW historyFails \in BOOLEAN,
         NEW row, row = First(Paying(rows, Senders)),
         NEW qs, qs = Append(search.queried, Asked(search.frontier))
  PROVE  ClosedBy(Closes(rows, legFails, historyFails), row, qs)
<1>. DEFINE s == Closes(rows, legFails, historyFails)
<1>. DEFINE asked == [search EXCEPT !.queried = Append(@, Asked(search.frontier))]
            length == Len(asked.queried) + 1
            leg == ClosingLeg(row, length, search.amounts, legFails)
            path == Intermediaries(row, length, asked, historyFails)
            lost == leg.unavailable \/ (historyFails /\ Scorable(length))
<1>1. /\ DOMAIN asked = SearchFields /\ asked.queried = qs /\ asked.creator = search.creator
      /\ asked.reps = search.reps /\ asked.amounts = search.amounts
  BY DEF SearchFields
<1>2. \E n, m : s = [asked EXCEPT !.at = "done", !.amounts = n,
                        !.found = [length |-> length, closing |-> row.tx, matched |-> row.paid,
                                   returned |-> leg.returned, netLoss |-> m,
                                   path |-> path, unavailable |-> lost]]
  BY Zenon DEF Closes
<1>. HIDE DEF asked, length, leg, path, lost
<1>3. PICK n, m : s = [asked EXCEPT !.at = "done", !.amounts = n,
                        !.found = [length |-> length, closing |-> row.tx, matched |-> row.paid,
                                   returned |-> leg.returned, netLoss |-> m,
                                   path |-> path, unavailable |-> lost]]
  BY <1>2
<1>4. /\ DOMAIN s = SearchFields /\ s.at = "done" /\ s.queried = qs
      /\ s.found = [length |-> length, closing |-> row.tx, matched |-> row.paid,
                    returned |-> leg.returned, netLoss |-> m, path |-> path, unavailable |-> lost]
  BY <1>1, <1>3 DEF SearchFields
<1>5. /\ s.found.length = length /\ s.found.closing = row.tx /\ s.found.path = path
      /\ s.found.unavailable = lost
  BY <1>4
<1>6. length = Len(qs) + 1
  BY <1>1 DEF length
<1>7. Scorable(length) /\ ~ lost => ~ historyFails
  BY DEF lost
<1>8. Scorable(length) /\ ~ historyFails /\ RingPath(row.tx, qs, search.creator) # {}
      => path = RingPath(row.tx, qs, search.creator)
  BY <1>1 DEF path, Intermediaries
<1>. HIDE DEF s
<1>. QED BY <1>4, <1>5, <1>6, <1>7, <1>8 DEF ClosedBy, s

LEMMA PaidFromSplit ==
  ASSUME NEW L, NEW A, NEW B
  PROVE  PaidFrom(L, A) \subseteq PaidFrom(L, A \ B) \cup PaidFrom(L, B)
<1>. SUFFICES ASSUME NEW x \in PaidFrom(L, A) PROVE x \in PaidFrom(L, A \ B) \cup PaidFrom(L, B)
  OBVIOUS
<1>1. PICK t \in L : Spends(t, A) /\ x \in Paid(t)
  BY DEF PaidFrom
<1>2. Spends(t, A \ B) \/ Spends(t, B)
  BY <1>1 DEF Spends
<1>3. CASE Spends(t, A \ B)
  <2>1. t \in {u \in L : Spends(u, A \ B)} BY <1>3
  <2>. QED BY <1>1, <2>1 DEF PaidFrom
<1>4. CASE Spends(t, B)
  <2>1. t \in {u \in L : Spends(u, B)} BY <1>4
  <2>. QED BY <1>1, <2>1 DEF PaidFrom
<1>. QED BY <1>2, <1>3, <1>4

LEMMA EmptyHopKeeps ==
  ASSUME CycleInv, Searching, HopRows(Asked(search.frontier)) = {},
         ledger' = ledger, unindexed' = unindexed,
         search' = [search EXCEPT !.at = "done",
                                  !.cut = @ \/ Cardinality(search.frontier) > MaxFanout]
  PROVE  CycleInv'
<1>1. SearchShape /\ OnItsWay /\ DOMAIN search = SearchFields
  BY DEF CycleInv, Searching, SearchShape
<1>2. /\ DOMAIN search' = SearchFields /\ search'.at = "done" /\ search'.found = search.found
      /\ search'.queried = search.queried /\ search'.base = search.base
      /\ ~ search'.cut => ~ search.cut /\ ~ (Cardinality(search.frontier) > MaxFanout)
  BY <1>1, EmptyHopFields
<1>3. search'.found = NoCycle
  BY <1>1, <1>2 DEF OnItsWay
<1>4. SearchShape'
  BY <1>1, <1>2 DEF SearchShape
<1>5. ASSUME ~ search'.cut, IndexGaps' = {} PROVE ~ ClosesBy(search.base, MaxHops - 1)
  <2>1. IndexGaps = {}
    BY <1>5 DEF IndexGaps
  <2>2. NothingMissed
    BY <1>2, <1>5, <2>1 DEF CycleInv, Searching
  <2>3. AllRows(Asked(search.frontier)) = {}
    BY <1>1, SomeRowRead DEF SearchShape
  <2>4. /\ Asked(search.frontier) = search.frontier
        /\ PaidFrom(search.base, search.frontier) \subseteq {r.addr : r \in AllRows(search.frontier)}
    BY <1>2, <1>5, <2>1, HopDone
  <2>5. PaidFrom(search.base, search.frontier) = {}
    BY <2>3, <2>4
  <2>6. PaidFrom(search.base, Met) \subseteq Met
    <3>1. PaidFrom(search.base, Met) \subseteq
            PaidFrom(search.base, Met \ search.frontier) \cup PaidFrom(search.base, search.frontier)
      BY PaidFromSplit
    <3>. QED BY <3>1, <2>5, <2>2 DEF NothingMissed
  <2>7. MaxHops - 1 \in Nat
    BY CycleConstants
  <2>8. ReachedIn(search.base, MaxHops - 1) \subseteq Met
    BY <2>2, <2>6, <2>7, ReachedWithin DEF NothingMissed
  <2>9. Met \cap Senders = {}
    BY DEF Met
  <2>. QED BY <2>6, <2>8, <2>9, NoneCloses
<1>6. CycleVerdictRight'
  <2>1. search'.found.length = 0
    BY <1>3, NoCycleLength
  <2>. QED BY <1>2, <1>5, <2>1 DEF CycleVerdictRight
<1>7. RingPathWhole'
  BY <1>3, NoCycleLength DEF RingPathWhole
<1>. QED BY <1>2, <1>4, <1>6, <1>7 DEF CycleInv

\* The rows of a hop, and the addresses it adds.
LEMMA HopReads ==
  ASSUME CycleInv, Searching, NEW rows, rows = HopRows(Asked(search.frontier))
  PROVE  /\ rows \subseteq AllRows(Asked(search.frontier))
         /\ \A r \in rows : /\ r.tx \in ledger /\ Spends(r.tx, Asked(search.frontier))
                            /\ r.addr \in Paid(r.tx)
                            /\ r.addr \in PaidFrom(ledger, Asked(search.frontier))
                            /\ r.addr \in Payees
         /\ NewAddresses(rows) \in SUBSET Payees
         /\ NewAddresses(rows) \cap search.visited = {}
         /\ NewAddresses(rows) \subseteq PaidFrom(ledger, Asked(search.frontier))
<1>1. SearchShape
  BY DEF CycleInv
<1>2. rows \subseteq AllRows(Asked(search.frontier))
  BY DEF HopRows
<1>3. ASSUME NEW r \in rows
      PROVE  /\ r.tx \in ledger /\ Spends(r.tx, Asked(search.frontier))
             /\ r.addr \in Paid(r.tx)
             /\ r.addr \in PaidFrom(ledger, Asked(search.frontier))
             /\ r.addr \in Payees
  <2>1. r.tx \in ledger /\ Spends(r.tx, Asked(search.frontier)) /\ r.addr \in Paid(r.tx)
    BY <1>1, <1>2, RowMeaning DEF SearchShape
  <2>2. r.tx \in {u \in ledger : Spends(u, Asked(search.frontier))} /\ r.tx \in Txs
    BY <1>1, <2>1 DEF SearchShape
  <2>3. r.addr \in PaidFrom(ledger, Asked(search.frontier))
    BY <2>1, <2>2 DEF PaidFrom
  <2>4. r.addr \in Payees
    BY <2>1, <2>2 DEF Payees
  <2>. QED BY <2>1, <2>3, <2>4
<1>. QED BY <1>2, <1>3 DEF NewAddresses

LEMMA AppendAt ==
  ASSUME NEW X, NEW qs \in Seq(X), NEW x
  PROVE  /\ Len(Append(qs, x)) = Len(qs) + 1 /\ Len(qs) \in Nat
         /\ \A i \in 1..Len(qs) : Append(qs, x)[i] = qs[i]
         /\ Append(qs, x)[Len(qs) + 1] = x
<1>1. qs \in Seq(X \cup {x}) /\ x \in X \cup {x}
  <2>1. Len(qs) \in Nat /\ qs \in [1..Len(qs) -> X] BY LenProperties
  <2>. QED BY <2>1
<1>2. Len(qs) \in Nat BY LenProperties
<1>. QED BY <1>1, <1>2, AppendProperties

\* One more hop asked keeps the chain, since the frontier was paid out of the hop before.
LEMMA ChainExtends ==
  ASSUME NEW X, NEW qs \in Seq(X), NEW c, NEW A, Chained(qs, c),
         Len(qs) > 0 => \A a \in A : Linked(c, a, qs[Len(qs)])
  PROVE  Chained(Append(qs, A), c)
<1>1. /\ Len(Append(qs, A)) = Len(qs) + 1 /\ Len(qs) \in Nat
      /\ \A i \in 1..Len(qs) : Append(qs, A)[i] = qs[i]
      /\ Append(qs, A)[Len(qs) + 1] = A
  BY AppendAt
<1>. SUFFICES ASSUME NEW k \in 1..Len(qs), NEW a \in Append(qs, A)[k + 1]
              PROVE  Linked(c, a, Append(qs, A)[k])
  BY <1>1 DEF Chained
<1>2. CASE k = Len(qs)
  BY <1>1, <1>2
<1>3. CASE k # Len(qs)
  <2>1. k \in 1..(Len(qs) - 1) /\ k + 1 \in 1..Len(qs)
    BY <1>1, <1>3
  <2>2. Append(qs, A)[k + 1] = qs[k + 1] /\ Append(qs, A)[k] = qs[k]
    BY <1>1, <2>1
  <2>. QED BY <2>1, <2>2 DEF Chained
<1>. QED BY <1>2, <1>3

LEMMA NextHopKeeps ==
  ASSUME CycleInv, Searching, NEW rows, rows = HopRows(Asked(search.frontier)),
         Paying(rows, Senders) = {},
         ledger' = ledger, unindexed' = unindexed, search' = NextFrontier(rows)
  PROVE  CycleInv'
<1>. DEFINE new == NewAddresses(rows)
            asked == Asked(search.frontier)
            qs == search.queried
<1>1. SearchShape /\ OnItsWay /\ DOMAIN search = SearchFields /\ qs \in Seq(SUBSET Payees)
  BY DEF CycleInv, Searching, SearchShape
<1>2. /\ DOMAIN search' = SearchFields
      /\ search'.at = (IF new = {} \/ Len(qs) + 1 >= MaxHops THEN "done" ELSE "hop")
      /\ search'.found = search.found /\ search'.base = search.base
      /\ search'.frontier = new /\ search'.visited = search.visited \cup new
      /\ search'.queried = Append(qs, asked)
      /\ DOMAIN search'.creator = DOMAIN search.creator \cup new
      /\ \A a \in DOMAIN search.creator : search'.creator[a] = search.creator[a]
      /\ \A a \in new \ DOMAIN search.creator : search'.creator[a] = First(Paying(rows, {a})).tx
      /\ ~ search'.cut => /\ ~ search.cut /\ ~ (Cardinality(search.frontier) > MaxFanout)
                          /\ ~ (Cardinality(AllRows(asked)) > RowLimit)
  BY <1>1, NextFrontierFields
<1>3. /\ rows \subseteq AllRows(asked)
      /\ \A r \in rows : r.tx \in ledger /\ Spends(r.tx, asked)
      /\ new \in SUBSET Payees /\ new \cap search.visited = {}
      /\ new \subseteq PaidFrom(ledger, asked)
  BY HopReads
<1>4. asked \subseteq search.frontier /\ asked \in SUBSET Payees
  BY <1>1, AskedWithin DEF OnItsWay
<1>. HIDE DEF asked
<1>5. /\ Len(search'.queried) = Len(qs) + 1 /\ Len(qs) \in Nat
      /\ search'.queried[Len(qs) + 1] = asked
      /\ search'.queried \in Seq(SUBSET Payees)
  <2>1. Append(qs, asked) \in Seq(SUBSET Payees)
    BY <1>1, <1>4, AppendProperties
  <2>. QED BY <1>1, <1>2, <2>1, AppendAt
<1>6. SearchShape'
  BY <1>1, <1>2, <1>5 DEF SearchShape
<1>7. ASSUME NEW a \in new PROVE Linked(search'.creator, a, asked)
  <2>. DEFINE R == Paying(rows, {a})
  <2>1. R # {} /\ R \subseteq AllRows(asked)
    BY <1>3 DEF NewAddresses, Paying
  <2>2. First(R) \in R
    <3>. HIDE DEF R
    <3>. QED BY <1>1, <2>1, FirstIsOldest DEF SearchShape
  <2>3. Spends(First(R).tx, asked)
    BY <2>2, <1>3 DEF Paying
  <2>4. a \notin DOMAIN search.creator
    BY <1>1, <1>3 DEF OnItsWay
  <2>5. a \in DOMAIN search'.creator /\ search'.creator[a] = First(R).tx
    BY <1>2, <2>4
  <2>. HIDE DEF R
  <2>. QED BY <2>3, <2>5 DEF Linked, Spends
<1>8. Chained(search'.queried, search'.creator)
  <2>1. Chained(Append(qs, asked), search.creator)
    <3>1. Chained(qs, search.creator)
      BY <1>1 DEF OnItsWay
    <3>2. Len(qs) > 0 => \A a \in asked : Linked(search.creator, a, qs[Len(qs)])
      BY <1>1, <1>4 DEF OnItsWay
    <3>. QED BY <1>1, <3>1, <3>2, ChainExtends
  <2>2. ASSUME NEW a, NEW A, Linked(search.creator, a, A) PROVE Linked(search'.creator, a, A)
    <3>1. a \in DOMAIN search.creator
      BY <2>2 DEF Linked
    <3>2. a \in DOMAIN search'.creator /\ search'.creator[a] = search.creator[a]
      BY <1>2, <3>1
    <3>. QED BY <2>2, <3>2 DEF Linked
  <2>3. Chained(Append(qs, asked), search'.creator)
    BY <2>1, <2>2 DEF Chained
  <2>. QED BY <1>2, <2>3
<1>9. OnItsWay'
  <2>1. search'.found = NoCycle /\ search'.base \subseteq ledger
    BY <1>1, <1>2 DEF OnItsWay
  <2>2. search'.frontier \subseteq ReachedIn(ledger, Len(qs) + 1)
    <3>1. asked \subseteq ReachedIn(ledger, Len(qs))
      BY <1>1, <1>4 DEF OnItsWay
    <3>2. PaidFrom(ledger, asked) \subseteq PaidFrom(ledger, ReachedIn(ledger, Len(qs)))
      BY ONLY <3>1, PaidFromMore
    <3>3. ReachedIn(ledger, Len(qs) + 1)
            = ReachedIn(ledger, Len(qs)) \cup PaidFrom(ledger, ReachedIn(ledger, Len(qs)))
      BY <1>5, ReachedStepwise
    <3>. QED BY <1>2, <1>3, <3>2, <3>3
  <2>3. Senders \subseteq search'.visited /\ DOMAIN search'.creator \subseteq search'.visited
    <3>1. Senders \subseteq search.visited /\ DOMAIN search.creator \subseteq search.visited
      BY <1>1 DEF OnItsWay
    <3>2. DOMAIN search'.creator = DOMAIN search.creator \cup new
      BY <1>2
    <3>. QED BY <1>2, <3>1, <3>2
  <2>4. \A a \in search'.frontier : Linked(search'.creator, a, search'.queried[Len(search'.queried)])
    BY <1>2, <1>5, <1>7
  <2>5. search'.frontier \in SUBSET Payees
    BY <1>2, <1>3
  <2>. QED BY <1>5, <1>8, <2>1, <2>2, <2>3, <2>4, <2>5 DEF OnItsWay
<1>10. ASSUME ~ search'.cut, IndexGaps' = {}
       PROVE  /\ NothingMissed
              /\ PaidFrom(search.base, Met) \subseteq Met \cup new
              /\ Met' = Met \cup new /\ Met \cap new = {} /\ (Met \cup new) \cap Senders = {}
  <2>1. IndexGaps = {}
    BY <1>10 DEF IndexGaps
  <2>2. NothingMissed
    BY <1>2, <1>10, <2>1 DEF CycleInv, Searching
  <2>3. /\ Asked(search.frontier) = search.frontier
        /\ PaidFrom(search.base, search.frontier) \subseteq {r.addr : r \in AllRows(search.frontier)}
    BY <1>2, <1>10, <2>1, HopDone
  <2>4. HopRows(asked) = AllRows(asked)
    BY <1>1, <1>2, <1>10, AllRowsRead DEF SearchShape
  <2>5. rows = AllRows(search.frontier)
    BY <2>3, <2>4 DEF asked
  <2>6. Senders \subseteq search.visited
    BY <1>1 DEF OnItsWay
  <2>7. {r.addr : r \in rows} \subseteq Met \cup new
    BY <2>6 DEF Met, NewAddresses, Paying
  <2>8. PaidFrom(search.base, Met) \subseteq
          PaidFrom(search.base, Met \ search.frontier) \cup PaidFrom(search.base, search.frontier)
    BY PaidFromSplit
  <2>9. PaidFrom(search.base, Met) \subseteq Met \cup new
    BY <2>2, <2>3, <2>5, <2>7, <2>8 DEF NothingMissed
  <2>10. Met' = Met \cup new /\ Met \cap new = {} /\ (Met \cup new) \cap Senders = {}
    <3>. HIDE DEF new
    <3>. QED BY <1>2, <1>3, <2>6 DEF Met
  <2>. QED BY <2>2, <2>9, <2>10
<1>. HIDE DEF new
<1>11. ASSUME ~ search'.cut, IndexGaps' = {}, search'.at = "hop" PROVE NothingMissed'
  <2>1. Len(search'.queried) < MaxHops
    BY <1>2, <1>5, <1>11, CycleConstants
  <2>2. search'.frontier \subseteq Met' /\ Recipients \subseteq Met'
    BY <1>2, <1>10, <1>11 DEF NothingMissed
  <2>3. ReachedIn(search'.base, Len(search'.queried)) \subseteq Met'
    <3>1. ReachedIn(search.base, Len(qs)) \subseteq Met
      BY <1>10, <1>11 DEF NothingMissed
    <3>2. PaidFrom(search.base, ReachedIn(search.base, Len(qs))) \subseteq PaidFrom(search.base, Met)
      BY ONLY <3>1, PaidFromMore
    <3>3. ReachedIn(search.base, Len(qs) + 1)
            = ReachedIn(search.base, Len(qs)) \cup PaidFrom(search.base, ReachedIn(search.base, Len(qs)))
      BY <1>5, ReachedStepwise
    <3>4. ReachedIn(search.base, Len(qs) + 1) \subseteq Met \cup new
      BY <1>10, <1>11, <3>1, <3>2, <3>3
    <3>. QED BY <1>2, <1>5, <1>10, <1>11, <3>4
  <2>4. PaidFrom(search'.base, Met' \ search'.frontier) \subseteq Met'
    <3>1. Met' \ search'.frontier = Met
      BY <1>2, <1>10, <1>11
    <3>. QED BY <1>2, <1>10, <1>11, <3>1
  <2>. QED BY <2>1, <2>2, <2>3, <2>4 DEF NothingMissed
<1>12. CycleVerdictRight'
  <2>1. ASSUME search'.at = "done", ~ search'.cut, IndexGaps' = {}
        PROVE  ~ ClosesBy(search.base, MaxHops - 1)
    <3>1. ReachedIn(search.base, MaxHops - 1) \subseteq Met
      <4>1. CASE new = {}
        <5>1. PaidFrom(search.base, Met) \subseteq Met /\ Recipients \subseteq Met
          BY <2>1, <1>10, <4>1 DEF NothingMissed
        <5>2. MaxHops - 1 \in Nat
          BY CycleConstants
        <5>. QED BY <5>1, <5>2, ReachedWithin
      <4>2. CASE new # {}
        <5>1. Len(qs) + 1 >= MaxHops
          BY <2>1, <4>2, <1>2
        <5>2. Len(qs) < MaxHops
          BY <2>1, <1>10 DEF NothingMissed
        <5>3. MaxHops - 1 = Len(qs)
          BY <5>1, <5>2, <1>5, CycleConstants
        <5>. QED BY <2>1, <1>10, <5>3 DEF NothingMissed
      <4>. QED BY <4>1, <4>2
    <3>. QED BY <3>1, <2>1, <1>10, NoneCloses
  <2>2. search'.found.length = 0
    BY <1>1, <1>2, NoCycleLength DEF OnItsWay
  <2>. QED BY <1>2, <2>1, <2>2 DEF CycleVerdictRight
<1>13. RingPathWhole'
  <2>1. search'.found = NoCycle
    BY <1>9 DEF OnItsWay
  <2>. QED BY <2>1, NoCycleLength DEF RingPathWhole
<1>. QED BY <1>6, <1>9, <1>11, <1>12, <1>13 DEF CycleInv

LEMMA ClosingHopKeeps ==
  ASSUME CycleInv, Searching, NEW rows, rows = HopRows(Asked(search.frontier)),
         Paying(rows, Senders) # {},
         NEW legFails \in BOOLEAN, NEW historyFails \in BOOLEAN,
         ledger' = ledger, unindexed' = unindexed, search' = Closes(rows, legFails, historyFails)
  PROVE  CycleInv'
<1>. DEFINE asked == Asked(search.frontier)
            qs == Append(search.queried, asked)
            R == Paying(rows, Senders)
            row == First(R)
<1>1. SearchShape /\ OnItsWay /\ DOMAIN search = SearchFields /\ search.queried \in Seq(SUBSET Payees)
  BY DEF CycleInv, Searching, SearchShape
<1>2. /\ DOMAIN search' = SearchFields /\ search'.at = "done" /\ search'.queried = qs
      /\ search'.found.length = Len(qs) + 1 /\ search'.found.closing = row.tx
      /\ Scorable(Len(qs) + 1) /\ ~ search'.found.unavailable /\ RingPath(row.tx, qs, search.creator) # {} =>
           search'.found.path = RingPath(row.tx, qs, search.creator)
  <2>1. qs = Append(search.queried, Asked(search.frontier)) /\ row = First(Paying(rows, Senders))
    OBVIOUS
  <2>. HIDE DEF asked, qs, R, row
  <2>2. ClosedBy(search', row, qs)
    BY <1>1, <2>1, ClosesFields
  <2>. QED BY <2>2 DEF ClosedBy
<1>3. /\ rows \subseteq AllRows(asked)
      /\ \A r \in rows : r.tx \in ledger /\ Spends(r.tx, asked) /\ r.addr \in Paid(r.tx)
  BY HopReads
<1>4. row \in R
  <2>1. R # {} /\ R \subseteq AllRows(asked)
    BY <1>3 DEF Paying
  <2>. HIDE DEF R, asked
  <2>. QED BY <1>1, <2>1, FirstIsOldest DEF SearchShape
<1>. HIDE DEF row
<1>5. Spends(row.tx, asked) /\ Paid(row.tx) \cap Senders # {}
  BY <1>3, <1>4 DEF Paying
<1>6. asked \subseteq search.frontier /\ asked \in SUBSET Payees
  BY <1>1, AskedWithin DEF OnItsWay
<1>. HIDE DEF asked, R
<1>7. /\ Len(qs) = Len(search.queried) + 1 /\ Len(search.queried) \in Nat
      /\ qs[Len(qs)] = asked /\ qs \in Seq(SUBSET Payees) /\ DOMAIN qs = 1..Len(qs)
  <2>1. qs \in Seq(SUBSET Payees)
    BY <1>1, <1>6, AppendProperties
  <2>2. DOMAIN qs = 1..Len(qs)
    BY <2>1, LenProperties
  <2>. QED BY <1>1, <2>1, <2>2, AppendAt
<1>8. Chained(qs, search.creator)
  <2>1. Chained(search.queried, search.creator)
    BY <1>1 DEF OnItsWay
  <2>2. Len(search.queried) > 0 =>
          \A a \in asked : Linked(search.creator, a, search.queried[Len(search.queried)])
    BY <1>1, <1>6 DEF OnItsWay
  <2>. QED BY <1>1, <2>1, <2>2, ChainExtends
<1>. HIDE DEF qs
<1>9. \A i \in 1..Len(qs) : RingPath(row.tx, qs, search.creator) \cap qs[i] # {}
  <2>1. Len(qs) > 0
    BY <1>7
  <2>2. Pool[row.tx].spends \cap qs[Len(qs)] # {}
    BY <1>5, <1>7 DEF Spends
  <2>. QED BY <1>7, <1>8, <2>1, <2>2, RingPathMeetsAll
<1>10. RingPathWhole'
  <2>1. RingPath(row.tx, qs, search.creator) # {}
    <3>1. 1 \in 1..Len(qs)
      BY <1>7
    <3>. QED BY <3>1, <1>9
  <2>. QED BY <1>2, <1>7, <1>9, <2>1 DEF RingPathWhole
<1>11. CycleVerdictRight'
  <2>1. Len(qs) + 1 - 2 = Len(search.queried) /\ Len(qs) + 1 > 0
    BY <1>7
  <2>2. Spends(row.tx, ReachedIn(ledger, Len(search.queried)))
    <3>1. asked \subseteq ReachedIn(ledger, Len(search.queried))
      BY <1>1, <1>6 DEF OnItsWay
    <3>. QED BY <1>5, <3>1, SpendsMore
  <2>. QED BY <1>2, <1>5, <2>1, <2>2 DEF CycleVerdictRight
<1>12. SearchShape'
  BY <1>1, <1>2, <1>7 DEF SearchShape
<1>. QED BY <1>2, <1>10, <1>11, <1>12 DEF CycleInv

LEMMA HopKeeps == CycleInv /\ Hop => CycleInv'
<1>. SUFFICES ASSUME CycleInv, Hop PROVE CycleInv'
  OBVIOUS
<1>. DEFINE rows == HopRows(Asked(search.frontier))
<1>1. Searching /\ ledger' = ledger /\ unindexed' = unindexed
  BY DEF Hop
<1>2. CASE rows = {} /\ search' = [search EXCEPT !.at = "done",
                                     !.cut = @ \/ Cardinality(search.frontier) > MaxFanout]
  BY <1>1, <1>2, EmptyHopKeeps
<1>3. CASE rows # {} /\ Paying(rows, Senders) = {} /\ search' = NextFrontier(rows)
  BY <1>1, <1>3, NextHopKeeps
<1>4. CASE /\ Paying(rows, Senders) # {}
           /\ \E legFails, historyFails \in BOOLEAN : search' = Closes(rows, legFails, historyFails)
  <2>1. PICK legFails \in BOOLEAN, historyFails \in BOOLEAN :
               search' = Closes(rows, legFails, historyFails)
    BY <1>4
  <2>. QED BY <1>1, <1>4, <2>1, ClosingHopKeeps
<1>. QED BY <1>2, <1>3, <1>4 DEF Hop

(* A reported cycle is a walk of value through stored transactions back to *)
(* the sender, its stored path passes every hop, and a search that nothing *)
(* cut short, over a complete index, misses no cycle that was there when   *)
(* it started: for every set of transactions, whatever arrives meanwhile   *)
(* (detect_cycle, _HOP_QUERY, _ring_path).                                 *)
THEOREM CycleVerdictIsRight == CycleSpec => [](CycleVerdictRight /\ RingPathWhole)
<1>1. CycleInv /\ [CycleNext]_cycleVars => CycleInv'
  <2>1. CycleInv /\ UNCHANGED cycleVars => CycleInv'
    BY DEF cycleVars, CycleInv, SearchShape, OnItsWay, NothingMissed, Met, IndexGaps,
           CycleVerdictRight, RingPathWhole
  <2>. QED BY <2>1, StartSearchKeeps, HopKeeps, ArriveTxKeeps DEF CycleNext
<1>2. CycleInv => CycleVerdictRight /\ RingPathWhole
  BY DEF CycleInv
<1>. QED BY <1>1, <1>2, CycleInitInv, PTL DEF CycleSpec
=============================================================================
