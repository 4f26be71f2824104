------------------------------- MODULE Engine -------------------------------
(***************************************************************************)
(* The scoring loop of backend/app/analysis/engine.py: the watermark poll, *)
(* the periodic full rescan, the two deferral budgets and the score        *)
(* insert, with the background task of tasks/analysis.py that drives it.   *)
(*                                                                         *)
(* run_once runs on an executor thread, so cancelling the task that awaits *)
(* it (tasks/analysis.stop, on a loss of leadership) leaves the thread     *)
(* running: after a new start() two passes overlap.  A worker is such a    *)
(* thread; owner is the one the current task waits for.                    *)
(*                                                                         *)
(* Seconds of the wall clock are ticks of clock.  The monotonic timers     *)
(* (rescan interval, pacing windows) only appear as the event that they    *)
(* have run out, which may come at any time.                               *)
(***************************************************************************)
EXTENDS Integers, FiniteSets

CONSTANTS
    Tx,             \* transactions of the network the engine scores
    Worker,         \* executor threads; its size bounds the orphaned passes
    NoWorker,       \* no task is running
    Truncated,      \* rows whose raw_data column cannot be parsed
    Lost,           \* truncated rows whose blob is gone from the raw store
    Batch,          \* ANALYSIS_ENGINE_BATCH_SIZE
    Overlap,        \* UNANALYZED_OVERLAP_SECONDS
    Window,         \* UNANALYZED_FULL_RESCAN_WINDOW_SECONDS, 0 = unbounded
    RawAttempts,    \* RAW_FALLBACK_MAX_ATTEMPTS
    DeferAttempts,  \* ANALYSIS_DEFER_MAX_ATTEMPTS
    DeferEnabled,   \* ANALYSIS_DEFER_ENABLED
    MaxClock,       \* bound: last tick of the wall clock
    MaxFaults       \* bound: failures, restarts and task cancellations

ASSUME EngineAssumption ==
    /\ NoWorker \notin Worker
    /\ Lost \subseteq Truncated /\ Truncated \subseteq Tx
    /\ Batch \in Nat \ {0}
    /\ Overlap \in Nat /\ Window \in Nat
    /\ RawAttempts \in Nat \ {0} /\ DeferAttempts \in Nat \ {0}
    /\ DeferEnabled \in BOOLEAN
    /\ MaxClock \in Nat /\ MaxFaults \in Nat

VARIABLES
    clock,      \* the host's wall clock
    ts,         \* ingestion_timestamp, stamped when the block is parsed
    stage,      \* "absent", "stamped", then "ready" once the poll can see it
    scored,     \* rows of tx_class_scores
    owner,      \* the worker the running task awaits, or NoWorker
    watermark,  \* _unanalyzed_watermark, 0 before the first batch
    rescanDue,  \* _last_full_rescan is unset or an interval old
    rawTries,   \* _raw_fallback_attempts, counted attempts
    rawPaced,   \* entries still inside RAW_FALLBACK_RETRY_SECONDS
    defTries,   \* _analysis_defer_attempts, counted attempts
    defPaced,   \* entries still inside ANALYSIS_DEFER_RETRY_SECONDS
    pc,         \* per worker: the step of run_once that comes next
    full,       \* per worker: full_rescan
    fetched,    \* per worker: rows the poll returned
    kept,       \* per worker: rows not deferred so far
    faults      \* failures injected so far (bounded by MaxFaults)

\* Observations that the program does not keep.
VARIABLES
    deferred,   \* rows some pass has deferred
    late,       \* rows that became visible more than Overlap after their stamp
    gaps        \* raw pacing windows a row has sat out, counted to the budget

tables == <<ts, stage, scored>>
cursors == <<watermark, rescanDue>>
budgets == <<rawTries, rawPaced, defTries, defPaced>>
passes == <<pc, full, fetched, kept>>
history == <<deferred, late, gaps>>
vars == <<clock, tables, owner, cursors, budgets, passes, faults, history>>

-----------------------------------------------------------------------------
Zero == [t \in Tx |-> 0]

TypeOK ==
    /\ clock \in Nat /\ ts \in [Tx -> Nat]
    /\ stage \in [Tx -> {"absent", "stamped", "ready"}]
    /\ scored \subseteq Tx
    /\ owner \in Worker \cup {NoWorker}
    /\ watermark \in Nat /\ rescanDue \in BOOLEAN
    /\ rawTries \in [Tx -> 0 .. RawAttempts - 1] /\ rawPaced \subseteq Tx
    /\ defTries \in [Tx -> 0 .. DeferAttempts - 1] /\ defPaced \subseteq Tx
    /\ pc \in [Worker -> {"idle", "resolve", "score", "insert"}]
    /\ full \in [Worker -> BOOLEAN]
    /\ fetched \in [Worker -> SUBSET Tx]
    /\ kept \in [Worker -> SUBSET Tx]
    /\ faults \in Nat
    /\ deferred \subseteq Tx /\ late \subseteq Tx /\ gaps \in [Tx -> Nat]

Init ==
    /\ clock = Overlap + 1 /\ ts = Zero /\ stage = [t \in Tx |-> "absent"]
    /\ scored = {} /\ owner = NoWorker
    /\ watermark = 0 /\ rescanDue = TRUE
    /\ rawTries = Zero /\ rawPaced = {} /\ defTries = Zero /\ defPaced = {}
    /\ pc = [w \in Worker |-> "idle"] /\ full = [w \in Worker |-> FALSE]
    /\ fetched = [w \in Worker |-> {}] /\ kept = [w \in Worker |-> {}]
    /\ faults = 0 /\ deferred = {} /\ late = {} /\ gaps = Zero

Fault == faults < MaxFaults /\ faults' = faults + 1

-----------------------------------------------------------------------------
(* The ingestion side and the clocks.                                      *)

Tick ==
    /\ clock < MaxClock
    /\ clock' = clock + 1
    /\ UNCHANGED <<tables, owner, cursors, budgets, passes, faults, history>>

\* NormalizedTransaction takes its ingestion_timestamp when the block is parsed.
Parse(t) ==
    /\ stage[t] = "absent"
    /\ stage' = [stage EXCEPT ![t] = "stamped"]
    /\ ts' = [ts EXCEPT ![t] = clock]
    /\ UNCHANGED <<clock, scored, owner, cursors, budgets, passes, faults, history>>

\* The insert that makes the row fetchable: its transaction_inputs rows, or the
\* transactions row itself when it has no inputs.  Raw writes and insert retries
\* may delay it.
BecomeVisible(t) ==
    /\ stage[t] = "stamped"
    /\ stage' = [stage EXCEPT ![t] = "ready"]
    /\ late' = IF ts[t] + Overlap < clock THEN late \cup {t} ELSE late
    /\ UNCHANGED <<clock, ts, scored, owner, cursors, budgets, passes, faults, deferred, gaps>>

RescanIntervalOver ==
    /\ ~rescanDue
    /\ rescanDue' = TRUE
    /\ UNCHANGED <<clock, tables, owner, watermark, budgets, passes, faults, history>>

RawWindowOver(t) ==
    /\ t \in rawPaced
    /\ rawPaced' = rawPaced \ {t}
    /\ gaps' = [gaps EXCEPT ![t] = IF @ < RawAttempts - 1 THEN @ + 1 ELSE @]
    /\ UNCHANGED <<clock, tables, owner, cursors, rawTries, defTries, defPaced, passes,
                   faults, deferred, late>>

DeferWindowOver(t) ==
    /\ t \in defPaced
    /\ defPaced' = defPaced \ {t}
    /\ UNCHANGED <<clock, tables, owner, cursors, rawTries, rawPaced, defTries, passes,
                   faults, history>>

-----------------------------------------------------------------------------
(* The background task.                                                    *)

StartTask(w) ==
    /\ owner = NoWorker /\ pc[w] = "idle"
    /\ owner' = w
    /\ UNCHANGED <<clock, tables, cursors, budgets, passes, faults, history>>

\* Cancelling the task does not stop the thread inside run_once.
StopTask ==
    /\ owner # NoWorker /\ Fault
    /\ owner' = NoWorker
    /\ UNCHANGED <<clock, tables, cursors, budgets, passes, history>>

Restart ==
    /\ Fault
    /\ owner' = NoWorker /\ watermark' = 0 /\ rescanDue' = TRUE
    /\ rawTries' = Zero /\ rawPaced' = {} /\ defTries' = Zero /\ defPaced' = {}
    /\ pc' = [w \in Worker |-> "idle"] /\ full' = [w \in Worker |-> FALSE]
    /\ fetched' = [w \in Worker |-> {}] /\ kept' = [w \in Worker |-> {}]
    /\ UNCHANGED <<clock, tables, history>>

-----------------------------------------------------------------------------
(* run_once.                                                               *)

\* The rows without a score that are no older than since.
Unanalyzed(since) == {t \in Tx : stage[t] = "ready" /\ t \notin scored /\ ts[t] >= since}

\* Broken variants, each a plausible slip in the definition it is named after:
\* the rescan bound is never used, the overlap is forgotten, the pacing window is
\* ignored, one attempt too many is counted.
PollSinceNoRescan == watermark
AdvanceWithoutOverlap(w) ==
    \E n \in fetched[w] :
        /\ \A r \in fetched[w] : ts[r] <= ts[n]
        /\ watermark' = IF ts[n] > watermark THEN ts[n] ELSE watermark
RawUnpaced(t) == FALSE

\* _poll_since: the lower bound of the poll, 0 for an unbounded one.
PollSince ==
    IF ~rescanDue THEN watermark
    ELSE IF Window > 0 /\ clock > Window THEN clock - Window ELSE 0

\* get_unanalyzed_transactions: the oldest Batch rows, ties in any order.
GetUnanalyzed(since, rows) ==
    /\ rows \subseteq Unanalyzed(since)
    /\ Cardinality(rows) <= Batch
    /\ Cardinality(rows) < Batch => rows = Unanalyzed(since)
    /\ \A t \in Unanalyzed(since) \ rows, r \in rows : ts[r] <= ts[t]

Finish(w) ==
    /\ pc' = [pc EXCEPT ![w] = "idle"] /\ full' = [full EXCEPT ![w] = FALSE]
    /\ fetched' = [fetched EXCEPT ![w] = {}] /\ kept' = [kept EXCEPT ![w] = {}]

\* A full rescan that got this far arms the rescan clock.
ArmIfFull(w) == rescanDue' = IF full[w] THEN FALSE ELSE rescanDue

\* _advance_watermark: the newest fetched row minus the overlap, never backwards.
AdvanceWatermark(w) ==
    \E n \in fetched[w] :
        /\ \A r \in fetched[w] : ts[r] <= ts[n]
        /\ watermark' = IF ts[n] - Overlap > watermark THEN ts[n] - Overlap ELSE watermark

Fetch(w, since, isFull) ==
    \E rows \in SUBSET Tx :
        /\ GetUnanalyzed(since, rows)
        /\ fetched' = [fetched EXCEPT ![w] = rows]
        /\ IF rows = {}
           THEN UNCHANGED <<pc, full>>
           ELSE pc' = [pc EXCEPT ![w] = "resolve"] /\ full' = [full EXCEPT ![w] = isFull]
        \* An empty fetch is a successful rescan.
        /\ rescanDue' = IF rows = {} THEN FALSE ELSE rescanDue

Poll(w) ==
    /\ owner = w /\ pc[w] = "idle"
    /\ Fetch(w, PollSince, rescanDue)
    /\ UNCHANGED <<clock, tables, owner, watermark, budgets, kept, faults, history>>

\* A failing rescan arms its clock and falls back to the watermark poll, which
\* answers or fails in its turn; without a watermark the pass raises.
PollFails(w) ==
    /\ owner = w /\ pc[w] = "idle" /\ Fault
    /\ IF rescanDue /\ watermark # 0
       THEN /\ rescanDue' = FALSE
            /\ \/ \E rows \in SUBSET Tx :
                     /\ GetUnanalyzed(watermark, rows) /\ rows # {}
                     /\ fetched' = [fetched EXCEPT ![w] = rows]
                     /\ pc' = [pc EXCEPT ![w] = "resolve"]
               \/ UNCHANGED <<fetched, pc>>
       ELSE UNCHANGED <<rescanDue, fetched, pc>>
    /\ UNCHANGED <<clock, tables, owner, watermark, budgets, full, kept, history>>

\* Inside the pacing window a failed recovery is not counted; the attempt that
\* reaches the budget ends the deferral.
RawInWindow(t) == t \in rawPaced
RawSpent(t) == rawTries[t] + 1 >= RawAttempts
DeferInWindow(t) == t \in defPaced
DeferSpent(t) == defTries[t] + 1 >= DeferAttempts

\* Which payloads of a batch read_confirmed fails to recover: those that are gone
\* and, while the store misbehaves, any others.
MissingPayloads(rows) ==
    {missing \in SUBSET (rows \cap Truncated) : rows \cap Lost \subseteq missing}

\* For which rows _score_transaction sees a scorer raise or an enrichment failed:
\* any, since both depend on other services.
IncompleteRows(rows) == SUBSET rows

\* _resolve_raw_data: missing is the set of rows whose payload is not recovered.
\* A row whose budget is spent stays in the batch, to be scored without payload.
ResolveRawData(w) ==
    /\ pc[w] = "resolve"
    /\ \E missing \in MissingPayloads(fetched[w]) :
         LET count == {t \in missing : ~RawInWindow(t)}
             spent == {t \in count : RawSpent(t)}
             wait  == missing \ spent
             rows  == fetched[w] \ wait
         IN  /\ rawTries' = [t \in Tx |->
                    IF t \in spent \/ t \in (fetched[w] \cap Truncated) \ missing THEN 0
                    ELSE IF t \in count THEN rawTries[t] + 1 ELSE rawTries[t]]
             /\ rawPaced' = (rawPaced \ (fetched[w] \cap Truncated)) \cup wait
             /\ deferred' = deferred \cup wait
             /\ IF rows = {}
                THEN Finish(w) /\ ArmIfFull(w)
                ELSE /\ pc' = [pc EXCEPT ![w] = "score"]
                     /\ kept' = [kept EXCEPT ![w] = rows]
                     /\ UNCHANGED <<full, fetched, rescanDue>>
    /\ UNCHANGED <<clock, tables, owner, watermark, defTries, defPaced, faults, late, gaps>>

\* Enrichment, _score_transaction and _handle_incomplete_scoring: failing is the
\* set of rows for which a scorer raised or an enrichment failed.
ScoreRows(w) ==
    /\ pc[w] = "score"
    /\ \E failing \in IncompleteRows(kept[w]) :
         LET count == {t \in failing : ~DeferInWindow(t)}
             spent == {t \in count : DeferSpent(t)}
             wait  == IF DeferEnabled THEN failing \ spent ELSE {}
             rows  == kept[w] \ wait
         IN  /\ IF DeferEnabled
                THEN /\ defTries' = [t \in Tx |->
                            IF t \in spent \/ t \in kept[w] \ failing THEN 0
                            ELSE IF t \in count THEN defTries[t] + 1 ELSE defTries[t]]
                     /\ defPaced' = (defPaced \ kept[w]) \cup wait
                ELSE UNCHANGED <<defTries, defPaced>>
             /\ deferred' = deferred \cup wait
             /\ IF rows = {}
                THEN Finish(w) /\ ArmIfFull(w) /\ AdvanceWatermark(w)
                ELSE /\ pc' = [pc EXCEPT ![w] = "insert"]
                     /\ kept' = [kept EXCEPT ![w] = rows]
                     /\ UNCHANGED <<full, fetched, cursors>>
    /\ UNCHANGED <<clock, tables, owner, rawTries, rawPaced, faults, late, gaps>>

\* insert_class_scores, then the cursors.
InsertScores(w) ==
    /\ pc[w] = "insert"
    /\ scored' = scored \cup kept[w]
    /\ AdvanceWatermark(w) /\ ArmIfFull(w) /\ Finish(w)
    /\ UNCHANGED <<clock, ts, stage, owner, budgets, faults, history>>

\* The insert raises: neither cursor moves, but spent budgets stay popped.
InsertFails(w) ==
    /\ pc[w] = "insert" /\ Fault
    /\ Finish(w)
    /\ UNCHANGED <<clock, tables, owner, cursors, budgets, history>>

-----------------------------------------------------------------------------
Pass(w) == Poll(w) \/ ResolveRawData(w) \/ ScoreRows(w) \/ InsertScores(w)

Next ==
    \/ Tick
    \/ \E t \in Tx : Parse(t)
    \/ \E t \in Tx : BecomeVisible(t)
    \/ RescanIntervalOver
    \/ \E t \in Tx : RawWindowOver(t)
    \/ \E t \in Tx : DeferWindowOver(t)
    \/ \E w \in Worker : StartTask(w)
    \/ StopTask
    \/ Restart
    \/ \E w \in Worker : Poll(w)
    \/ \E w \in Worker : PollFails(w)
    \/ \E w \in Worker : ResolveRawData(w)
    \/ \E w \in Worker : ScoreRows(w)
    \/ \E w \in Worker : InsertScores(w)
    \/ \E w \in Worker : InsertFails(w)

Spec == Init /\ [][Next]_vars

\* The loop ticks for ever, a leader restarts its task, and timers run out.
FairSpec ==
    /\ Spec
    /\ \A w \in Worker : WF_vars(Pass(w))
    /\ WF_vars(\E w \in Worker : StartTask(w))
    /\ WF_vars(RescanIntervalOver)
    /\ \A t \in Tx : WF_vars(RawWindowOver(t)) /\ WF_vars(DeferWindowOver(t))
-----------------------------------------------------------------------------
(* Properties.                                                             *)

Unscored(t) == stage[t] = "ready" /\ t \notin scored

\* The cursor of _advance_watermark never passes over work nobody looked at: an
\* unscored row below the watermark was deferred by some pass, or its insert took
\* longer than UNANALYZED_OVERLAP_SECONDS.  Everything else the cheap watermark
\* poll still finds, whatever fails and however two passes overlap.
WatermarkSafe ==
    \A t \in Tx : Unscored(t) /\ ts[t] < watermark => t \in deferred \cup late

\* The raw-data budget cannot be burned by a busy drain loop or by two overlapping
\* passes: a row whose blob is gone is scored without it only after all the paced
\* gaps of RAW_FALLBACK_RETRY_SECONDS that RAW_FALLBACK_MAX_ATTEMPTS stands for.
BudgetIsPaced == \A t \in Lost \cap scored : gaps[t] >= RawAttempts - 1

\* The never-skip guarantee of _poll_since with an unbounded rescan: every row the
\* poll can see is scored in the end, also when its blob is lost, a scorer always
\* crashes on it, or it slipped below the watermark.
EventuallyScored == \A t \in Tx : stage[t] = "ready" ~> t \in scored
=============================================================================
