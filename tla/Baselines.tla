----------------------------- MODULE Baselines -----------------------------
(***************************************************************************)
(* The learned baselines of one feature (analysis/baselines.py), the       *)
(* schedule that recomputes them (tasks/analysis.py) on the single         *)
(* maintenance thread, and the lookup cache the scoring threads and the    *)
(* drift guard read them through (db/clickhouse.py).                       *)
(*                                                                         *)
(* A row is a pair of percentiles with a sample flag.  Time passes in      *)
(* ticks; a percentile scan may take several, a lookup or an insert far    *)
(* less than one.                                                          *)
(***************************************************************************)
EXTENDS Integers, Sequences, FiniteSets

CONSTANTS
  Script,           \* script addresses
  Readings,         \* the (p50, p99) pairs a percentile query may return
  DriftPct,         \* drift.p99_threshold and p50_threshold, percent
  Ttl,              \* BASELINE_CACHE_TTL_SECONDS, in ticks
  RetryAfterTicks,  \* BASELINE_RECOMPUTE_RETRY_SECONDS, in ticks
  RecomputeTicks,   \* BASELINE_RECOMPUTE_INTERVAL_HOURS, in ticks
  MaxTicks,         \* bound: length of a behaviour
  MaxBaselineFaults \* bound: inserts that fail, restarts of the process

ASSUME BaselinesAssumption ==
  /\ IsFiniteSet(Script) /\ "global" \notin Script
  /\ \A r \in Readings : r.p50 \in Nat /\ r.p99 \in Nat
  /\ {DriftPct, RetryAfterTicks, RecomputeTicks, MaxTicks, MaxBaselineFaults} \subseteq Nat
  /\ Ttl \in Nat \ {0} /\ RetryAfterTicks >= Ttl /\ RecomputeTicks >= RetryAfterTicks

Scope == {"global"} \cup Script
Missing == [p50 |-> 0, p99 |-> 0, enough |-> FALSE, set |-> FALSE]

VARIABLES
  table,      \* baselines FINAL: the row of each scope
  inverted,   \* the feature has a normalise_inverted consumer
  cached,     \* _baseline_cache: scope -> [row, age]
  job,        \* the run on the maintenance thread
  wait,       \* ticks until a recompute may start again
  lookup,     \* a scoring thread inside get_baseline
  replaced,   \* ghost: age of the last replacement of each scope's row
  ticks, baselineFaults

baselineVars == <<table, inverted, cached, job, wait, lookup, replaced, ticks,
                  baselineFaults>>

NoRun == [at |-> "idle", todo |-> <<>>, new |-> Missing, stop |-> FALSE, full |-> FALSE]
NoLookup == [at |-> "idle", scope |-> "global", row |-> Missing]
NoEntry == [row |-> Missing, age |-> Ttl]

-----------------------------------------------------------------------------
(* get_baseline *)

\* broken: an entry never expires
FreshAlways(e) == e # NoEntry
Fresh(e) == e.age < Ttl
Stored(row) == [row |-> row, age |-> 0]

\* Also beside a bootstrap: a pass may outlive the task that started it.
BeginLookup(s) ==
  /\ lookup.at = "idle" /\ ticks < MaxTicks
  /\ IF Fresh(cached[s])
     THEN UNCHANGED <<lookup, cached>>
     ELSE /\ lookup' = [at |-> "read", scope |-> s, row |-> table[s]]
          /\ cached' = [cached EXCEPT ![s] = NoEntry]
  /\ UNCHANGED <<table, inverted, job, wait, replaced, ticks, baselineFaults>>

\* The cache may have been cleared since the row was read.
EndLookup ==
  /\ lookup.at = "read"
  /\ cached' = [cached EXCEPT ![lookup.scope] = Stored(lookup.row)]
  /\ lookup' = NoLookup
  /\ UNCHANGED <<table, inverted, job, wait, replaced, ticks, baselineFaults>>

-----------------------------------------------------------------------------
(* The drift guard *)

CheckDrift(old, new) ==
  IF old = 0 THEN new > 0
  ELSE 100 * (IF new > old THEN new - old ELSE old - new) > DriftPct * old

P99Hold(old, new) ==
  CheckDrift(old.p99, new.p99) /\ old.p99 > 0 /\ (new.p99 > old.p99 \/ inverted)
P50Hold(old, new) ==
  CheckDrift(old.p50, new.p50) /\ (new.p50 > old.p50 \/ inverted)

\* broken: only the upper percentile is guarded
DriftHeldP99Only(old, new) == old.set /\ P99Hold(old, new)
\* _filter_drifted: a first row always passes.
DriftHeld(old, new) == old.set /\ (P99Hold(old, new) \/ P50Hold(old, new))

-----------------------------------------------------------------------------
(* The recompute: scope after scope, the global one first.                 *)

StartRecompute ==
  /\ job.at = "idle" /\ wait = 0
  /\ \E order \in [1 .. Cardinality(Script) -> Script] :
       /\ \A i, j \in DOMAIN order : order[i] = order[j] => i = j
       /\ job' = [NoRun EXCEPT !.at = "query", !.todo = <<"global">> \o order, !.full = TRUE]
  /\ UNCHANGED <<table, inverted, cached, wait, lookup, replaced, ticks, baselineFaults>>

\* The percentile query of the next scope: nothing when it fails, has no data,
\* or, for a script, too few samples.
QueryPercentiles ==
  /\ job.at = "query" /\ job.todo # <<>>
  /\ \/ job' = [job EXCEPT !.at = "next"]
     \/ \E r \in Readings, enough \in BOOLEAN :
          /\ Head(job.todo) # "global" => enough
          /\ job' = [job EXCEPT !.at = "filter",
                       !.new = [p50 |-> r.p50, p99 |-> r.p99, enough |-> enough, set |-> TRUE]]
  /\ UNCHANGED <<table, inverted, cached, wait, lookup, replaced, ticks, baselineFaults>>

\* get_baseline in one step: the cached row, or the table's, which it caches.
Seen(s) == IF Fresh(cached[s]) THEN cached[s].row ELSE table[s]
CacheSeen(s) == [cached EXCEPT ![s] = IF Fresh(@) THEN @ ELSE Stored(table[s])]

\* The prior row is read through the cache as well.
FilterDrifted ==
  /\ job.at = "filter"
  /\ LET s == Head(job.todo)
     IN /\ cached' = CacheSeen(s)
        /\ job' = [job EXCEPT !.at = IF DriftHeld(Seen(s), job.new) THEN "next" ELSE "insert"]
  /\ UNCHANGED <<table, inverted, wait, lookup, replaced, ticks, baselineFaults>>

Replace(s, row) ==
  /\ table' = [table EXCEPT ![s] = row]
  /\ replaced' = [replaced EXCEPT ![s] = 0]

InsertBaselines ==
  /\ job.at = "insert"
  /\ Replace(Head(job.todo), job.new)
  /\ cached' = [s \in Scope |-> NoEntry]
  /\ job' = [job EXCEPT !.at = "next"]
  /\ UNCHANGED <<inverted, wait, lookup, ticks, baselineFaults>>

\* The insert raises, its row written or not, before the cache is cleared.  The
\* global scope's error ends the run; a script's is logged and the run goes on.
InsertRaises ==
  /\ job.at = "insert" /\ baselineFaults < MaxBaselineFaults
  /\ baselineFaults' = baselineFaults + 1
  /\ \/ Replace(Head(job.todo), job.new)
     \/ UNCHANGED <<table, replaced>>
  /\ IF Head(job.todo) = "global"
     THEN job' = NoRun /\ wait' = IF job.full /\ ~job.stop THEN RetryAfterTicks ELSE wait
     ELSE job' = [job EXCEPT !.at = "next"] /\ UNCHANGED wait
  /\ UNCHANGED <<inverted, cached, lookup, ticks>>

\* should_stop is polled between scopes; a stopped task's outcome is not kept.
NextScope ==
  /\ job.at = "next"
  /\ IF Len(job.todo) = 1 \/ job.stop
     THEN job' = NoRun /\ wait' = IF job.full /\ ~job.stop THEN RecomputeTicks ELSE wait
     ELSE job' = [job EXCEPT !.at = "query", !.todo = Tail(@), !.new = Missing] /\ UNCHANGED wait
  /\ UNCHANGED <<table, inverted, cached, lookup, replaced, ticks, baselineFaults>>

\* _initial_baseline_schedule: the age of the newest script row; due now when
\* there is none or it cannot be read.
InitialSchedule ==
  LET rows == {s \in Script : table[s].set /\ replaced[s] <= RecomputeTicks}
  IN {0} \cup {RecomputeTicks - replaced[s] : s \in {t \in rows :
                  \A u \in rows : replaced[t] <= replaced[u]}}

\* bootstrap_baselines, on every start of the task: a run over the global scope
\* alone when its row is missing or rests on too few samples.
Bootstrap(global) ==
  IF global.enough THEN NoRun ELSE [NoRun EXCEPT !.at = "query", !.todo = <<"global">>]

\* stop() and a new start() after a failed promotion: a thread at work is told;
\* the schedule in memory counts if it is the later one.  A second bootstrap
\* beside a run that is still ending is not modelled: one run at a time.
RestartTask ==
  /\ baselineFaults < MaxBaselineFaults /\ ticks < MaxTicks
  /\ baselineFaults' = baselineFaults + 1
  /\ cached' = CacheSeen("global")
  /\ job' = IF job.at = "idle" THEN Bootstrap(Seen("global")) ELSE [job EXCEPT !.stop = TRUE]
  /\ wait' \in {IF w > wait THEN w ELSE wait : w \in InitialSchedule}
  /\ UNCHANGED <<table, inverted, lookup, replaced, ticks>>

\* A new process: no cache but what its bootstrap read.
RestartProcess ==
  /\ baselineFaults < MaxBaselineFaults /\ ticks < MaxTicks
  /\ baselineFaults' = baselineFaults + 1
  /\ cached' = [s \in Scope |-> IF s = "global" THEN Stored(table[s]) ELSE NoEntry]
  /\ job' = Bootstrap(table["global"])
  /\ lookup' = NoLookup
  /\ wait' \in InitialSchedule
  /\ UNCHANGED <<table, inverted, replaced, ticks>>

PassTick ==
  /\ ticks < MaxTicks
  /\ lookup.at = "idle" /\ job.at \notin {"filter", "insert"}
  /\ ticks' = ticks + 1
  /\ cached' = [s \in Scope |-> [cached[s] EXCEPT !.age = IF @ < Ttl THEN @ + 1 ELSE @]]
  /\ wait' = IF wait > 0 THEN wait - 1 ELSE 0
  /\ replaced' = [s \in Scope |-> IF replaced[s] <= RecomputeTicks THEN replaced[s] + 1
                                                                   ELSE replaced[s]]
  /\ UNCHANGED <<table, inverted, job, lookup, baselineFaults>>

BaselinesInit(on) ==
  /\ table = [s \in Scope |-> Missing]
  /\ inverted \in IF on THEN BOOLEAN ELSE {FALSE}
  /\ cached = [s \in Scope |-> NoEntry]
  /\ job = NoRun
  /\ wait = IF on THEN 0 ELSE 1
  /\ lookup = NoLookup
  /\ replaced = [s \in Scope |-> RecomputeTicks + 1]
  /\ ticks = (IF on THEN 0 ELSE MaxTicks)
  /\ baselineFaults = (IF on THEN 0 ELSE MaxBaselineFaults)

BaselinesNext ==
  \/ \E s \in Scope : BeginLookup(s)
  \/ EndLookup
  \/ StartRecompute \/ QueryPercentiles \/ FilterDrifted \/ InsertBaselines
  \/ InsertRaises \/ NextScope
  \/ RestartTask \/ RestartProcess \/ PassTick
BaselinesSpec == BaselinesInit(TRUE) /\ [][BaselinesNext]_baselineVars

-----------------------------------------------------------------------------
\* A step of more than the threshold, up and down.
Rises(old, new) == 100 * new > (100 + DriftPct) * old
Falls(old, new) == 100 * new < (100 - DriftPct) * old
WithinDrift(old, new) ==
  /\ ~Rises(old.p99, new.p99) /\ ~Rises(old.p50, new.p50)
  /\ inverted => ~Falls(old.p99, new.p99) /\ ~Falls(old.p50, new.p50)
DriftGuarded ==
  \A s \in Scope :
    (table[s].set /\ table'[s] # table[s] /\ table[s].p99 > 0 /\ replaced[s] >= Ttl) =>
      WithinDrift(table[s], table'[s])

\* _filter_drifted: a row that stood for the cache's time to live is replaced
\* only by one within the threshold in every direction that costs recall, both
\* percentiles, whatever stale row the cache held when the prior was read, and
\* through failed inserts, retries and restarts.
DriftBounded == [][DriftGuarded]_baselineVars

\* get_baseline: no lookup is answered with a row that was replaced a time to
\* live ago or longer, also when a scoring thread read the old row just before
\* the replacement and stored it just after the cache was cleared.
LookupFresh ==
  \A s \in Scope :
    Fresh(cached[s]) => cached[s].row = table[s] \/ replaced[s] < Ttl
=============================================================================
