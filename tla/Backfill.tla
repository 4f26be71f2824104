------------------------------ MODULE Backfill ------------------------------
(***************************************************************************)
(* The operator's historical backfill: the in-memory job table             *)
(* (api/backfill.py) and the scan behind a job                             *)
(* (ingestion/address_backfill.py).  The block at slot n holds transaction *)
(* n; the chain-time query, Kupo and Ogmios are outside.                   *)
(***************************************************************************)
EXTENDS Naturals, FiniteSets

CONSTANTS
  Address,         \* addresses that are backfilled
  Slots,           \* slots of the region that is scanned
  Orphaned,        \* transactions Kupo still lists and the chain no longer has
  Unparseable,     \* transactions the parser fails on
  MaxConcurrent,   \* BACKFILL_MAX_CONCURRENT
  Retention,       \* BACKFILL_JOB_RETENTION
  Capped,          \* RAW_DATA_MAX_BYTES > 0
  MaxJobs          \* bound: jobs started

ASSUME BackfillAssumption ==
  /\ Slots \in Nat /\ Orphaned \subseteq 1..Slots /\ Unparseable \subseteq 1..Slots
  /\ {MaxConcurrent, Retention, MaxJobs} \subseteq Nat
  /\ Capped \in BOOLEAN

ReconnectAttempts == 1    \* _SCAN_RECONNECT_ATTEMPTS

VARIABLES
  job,       \* _jobs: status, "none" when there is no entry
  started,   \* started_at, in the order of the starts
  jobCount,
  scan,      \* the task of the job: [at, needed, seen, anchor, head, drops,
             \* degraded]
  report,    \* result of the job: [complete, requested, missing]
  stored, blobs   \* warehouse rows and raw-store blobs

backfillVars == <<job, started, jobCount, scan, report, stored, blobs>>

NoScan == [at |-> "none", needed |-> {}, seen |-> {}, anchor |-> 0, head |-> 0,
           drops |-> 0, degraded |-> FALSE]
NoReport == [complete |-> FALSE, requested |-> {}, missing |-> {}]

BackfillInit(on) ==
  /\ job = [a \in Address |-> "none"]
  /\ started = [a \in Address |-> 0]
  /\ jobCount = IF on THEN 0 ELSE MaxJobs
  /\ scan = [a \in Address |-> NoScan]
  /\ report = [a \in Address |-> NoReport]
  /\ stored = {} /\ blobs = {}

-----------------------------------------------------------------------------
(* The job table                                                           *)

JobsRunning == {a \in Address : job[a] = "running"}

\* The checks and the reservation are one step, before the first await.
Reserve(a) ==
  /\ job' = [job EXCEPT ![a] = "running"]
  /\ report' = [report EXCEPT ![a] = NoReport]

StartBackfill(a) ==
  /\ scan[a].at = "none"
  /\ jobCount < MaxJobs
  /\ a \notin JobsRunning                        \* else 409
  /\ Cardinality(JobsRunning) < MaxConcurrent    \* else 429
  /\ Reserve(a)
  /\ jobCount' = jobCount + 1
  /\ started' = [started EXCEPT ![a] = jobCount + 1]
  /\ scan' = [scan EXCEPT ![a].at = "audit"]
  /\ UNCHANGED <<stored, blobs>>

AuditRaises(a) ==
  /\ scan[a].at = "audit"
  /\ job' = [job EXCEPT ![a] = "none"]
  /\ scan' = [scan EXCEPT ![a] = NoScan]
  /\ UNCHANGED <<started, jobCount, report, stored, blobs>>

\* _evict_finished_jobs: the oldest finished ones beyond the retention.
Evicted(jobs) ==
  {a \in Address : jobs[a] \in {"done", "failed"} /\
     Cardinality({b \in Address : jobs[b] \in {"done", "failed"} /\ started[b] > started[a]})
       >= Retention}

AuditWritten(a) ==
  /\ scan[a].at = "audit"
  /\ scan' = [scan EXCEPT ![a].at = "kupo"]
  /\ LET jobs == [job EXCEPT ![a] = "running"] IN
       job' = [b \in Address |-> IF b \in Evicted(jobs) THEN "none" ELSE jobs[b]]
  /\ UNCHANGED <<started, jobCount, report, stored, blobs>>

\* _run records the outcome on the job it was given, listed or not.
Finish(a, status, rep) ==
  /\ job' = [job EXCEPT ![a] = IF @ = "none" THEN "none" ELSE status]
  /\ report' = [report EXCEPT ![a] = rep]
  /\ scan' = [scan EXCEPT ![a] = NoScan]

\* Any failure, and the hard timeout.
BackfillFails(a) ==
  /\ scan[a].at \in {"kupo", "scan"}
  /\ Finish(a, "failed", NoReport)
  /\ UNCHANGED <<started, jobCount, stored, blobs>>

-----------------------------------------------------------------------------
(* backfill_address                                                        *)

Latest(S) == CHOOSE n \in S : \A k \in S : k <= n
Earliest(S) == CHOOSE n \in S : \A k \in S : n <= k

\* Kupo's points and health, the anchor, and the chain-time query.  Without an
\* earlier checkpoint the walk starts at the earliest target itself.
AskKupo(a) ==
  /\ scan[a].at = "kupo"
  /\ \E needed \in SUBSET (1..Slots), caveat \in BOOLEAN, anchored \in BOOLEAN :
       IF needed = {}
       THEN Finish(a, "done", [complete |-> TRUE, requested |-> {}, missing |-> {}])
       ELSE /\ LET from == IF anchored THEN Earliest(needed) - 1 ELSE Earliest(needed) IN
                 scan' = [scan EXCEPT ![a] =
                   [at |-> "scan", needed |-> needed, seen |-> {}, anchor |-> from,
                    head |-> from, drops |-> 0, degraded |-> caveat \/ ~anchored]]
            /\ UNCHANGED <<job, report>>
  /\ UNCHANGED <<started, jobCount, stored, blobs>>

WalkOver(s) == s.needed \subseteq s.seen \/ s.head > Latest(s.needed)

\* The target of the next block that parses; the others are not marked as seen.
Ingested(s) == ({s.head + 1} \cap (s.needed \ Orphaned)) \ Unparseable

\* One block: blobs first, then the rows; a failed blob write ends the run when
\* the warehouse copy is capped.
NextBlock(a) ==
  /\ scan[a].at = "scan"
  /\ ~WalkOver(scan[a])
  /\ LET s == scan[a]
         new == Ingested(s) \ s.seen
         insert == new \ Unparseable
     IN \E written \in BOOLEAN :
          /\ written \/ ~Capped \/ new = {}
          /\ scan' = [scan EXCEPT ![a].head = s.head + 1, ![a].seen = s.seen \cup new]
          /\ stored' = stored \cup insert
          /\ blobs' = IF written THEN blobs \cup insert ELSE blobs
  /\ UNCHANGED <<job, started, jobCount, report>>

\* The socket drops: one reconnect, from the same intersection.
Dropped(a) ==
  /\ scan[a].at = "scan"
  /\ ~WalkOver(scan[a])
  /\ scan[a].drops < ReconnectAttempts
  /\ scan' = [scan EXCEPT ![a].drops = @ + 1, ![a].head = scan[a].anchor]
  /\ UNCHANGED <<job, started, jobCount, report, stored, blobs>>

BackfillDone(a) ==
  /\ scan[a].at = "scan"
  /\ WalkOver(scan[a])
  /\ Finish(a, "done", [complete |-> ~scan[a].degraded, requested |-> scan[a].needed,
                        missing |-> scan[a].needed \ scan[a].seen])
  /\ UNCHANGED <<started, jobCount, stored, blobs>>

ScanStep(a) ==
  AuditWritten(a) \/ AskKupo(a) \/ NextBlock(a) \/ BackfillDone(a) \/ BackfillFails(a)

BackfillNext ==
  \E a \in Address : StartBackfill(a) \/ AuditRaises(a) \/ ScanStep(a) \/ Dropped(a)

BackfillSpec == BackfillInit(TRUE) /\ [][BackfillNext]_backfillVars

-----------------------------------------------------------------------------
\* start_backfill: the scans that run, and those about to run while their audit
\* row is written, never exceed the limit, and each is listed under its address,
\* where the 409 guard and the status call find it: the eviction spares it.
ScansBounded ==
  /\ Cardinality({a \in Address : scan[a].at # "none"}) <= MaxConcurrent
  /\ \A a \in Address : scan[a].at # "none" => job[a] = "running"

\* The report of a finished run is true: what it does not list as missing is in
\* the warehouse, also after a reconnect in the middle of the walk; an
\* unparseable or orphaned target is listed as missing, and a run that calls
\* itself complete misses nothing else.
ReportTrue ==
  \A a \in Address :
    job[a] = "done" =>
      /\ report[a].requested \ report[a].missing \subseteq stored
      /\ report[a].complete => report[a].missing \subseteq Orphaned \cup Unparseable
=============================================================================
