---------------------------- MODULE ClusterJobs ----------------------------
(***************************************************************************)
(* The clustering sidecar's work queue: the contract registry, the feed    *)
(* scheduler (service/scheduler.py), the job manager and its one worker    *)
(* (jobs.py), and what the two pipelines do to a contract's row            *)
(* (service/pipeline.py, service/online.py).  The feed, the API threads    *)
(* and the worker run concurrently; the queue is in memory, the job rows   *)
(* are in ClickHouse.  A finished job's row plays no further part and is   *)
(* dropped.                                                                *)
(***************************************************************************)
EXTENDS Integers, Sequences, FiniteSets, SequencesExt, SeqFilter

CONSTANTS Contract,
          PerTick,      \* feed_max_contracts_per_tick
          Interval,     \* feed_refit_min_interval_seconds, in ticks of the clock
          JobId,        \* the ids in use at once
          NoJobId,
          Others,       \* whether contracts are watched whose jobs are left out
          MaxApiCalls, MaxJobFaults   \* bounds

ASSUME JobsAssumption ==
    /\ IsFiniteSet(Contract) /\ NoJobId \notin JobId
    /\ Others \in BOOLEAN
    /\ {PerTick, Interval, MaxApiCalls, MaxJobFaults} \subseteq Nat

VARIABLES registry,   \* contracts rows
          fitAge,     \* time since last_fit_at; Interval if that is 0 or long ago
          recent,     \* contracts, most recently written row first
          jobRow,     \* non-terminal rows of the jobs table
          jobQueue, worker,
          feed,       \* the running tick: the busy set, then what it listed
          enough,     \* contracts with enough transactions to cluster
          owed,       \* contracts whose history backfill is outstanding
          supplied,   \* ghost: contracts with enough when their history landed
          abandoned,  \* contracts closed without a model, or stuck in process
          autoAge,    \* time since the feed's last fit, nobody else's work between
          apiCalls, jobFaults

rowVars == <<registry, fitAge, recent>>
queueVars == <<jobRow, jobQueue>>
worldVars == <<enough, owed>>
ghostAges == <<autoAge, abandoned, supplied>>
jobBounds == <<apiCalls, jobFaults>>
jobsVars == <<rowVars, queueVars, worker, feed, worldVars, ghostAges, jobBounds>>

Absent == [status |-> "absent", cov |-> "unknown", drift |-> FALSE, fit |-> FALSE]
\* auto: queued by the feed; fitted: its fit is on the contract's row (both ghosts)
NoJobRow == [target |-> "none", kind |-> "none", auto |-> FALSE, fitted |-> FALSE]
Idling == [id |-> NoJobId, at |-> "idle"]

Nonterminal == {i \in JobId : jobRow[i] # NoJobRow}
Busy == {jobRow[i].target : i \in Nonterminal}

\* save_contract: the row is rewritten, and its updated_at with it.
SaveRow(c, row) ==
    /\ registry' = [registry EXCEPT ![c] = row]
    /\ recent' = <<c>> \o Keep(recent, Contract \ {c})

-----------------------------------------------------------------------------
(* create_job and enqueue, under enqueue_lock. *)
EnqueueJob(c, kind, auto) ==
    LET i == CHOOSE j \in JobId : j \notin Nonterminal
    IN  /\ Nonterminal # JobId
        /\ jobRow' = [jobRow EXCEPT ![i] = [target |-> c, kind |-> kind, auto |-> auto,
                                              fitted |-> FALSE]]
        /\ jobQueue' = Append(jobQueue, i)

\* POST /contracts
AddContract(c) ==
    /\ apiCalls < MaxApiCalls
    /\ c \notin Busy
    /\ SaveRow(c, [Absent EXCEPT !.status = "pending"])
    /\ fitAge' = [fitAge EXCEPT ![c] = Interval]
    /\ autoAge' = [autoAge EXCEPT ![c] = Interval]
    /\ abandoned' = abandoned \ {c}
    /\ EnqueueJob(c, "onboard", FALSE)
    /\ apiCalls' = apiCalls + 1
    /\ UNCHANGED <<worker, feed, worldVars, supplied, jobFaults>>

\* POST /contracts/{target}/classify-new
ClassifyNew(c) ==
    /\ apiCalls < MaxApiCalls
    /\ registry[c].status # "absent" /\ c \notin Busy
    /\ EnqueueJob(c, "classify", FALSE)
    /\ autoAge' = [autoAge EXCEPT ![c] = Interval]
    /\ apiCalls' = apiCalls + 1
    /\ UNCHANGED <<rowVars, worker, feed, worldVars, abandoned, supplied, jobFaults>>

\* DELETE /contracts/{target}
DeleteContract(c) ==
    /\ apiCalls < MaxApiCalls
    /\ registry[c].status # "absent" /\ c \notin Busy
    /\ registry' = [registry EXCEPT ![c] = Absent]
    /\ fitAge' = [fitAge EXCEPT ![c] = Interval]
    /\ autoAge' = [autoAge EXCEPT ![c] = Interval]
    /\ recent' = Keep(recent, Contract \ {c})
    /\ apiCalls' = apiCalls + 1
    /\ UNCHANGED <<queueVars, worker, feed, worldVars, abandoned, supplied, jobFaults>>

-----------------------------------------------------------------------------
(* _decide, recluster_recommended and model_unclusterable *)
Throttled(row, age) == row.fit /\ age < Interval
Decision(row, age) ==
    IF row.status = "pending" THEN "onboard"
    ELSE IF row.status # "done" THEN "skip"
    ELSE IF row.cov = "low"
         THEN IF Throttled(row, age) THEN "classify" ELSE "onboard"
    ELSE IF row.drift /\ ~Throttled(row, age) THEN "onboard"
    ELSE "classify"

(* feed_tick: the busy targets, then the registry newest row first, then   *)
(* each contract in turn until the tick's cap.  _decide looks at the listed *)
(* row and at the tick's one reading of the clock, so the decision stands  *)
(* when the rows are listed.                                               *)
Listing == [i \in DOMAIN recent |->
              [target |-> recent[i], kind |-> Decision(registry[recent[i]], fitAge[recent[i]])]]

ReadBusy ==
    /\ feed.at = "idle"
    /\ feed' = [at |-> "list", busy |-> Busy, rows |-> <<>>, sent |-> 0]
    /\ UNCHANGED <<rowVars, queueVars, worker, worldVars, ghostAges, jobBounds>>

ListRows ==
    /\ feed.at = "list"
    /\ feed' = [feed EXCEPT !.at = "visit", !.rows = Listing]
    /\ UNCHANGED <<rowVars, queueVars, worker, worldVars, ghostAges, jobBounds>>

\* The busy check is repeated under the lock.
StillFreeUnchecked(c) == TRUE
StillFree(c) == c \notin Busy

Visit ==
    /\ feed.at = "visit" /\ feed.rows # <<>> /\ feed.sent < PerTick
    /\ LET seen == Head(feed.rows)
           goes == seen.target \notin feed.busy /\ seen.kind # "skip" /\ StillFree(seen.target)
       IN  /\ IF goes THEN EnqueueJob(seen.target, seen.kind, TRUE) ELSE UNCHANGED queueVars
           /\ feed' = [feed EXCEPT !.rows = Tail(@), !.sent = IF goes THEN @ + 1 ELSE @]
    /\ UNCHANGED <<rowVars, worker, worldVars, ghostAges, jobBounds>>

\* Another contract stands further ahead in the listing and uses a place of the tick.
OthersVisited ==
    /\ Others /\ feed.at = "visit" /\ feed.sent < PerTick
    /\ feed' = [feed EXCEPT !.sent = @ + 1]
    /\ UNCHANGED <<rowVars, queueVars, worker, worldVars, ghostAges, jobBounds>>

TickEnds ==
    /\ feed.at = "visit" /\ (feed.rows = <<>> \/ feed.sent >= PerTick)
    /\ feed' = [at |-> "idle", busy |-> {}, rows |-> <<>>, sent |-> 0]
    /\ UNCHANGED <<rowVars, queueVars, worker, worldVars, ghostAges, jobBounds>>

-----------------------------------------------------------------------------
(* _worker and _run_job *)
Job == jobRow[worker.id]
Kind == Job.kind
JobDone ==
    /\ jobRow' = [jobRow EXCEPT ![worker.id] = NoJobRow]
    /\ worker' = Idling
    /\ UNCHANGED jobQueue

TakeJob ==
    /\ worker = Idling /\ jobQueue # <<>>
    /\ jobQueue' = Tail(jobQueue)
    /\ worker' = IF Head(jobQueue) \in Nonterminal
                 THEN [id |-> Head(jobQueue), at |-> "begin"] ELSE Idling
    /\ UNCHANGED <<rowVars, jobRow, feed, worldVars, ghostAges, jobBounds>>

\* process_contract: the processing row carries neither fit_coverage nor
\* last_fit_at.
BeginFit ==
    /\ worker.at = "begin" /\ Kind = "onboard"
    /\ SaveRow(Job.target, [Absent EXCEPT !.status = "processing"])
    /\ fitAge' = [fitAge EXCEPT ![Job.target] = Interval]
    /\ worker' = [worker EXCEPT !.at = "history"]
    /\ UNCHANGED <<queueVars, feed, worldVars, ghostAges, jobBounds>>

\* The history stage (both pipelines): what it reports is kept for later.
HistoryStage ==
    /\ \/ worker.at = "history"
       \/ worker.at = "begin" /\ Kind = "classify"
    /\ worker' = [worker EXCEPT !.at = IF Job.target \in owed THEN "owing" ELSE "ready"]
    /\ UNCHANGED <<rowVars, queueVars, feed, worldVars, ghostAges, jobBounds>>

Closing == worker' = [worker EXCEPT !.at = "closing"]

TooFewStatus == IF worker.at = "owing" THEN "pending" ELSE "done"
TooFew ==
    /\ worker.at \in {"owing", "ready"} /\ Kind = "onboard"
    /\ Job.target \notin enough
    /\ SaveRow(Job.target, [Absent EXCEPT !.status = TooFewStatus])
    /\ fitAge' = [fitAge EXCEPT ![Job.target] = Interval]
    /\ Closing
    /\ UNCHANGED <<queueVars, feed, worldVars, ghostAges, jobBounds>>

\* The fit: clustered, scored, and saved with its coverage before it is published.
Fit ==
    /\ worker.at \in {"owing", "ready"} /\ Kind = "onboard"
    /\ Job.target \in enough
    /\ \E cov \in {"low", "high"} :
         SaveRow(Job.target,
                 [status |-> "done", cov |-> cov, drift |-> FALSE, fit |-> TRUE])
    /\ fitAge' = [fitAge EXCEPT ![Job.target] = 0]
    /\ autoAge' = [autoAge EXCEPT ![Job.target] = IF Job.auto THEN 0 ELSE Interval]
    /\ jobRow' = [jobRow EXCEPT ![worker.id].fitted = TRUE]
    /\ Closing
    /\ UNCHANGED <<jobQueue, feed, worldVars, abandoned, supplied, jobBounds>>

\* update_contract: published, then the row is read again and saved as done, with
\* the drift that the frozen model measured, if there is a model.
Classify ==
    /\ worker.at \in {"owing", "ready"} /\ Kind = "classify"
    /\ IF registry[Job.target].status = "absent" THEN UNCHANGED <<registry, recent>>
       ELSE \E drift \in BOOLEAN :
              SaveRow(Job.target, [registry[Job.target] EXCEPT
                        !.status = "done", !.drift = drift /\ registry[Job.target].fit])
    /\ abandoned' = IF registry[Job.target].fit \/ registry[Job.target].status = "done"
                    THEN abandoned ELSE abandoned \cup {Job.target}
    /\ Closing
    /\ UNCHANGED <<fitAge, queueVars, feed, worldVars, autoAge, supplied, jobBounds>>

\* After the row: a fit is published, and the job's row says done.
CloseJob ==
    /\ worker.at = "closing"
    /\ JobDone
    /\ UNCHANGED <<rowVars, feed, worldVars, ghostAges, jobBounds>>

\* An exception in a pipeline, the publish and the closing writes included:
\* onboarding saves the row as failed and the job is marked failed, and each of
\* the two writes may fail too.  A job whose row stays open keeps its contract busy.
PipelineFails ==
    /\ worker.at \in {"begin", "history", "owing", "ready", "closing"}
    /\ jobFaults < MaxJobFaults
    /\ jobFaults' = jobFaults + 1
    /\ \E rowWritten, jobWritten \in BOOLEAN :
         /\ IF Kind = "onboard" /\ rowWritten
            THEN SaveRow(Job.target, [registry[Job.target] EXCEPT !.status = "failed"])
            ELSE UNCHANGED <<registry, recent>>
         /\ IF jobWritten THEN JobDone ELSE worker' = Idling /\ UNCHANGED queueVars
         /\ abandoned' = IF (Kind = "onboard" => rowWritten) /\ jobWritten
                         THEN abandoned ELSE abandoned \cup {Job.target}
    /\ UNCHANGED <<fitAge, feed, worldVars, autoAge, supplied, apiCalls>>

\* JobManager.start after a crash: every non-terminal job is queued again.
SidecarCrash ==
    /\ feed.at # "off" /\ jobFaults < MaxJobFaults
    /\ jobFaults' = jobFaults + 1
    /\ worker' = Idling
    /\ feed' = [at |-> "idle", busy |-> {}, rows |-> <<>>, sent |-> 0]
    /\ jobQueue' \in SetToSeqs(Nonterminal)
    /\ UNCHANGED <<rowVars, jobRow, worldVars, ghostAges, apiCalls>>

-----------------------------------------------------------------------------
(* The world: time passes, histories land, transactions arrive. *)
Older(a) == IF a < Interval THEN a + 1 ELSE a
ClockTicks ==
    /\ \E c \in Contract : fitAge[c] < Interval \/ autoAge[c] < Interval
    /\ fitAge' = [c \in Contract |-> Older(fitAge[c])]
    /\ autoAge' = [c \in Contract |-> Older(autoAge[c])]
    /\ UNCHANGED <<registry, recent, queueVars, worker, feed, worldVars, abandoned, supplied,
                   jobBounds>>

HistoryLands(c) ==
    /\ c \in owed
    /\ owed' = owed \ {c}
    /\ enough' \in {enough, enough \cup {c}}
    /\ supplied' = IF c \in enough' THEN supplied \cup {c} ELSE supplied
    /\ UNCHANGED <<rowVars, queueVars, worker, feed, autoAge, abandoned, jobBounds>>

\* The host stores transactions of the contract at the tip.
TxsArrive(c) ==
    /\ c \notin enough /\ feed.at # "off"
    /\ enough' = enough \cup {c}
    /\ UNCHANGED <<rowVars, queueVars, worker, feed, owed, ghostAges, jobBounds>>

\* The sidecar starts with a watchlist that waits for its first fit.
JobsInit(on) ==
    /\ registry = [c \in Contract |->
                     IF on THEN [Absent EXCEPT !.status = "pending"] ELSE Absent]
    /\ fitAge = [c \in Contract |-> Interval] /\ autoAge = fitAge
    /\ abandoned = {} /\ supplied = {}
    /\ recent = IF on THEN SetToSeq(Contract) ELSE <<>>
    /\ jobRow = [i \in JobId |-> NoJobRow] /\ jobQueue = <<>>
    /\ worker = Idling
    /\ feed = [at |-> IF on THEN "idle" ELSE "off", busy |-> {}, rows |-> <<>>, sent |-> 0]
    /\ enough \in (IF on THEN SUBSET Contract ELSE {{}})
    /\ owed \in (IF on THEN SUBSET Contract ELSE {{}})
    /\ apiCalls = (IF on THEN 0 ELSE MaxApiCalls)
    /\ jobFaults = (IF on THEN 0 ELSE MaxJobFaults)

WorkerStep ==
    TakeJob \/ BeginFit \/ HistoryStage \/ TooFew \/ Fit \/ Classify \/ CloseJob
FeedStep == ReadBusy \/ ListRows \/ Visit \/ TickEnds

JobsNext ==
    \/ \E c \in Contract : AddContract(c) \/ ClassifyNew(c) \/ DeleteContract(c)
    \/ ReadBusy \/ ListRows \/ Visit \/ OthersVisited \/ TickEnds
    \/ TakeJob \/ BeginFit \/ HistoryStage \/ TooFew \/ Fit \/ Classify
    \/ CloseJob \/ PipelineFails \/ SidecarCrash
    \/ ClockTicks \/ \E c \in Contract : HistoryLands(c) \/ TxsArrive(c)

(* The worker thread and the feed task run; a history backfill ends. *)
JobsFairness ==
    /\ WF_jobsVars(WorkerStep)
    /\ WF_jobsVars(FeedStep)
    /\ \A c \in Contract : WF_jobsVars(HistoryLands(c))

JobsSpec == JobsInit(TRUE) /\ [][JobsNext]_jobsVars /\ JobsFairness

-----------------------------------------------------------------------------
\* enqueue_lock and the repeated busy check: no contract ever has two jobs that
\* are not finished, whichever of the API and the feed queued them.
OneJobPerContract ==
    \A i, j \in Nonterminal : jobRow[i].target = jobRow[j].target => i = j

\* feed_refit_min_interval_seconds: within the interval of its last fit of a
\* contract the feed has no other fit of it under way, however its listing
\* interleaves with the worker.  The job that made that fit may still be open, and
\* runs again when the sidecar dies between the saved row and the closed job.
RefitsThrottled ==
    \A i \in Nonterminal :
        jobRow[i].auto /\ jobRow[i].kind = "onboard" /\ ~jobRow[i].fitted
          => autoAge[jobRow[i].target] >= Interval

\* The contracts that must get their model: one that waits for its first fit with
\* enough transactions, and one whose history brought them (process_contract keeps
\* it pending until then).  A contract closed with too few transactions and no
\* history outstanding is not: nothing fits it when more arrive at the tip.
Ripe(c) ==
    /\ c \in enough
    /\ \/ registry[c].status = "pending"
       \/ registry[c].status # "absent" /\ c \in supplied

\* A tick gets as far as the contract's row before its cap.
Reached(c) == Visit /\ Head(feed.rows).target = c

=============================================================================
