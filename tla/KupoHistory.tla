---------------------------- MODULE KupoHistory ----------------------------
(***************************************************************************)
(* The clustering sidecar's Kupo history flavour (KupoHistory of           *)
(* service/history.py): the sidecar has the host run its address backfill  *)
(* and follows it over HTTP, with a marker row to remember it by.  The     *)
(* host's job store is in memory and keeps one job per address; operators  *)
(* start backfills of their own there.                                     *)
(***************************************************************************)
EXTENDS Integers

CONSTANTS MaxTriggers,               \* _KUPO_MAX_TRIGGERS
          MaxCap,                    \* bound: the cap is raised from 1 to this
          MaxForeign, MaxHostFaults  \* bounds: operators' jobs, host or sidecar restarts

ASSUME KupoAssumption == {MaxTriggers, MaxCap, MaxForeign, MaxHostFaults} \subseteq Nat

VARIABLES kupoMarker,  \* the ingest cursor row
          kupoCap,
          kupoStep,    \* where the attempt is, and the trigger count it read
          hostJob,     \* the host's job for the address
          scans,       \* jobs of ours the host started since the question was opened
          landed,      \* one of them finished complete
          lent,        \* an operator's bounded job did, while one of ours was followed
          unmarked,    \* triggers whose marker was never written
          foreigns, faults

followVars == <<kupoMarker, kupoCap, kupoStep>>
ghostVars == <<scans, landed, lent, unmarked>>
boundVars == <<foreigns, faults>>
kupoVars == <<followVars, hostJob, ghostVars, boundVars>>

NoJob == [state |-> "none", ours |-> FALSE, bounded |-> FALSE, complete |-> FALSE]
NeverMarked == [set |-> FALSE, done |-> FALSE, seen |-> 0, attempts |-> 0, flag |-> "unset"]

\* _mark
Mark(done, seen, attempts, flag) ==
    kupoMarker' = [set |-> TRUE, done |-> done, seen |-> seen,
                   attempts |-> attempts, flag |-> flag]

-----------------------------------------------------------------------------
(* _marker_complete: what keeps the classify tick from asking again.  The  *)
(* job worker also asks at every refit.                                    *)
Outstanding == ~kupoMarker.done

Reopened == kupoMarker.done /\ kupoMarker.seen < kupoCap
Attempts == IF Reopened THEN 0 ELSE kupoMarker.attempts
MustAsk == kupoMarker.set /\ ~kupoMarker.done /\ kupoMarker.flag # "no_job"
\* A job of the sidecar's was accepted, and its verdict is awaited.
Following == MustAsk \/ kupoStep.at = "accepted"

\* _run, up to the first request: settled, give up, ask the host, or trigger.
BeginAttempt ==
    /\ kupoStep.at = "idle"
    /\ ~(kupoMarker.done /\ kupoMarker.seen >= kupoCap)
    /\ IF MustAsk
       THEN kupoStep' = [at |-> "ask", attempts |-> Attempts] /\ UNCHANGED kupoMarker
       ELSE IF Attempts >= MaxTriggers
       THEN Mark(TRUE, kupoCap, Attempts, "gave_up") /\ UNCHANGED kupoStep
       ELSE kupoStep' = [at |-> "trigger", attempts |-> Attempts] /\ UNCHANGED kupoMarker
    /\ IF Reopened THEN scans' = 0 /\ landed' = FALSE /\ lent' = FALSE /\ unmarked' = 0
       ELSE UNCHANGED ghostVars
    /\ UNCHANGED <<kupoCap, hostJob, boundVars>>
KupoTick == Outstanding /\ BeginAttempt
KupoRefit == ~Outstanding /\ BeginAttempt

Rest == kupoStep' = [at |-> "idle", attempts |-> 0]

(* _check_host_job *)
NoAnswer ==   \* unreachable, not 200, not JSON, or still running
    /\ kupoStep.at = "ask"
    /\ Rest
    /\ UNCHANGED <<kupoMarker, kupoCap, hostJob, ghostVars, boundVars>>

\* broken: a forgotten job is no verdict
HasVerdictIfKept == hostJob.state \in {"done", "failed"}
\* A job that ended, and one the host forgot (404).
HasVerdict == hostJob.state # "running"

\* broken: a complete job is taken over, whoever bounded it
AdoptableAny == hostJob.state = "done" /\ hostJob.complete
Adoptable == hostJob.state = "done" /\ hostJob.bounded /\ hostJob.complete

Answered ==
    /\ kupoStep.at = "ask"
    /\ HasVerdict
    /\ IF Adoptable
       THEN Mark(TRUE, kupoCap, kupoMarker.attempts, "unset") /\ Rest
       ELSE IF kupoStep.attempts >= MaxTriggers
       THEN Mark(TRUE, kupoCap, kupoStep.attempts, "gave_up") /\ Rest
       ELSE kupoStep' = [kupoStep EXCEPT !.at = "trigger"] /\ UNCHANGED kupoMarker
    /\ UNCHANGED <<kupoCap, hostJob, ghostVars, boundVars>>

(* _trigger.  The POST and the marker it leaves are two steps. *)
Deferred ==   \* host_history_boundary has no answer yet
    /\ kupoStep.at = "trigger"
    /\ Rest
    /\ UNCHANGED <<kupoMarker, kupoCap, hostJob, ghostVars, boundVars>>

StartHostJob ==
    /\ hostJob.state # "running"
    /\ hostJob' = [state |-> "running", ours |-> TRUE, bounded |-> TRUE, complete |-> FALSE]
    /\ scans' = scans + 1

HostAccepts ==   \* 202
    /\ kupoStep.at = "trigger"
    /\ StartHostJob
    /\ kupoStep' = [kupoStep EXCEPT !.at = "accepted"]
    /\ UNCHANGED <<kupoMarker, kupoCap, landed, lent, unmarked, boundVars>>

Conflict ==   \* 409: a running job holds the address
    /\ kupoStep.at = "trigger"
    /\ hostJob.state = "running"
    /\ Rest
    /\ UNCHANGED <<kupoMarker, kupoCap, hostJob, ghostVars, boundVars>>

Refused ==   \* 503, an auth failure, any other status, or no answer at all
    /\ kupoStep.at = "trigger"
    /\ \/ UNCHANGED <<hostJob, scans>>
       \/ StartHostJob
    /\ kupoStep' = [kupoStep EXCEPT !.at = "refused"]
    /\ UNCHANGED <<kupoMarker, kupoCap, landed, lent, unmarked, boundVars>>

MarkTrigger ==
    /\ kupoStep.at \in {"accepted", "refused"}
    /\ Mark(FALSE, 0, kupoStep.attempts + 1, IF kupoStep.at = "refused" THEN "no_job" ELSE "unset")
    /\ Rest
    /\ UNCHANGED <<kupoCap, hostJob, ghostVars, boundVars>>

-----------------------------------------------------------------------------
(* The host (api/backfill.py), the operators, and restarts. *)
HostJobEnds ==
    /\ hostJob.state = "running"
    /\ \E s \in {"done", "failed"}, c \in BOOLEAN :
         /\ c => s = "done"
         /\ hostJob' = [hostJob EXCEPT !.state = s, !.complete = c]
         /\ landed' = (landed \/ (c /\ hostJob.ours))
         /\ lent' = (lent \/ (c /\ hostJob.bounded /\ ~hostJob.ours /\ Following))
    /\ UNCHANGED <<followVars, scans, unmarked, boundVars>>

\* An operator's job, its created_before_slot set by hand or left out.
ForeignJob ==
    /\ foreigns < MaxForeign
    /\ hostJob.state # "running"
    /\ \E bounded \in BOOLEAN :
         hostJob' = [state |-> "running", ours |-> FALSE, bounded |-> bounded, complete |-> FALSE]
    /\ foreigns' = foreigns + 1
    /\ UNCHANGED <<followVars, ghostVars, faults>>

HostRestarts ==
    /\ faults < MaxHostFaults
    /\ hostJob' = NoJob
    /\ faults' = faults + 1
    /\ UNCHANGED <<followVars, ghostVars, foreigns>>

SidecarRestarts ==
    /\ faults < MaxHostFaults
    /\ kupoStep.at # "idle"
    /\ unmarked' = IF kupoStep.at \in {"accepted", "refused"} THEN unmarked + 1 ELSE unmarked
    /\ Rest
    /\ faults' = faults + 1
    /\ UNCHANGED <<kupoMarker, kupoCap, hostJob, scans, landed, lent, foreigns>>

RaiseKupoCap ==
    /\ kupoCap < MaxCap
    /\ kupoStep.at = "idle"
    /\ kupoCap' = kupoCap + 1
    /\ UNCHANGED <<kupoMarker, kupoStep, hostJob, ghostVars, boundVars>>

KupoInit(on) ==
    /\ kupoMarker = NeverMarked
    /\ kupoCap = IF on THEN 1 ELSE MaxCap
    /\ kupoStep = [at |-> IF on THEN "idle" ELSE "off", attempts |-> 0]
    /\ hostJob = NoJob
    /\ scans = 0 /\ landed = FALSE /\ lent = FALSE /\ unmarked = 0
    /\ foreigns = (IF on THEN 0 ELSE MaxForeign)
    /\ faults = (IF on THEN 0 ELSE MaxHostFaults)

KupoNext ==
    \/ KupoTick \/ KupoRefit
    \/ NoAnswer \/ Answered
    \/ Deferred \/ HostAccepts \/ Conflict \/ Refused \/ MarkTrigger
    \/ HostJobEnds \/ ForeignJob \/ HostRestarts \/ SidecarRestarts \/ RaiseKupoCap

(* The job worker goes on and a host job ends within its timeout.  The     *)
(* host is not down for good, and its tip becomes known: an attempt is     *)
(* answered again and again.                                               *)
KupoFairness ==
    /\ WF_kupoVars(KupoTick)
    /\ WF_kupoVars(HostJobEnds)
    /\ WF_kupoVars(MarkTrigger)
    /\ WF_kupoVars(NoAnswer \/ Answered)
    /\ SF_kupoVars(Answered)
    /\ WF_kupoVars(Deferred \/ HostAccepts \/ Conflict \/ Refused)
    /\ SF_kupoVars(HostAccepts \/ Refused)
KupoSpec == KupoInit(TRUE) /\ [][KupoNext]_kupoVars /\ KupoFairness

-----------------------------------------------------------------------------
\* _KUPO_MAX_TRIGGERS: for one cap the host is driven through at most that many
\* scans, and one more for each trigger whose marker a restart lost.
HostScansBounded == scans <= MaxTriggers + unmarked

\* _check_host_job: a history is reported backfilled for the cap in force only
\* after a bounded scan landed complete: the sidecar's own, or one an operator
\* bounded by hand after the sidecar had started its own, which
\* created_before_slot does not tell from it.  An operator's latest-N job, a
\* degraded or a forgotten one is never taken for it.
OwnScanAdopted ==
    kupoMarker.done /\ kupoMarker.flag = "unset" /\ kupoMarker.seen >= kupoCap =>
        landed \/ lent

\* An outstanding history is settled in the end: landed, or given up loudly.
\* It never waits for a job that was never created or that the host forgot.
HistorySettles == (kupoMarker.set /\ ~kupoMarker.done) ~> kupoMarker.done
=============================================================================
