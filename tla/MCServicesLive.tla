--------------------------- MODULE MCServicesLive ---------------------------
(***************************************************************************)
(* The components that do not share state at this level of detail, checked *)
(* side by side: in a behaviour one of them runs and the others are off,   *)
(* so that the states add up instead of multiplying.                       *)
(***************************************************************************)
EXTENDS Reconnect, Leader, WebSocketFeed, Backfill, KupoHistory, ClusterJobs,
        AnomalyPoller

allVars == <<reconnectVars, leaderVars, feedVars, backfillVars, kupoVars,
              jobsVars, pollerVars>>

Init ==
  \E part \in {"reconnect", "leader", "feed", "backfill", "kupo", "jobs",
               "poller"} :
    /\ ReconnectInit(part = "reconnect")
    /\ LeaderInit(part = "leader")
    /\ FeedInit(part = "feed")
    /\ BackfillInit(part = "backfill")
    /\ KupoInit(part = "kupo")
    /\ JobsInit(part = "jobs")
    /\ PollerInit(part = "poller")

Next ==
  \/ /\ ReconnectNext
     /\ UNCHANGED <<leaderVars, feedVars, backfillVars, kupoVars,
                    jobsVars, pollerVars>>
  \/ /\ LeaderNext
     /\ UNCHANGED <<reconnectVars, feedVars, backfillVars,
                    kupoVars, jobsVars, pollerVars>>
  \/ /\ FeedNext
     /\ UNCHANGED <<reconnectVars, leaderVars, backfillVars,
                    kupoVars, jobsVars, pollerVars>>
  \/ /\ BackfillNext
     /\ UNCHANGED <<reconnectVars, leaderVars, feedVars,
                    kupoVars, jobsVars, pollerVars>>
  \/ /\ KupoNext
     /\ UNCHANGED <<reconnectVars, leaderVars, feedVars,
                    backfillVars, jobsVars, pollerVars>>
  \/ /\ JobsNext
     /\ UNCHANGED <<reconnectVars, leaderVars, feedVars,
                    backfillVars, kupoVars, pollerVars>>
  \/ /\ PollerNext
     /\ UNCHANGED <<reconnectVars, leaderVars, feedVars,
                    backfillVars, kupoVars, jobsVars>>

Fairness ==
  /\ ReconnectFairness
  /\ LeaderFairness
  /\ KupoFairness
  /\ JobsFairness
  /\ PollerFairness

Spec == Init /\ [][Next]_allVars /\ Fairness

\* No long-running work is started twice or beyond its limit, by requests that
\* race, by retries or after a restart: the host's scans (api/backfill.py), the
\* scans the sidecar asks it for (service/history.py), the sidecar's jobs
\* (jobs.py, service/scheduler.py) and their re-fits, and the poller's alerts.
\* Where the code prefers a repetition to a loss, a job that died after its fit
\* was saved and an alert whose dedup check failed, it is counted.
NothingTwice ==
  /\ ScansBounded /\ HostScansBounded
  /\ OneJobPerContract /\ RefitsThrottled
  /\ OneAlertPerBand

\* What is reported as done was done: the result of a backfill lists what is
\* stored (address_backfill.py), and a history counts as complete only after a
\* bounded scan, the sidecar's own or one an operator bounded by hand (history.py).
ReportsHonest == ReportTrue /\ OwnScanAdopted
=============================================================================
