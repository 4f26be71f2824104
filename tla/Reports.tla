------------------------------ MODULE Reports ------------------------------
(***************************************************************************)
(* The periodic report: the scheduler of tasks/notifications.py, the       *)
(* windowed reads of notifications/reports.py and the boundary kept in     *)
(* notification_report_state.  The window trails the moment a report is    *)
(* begun, it does not resume at the last one's end: with the default       *)
(* settings (weekly, seven days; daily, one day) two windows at best meet, *)
(* and whatever delays a report leaves days that no report covers.         *)
(***************************************************************************)
EXTENDS Integers, FiniteSets

CONSTANTS
  Alert,         \* transactions scored at or above min_band, in scope
  Anomalous,     \* transactions with a contract_anomaly finding
  Interval,      \* report_interval
  WindowDays,    \* effective_window_days
  InsertDelay,   \* bound: from analyzed_at to the row in tx_class_scores
  MaxReportTime, \* bound: length of a behaviour
  MaxReportFaults

ASSUME ReportsAssumption ==
  /\ Interval \in Nat \ {0}
  /\ {WindowDays, InsertDelay, MaxReportTime, MaxReportFaults} \subseteq Nat

Never == -1

VARIABLES
  today,        \* now
  analyzed,     \* tx_class_scores: analyzed_at of each alert
  stamped,      \* rows the engine has stamped and not yet inserted
  stamps,       \* sidecar rows: [scored_at, published_at] of each finding
  lastSent,     \* last_sent_at
  report,       \* the tick: [at, from, to, body]
  routes,       \* a channel with a recipient or URL is configured
  reported,     \* ghost: (transaction, stamp) pairs some report was sent with
  lastTo,       \* ghost: window end of the last report sent
  gaps,         \* ghost: days no window covers once its rows are in
  markLost,     \* ghost: its boundary was not written
  reportFaults

reportVars == <<today, analyzed, stamped, stamps, lastSent, report, routes, reported,
                lastTo, gaps, markLost, reportFaults>>
reportData == <<analyzed, stamped, stamps>>
reportGhosts == <<reported, lastTo, gaps, markLost>>

NoReport == [at |-> "idle", from |-> 0, to |-> 0, body |-> {}]

-----------------------------------------------------------------------------
(* _tick *)

NotDue == lastSent # Never /\ today < lastSent + Interval

\* broken: the boundary is advanced when the report is begun
BeginReportMarked ==
  /\ report.at = "idle" /\ ~NotDue /\ routes
  /\ report' = [at |-> "count", from |-> today - WindowDays, to |-> today, body |-> {}]
  /\ lastSent' = today
  /\ UNCHANGED <<today, routes, reportFaults, reportData, reportGhosts>>
BeginReport ==
  /\ report.at = "idle" /\ ~NotDue /\ routes
  /\ report' = [at |-> "count", from |-> today - WindowDays, to |-> today, body |-> {}]
  /\ UNCHANGED <<today, lastSent, routes, reportFaults, reportData, reportGhosts>>

\* aggregate_window_counts and the top alerts: analyzed_at in [from, to).
InScores(tx) == analyzed[tx] # Never /\ report.from <= analyzed[tx] /\ analyzed[tx] < report.to
CountScores ==
  /\ report.at = "count"
  /\ report' = [report EXCEPT !.at = "anomalies",
                              !.body = {<<tx, analyzed[tx]>> : tx \in {x \in Alert : InScores(x)}}]
  /\ UNCHANGED <<today, lastSent, routes, reportFaults, reportData, reportGhosts>>

\* _contract_anomaly_in_window: either stamp, both bounds included.
StampsInWindow(tx) == {s \in stamps[tx] : report.from <= s /\ s <= report.to}
CountAnomalies ==
  /\ report.at = "anomalies"
  /\ report' = [report EXCEPT !.at = "csv",
        !.body = @ \cup UNION {{tx} \X StampsInWindow(tx) : tx \in Anomalous}]
  /\ UNCHANGED <<today, lastSent, routes, reportFaults, reportData, reportGhosts>>
\* The sidecar cannot be read: the class counts 0 and the report goes on.
AnomaliesUnreadable ==
  /\ report.at = "anomalies" /\ reportFaults < MaxReportFaults
  /\ reportFaults' = reportFaults + 1
  /\ report' = [report EXCEPT !.at = "csv"]
  /\ UNCHANGED <<today, lastSent, routes, reportData, reportGhosts>>

\* build_report_csv: the same rows, read again, for the attachment.
ReadCsv ==
  /\ report.at = "csv"
  /\ report' = [report EXCEPT !.at = "dispatch"]
  /\ UNCHANGED <<today, lastSent, routes, reportFaults, reportData, reportGhosts>>

\* The attempt is made, whatever the channels answer.
DispatchReport ==
  /\ report.at = "dispatch"
  /\ reported' = reported \cup report.body
  /\ lastTo' = report.to
  /\ gaps' = gaps \cup ((lastTo - InsertDelay)..(report.from - 1))
  /\ markLost' = FALSE
  /\ report' = [report EXCEPT !.at = "mark"]
  /\ UNCHANGED <<today, lastSent, routes, reportFaults, reportData>>

MarkReportSent ==
  /\ report.at = "mark"
  /\ lastSent' = report.to
  /\ report' = NoReport
  /\ UNCHANGED <<today, routes, reportFaults, reportData, reportGhosts>>

\* A read or the boundary's write raises, the task is stopped, or the process
\* ends: the next tick asks again whether a report is due.
ReportAborted ==
  /\ report.at # "idle" /\ reportFaults < MaxReportFaults
  /\ reportFaults' = reportFaults + 1
  /\ markLost' = (markLost \/ report.at = "mark")
  /\ report' = NoReport
  /\ UNCHANGED <<today, lastSent, routes, reportData, reported, lastTo, gaps>>

-----------------------------------------------------------------------------
(* What the report reads *)

\* The engine scores a transaction, again perhaps, and stamps the row ...
StampScore(tx) ==
  /\ stamped[tx] = Never /\ today < MaxReportTime
  /\ analyzed[tx] < today
  /\ stamped' = [stamped EXCEPT ![tx] = today]
  /\ UNCHANGED <<today, analyzed, stamps, lastSent, report, routes, reportFaults, reportGhosts>>
\* ... which replaces the one before when it is inserted.
InsertScore(tx) ==
  /\ stamped[tx] # Never
  /\ analyzed' = [analyzed EXCEPT ![tx] = stamped[tx]]
  /\ stamped' = [stamped EXCEPT ![tx] = Never]
  /\ UNCHANGED <<today, stamps, lastSent, report, routes, reportFaults, reportGhosts>>

\* The sidecar scores or relabels: scored_at stays, published_at moves.
PublishFinding(tx) ==
  /\ today < MaxReportTime
  /\ LET first == {s \in stamps[tx] : \A r \in stamps[tx] : s <= r}
     IN stamps' = [stamps EXCEPT ![tx] = first \cup {today}]
  /\ stamps' # stamps
  /\ UNCHANGED <<today, analyzed, stamped, lastSent, report, routes, reportFaults, reportGhosts>>

\* Settings are saved; a tick reads them once, at its start, so that a change
\* during a report is one after it.
SetRoutes ==
  /\ report.at = "idle" /\ today < MaxReportTime
  /\ routes' = ~routes
  /\ UNCHANGED <<today, lastSent, report, reportFaults, reportData, reportGhosts>>

PassDay ==
  /\ today < MaxReportTime
  /\ \A tx \in Alert : stamped[tx] # Never => today < stamped[tx] + InsertDelay
  /\ today' = today + 1
  /\ UNCHANGED <<lastSent, report, routes, reportFaults, reportData, reportGhosts>>

ReportsInit(on) ==
  /\ today = (IF on THEN 0 ELSE MaxReportTime)
  /\ analyzed = [tx \in Alert |-> Never]
  /\ stamped = [tx \in Alert |-> Never]
  /\ stamps = [tx \in Anomalous |-> {}]
  /\ lastSent = Never
  /\ report = [NoReport EXCEPT !.at = IF on THEN "idle" ELSE "off"]
  /\ routes = TRUE
  /\ reported = {} /\ lastTo = Never /\ gaps = {} /\ markLost = FALSE
  /\ reportFaults = (IF on THEN 0 ELSE MaxReportFaults)

ReportsNext ==
  \/ BeginReport \/ CountScores \/ CountAnomalies \/ AnomaliesUnreadable \/ ReadCsv
  \/ DispatchReport \/ MarkReportSent \/ ReportAborted
  \/ \E tx \in Alert : StampScore(tx) \/ InsertScore(tx)
  \/ \E tx \in Anomalous : PublishFinding(tx)
  \/ SetRoutes \/ PassDay
ReportsSpec == ReportsInit(TRUE) /\ [][ReportsNext]_reportVars

-----------------------------------------------------------------------------
\* Behind the boundary an alert was sent in some report, or its day is one that the
\* trailing windows left out: it lies before the start of a report and not more than the
\* delay of a row before the end of the last one sent.  This also when the transaction was
\* scored again while a report was being built, a report was aborted anywhere, or its
\* boundary was never written.  A sidecar finding that was scored or relabelled before
\* the boundary was sent too, or falls in such a gap, the sidecar being readable.
NoAlertUnreported ==
  /\ \A tx \in Alert :
       (analyzed[tx] # Never /\ analyzed[tx] + InsertDelay < lastSent /\ analyzed[tx] \notin gaps) =>
         <<tx, analyzed[tx]>> \in reported
  /\ reportFaults = 0 =>
       \A tx \in Anomalous : \A s \in stamps[tx] \ gaps : s < lastSent => <<tx, s>> \in reported

\* last_sent_at: a report that is being built comes an interval after the last one
\* that was sent, unless the boundary of that one was lost.
ReportsPaced ==
  (report.at \notin {"idle", "off", "mark"} /\ lastTo # Never) =>
    (report.to >= lastTo + Interval \/ markLost)

\* The reports leave out no alert of a day their windows cover, and do not come in
\* quick succession.
ReportsRight == NoAlertUnreported /\ ReportsPaced
=============================================================================
