------------------------------ MODULE Publish ------------------------------
(***************************************************************************)
(* The clustering sidecar's projection of its verdicts into the table the  *)
(* host reads (service/publish.py), for one contract: the human labels     *)
(* (service/labels.py), the batch fit, the incremental classification, and *)
(* the reconciliation pass that runs at the end of a job on the worker     *)
(* and after every label call on an API thread, with no lock between them. *)
(* A transaction is a number and its slot is its rank.  The projection is  *)
(* the FINAL row of a ReplacingMergeTree: the highest version, and the     *)
(* last insert among equal versions.                                       *)
(***************************************************************************)
EXTENDS Integers, FiniteSets

CONSTANTS
  LastTx,           \* the transactions are 1..LastTx, oldest first
  Local,            \* those the sidecar backfilled and the host never had
  FirstHost,        \* those the host has at the start
  FirstBenign,      \* those an operator may have cleared before the first fit
  WindowSize,       \* CLUSTERING_WINDOW_TXS
  MaxClock,         \* bound: readings of the wall clock, in any order
  MaxFits,          \* bound: re-fits
  MaxClassifies,    \* bound: classify jobs
  MaxLabels,        \* bound: label and clear calls
  MaxPublishFaults  \* bound: passes that fail part-way

ASSUME PublishAssumption ==
  /\ LastTx \in Nat \ {0} /\ WindowSize \in Nat \ {0}
  /\ Local \subseteq 1 .. LastTx /\ FirstHost \subseteq 1 .. LastTx
  /\ Local \cap FirstHost = {} /\ FirstBenign \subseteq 1 .. LastTx
  /\ {MaxClock, MaxFits, MaxClassifies, MaxLabels, MaxPublishFaults} \subseteq Nat

VARIABLES
  host,      \* the transactions of the host's address index
  fit,       \* the canonical run: cluster membership, flagged votes, number
  frozen,    \* the online model: the run it was built from, its cluster verdict
  classified,    \* tx_classifications FINAL: verdict and the model's run
  tag,       \* tx_labels FINAL: the human label and its source
  shown,     \* tx_contract_anomaly FINAL: version and verdict
  pass,      \* where each thread's pass is, with what it read
  calm,      \* ghost: a pass is running alone, or was the last thing to happen
  budget     \* what is left of the bounds

publishVars == <<host, fit, frozen, classified, tag, shown, pass, calm, budget>>

AnyTx == 1 .. LastTx
PassThread == {"worker", "api"}
Positive == {"malicious", "anomaly"}
NoTag == [label |-> "none", source |-> "none"]
Resting == [at |-> "idle", ver |-> 0, online |-> {}, batch |-> [x \in {} |-> "none"], labels |-> {},
            stale |-> {}]

\* The rolling window: the newest transactions the fit and every read see.
Held == host \cup Local
Windowed == {x \in Held : Cardinality({y \in Held : y > x}) < WindowSize}

(***************************************************************************)
(* Labels.                                                                 *)
(***************************************************************************)
Labelled(l) == {x \in AnyTx : tag[x].label = l}
ClusterMembers == {x \in AnyTx : fit.of[x] = "cluster"}
\* Only labels applied to a whole cluster are inherited; malicious wins.
Propagating == {tag[x].label : x \in {y \in ClusterMembers : tag[y].source = "cluster"}}
DominantVerdict ==
  IF "malicious" \in Propagating THEN "malicious"
  ELSE IF "benign" \in Propagating THEN "benign" ELSE "none"

\* broken: the detectors' votes win over a label
BatchVerdictVotes(x) ==
  IF x \in fit.votes THEN "anomaly"
  ELSE IF tag[x].label # "none" THEN tag[x].label
  ELSE IF fit.of[x] = "cluster" /\ DominantVerdict # "none" THEN DominantVerdict
  ELSE "normal"
\* compute_verdicts: explicit label, then the cluster's, then the votes.
BatchVerdict(x) ==
  IF tag[x].label # "none" THEN tag[x].label
  ELSE IF fit.of[x] = "cluster" /\ DominantVerdict # "none" THEN DominantVerdict
  ELSE IF x \in fit.votes THEN "anomaly" ELSE "normal"

(***************************************************************************)
(* One pass.                                                               *)
(***************************************************************************)
LatestVersion == CHOOSE v \in {shown[x].ver : x \in AnyTx} : \A x \in AnyTx : shown[x].ver <= v

ReconciliationVersion(now) == IF LatestVersion >= now THEN LatestVersion + 1 ELSE now

HostKnownOnly(S) == S \cap host

\* The rows an insert leaves on FINAL.
Upserted(rows, ver) ==
  [x \in AnyTx |-> IF x \in DOMAIN rows /\ ver >= shown[x].ver
                   THEN [ver |-> ver, verdict |-> rows[x]] ELSE shown[x]]

\* The WHERE of the online copy: no filter on the model that classified the row.
OnlineFlagged ==
  {x \in AnyTx : /\ classified[x].run # 0
                 /\ \/ classified[x].verdict \in Positive /\ x \notin Labelled("benign")
                    \/ x \in Labelled("malicious")}
OnlineRows(S) ==
  [x \in S |-> IF x \in Labelled("malicious") THEN "malicious" ELSE classified[x].verdict]

BatchFlagged == {x \in AnyTx : fit.of[x] # "out" /\ BatchVerdict(x) \in Positive}

FreshlyLabelled(p) ==
  HostKnownOnly(Labelled("malicious") \ (p.online \cup DOMAIN p.batch))

KeepRows(p) == p.online \cup DOMAIN p.batch \cup p.labels

StaleRows(p) == {x \in AnyTx : shown[x].verdict \in Positive} \ KeepRows(p)

Others(t) == PassThread \ {t}

TakeVersion(t) ==
  /\ pass[t].at = "version"
  /\ \E now \in 0 .. MaxClock :
       pass' = [pass EXCEPT ![t] = [Resting EXCEPT !.at = "select",
                                                   !.ver = ReconciliationVersion(now)]]
  /\ calm' = IF \A u \in Others(t) : pass[u].at = "idle" \/ pass[u].at = "version"
             THEN "pass" ELSE "no"
  /\ UNCHANGED <<host, fit, frozen, classified, tag, shown, budget>>

SelectOnline(t) ==
  /\ pass[t].at = "select"
  /\ pass' = [pass EXCEPT ![t].at = "online", ![t].online = HostKnownOnly(OnlineFlagged)]
  /\ UNCHANGED <<host, fit, frozen, classified, tag, shown, calm, budget>>

\* The insert re-evaluates its WHERE, pinned to the set already selected.
InsertOnline(t) ==
  /\ pass[t].at = "online"
  /\ shown' = Upserted(OnlineRows(pass[t].online \cap OnlineFlagged), pass[t].ver)
  /\ pass' = [pass EXCEPT ![t].at = "resolve"]
  /\ UNCHANGED <<host, fit, frozen, classified, tag, calm, budget>>

SelectBatch(t) ==
  /\ pass[t].at = "resolve"
  /\ pass' = [pass EXCEPT ![t].at = "batch",
                          ![t].batch = [x \in HostKnownOnly(BatchFlagged) |-> BatchVerdict(x)]]
  /\ UNCHANGED <<host, fit, frozen, classified, tag, shown, calm, budget>>

InsertBatch(t) ==
  /\ pass[t].at = "batch"
  /\ shown' = Upserted(pass[t].batch, pass[t].ver)
  /\ pass' = [pass EXCEPT ![t].at = "labels"]
  /\ UNCHANGED <<host, fit, frozen, classified, tag, calm, budget>>

PublishLabels(t) ==
  /\ pass[t].at = "labels"
  /\ LET p == pass[t]
         fresh == FreshlyLabelled(p)
     IN /\ shown' = Upserted([x \in fresh |-> "malicious"], p.ver)
        /\ pass' = [pass EXCEPT ![t].at = "retract",
                                ![t].labels = fresh \cup (Labelled("malicious")
                                                          \cap (p.online \cup DOMAIN p.batch))]
  /\ UNCHANGED <<host, fit, frozen, classified, tag, calm, budget>>

PassEnds(t) ==
  /\ pass' = [pass EXCEPT ![t] = Resting]
  /\ calm' = IF calm = "pass" THEN "settled" ELSE "no"

\* _retract_stale: what is shown and was not kept, of that what is still inside the
\* window, and the tombstones; each of the reads may leave nothing to retract.
SelectStale(t) ==
  /\ pass[t].at = "retract"
  /\ LET stale == StaleRows(pass[t])
     IN \/ stale = {} /\ PassEnds(t)
        \/ /\ stale # {}
           /\ pass' = [pass EXCEPT ![t].at = "window", ![t].stale = stale]
           /\ UNCHANGED calm
  /\ UNCHANGED <<host, fit, frozen, classified, tag, shown, budget>>

WindowStale(t) ==
  /\ pass[t].at = "window"
  /\ LET stale == pass[t].stale \cap Windowed
     IN \/ stale = {} /\ PassEnds(t)
        \/ /\ stale # {}
           /\ pass' = [pass EXCEPT ![t].at = "tombstone", ![t].stale = stale]
           /\ UNCHANGED calm
  /\ UNCHANGED <<host, fit, frozen, classified, tag, shown, budget>>

InsertTombstones(t) ==
  /\ pass[t].at = "tombstone"
  /\ shown' = Upserted([x \in pass[t].stale |-> "normal"], pass[t].ver)
  /\ PassEnds(t)
  /\ UNCHANGED <<host, fit, frozen, classified, tag, budget>>

\* A query of the pass raises: what it wrote stays, the rest is not written.
\* A label call swallows it; a job fails with it.
PassFails(t) ==
  /\ pass[t].at \notin {"idle", "fit", "votes", "scores"} /\ budget.faults > 0
  /\ pass' = [pass EXCEPT ![t] = Resting]
  /\ calm' = "no"
  /\ budget' = [budget EXCEPT !.faults = @ - 1]
  /\ UNCHANGED <<host, fit, frozen, classified, tag, shown>>

(***************************************************************************)
(* The label calls: the rows are written, then the same thread reconciles. *)
(***************************************************************************)
Retagged(S, l, source) ==
  /\ pass["api"].at = "idle" /\ budget.labels > 0 /\ S # {}
  /\ tag' = [x \in AnyTx |-> IF x \in S THEN [label |-> l, source |-> source] ELSE tag[x]]
  /\ pass' = [pass EXCEPT !["api"].at = "version"]
  /\ calm' = "no"
  /\ budget' = [budget EXCEPT !.labels = @ - 1]
  /\ UNCHANGED <<host, fit, frozen, classified, shown>>

LabelClusterMembers == \E l \in {"malicious", "benign"} : Retagged(ClusterMembers, l, "cluster")
ClearClusterMembers == Retagged(ClusterMembers, "none", "none")
LabelTransaction == \E l \in {"malicious", "benign"}, x \in Held : Retagged({x}, l, "manual_tx")
ClearTransactionLabel == \E x \in Held : Retagged({x}, "none", "none")

(***************************************************************************)
(* The worker's jobs.  A fit writes the cluster run, then the anomaly run  *)
(* row, then its scores: until the row lands the old votes pair with the   *)
(* new clusters, and until the scores land there are none.                 *)
(***************************************************************************)
FitClusters ==
  /\ pass["worker"].at = "idle" /\ budget.fits > 0 /\ Windowed # {}
  /\ \E C \in SUBSET Windowed :
       fit' = [of |-> [x \in AnyTx |-> IF x \notin Windowed THEN "out"
                                       ELSE IF x \in C THEN "cluster" ELSE "noise"],
               votes |-> fit.votes, run |-> fit.run + 1]
  /\ pass' = [pass EXCEPT !["worker"].at = "votes"]
  /\ budget' = [budget EXCEPT !.fits = @ - 1]
  /\ calm' = "no"
  /\ UNCHANGED <<host, frozen, classified, tag, shown>>

DetectRun ==
  /\ pass["worker"].at = "votes"
  /\ fit' = [fit EXCEPT !.votes = {}]
  /\ pass' = [pass EXCEPT !["worker"].at = "scores"]
  /\ calm' = "no"
  /\ UNCHANGED <<host, frozen, classified, tag, shown, budget>>

DetectScores ==
  /\ pass["worker"].at = "scores"
  /\ \E V \in SUBSET {x \in AnyTx : fit.of[x] # "out"} : fit' = [fit EXCEPT !.votes = V]
  /\ pass' = [pass EXCEPT !["worker"].at = "version"]
  /\ calm' = "no"
  /\ UNCHANGED <<host, frozen, classified, tag, shown, budget>>

\* ensure_shape_model: rebuilt when a newer run exists, with the labels of now.
ShapeModel ==
  IF frozen.run = fit.run THEN frozen ELSE [run |-> fit.run, verdict |-> DominantVerdict]

Unclassified(mo) ==
  {x \in Windowed : fit.of[x] = "out" /\ classified[x].run # mo.run}

\* A new transaction inherits its cluster's frozen verdict, or both detectors
\* vote, or neither.
OnlineVerdicts(mo) == {"normal", "anomaly"} \cup ({mo.verdict} \ {"none"})

ClassifyNew ==
  /\ pass["worker"].at = "idle" /\ budget.classifies > 0 /\ fit.run > 0
  /\ LET mo == ShapeModel
         new == Unclassified(mo)
     IN /\ frozen' = mo
        /\ \E v \in [new -> OnlineVerdicts(mo)] :
             classified' = [x \in AnyTx |-> IF x \in new THEN [run |-> mo.run, verdict |-> v[x]]
                                        ELSE classified[x]]
  /\ pass' = [pass EXCEPT !["worker"].at = "version"]
  /\ budget' = [budget EXCEPT !.classifies = @ - 1]
  /\ calm' = "no"
  /\ UNCHANGED <<host, fit, tag, shown>>

\* The host ingests the next transaction of the contract; the window moves.
HostIngests ==
  /\ \E x \in AnyTx \ Held : (\A y \in AnyTx \ Held : x <= y) /\ host' = host \cup {x}
  /\ calm' = "no"
  /\ UNCHANGED <<fit, frozen, classified, tag, shown, pass, budget>>

PublishInit(on) ==
  /\ host = FirstHost
  /\ fit = [of |-> [x \in AnyTx |-> "out"], votes |-> {}, run |-> 0]
  /\ frozen = [run |-> 0, verdict |-> "none"]
  /\ classified = [x \in AnyTx |-> [run |-> 0, verdict |-> "normal"]]
  /\ \E S \in SUBSET (IF on THEN FirstBenign ELSE {}) :
       tag = [x \in AnyTx |-> IF x \in S
                              THEN [label |-> "benign", source |-> "manual_tx"] ELSE NoTag]
  /\ shown = [x \in AnyTx |-> [ver |-> 0, verdict |-> "normal"]]
  /\ pass = [t \in PassThread |-> Resting]
  /\ calm = IF on THEN "no" ELSE "off"
  /\ budget = [fits |-> MaxFits, classifies |-> MaxClassifies, labels |-> MaxLabels,
               faults |-> MaxPublishFaults]

PassStep(t) ==
  \/ TakeVersion(t) \/ SelectOnline(t) \/ InsertOnline(t) \/ SelectBatch(t)
  \/ InsertBatch(t) \/ PublishLabels(t)
  \/ SelectStale(t) \/ WindowStale(t) \/ InsertTombstones(t) \/ PassFails(t)

PublishNext ==
  /\ calm # "off"
  /\ \/ \E t \in PassThread : PassStep(t)
     \/ LabelClusterMembers \/ ClearClusterMembers
     \/ LabelTransaction \/ ClearTransactionLabel
     \/ FitClusters \/ DetectRun \/ DetectScores \/ ClassifyNew \/ HostIngests
PublishSpec == PublishInit(TRUE) /\ [][PublishNext]_publishVars

(***************************************************************************)
(* What must hold.                                                         *)
(***************************************************************************)
PublishTypeOK ==
  /\ host \subseteq AnyTx
  /\ fit.of \in [AnyTx -> {"out", "noise", "cluster"}] /\ fit.votes \subseteq AnyTx
  /\ \A x \in AnyTx : shown[x].verdict \in {"normal", "malicious", "anomaly"}
  /\ \A t \in PassThread : KeepRows(pass[t]) \subseteq AnyTx
  /\ calm \in {"off", "no", "pass", "settled"}

Surfaced(x) == IF shown[x].verdict \in Positive THEN shown[x].verdict ELSE "none"

\* What the sidecar currently holds about a transaction the host knows.
CurrentFinding(x) ==
  IF x \notin host \/ tag[x].label = "benign" THEN "none"
  ELSE IF tag[x].label = "malicious" THEN "malicious"
  ELSE IF fit.of[x] # "out" /\ BatchVerdict(x) \in Positive THEN BatchVerdict(x)
  ELSE IF classified[x].run # 0 /\ classified[x].verdict \in Positive THEN classified[x].verdict
  ELSE "none"

\* A pass that ran by itself leaves the host exactly the current findings:
\* whatever overlapping or half-failed passes and whatever clock readings came
\* before it, a transaction inside the window is surfaced with its current
\* finding or not at all, and a finding outside the window is surfaced too
\* (publish_contract_anomaly, with the version of _reconciliation_version).
PassReconciles ==
  calm = "settled" =>
    \A x \in AnyTx :
      /\ x \in Windowed => Surfaced(x) = CurrentFinding(x)
      /\ CurrentFinding(x) # "none" => Surfaced(x) = CurrentFinding(x)

\* The host is never shown a transaction it does not have, at any step of any
\* interleaving of passes (_host_known_only on all three inserting paths).
HostNeverShownUnknown == \A x \in AnyTx : Surfaced(x) # "none" => x \in host

\* What the host is shown: after a quiet pass exactly the current findings, and
\* at no time a transaction it does not have.
ProjectionRight == PublishTypeOK /\ PassReconciles /\ HostNeverShownUnknown
=============================================================================
