---------------------------- MODULE Notifications ----------------------------
(***************************************************************************)
(* Immediate alerts of the scorer stream: on_new_scores hands a finding to *)
(* a delivery coroutine (notifications/__init__._deliver_with_dedup), a    *)
(* total failure is dead-lettered in failed_notifications, and the retry   *)
(* sweep (tasks/notifications._retry_tick) delivers it later through the   *)
(* same function.  The ledgers are the Postgres tables notified_alerts,    *)
(* notified_alert_groups and failed_notifications.                         *)
(*                                                                         *)
(* A deliverer is a live delivery coroutine (a Courier) or the sweep.  One *)
(* awaited call is one step, so deliveries, the sweep, the retention       *)
(* prunes and a restart interleave between any two of them.  A band is its *)
(* rank; rank 0 stands for "no row".                                       *)
(***************************************************************************)
EXTENDS Naturals, FiniteSets

CONSTANTS
    Tx,           \* transactions that are scored
    Group,        \* alert groups (notifications/grouping.py)
    NoGroup,      \* group of a finding whose class is not grouped
    GroupOf,      \* the group key of a transaction's finding
    MaxBand,      \* highest band rank
    Courier,      \* delivery coroutines; its size bounds those in flight
    Sweep,        \* the retry sweep
    MaxAttempts,  \* NOTIFY_RETRY_MAX_ATTEMPTS
    PerTick,      \* NOTIFY_RETRY_MAX_PER_TICK
    MaxRaises,    \* bound: findings raised
    MaxFaults     \* bound: failed calls, restarts, prunes and configuration edits

Deliverer == Courier \cup {Sweep}
Band == 1 .. MaxBand
Rank == 0 .. MaxBand

ASSUME NotificationAssumption ==
    /\ Tx # {} /\ Sweep \notin Courier
    /\ NoGroup \notin Group
    /\ GroupOf \in [Tx -> Group \cup {NoGroup}]
    /\ MaxBand \in Nat \ {0} /\ MaxAttempts \in Nat \ {0} /\ PerTick \in Nat \ {0}
    /\ MaxRaises \in Nat /\ MaxFaults \in Nat

VARIABLES
    route,      \* the trigger config: "ok", "gap" (selected, undeliverable) or "none"
    claim,      \* notified_alerts.band_rank
    groupBand,  \* notified_alert_groups.band_rank
    groupOpen,  \* groups notified inside NOTIFY_GROUP_WINDOW_MINUTES
    deadBand,   \* failed_notifications.band_rank
    tries,      \* failed_notifications.attempts
    gone,       \* failed_notifications.abandoned
    due,        \* rows whose retry backoff has elapsed
    pc,         \* per deliverer: the call it makes next
    job,        \* per deliverer: the finding in hand, and the attempts its row had
    batch,      \* rows the sweep has read and not yet taken up
    raises,     \* findings raised so far (bounded by MaxRaises)
    faults      \* failures so far (bounded by MaxFaults)

\* Observations that the program does not keep.
VARIABLES
    raised,     \* highest band raised with a selected channel
    delivered,  \* highest band some channel delivered
    collapsed,  \* highest band suppressed by an open group window
    windowBand, \* highest band claimed since the group's window last opened
    excuse      \* why the latest finding may have been lost

ledgers == <<claim, groupBand, groupOpen>>
letters == <<deadBand, tries, gone, due>>
work == <<pc, job, batch>>
history == <<raised, delivered, collapsed, windowBand, excuse>>
vars == <<route, ledgers, letters, work, raises, faults, history>>

-----------------------------------------------------------------------------
Job == [tx : Tx, band : Band, tries : Nat]
Steps == {"idle", "check", "group", "send", "record", "claim", "groupClaim",
          "next", "count", "recount", "delete", "withdraw"}
Excuses == {"gap", "crash", "record", "withdrawn", "overtaken", "pruned"}

TypeOK ==
    /\ route \in {"ok", "gap", "none"}
    /\ claim \in [Tx -> Rank] /\ groupBand \in [Group -> Rank] /\ groupOpen \subseteq Group
    /\ deadBand \in [Tx -> Rank] /\ tries \in [Tx -> Nat]
    /\ gone \subseteq Tx /\ due \subseteq Tx
    /\ pc \in [Deliverer -> Steps] /\ job \in [Deliverer -> Job] /\ batch \subseteq Job
    /\ raises \in Nat /\ faults \in Nat
    /\ raised \in [Tx -> Rank] /\ delivered \in [Tx -> Rank] /\ collapsed \in [Tx -> Rank]
    /\ windowBand \in [Group -> Rank]
    /\ excuse \in [Tx -> SUBSET Excuses]

None == [t \in Tx |-> 0]

Init ==
    /\ route = "ok"
    /\ claim = None /\ groupBand = [g \in Group |-> 0] /\ groupOpen = {}
    /\ windowBand = [g \in Group |-> 0]
    /\ deadBand = None /\ tries = None /\ gone = {} /\ due = {}
    /\ pc = [d \in Deliverer |-> "idle"]
    /\ job = [d \in Deliverer |-> [tx |-> CHOOSE t \in Tx : TRUE, band |-> 1, tries |-> 0]]
    /\ batch = {} /\ raises = 0 /\ faults = 0
    /\ raised = None /\ delivered = None /\ collapsed = None
    /\ excuse = [t \in Tx |-> {}]

Fault == faults < MaxFaults /\ faults' = faults + 1

Larger(a, b) == IF a < b THEN b ELSE a
GoTo(d, step) == pc' = [pc EXCEPT ![d] = step]

\* Where _deliver_with_dedup returns to: a courier ends, the sweep settles its row.
Return(d, step) == GoTo(d, IF d = Sweep THEN step ELSE "idle")

-----------------------------------------------------------------------------
(* The environment: configuration, clocks, retention, restarts.            *)

EditConfig(r) ==
    /\ r # route /\ Fault
    /\ route' = r
    /\ UNCHANGED <<ledgers, letters, work, raises, history>>

GroupWindowOver(g) ==
    /\ g \in groupOpen
    /\ groupOpen' = groupOpen \ {g}
    /\ windowBand' = [windowBand EXCEPT ![g] = 0]
    /\ UNCHANGED <<route, claim, groupBand, letters, work, raises, faults, raised, delivered,
                   collapsed, excuse>>

BackoffOver(t) ==
    /\ deadBand[t] # 0 /\ t \notin due
    /\ due' = due \cup {t}
    /\ UNCHANGED <<route, ledgers, deadBand, tries, gone, work, raises, faults, history>>

\* prune_notified_alerts, prune_notified_alert_groups and prune_failed_notifications,
\* for rows past retention, which is longer than a group window.
PruneClaim(t) ==
    /\ claim[t] # 0 /\ Fault
    /\ claim' = [claim EXCEPT ![t] = 0]
    /\ UNCHANGED <<route, groupBand, groupOpen, letters, work, raises, history>>

PruneGroup(g) ==
    /\ groupBand[g] # 0 /\ g \notin groupOpen /\ Fault
    /\ groupBand' = [groupBand EXCEPT ![g] = 0]
    /\ UNCHANGED <<route, claim, groupOpen, letters, work, raises, history>>

PruneAbandoned(t) ==
    /\ t \in gone /\ Fault
    /\ deadBand' = [deadBand EXCEPT ![t] = 0] /\ tries' = [tries EXCEPT ![t] = 0]
    /\ gone' = gone \ {t} /\ due' = due \ {t}
    /\ excuse' = [excuse EXCEPT ![t] = @ \cup {"pruned"}]
    /\ UNCHANGED <<route, ledgers, work, raises, raised, delivered, collapsed,
                   windowBand>>

\* Deliveries are fire and forget: a restart loses the ones in flight.
Restart ==
    /\ Fault
    /\ pc' = [d \in Deliverer |-> "idle"] /\ batch' = {}
    /\ excuse' = [t \in Tx |-> excuse[t] \cup
           {x \in {"crash"} : \E c \in Courier : job[c].tx = t
                                 /\ pc[c] \in {"check", "group", "send", "record"}}]
    /\ UNCHANGED <<route, ledgers, letters, job, raises, raised, delivered, collapsed,
                   windowBand>>

-----------------------------------------------------------------------------
(* on_new_scores and _deliver_with_dedup.                                  *)

\* A finding above the trigger threshold, the first score of a transaction or a
\* re-score after a rollback.  Without a deliverable channel nothing is scheduled.
Raise(c, t, b) ==
    /\ pc[c] = "idle" /\ raises < MaxRaises
    /\ raises' = raises + 1
    /\ IF route = "ok"
       THEN GoTo(c, "check") /\ job' = [job EXCEPT ![c] = [tx |-> t, band |-> b, tries |-> 0]]
       ELSE UNCHANGED <<pc, job>>
    /\ IF route # "none" /\ b >= raised[t]
       THEN /\ raised' = [raised EXCEPT ![t] = b]
            /\ excuse' = [excuse EXCEPT ![t] = IF route = "gap" THEN {"gap"} ELSE {}]
       ELSE UNCHANGED <<raised, excuse>>
    /\ UNCHANGED <<route, ledgers, letters, batch, faults, delivered, collapsed, windowBand>>

\* Broken AlreadyNotified: any claim suppresses, whatever its band.
AnyClaim(d) == claim[job[d].tx] # 0

\* already_notified
AlreadyNotified(d) == claim[job[d].tx] >= job[d].band

\* The dedup check; one that fails delivers anyway.
CheckClaim(d) ==
    /\ pc[d] = "check"
    /\ \/ /\ AlreadyNotified(d)
          /\ Return(d, "delete") /\ UNCHANGED faults
       \/ /\ \/ ~AlreadyNotified(d) /\ UNCHANGED faults
             \/ Fault
          /\ GoTo(d, IF GroupOf[job[d].tx] = NoGroup THEN "send" ELSE "group")
    /\ UNCHANGED <<route, ledgers, letters, job, batch, raises, history>>

\* Broken GroupSuppresses: an open window suppresses every band.
SuppressesAnyBand(d) == GroupOf[job[d].tx] \in groupOpen

\* already_notified_group
GroupSuppresses(d) ==
    LET g == GroupOf[job[d].tx] IN g \in groupOpen /\ groupBand[g] >= job[d].band

\* The group check, with the same posture on failure.
CheckGroup(d) ==
    /\ pc[d] = "group"
    /\ \/ /\ GroupSuppresses(d)
          /\ Return(d, "delete")
          /\ collapsed' = [collapsed EXCEPT ![job[d].tx] = Larger(@, job[d].band)]
          /\ UNCHANGED faults
       \/ /\ \/ ~GroupSuppresses(d) /\ UNCHANGED faults
             \/ Fault
          /\ GoTo(d, "send")
          /\ UNCHANGED collapsed
    /\ UNCHANGED <<route, ledgers, letters, job, batch, raises, raised, delivered, windowBand, excuse>>

\* dispatcher.dispatch: at least one channel delivers, or none does.
SendOk(d) ==
    /\ pc[d] = "send"
    /\ delivered' = [delivered EXCEPT ![job[d].tx] = Larger(@, job[d].band)]
    /\ GoTo(d, "claim")
    /\ UNCHANGED <<route, ledgers, letters, job, batch, raises, faults, raised, collapsed,
                   windowBand, excuse>>

SendFails(d) ==
    /\ pc[d] = "send"
    /\ GoTo(d, IF d = Sweep THEN "count" ELSE "record")
    /\ UNCHANGED <<route, ledgers, letters, job, batch, raises, faults, history>>

\* record_failed_notification: a new row, or an escalation of the one that is there.
\* attempts and last_attempt_at of an existing row stay as they are.
RecordFailed(c) ==
    /\ pc[c] = "record"
    /\ GoTo(c, "idle")
    /\ LET t == job[c].tx
           b == job[c].band
       IN  IF deadBand[t] < b
           THEN /\ deadBand' = [deadBand EXCEPT ![t] = b]
                /\ tries' = [tries EXCEPT ![t] = IF deadBand[t] = 0 THEN 1 ELSE @]
                /\ gone' = gone \ {t}
                /\ due' = IF deadBand[t] = 0 THEN due \ {t} ELSE due
           ELSE UNCHANGED letters
    /\ UNCHANGED <<route, ledgers, job, batch, raises, faults, raised, delivered, collapsed,
                   windowBand, excuse>>

\* The write of the dead letter fails and is swallowed.
RecordFails(c) ==
    /\ pc[c] = "record" /\ Fault
    /\ GoTo(c, "idle")
    /\ excuse' = [excuse EXCEPT ![job[c].tx] = @ \cup {"record"}]
    /\ UNCHANGED <<route, ledgers, letters, job, batch, raises, raised, delivered, collapsed,
                   windowBand>>

AfterClaim(d) == IF GroupOf[job[d].tx] = NoGroup THEN Return(d, "delete") ELSE GoTo(d, "groupClaim")

\* claim_notification raises the rank, never lowers it; a failure is swallowed.
ClaimNotification(d) ==
    /\ pc[d] = "claim" /\ AfterClaim(d)
    /\ \/ /\ claim' = [claim EXCEPT ![job[d].tx] = Larger(@, job[d].band)]
          /\ UNCHANGED faults
       \/ Fault /\ UNCHANGED claim
    /\ UNCHANGED <<route, groupBand, groupOpen, letters, job, batch, raises, history>>

ClaimGroup(d) ==
    /\ pc[d] = "groupClaim" /\ Return(d, "delete")
    /\ \/ /\ groupBand' = [groupBand EXCEPT ![GroupOf[job[d].tx]] = Larger(@, job[d].band)]
          /\ groupOpen' = groupOpen \cup {GroupOf[job[d].tx]}
          /\ windowBand' = [windowBand EXCEPT ![GroupOf[job[d].tx]] = Larger(@, job[d].band)]
          /\ UNCHANGED faults
       \/ Fault /\ UNCHANGED <<groupBand, groupOpen, windowBand>>
    /\ UNCHANGED <<route, claim, letters, job, batch, raises, raised, delivered, collapsed, excuse>>

-----------------------------------------------------------------------------
(* _retry_tick.                                                            *)

Live(t) == deadBand[t] # 0 /\ t \notin gone
DueRows == {[tx |-> t, band |-> deadBand[t], tries |-> tries[t]] : t \in {u \in due : Live(u)}}

\* due_failed_notifications, at most PerTick rows.  The code takes the oldest first;
\* any choice and any order of the rows are allowed here, so that no property
\* depends on the order.
SweepStarts ==
    /\ pc[Sweep] = "idle"
    /\ \E rows \in SUBSET DueRows :
         /\ rows # {} /\ Cardinality(rows) <= PerTick
         /\ Cardinality(rows) < PerTick => rows = DueRows
         /\ batch' = rows
    /\ GoTo(Sweep, "next")
    /\ UNCHANGED <<route, ledgers, letters, job, raises, faults, history>>

\* Broken Route: an undeliverable route leaves the row as it is.
RouteUncounted ==
    CASE route = "ok" -> "check" [] route = "gap" -> "next" [] route = "none" -> "withdraw"

\* resolve_dispatch and selected_channels against the configuration of this moment.
Route == CASE route = "ok" -> "check" [] route = "gap" -> "count" [] route = "none" -> "withdraw"

\* The next row of the batch; one that cannot be processed counts as a failed attempt.
SweepTakes(letter) ==
    /\ pc[Sweep] = "next" /\ letter \in batch
    /\ batch' = batch \ {letter} /\ job' = [job EXCEPT ![Sweep] = letter]
    /\ \/ GoTo(Sweep, Route) /\ UNCHANGED faults
       \/ GoTo(Sweep, "recount") /\ Fault
    /\ UNCHANGED <<route, ledgers, letters, raises, history>>

SweepEnds ==
    /\ pc[Sweep] = "next" /\ batch = {}
    /\ GoTo(Sweep, "idle")
    /\ UNCHANGED <<route, ledgers, letters, job, batch, raises, faults, history>>

\* delete_failed_notification: whatever row the transaction has by now.
DeleteFailed ==
    /\ pc[Sweep] \in {"delete", "withdraw"}
    /\ GoTo(Sweep, "next")
    /\ LET t == job[Sweep].tx
       IN  /\ deadBand' = [deadBand EXCEPT ![t] = 0] /\ tries' = [tries EXCEPT ![t] = 0]
           /\ gone' = gone \ {t} /\ due' = due \ {t}
           /\ excuse' = [excuse EXCEPT ![t] = @
                 \cup {x \in {"withdrawn"} : pc[Sweep] = "withdraw"}
                 \cup {x \in {"overtaken"} : deadBand[t] > job[Sweep].band}]
    /\ UNCHANGED <<route, ledgers, job, batch, raises, faults, raised, delivered, collapsed,
                   windowBand>>

\* The delete raises; the handler's except clause counts an attempt.
DeleteFails ==
    /\ pc[Sweep] \in {"delete", "withdraw"} /\ Fault
    /\ GoTo(Sweep, "recount")
    /\ UNCHANGED <<route, ledgers, letters, job, batch, raises, history>>

\* The last attempt of the budget, by the attempts the sweep read with the row.
GiveUp == job[Sweep].tries + 1 >= MaxAttempts

\* _count_failed_attempt and mark_failed_attempt.
CountAttempt ==
    /\ pc[Sweep] \in {"count", "recount"}
    /\ GoTo(Sweep, "next")
    /\ LET t == job[Sweep].tx
       IN  IF deadBand[t] # 0
           THEN /\ tries' = [tries EXCEPT ![t] = @ + 1]
                /\ gone' = IF GiveUp THEN gone \cup {t} ELSE gone \ {t}
                /\ due' = due \ {t}
           ELSE UNCHANGED <<tries, gone, due>>
    /\ UNCHANGED <<route, ledgers, deadBand, job, batch, raises, faults, raised, delivered,
                   collapsed, windowBand, excuse>>

\* A failing count is retried once, by the except clause.
CountFails ==
    /\ pc[Sweep] \in {"count", "recount"} /\ Fault
    /\ GoTo(Sweep, IF pc[Sweep] = "count" THEN "recount" ELSE "next")
    /\ UNCHANGED <<route, ledgers, letters, job, batch, raises, history>>

-----------------------------------------------------------------------------
SweepStep ==
    \/ SweepStarts
    \/ \E letter \in batch : SweepTakes(letter)
    \/ SweepEnds
    \/ CheckClaim(Sweep) \/ CheckGroup(Sweep) \/ SendOk(Sweep) \/ SendFails(Sweep)
    \/ ClaimNotification(Sweep) \/ ClaimGroup(Sweep)
    \/ DeleteFailed \/ CountAttempt

Next ==
    \/ \E r \in {"ok", "gap", "none"} : EditConfig(r)
    \/ \E g \in Group : GroupWindowOver(g)
    \/ \E t \in Tx : BackoffOver(t)
    \/ \E t \in Tx : PruneClaim(t)
    \/ \E g \in Group : PruneGroup(g)
    \/ \E t \in Tx : PruneAbandoned(t)
    \/ Restart
    \/ \E c \in Courier, t \in Tx, b \in Band : Raise(c, t, b)
    \/ \E d \in Deliverer : CheckClaim(d)
    \/ \E d \in Deliverer : CheckGroup(d)
    \/ \E d \in Deliverer : SendOk(d)
    \/ \E d \in Deliverer : SendFails(d)
    \/ \E c \in Courier : RecordFailed(c)
    \/ \E c \in Courier : RecordFails(c)
    \/ \E d \in Deliverer : ClaimNotification(d)
    \/ \E d \in Deliverer : ClaimGroup(d)
    \/ SweepStarts
    \/ \E letter \in batch : SweepTakes(letter)
    \/ SweepEnds
    \/ DeleteFailed
    \/ DeleteFails
    \/ CountAttempt
    \/ CountFails

Spec == Init /\ [][Next]_vars

\* The sweep loop has no exit and backoffs elapse.
FairSpec == Spec /\ WF_vars(SweepStep) /\ \A t \in Tx : WF_vars(BackoffOver(t))

-----------------------------------------------------------------------------
(* Properties.                                                             *)

\* The highest finding of t has reached someone, was collapsed into an open group
\* window, waits as a dead letter (abandoned ones included), or is being delivered.
Covered(t) ==
    \/ delivered[t] >= raised[t]
    \/ collapsed[t] >= raised[t]
    \/ deadBand[t] >= raised[t]
    \/ \E c \in Courier : /\ pc[c] \in {"check", "group", "send", "record"}
                          /\ job[c].tx = t /\ job[c].band >= raised[t]

\* No alert is dropped: whatever the order of deliveries, re-scores, sweeps and
\* prunes, the highest finding of a transaction is covered unless one of the six
\* losses listed in Excuses happened to it.
AlertKept == \A t \in Tx : Covered(t) \/ excuse[t] # {}

\* The ledgers are proof of delivery: a claim never exceeds what was delivered, and
\* a group window only ever suppresses what some transaction of the group has
\* already paged at that band or above.
LedgersProveDelivery ==
    /\ \A t \in Tx : claim[t] <= delivered[t]
    /\ \A t \in Tx : collapsed[t] > 0 =>
          \E u \in Tx : GroupOf[u] = GroupOf[t] /\ delivered[u] >= collapsed[t]

\* already_notified_group promises that a group which has only produced lower
\* alerts still pages on its first higher one: an open window suppresses no band
\* above the highest one delivered inside it.
EscalationBreaksThrough == \A g \in groupOpen : groupBand[g] <= windowBand[g]

\* Every live dead letter is settled: delivered, withdrawn or retired.
RetryEnds == \A t \in Tx : Live(t) ~> ~Live(t)
=============================================================================
