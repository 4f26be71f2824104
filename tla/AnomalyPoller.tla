--------------------------- MODULE AnomalyPoller ---------------------------
(***************************************************************************)
(* The contract_anomaly poller of tasks/notifications.py.  The clustering  *)
(* sidecar publishes a raw verdict for each pair of a transaction and a    *)
(* watched contract; every tick re-reads the flagged ones, newest          *)
(* publication first, projects the worst verdict of a transaction onto the *)
(* host's scale (analysis/contract_anomaly.py) and sends what is routed    *)
(* and not yet claimed, within a budget of attempts.  There is no cursor:  *)
(* only the claim table tells what is left.                                *)
(***************************************************************************)
EXTENDS Integers, Sequences, FiniteSets

CONSTANTS
  Flaggable,       \* transactions the sidecar has verdicts on
  Target,          \* watched contracts
  Budget,          \* NOTIFY_CONTRACT_ANOMALY_MAX_ALERTS_PER_TICK
  MaliciousFloor,  \* verdict_floors.malicious
  ConsensusScale, AnomalyScale,  \* consensus_scale, anomaly_consensus_scale
  RoutedRank,      \* the lowest band rank the trigger matrix routes
  MaxPublications, \* bound: verdicts published
  MaxPollFaults    \* bound: failed reads, sends, claims and stops

ASSUME PollerAssumption ==
  /\ IsFiniteSet(Flaggable) /\ IsFiniteSet(Target)
  /\ Budget \in Nat \ {0}
  /\ MaliciousFloor >= 80 /\ AnomalyScale < 60      \* scorer_config band invariants
  /\ ConsensusScale \in 0 .. 100 /\ RoutedRank \in 1 .. 4
  /\ MaxPublications \in Nat /\ MaxPollFaults \in Nat

VARIABLES
  verdicts,     \* tx_contract_anomaly FINAL: tx -> target -> verdict row
  anomalyClaim, \* notified at this band rank in the contract_anomaly stream, or 0
  poll,         \* the tick: [at, left, tried]
  sentAt,       \* ghost: tx -> band rank -> alerts that went out
  unguarded,    \* ghost: tx -> band rank -> sends the claim table could not
                \* guard: the check before them failed or the claim after them
  publications, pollFaults

pollerVars == <<verdicts, anomalyClaim, poll, sentAt, unguarded, publications, pollFaults>>

NoVerdict == [verdict |-> "normal", consensus |-> 0, published |-> 0]
Resting == [at |-> "rest", left |-> <<>>, tried |-> 0]

-----------------------------------------------------------------------------
(* contract_anomaly.project_score and resolve *)

Positive == {"malicious", "anomaly"}

ProjectScore(v) ==
  LET floor == IF v.verdict = "malicious" THEN MaliciousFloor ELSE 0
      scale == IF v.verdict = "anomaly" THEN AnomalyScale ELSE ConsensusScale
      term == (v.consensus * scale) \div 100
  IN IF v.verdict \notin Positive THEN 0
     ELSE IF term > floor THEN term ELSE floor

RankOf(score) == CASE score >= 80 -> 4
                   [] score >= 60 /\ score < 80 -> 3
                   [] score > 30 /\ score < 60 -> 2
                   [] OTHER -> 1

Resolve(rows) ==
  LET worst == CHOOSE v \in rows : \A w \in rows : ProjectScore(w) <= ProjectScore(v)
  IN RankOf(ProjectScore(worst))

\* flagged_for_network: the positive rows of each transaction.
Flagged(tx) == {v \in {verdicts[tx][t] : t \in Target} : v.verdict \notin {"normal", "benign"}}
FlaggedSet == {tx \in Flaggable : Flagged(tx) # {}}

\* ORDER BY published_at DESC, grouped by transaction.
NewestOf(tx) == CHOOSE n \in {v.published : v \in Flagged(tx)} :
                  \A v \in Flagged(tx) : v.published <= n
NewestFirst(S) ==
  CHOOSE s \in [1 .. Cardinality(S) -> S] :
    \A i, j \in DOMAIN s : i < j => NewestOf(s[i]) > NewestOf(s[j])

-----------------------------------------------------------------------------
(* The tick *)

BeginPoll ==
  /\ poll.at = "rest"
  /\ poll' = [at |-> "loop", tried |-> 0,
              left |-> [i \in 1 .. Cardinality(FlaggedSet) |->
                          LET tx == NewestFirst(FlaggedSet)[i]
                          IN [tx |-> tx, rank |-> Resolve(Flagged(tx))]]]
  /\ UNCHANGED <<verdicts, anomalyClaim, sentAt, unguarded, publications, pollFaults>>

Drops(n) == [poll EXCEPT !.left = Tail(@), !.tried = @ + n]

\* broken: a duplicate spends the budget too
SkipCharged ==
  /\ poll.at = "loop" /\ poll.left # <<>> /\ poll.tried < Budget
  /\ \/ Head(poll.left).rank < RoutedRank
     \/ anomalyClaim[Head(poll.left).tx] >= Head(poll.left).rank
  /\ poll' = Drops(1)
  /\ UNCHANGED <<verdicts, anomalyClaim, sentAt, unguarded, publications, pollFaults>>
\* Not routed, or already notified at this band or above: free of charge.
SkipFinding ==
  /\ poll.at = "loop" /\ poll.left # <<>> /\ poll.tried < Budget
  /\ \/ Head(poll.left).rank < RoutedRank
     \/ anomalyClaim[Head(poll.left).tx] >= Head(poll.left).rank
  /\ poll' = Drops(0)
  /\ UNCHANGED <<verdicts, anomalyClaim, sentAt, unguarded, publications, pollFaults>>

\* already_notified finds no claim at this band: the alert is being sent.
BeginSend ==
  /\ poll.at = "loop" /\ poll.left # <<>> /\ poll.tried < Budget
  /\ Head(poll.left).rank >= RoutedRank
  /\ anomalyClaim[Head(poll.left).tx] < Head(poll.left).rank
  /\ poll' = [poll EXCEPT !.at = "send"]
  /\ UNCHANGED <<verdicts, anomalyClaim, sentAt, unguarded, publications, pollFaults>>

Unguard == unguarded' = [unguarded EXCEPT ![Head(poll.left).tx][Head(poll.left).rank] = @ + 1]

\* already_notified raises: rather a duplicate than a missed alert.
DeliverAnyway ==
  /\ poll.at = "loop" /\ poll.left # <<>> /\ poll.tried < Budget
  /\ Head(poll.left).rank >= RoutedRank
  /\ pollFaults < MaxPollFaults /\ pollFaults' = pollFaults + 1
  /\ Unguard
  /\ poll' = [poll EXCEPT !.at = "send"]
  /\ UNCHANGED <<verdicts, anomalyClaim, sentAt, publications>>

Delivered ==
  /\ poll.at = "send"
  /\ sentAt' = [sentAt EXCEPT ![Head(poll.left).tx][Head(poll.left).rank] = @ + 1]
  /\ poll' = [poll EXCEPT !.at = "claim"]
  /\ UNCHANGED <<verdicts, anomalyClaim, unguarded, publications, pollFaults>>

Undelivered ==
  /\ poll.at = "send" /\ pollFaults < MaxPollFaults
  /\ pollFaults' = pollFaults + 1
  /\ poll' = [Drops(1) EXCEPT !.at = "loop"]
  /\ UNCHANGED <<verdicts, anomalyClaim, sentAt, unguarded, publications>>

\* claim_notification keeps the higher band.
RecordClaim ==
  /\ poll.at = "claim"
  /\ anomalyClaim' = [anomalyClaim EXCEPT ![Head(poll.left).tx] =
                        IF @ > Head(poll.left).rank THEN @ ELSE Head(poll.left).rank]
  /\ poll' = [Drops(1) EXCEPT !.at = "loop"]
  /\ UNCHANGED <<verdicts, sentAt, unguarded, publications, pollFaults>>

Lost == IF poll.at = "claim" THEN Unguard ELSE UNCHANGED unguarded

ClaimFails ==
  /\ poll.at = "claim" /\ pollFaults < MaxPollFaults
  /\ pollFaults' = pollFaults + 1
  /\ Lost
  /\ poll' = [Drops(1) EXCEPT !.at = "loop"]
  /\ UNCHANGED <<verdicts, anomalyClaim, sentAt, publications>>

\* stop() cancels the task, or the process ends, wherever the tick is.
StopPoller ==
  /\ poll.at # "rest" /\ pollFaults < MaxPollFaults
  /\ pollFaults' = pollFaults + 1
  /\ Lost
  /\ poll' = Resting
  /\ UNCHANGED <<verdicts, anomalyClaim, sentAt, publications>>

\* The budget is spent or every finding was seen.
EndPoll ==
  /\ poll.at = "loop" /\ (poll.left = <<>> \/ poll.tried = Budget)
  /\ poll' = Resting
  /\ UNCHANGED <<verdicts, anomalyClaim, sentAt, unguarded, publications, pollFaults>>

\* The sidecar publishes: a new verdict, a relabel, a retraction.
PublishVerdict(tx, t, v, c) ==
  /\ publications < MaxPublications
  /\ publications' = publications + 1
  /\ verdicts' = [verdicts EXCEPT ![tx][t] =
                    [verdict |-> v, consensus |-> c, published |-> publications + 1]]
  /\ UNCHANGED <<anomalyClaim, poll, sentAt, unguarded, pollFaults>>

PollerInit(on) ==
  /\ verdicts = [tx \in Flaggable |-> [t \in Target |-> NoVerdict]]
  /\ anomalyClaim = [tx \in Flaggable |-> 0]
  /\ poll = [Resting EXCEPT !.at = IF on THEN "rest" ELSE "off"]
  /\ sentAt = [tx \in Flaggable |-> [r \in 1 .. 4 |-> 0]]
  /\ unguarded = sentAt
  /\ publications = (IF on THEN 0 ELSE MaxPublications)
  /\ pollFaults = (IF on THEN 0 ELSE MaxPollFaults)

PollTick == SkipFinding \/ BeginSend \/ Delivered \/ RecordClaim \/ EndPoll

PollerNext ==
  \/ BeginPoll \/ PollTick
  \/ DeliverAnyway \/ Undelivered \/ ClaimFails \/ StopPoller
  \/ \E tx \in Flaggable, t \in Target, v \in {"malicious", "anomaly", "benign"} :
       \E c \in IF v = "anomaly" THEN {50, 90} ELSE {90} : PublishVerdict(tx, t, v, c)

(* The loop goes on: it wakes, and a tick comes to its end.                *)
PollerFairness ==
  /\ WF_pollerVars(BeginPoll)
  /\ WF_pollerVars(PollTick)
PollerSpec == PollerInit(TRUE) /\ [][PollerNext]_pollerVars /\ PollerFairness

-----------------------------------------------------------------------------
Routed(tx) == Flagged(tx) # {} /\ Resolve(Flagged(tx)) >= RoutedRank

\* No cursor and a budget: every finding whose worst verdict is routed is
\* notified at its band in the end, or stops being one; sends that failed, lost
\* claims and stopped ticks delay it only, and findings already notified do not
\* use up the budget of those behind them.
PollerDrains ==
  \A tx \in Flaggable :
    Routed(tx) ~> (Routed(tx) => anomalyClaim[tx] >= Resolve(Flagged(tx)))

\* Deliver-then-claim: a transaction is sent once at each band, and once more
\* for each claim that was lost after the send and each check that failed before it.
OneAlertPerBand ==
  \A tx \in Flaggable, r \in 1 .. 4 :
    sentAt[tx][r] <= 1 + unguarded[tx][r]
=============================================================================
