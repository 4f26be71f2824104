------------------------------ MODULE Verdict ------------------------------
(***************************************************************************)
(* _score_transaction of analysis/engine.py: one transaction against every *)
(* enabled scorer, and the row the verdict becomes.  The scorers are those *)
(* of OrderingScorers, ValueScorers, MultipleSat and TokenScorers; a raw   *)
(* transaction is a record of Transactions, of one of the kinds whose      *)
(* carriers the scorers read.                                              *)
(***************************************************************************)
EXTENDS OrderingScorers, ValueScorers, MultipleSat, TokenScorers

CONSTANTS
    Transactions,    \* the transactions that may have to be scored
    Enabled          \* the scorers SCORER_*_ENABLED leaves on

VARIABLES
    tx,              \* the transaction
    scored,          \* it has been scored
    row              \* the row to be inserted, every class -1 until then

verdictVars == <<tx, scored, row>>

Classes == {"token_dust", "large_value", "large_datum", "multiple_sat", "front_running",
            "sandwich", "circular", "fake_token", "phishing"}
ASSUME VerdictAssumption ==
    /\ Enabled \subseteq Classes
    /\ \A t \in Transactions :
          /\ \A f \in DOMAIN t.tiers : t.tiers[f] \in TierRows /\ t.anchors[f] \in Pair
          /\ t.kind = "front_running" => FrontRunningTx(t)
          /\ t.kind = "sandwich" => SandwichTx(t)
          /\ t.kind = "circular" => CircularTx(t)
          /\ t.kind = "outputs" => OutputsTx(t)
          /\ t.kind = "multiple_sat" => MultipleSatTx(t)
          /\ t.kind = "phishing" => PhishingTx(t)
          /\ t.kind = "fake_token" => FakeTokenTx(t)

(* _CORROBORATION_THRESHOLD. *)
Corroborates == 4000

(* The gate and the score of each class. *)
GateOf(c, t) ==
    CASE c = "token_dust" -> TokenDustGate(t)
      [] c = "large_value" -> LargeValueGate(t)
      [] c = "large_datum" -> LargeDatumGate(t)
      [] c = "multiple_sat" -> MultipleSatGate(t)
      [] c = "front_running" -> FrontRunningGate(t)
      [] c = "sandwich" -> SandwichGate(t)
      [] c = "circular" -> CircularGate(t)
      [] c = "fake_token" -> FakeTokenGate(t)
      [] c = "phishing" -> PhishingGate(t)
ScoreOf(c, t) ==
    CASE c = "token_dust" -> TokenDustScore(t)
      [] c = "large_value" -> LargeValueScore(t)
      [] c = "large_datum" -> LargeDatumScore(t)
      [] c = "multiple_sat" -> MultipleSatScore(t)
      [] c = "front_running" -> FrontRunningScore(t)
      [] c = "sandwich" -> SandwichScore(t)
      [] c = "circular" -> CircularScore(t)
      [] c = "fake_token" -> FakeTokenScore(t)
      [] c = "phishing" -> PhishingScore(t)

(* A class that is off or not gated keeps the sentinel -1. *)
ClassScore(c, gated, score) == IF c \in Enabled /\ gated THEN score ELSE NoFinding
Scores(t) == [c \in Classes |-> ClassScore(c, GateOf(c, t), ScoreOf(c, t))]

(* The row: the best applicable class, its band, and who corroborates. *)
RowOf(scores) ==
    LET applicable == {c \in Classes : scores[c] >= 0}
        best == {c \in applicable : \A d \in applicable : scores[d] <= scores[c]}
        maxScore == IF best = {} THEN 0 ELSE scores[CHOOSE c \in best : TRUE]
    IN  [scores |-> scores, maxClass |-> best, maxScore |-> maxScore,
         band |-> ScoreToBand(maxScore),
         corroborating |-> {c \in applicable : scores[c] >= Corroborates}]

NoTransaction == [kind |-> "none"]
VerdictInit(on) ==
    /\ tx \in IF on THEN Transactions ELSE {NoTransaction}
    /\ scored = FALSE
    /\ row = RowOf([c \in Classes |-> NoFinding])

(* One transaction is scored. *)
ScoreTransaction ==
    /\ ~scored /\ tx # NoTransaction
    /\ scored' = TRUE
    /\ row' = RowOf(Scores(tx))
    /\ UNCHANGED tx

VerdictNext == ScoreTransaction
VerdictSpec == VerdictInit(TRUE) /\ [][VerdictNext]_verdictVars

-----------------------------------------------------------------------------
(* Properties. *)

\* A score, in hundredths of a point.
Score == 0 .. 10000

(* The row is one of the table's: scores in range, a band that is the      *)
(* band of the best class, and that class among the applicable ones.       *)
VerdictTypeOK ==
    scored =>
      /\ \A c \in Classes : row.scores[c] = NoFinding \/ row.scores[c] \in Score
      /\ row.band \in {"Informational", "Moderate", "High", "Critical"}
      /\ row.maxClass = {} <=> \A c \in Classes : row.scores[c] < 0
      /\ row.corroborating \subseteq {c \in Classes : BandRank(row.scores[c]) >= 2}

(* A learned pair stays usable when resolved_or_bootstrap caps it, under   *)
(* every setting of the two knobs: the axis never loses its spread.        *)
CappedPairUsable ==
    scored =>
      \A f \in DOMAIN tx.tiers, m \in {1, 5}, k \in {25, 100, 1000} :
        \A r \in {tx.tiers[f].own, tx.tiers[f].global} :
          Answers(r) /\ tx.anchors[f].p99 > 0
          => Usable(CappedPair([p50 |-> r.p50, p99 |-> r.p99], tx.anchors[f], m, k))

(* A transaction that takes two or more asset classes out of a script that *)
(* is not allowlisted is a finding of multiple_sat, however wide a         *)
(* distribution was taught to the script's own baseline beforehand.        *)
DrainNeverSilenced ==
    scored /\ "multiple_sat" \in Enabled /\ MultipleSatGate(tx) =>
      \A c \in ManyInputs(tx) :
        AssetsOut(tx, c) >= 2 /\ ~GroupAllowlisted(tx, c) => row.scores["multiple_sat"] >= 0

(* A datum over the size backstop that cannot be read has the band its     *)
(* size earns: the large-state allowlist, which lowers readable ones,      *)
(* cannot be used to hide content nobody measured.                         *)
OpaqueDatumNotCheaper ==
    scored /\ "large_datum" \in Enabled /\ tx.kind = "outputs" =>
      \A i \in ScriptOutputs(tx) :
        LET d == tx.outputs[i].datum
        IN  /\ DatumBytes(d) >= LargeDatumCfg.backstop
            /\ ~ContentAssessable(d)
            => BandRank(row.scores["large_datum"])
                 >= BandRank(LargeDatumUtxo([tx.outputs[i] EXCEPT !.cred = "unlisted"], tx.tiers))

(* A ring that repeats and hands back the same amount stays visible: it is *)
(* neither dropped as structural nor hidden as a slow one-off, whatever    *)
(* the spacing of its hops.                                                *)
RepeatedRingSurfaces ==
    scored /\ "circular" \in Enabled /\ CircularGate(tx) =>
      LET a == CircularAxes(tx)
      IN  a.amount > CircularCfg.reason /\ a.recurrence > CircularCfg.reason
          => BandRank(row.scores["circular"]) >= 2

(* Losing data never buys a lower score: a failed policy-age lookup, and   *)
(* an input whose value could not be read, score at least what the full    *)
(* data would.                                                             *)
Answered(t) == [t EXCEPT !.lookupFails = FALSE]
Valued(t) == [t EXCEPT !.inputs = [i \in DOMAIN t.inputs |-> [t.inputs[i] EXCEPT !.valued = TRUE]]]
LosingDataFailsOpen ==
    scored =>
      /\ tx.kind = "outputs" /\ tx.lookupFails =>
           LET full == Answered(tx)
           IN  row.scores["token_dust"]
                 >= ClassScore("token_dust", TokenDustGate(full), TokenDustScore(full))
      /\ tx.kind = "phishing" =>
           LET full == Valued(tx)
           IN  row.scores["phishing"]
                 >= ClassScore("phishing", PhishingGate(full), PhishingScore(full))

(* A gate that opens for a lookalike, for language alone, or for a URL     *)
(* that is blacklisted or close to a brand is followed by a score above 0: *)
(* a message without a link is "scored rather than short-circuited to 0".  *)
(* (A harmless URL opens the phishing gate too, and may well score 0.)     *)
GateAgreesWithScore ==
    scored =>
      /\ "fake_token" \in Enabled /\ FakeTokenGate(tx) => row.scores["fake_token"] > 0
      /\ "phishing" \in Enabled /\ PhishingGate(tx) =>
           LET urls == Urls(tx, UrlCarriers)
           IN  Social(tx) > 0 \/ Blacklist(urls) > 0 \/ DomainSuspicion(urls) > 0
               => row.scores["phishing"] > 0

(* A wallet that brackets the transaction inside the slot window, at a     *)
(* profit no other bracket reaches, is a sandwich finding.                 *)
ProfitableBracketSeen ==
    scored /\ "sandwich" \in Enabled /\ tx.kind = "sandwich" /\ tx.slot > 0 /\ tx.paysScript =>
      \A w \in Brackets(tx) :
        LET c == Candidate(tx, w)
        IN  /\ c.profit >= SandwichCfg.minProfit
            /\ c.slotSpan <= SandwichCfg.windowSlots
            /\ \A v \in Brackets(tx) \ {w} : Candidate(tx, v).profit < c.profit
            => row.scores["sandwich"] >= 0

(* More of what a class looks for never lowers its band: one more win of   *)
(* the front-runner, one more repetition of the ring, one more digit of    *)
(* every amount or a larger datum at an output.                            *)
MoreWins(t) == [t EXCEPT !.wins = t.wins + 1]
MoreRepeats(t) == [t EXCEPT !.recurrence = t.recurrence + 1]
MoreDigits(t) ==
    [t EXCEPT !.outputs = [i \in DOMAIN t.outputs |->
        [t.outputs[i] EXCEPT !.assets = [a \in DOMAIN t.outputs[i].assets |->
            IF t.outputs[i].assets[a] = 0 THEN 0 ELSE t.outputs[i].assets[a] + 1]]]]
MoreDatum(t) ==
    [t EXCEPT !.outputs = [i \in DOMAIN t.outputs |->
        [t.outputs[i] EXCEPT !.datum.size = t.outputs[i].datum.size + 1000]]]
NotLowered(c, gated, score) ==
    BandRank(row.scores[c]) <= BandRank(ClassScore(c, gated, score))
EvidenceNeverLowersBand ==
    scored =>
      /\ tx.kind = "front_running" =>
           LET more == MoreWins(tx)
           IN  NotLowered("front_running", FrontRunningGate(more), FrontRunningScore(more))
      /\ tx.kind = "circular" =>
           LET more == MoreRepeats(tx)
           IN  NotLowered("circular", CircularGate(more), CircularScore(more))
      /\ tx.kind = "outputs" =>
           LET digits == MoreDigits(tx)
               datum == MoreDatum(tx)
           IN  /\ NotLowered("large_value", LargeValueGate(digits), LargeValueScore(digits))
               /\ NotLowered("large_datum", LargeDatumGate(datum), LargeDatumScore(datum))

(* Nothing is gained by hiding: more evidence never lowers a band, and     *)
(* neither lost data nor unreadable content is cheaper than the readable.  *)
ScoresMonotone ==
    /\ VerdictTypeOK
    /\ EvidenceNeverLowersBand /\ LosingDataFailsOpen /\ OpaqueDatumNotCheaper

(* The patterns the scorers are for surface: a drain past a taught         *)
(* baseline, a repeated ring, the most profitable bracket, and whatever    *)
(* opened a token gate.                                                    *)
AttacksSurface ==
    /\ DrainNeverSilenced /\ CappedPairUsable
    /\ RepeatedRingSurfaces /\ ProfitableBracketSeen /\ GateAgreesWithScore
=============================================================================
