------------------------------ MODULE Scoring ------------------------------
(***************************************************************************)
(* What the nine scorers share: normalisation against a percentile pair,   *)
(* the resolution of that pair (analysis/normalise.py, the caps of         *)
(* analysis/scorer_config.py), the bands, and the reduction to one result  *)
(* (analysis/scorers/base.py).                                             *)
(*                                                                         *)
(* Sub-scores are percentages (0..100) and weights are percentages, so a   *)
(* weighted sum is a score in hundredths of a point (0..10000), the two    *)
(* decimals finalise_score rounds to.  EPSILON, which the code adds to     *)
(* denominators, is left out.                                              *)
(***************************************************************************)
EXTENDS Integers, Sequences, FiniteSetsExt, SeqFilter

CONSTANTS
    MinSamples,      \* settings.BASELINE_MIN_SAMPLES
    MinSpread,       \* baselines.min_spread_ratio, percent
    CapMultiplier,   \* baselines.per_script_p99_cap_multiplier
    SpreadFraction   \* baselines.per_script_p50_cap_spread_fraction, percent

ASSUME ScoringAssumption ==
    /\ MinSamples \in Nat \ {0}
    /\ MinSpread \in Nat \ {0}
    /\ CapMultiplier \in Nat
    /\ SpreadFraction \in Nat

(* A percentile pair, a row of the baselines table, and the two rows that  *)
(* a lookup may meet.                                                      *)
Pair == [p50 : Int, p99 : Int]
BaselineRow == [n : Nat, p50 : Int, p99 : Int]
TierRows == [own : BaselineRow, global : BaselineRow]
IsList(s) == s \in Seq(Range(s))

-----------------------------------------------------------------------------
(* The smaller and the larger of two numbers. *)
AtMost2(a, b) == IF a < b THEN a ELSE b
AtLeast2(a, b) == IF a > b THEN a ELSE b

(* normalise: clip((value - p50) / (p99 - p50), 0, 1); a pair with no      *)
(* spread carries no signal.                                               *)
Normalise(v, pair) ==
    IF pair.p99 <= pair.p50 THEN 0
    ELSE AtLeast2(0, AtMost2(100, (100 * (v - pair.p50)) \div (pair.p99 - pair.p50)))

(* normalise_inverted: low values score high; no spread scores 0, not 100. *)
NormaliseInverted(v, pair) ==
    IF pair.p99 <= pair.p50 THEN 0 ELSE 100 - Normalise(v, pair)

(* _baseline_is_usable: the spread is at least MinSpread of the median. *)
Usable(r) ==
    IF r.p50 <= 0 THEN r.p99 > 0
                  ELSE 100 * (r.p99 - r.p50) >= MinSpread * r.p50

(* A baseline row has enough samples and a usable spread; a missing row is *)
(* one with no samples.                                                    *)
Answers(r) == r.n >= MinSamples /\ Usable(r)
NoRow == [n |-> 0, p50 |-> 0, p99 |-> 0]

(* resolve_baseline: the scope's own row, then the global row of the same  *)
(* network, each only when the tier is allowed, then "missing" anchors.    *)
(* tiers holds the row of the asked scope and the global one.              *)
ResolveBaseline(tiers, allowed) ==
    CASE "own" \in allowed /\ Answers(tiers.own) ->
            [p50 |-> tiers.own.p50, p99 |-> tiers.own.p99, source |-> "own"]
      [] ~("own" \in allowed /\ Answers(tiers.own))
         /\ "global" \in allowed /\ Answers(tiers.global) ->
            [p50 |-> tiers.global.p50, p99 |-> tiers.global.p99, source |-> "global"]
      [] OTHER -> [p50 |-> 0, p99 |-> 1, source |-> "missing"]

AnyTier == {"own", "global"}

(* The cap of a learned p99 and the bound of a learned p50, with m and k   *)
(* for the two knobs.  The numbers are whole here: the code's bound is a   *)
(* float, this one the whole number below it.                              *)
P99Cap(anchor, m) == m * anchor.p99
P50Bound(anchor, m, k) ==
    AtMost2(anchor.p50 + (k * (anchor.p99 - anchor.p50)) \div 100,
            (100 * P99Cap(anchor, m)) \div (100 + MinSpread))

(* The capping branch of resolved_or_bootstrap. *)
CappedPair(pair, anchor, m, k) ==
    IF m > 0 /\ anchor.p99 > 0
    THEN [pair EXCEPT !.p99 = AtMost2(pair.p99, P99Cap(anchor, m)),
                      !.p50 = AtMost2(pair.p50, P50Bound(anchor, m, k))]
    ELSE pair

(* resolved_or_bootstrap: a missing baseline takes the scorer's bootstrap  *)
(* anchor, a learned one is capped.  The provenance record is left out.    *)
ResolvedOrBootstrap(tiers, allowed, anchor) ==
    LET found == ResolveBaseline(tiers, allowed)
    IN  IF found.source = "missing"
        THEN [p50 |-> anchor.p50, p99 |-> anchor.p99, source |-> "bootstrap"]
        ELSE CappedPair(found, anchor, CapMultiplier, SpreadFraction)

(* An axis of a scorer: its raw value against the resolved pair. *)
Axis(v, tiers, anchor) ==
    Normalise(v, ResolvedOrBootstrap(tiers, AnyTier, anchor))
AxisInverted(v, tiers, anchor) ==
    NormaliseInverted(v, ResolvedOrBootstrap(tiers, AnyTier, anchor))

-----------------------------------------------------------------------------
(* The band cuts of normalise.py, in hundredths of a point. *)
CriticalThreshold == 8000
HighThreshold == 6000
ModerateThreshold == 3100
ModerateMax == HighThreshold - 100
InformationalMax == ModerateThreshold - 100

(* score_to_band, with its order as a rank.  The Moderate test is          *)
(* strictly above the top of Informational.                                *)
ScoreToBand(s) ==
    CASE s >= CriticalThreshold -> "Critical"
      [] s >= HighThreshold /\ s < CriticalThreshold -> "High"
      [] s > InformationalMax /\ s < HighThreshold -> "Moderate"
      [] OTHER -> "Informational"
BandRank(s) ==
    CASE s < 0 -> 0
      [] s >= 0 /\ ScoreToBand(s) = "Informational" -> 1
      [] ScoreToBand(s) = "Moderate" -> 2
      [] ScoreToBand(s) = "High" -> 3
      [] OTHER -> 4

(* finalise_score: clip the weighted sum. *)
FinaliseScore(raw) == AtLeast2(0, AtMost2(10000, raw))

(* no_finding: gated, and no instance of the attack. *)
NoFinding == -100

(* reduce_to_best over a sequence of candidate scores: the maximum, 0 when *)
(* no candidate is above 0.                                                *)
ReduceToBest(scores) == Max({0} \cup {scores[i] : i \in DOMAIN scores})

(* _check_band_invariants: a cap or floor lies in its band, or the process *)
(* does not start.  no upper bound is written as 10001.                    *)
InBand(v, lower, upper) == lower <= v /\ v < upper
=============================================================================
