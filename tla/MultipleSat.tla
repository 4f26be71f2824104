---------------------------- MODULE MultipleSat ----------------------------
(***************************************************************************)
(* The multiple-satisfaction scorer (analysis/scorers/multiple_sat.py):    *)
(* several inputs of one script spent by a transaction that takes more     *)
(* than it should.  Inputs are grouped by what _payment_credential makes   *)
(* of their address; every group of two or more is scored.                 *)
(*                                                                         *)
(* A transaction has inputs and outputs, sequences of records with script  *)
(* (a script address), cred (the grouping key), decoded (the key is a      *)
(* decoded credential, not the raw address it falls back to), allowed (an  *)
(* allowlisted address), ada and assets; redeemers; cpu, the total of its  *)
(* execution units; recurrence in percent; and tiers, the baseline rows by *)
(* feature.                                                                *)
(***************************************************************************)
EXTENDS Scoring, Payload

CONSTANT MultipleSatCfg

(* Both floors reach High: checked when the configuration is loaded. *)
ASSUME MultipleSatBandContracts ==
    /\ InBand(MultipleSatCfg.lazyFloor, HighThreshold, 10001)
    /\ InBand(MultipleSatCfg.saturationFloor, HighThreshold, 10001)

ASSUME MultipleSatCfgTypes ==
    /\ {MultipleSatCfg.netValue, MultipleSatCfg.assetsOut, MultipleSatCfg.exunits,
        MultipleSatCfg.inputs, MultipleSatCfg.recurrence} \subseteq Pair
    /\ {MultipleSatCfg.lazyFloor, MultipleSatCfg.saturationFloor, MultipleSatCfg.headroom,
        MultipleSatCfg.sweepInputs, MultipleSatCfg.lazyThreshold, MultipleSatCfg.lazyExtraction,
        MultipleSatCfg.satExtraction, MultipleSatCfg.satInputs, MultipleSatCfg.escape} \subseteq Nat
    /\ {MultipleSatCfg.sweepGuard, MultipleSatCfg.uniformRedeemer, MultipleSatCfg.noReturn,
        MultipleSatCfg.escapes} \subseteq BOOLEAN
    /\ MultipleSatCfg.weights \in [extraction : Nat, exunitsInv : Nat, inputs : Nat, recurrence : Nat]
    /\ MultipleSatCfg.weights.inputs + MultipleSatCfg.weights.recurrence > 0

(* Two asset classes reach the escape against every pair the capping       *)
(* leaves: what the shipped configuration has and _validate does not look  *)
(* at.                                                                     *)
ASSUME DrainCounts ==
    LET a == MultipleSatCfg.assetsOut
        e == MultipleSatCfg.escape
    IN  /\ CapMultiplier > 0 /\ a.p99 > 0 /\ a.p99 > a.p50
        /\ e <= 100 /\ MultipleSatCfg.escapes
        /\ (100 - e) * a.p50 + e * a.p99 <= 200
        /\ (100 - e) * P50Bound(a, CapMultiplier, SpreadFraction) + e * P99Cap(a, CapMultiplier) <= 200

-----------------------------------------------------------------------------
(* _group_inputs_by_script. *)
GroupInputs(tx, c) == {i \in DOMAIN tx.inputs : tx.inputs[i].script /\ tx.inputs[i].cred = c}
Groups(tx) == {tx.inputs[i].cred : i \in {j \in DOMAIN tx.inputs : tx.inputs[j].script}}
ManyInputs(tx) == {c \in Groups(tx) : Cardinality(GroupInputs(tx, c)) >= 2}

MultipleSatGate(tx) ==
    tx.kind = "multiple_sat" /\ HasSpendRedeemer(tx.redeemers) /\ ManyInputs(tx) # {}

(* What goes in at, and comes back to, a key: every input or output whose  *)
(* address maps to it, script or not.                                      *)
At(xs, c) == {i \in DOMAIN xs : xs[i].cred = c}
Lovelace(xs, c) == SumOf([i \in DOMAIN xs |-> IF i \in At(xs, c) THEN xs[i].ada ELSE 0])
Flow(xs, c, a) == SumOf([i \in DOMAIN xs |-> IF i \in At(xs, c) THEN Quantity(xs[i], a) ELSE 0])

(* _compute_n_assets_out: asset classes that leave the script on balance. *)
AssetsOut(tx, c) ==
    LET held == UNION {DOMAIN tx.inputs[i].assets : i \in At(tx.inputs, c)}
    IN  Cardinality({a \in held : Flow(tx.inputs, c, a) > Flow(tx.outputs, c, a)})

-----------------------------------------------------------------------------
(* _resolve_baselines: the two extraction features look at the script's    *)
(* own row only, never at the global one.                                  *)
ExtractionPair(tx, f) == ResolvedOrBootstrap(tx.tiers[f], {"own"}, MultipleSatCfg[f])

(* _extraction_anchor: a learned pair gets headroom above its median. *)
Widened(pair) ==
    IF pair.source = "own" /\ pair.p99 > pair.p50
    THEN [pair EXCEPT !.p99 = pair.p50 + (pair.p99 - pair.p50) * MultipleSatCfg.headroom]
    ELSE pair

(* _compute_axes.  floor is the extraction without headroom. *)
MultipleSatAxes(tx, c) ==
    LET n == Cardinality(GroupInputs(tx, c))
        net == AtLeast2(0, Lovelace(tx.inputs, c) - Lovelace(tx.outputs, c))
        value == ExtractionPair(tx, "netValue")
        assets == ExtractionPair(tx, "assetsOut")
    IN  [extraction |-> AtLeast2(Normalise(net, Widened(value)),
                                 Normalise(AssetsOut(tx, c), Widened(assets))),
         floor |-> AtLeast2(Normalise(net, value), Normalise(AssetsOut(tx, c), assets)),
         exunitsInv |-> AxisInverted(tx.cpu \div n, tx.tiers.exunits, MultipleSatCfg.exunits),
         inputs |-> Axis(n, tx.tiers.inputs, MultipleSatCfg.inputs),
         recurrence |-> Axis(tx.recurrence, tx.tiers.recurrence, MultipleSatCfg.recurrence),
         returned |-> Lovelace(tx.outputs, c)]

(* _group_allowlisted: any address of the key. *)
GroupAllowlisted(tx, c) == \E i \in At(tx.inputs, c) : tx.inputs[i].allowed

(* _is_uniform_sweep: an owner consolidating its own outputs.  It is not   *)
(* claimed for a key that is only a raw address.                           *)
UniformSweep(tx, c) ==
    LET n == Cardinality(GroupInputs(tx, c))
        spent == SpendPayloads(tx.redeemers)
    IN  /\ MultipleSatCfg.sweepGuard
        /\ n >= MultipleSatCfg.sweepInputs
        /\ MultipleSatCfg.uniformRedeemer =>
              spent.count >= n /\ Cardinality(spent.distinct) = 1
        /\ MultipleSatCfg.noReturn =>
              /\ \A i \in GroupInputs(tx, c) : tx.inputs[i].decoded
              /\ At(tx.outputs, c) = {}

(* _reweight_without_extraction, for a known batcher. *)
Weights(allowlisted) ==
    LET w == MultipleSatCfg.weights
        left == w.inputs + w.recurrence
    IN  IF allowlisted
        THEN [w EXCEPT !.extraction = 0,
                       !.inputs = w.inputs + (w.extraction * w.inputs) \div left,
                       !.recurrence = w.recurrence + (w.extraction * w.recurrence) \div left]
        ELSE w

(* _floor_applies and _saturation_floor_applies: both read the extraction  *)
(* that headroom has not weakened.                                         *)
LazyFloor(a) == a.exunitsInv > MultipleSatCfg.lazyThreshold /\ a.floor > MultipleSatCfg.lazyExtraction
SaturationFloor(a) ==
    a.floor >= MultipleSatCfg.satExtraction /\ a.inputs >= MultipleSatCfg.satInputs

(* Broken Escapes: only extraction above the threshold after headroom. *)
EscapesWidened(a, allowlisted) ==
    MultipleSatCfg.escapes /\ ~allowlisted /\ a.extraction >= MultipleSatCfg.escape

(* The escape of _suppression_outcome: a benign shape that takes much. *)
Escapes(a, allowlisted) ==
    MultipleSatCfg.escapes /\ ~allowlisted /\ a.floor >= MultipleSatCfg.escape

(* _score_script: weighted sum, floors, sweep cap, suppression, escape. *)
ScriptScore(a, allowlisted, sweep) ==
    LET w == Weights(allowlisted)
        sum == FinaliseScore(w.extraction * a.extraction + w.exunitsInv * a.exunitsInv
                             + w.inputs * a.inputs + w.recurrence * a.recurrence)
        mayFloor == ~allowlisted /\ ~sweep
        floors == (IF mayFloor /\ LazyFloor(a) THEN {MultipleSatCfg.lazyFloor} ELSE {})
                  \cup (IF mayFloor /\ SaturationFloor(a)
                        THEN {MultipleSatCfg.saturationFloor} ELSE {})
        floored == Max({sum} \cup floors)
        capped == IF sweep THEN AtMost2(floored, ModerateMax) ELSE floored
        benign == floors = {} /\ (sweep \/ a.returned > 0)
    IN  CASE ~benign -> capped
          [] benign /\ Escapes(a, allowlisted) ->
                AtMost2(AtLeast2(capped, ModerateThreshold), ModerateMax)
          [] OTHER -> NoFinding
MultipleSatGroup(tx, c) ==
    ScriptScore(MultipleSatAxes(tx, c), GroupAllowlisted(tx, c), UniformSweep(tx, c))

(* score: the best group; a suppressed one never hides a finding. *)
MultipleSatScore(tx) == Max({NoFinding} \cup {MultipleSatGroup(tx, c) : c \in ManyInputs(tx)})

-----------------------------------------------------------------------------
(* What the scorer is given. *)
MultipleSatTx(t) ==
    /\ {t.tiers.netValue, t.tiers.assetsOut, t.tiers.exunits, t.tiers.inputs, t.tiers.recurrence}
          \subseteq TierRows
    /\ IsList(t.inputs) /\ IsList(t.outputs)
    /\ \A x \in Range(t.inputs) \cup Range(t.outputs) :
          x.ada \in Nat /\ IsFiniteSet(DOMAIN x.assets)
    /\ {t.cpu, t.recurrence} \subseteq Int
=============================================================================
