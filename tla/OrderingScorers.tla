-------------------------- MODULE OrderingScorers --------------------------
(***************************************************************************)
(* The three scorers that judge a transaction by its neighbours:           *)
(* front_running, sandwich and circular (analysis/scorers).  Each is a     *)
(* gate and a score over the record enrichment attached to the row.        *)
(* Anchors, weights and thresholds come from config/detection.yaml.        *)
(***************************************************************************)
EXTENDS Scoring

CONSTANTS FrontRunningCfg, SandwichCfg, CircularCfg

(* The band contracts checked when the configuration is loaded. *)
ASSUME OrderingBandContracts ==
    /\ InBand(FrontRunningCfg.highBandCap, HighThreshold, CriticalThreshold)
    /\ InBand(CircularCfg.moderateCap, ModerateThreshold, HighThreshold)

ASSUME OrderingCfgTypes ==
    /\ FrontRunningCfg.weights \in [outcome : Nat, delta : Nat, recurrence : Nat, structure : Nat]
    /\ {FrontRunningCfg.deltaInv, FrontRunningCfg.feeDelta, FrontRunningCfg.ttlDelta,
        FrontRunningCfg.recurrence} \subseteq Pair
    /\ {FrontRunningCfg.minWins, FrontRunningCfg.highBandCap} \subseteq Nat
    /\ SandwichCfg.weights \in [link : Nat, rate : Nat, impact : Nat, profit : Nat, recurrence : Nat]
    /\ {SandwichCfg.rateDelta, SandwichCfg.impact, SandwichCfg.profit, SandwichCfg.recurrence}
          \subseteq Pair
    /\ {SandwichCfg.linked, SandwichCfg.unlinked, SandwichCfg.neighbourLimit,
        SandwichCfg.windowSlots, SandwichCfg.minProfit} \subseteq Nat
    /\ CircularCfg.weights \in
          [amount : Nat, recurrence : Nat, entropy : Nat, auxiliary : Nat, speed : Nat]
    /\ {CircularCfg.amountSim, CircularCfg.recurrence, CircularCfg.entropyInv,
        CircularCfg.temporal, CircularCfg.hopInv} \subseteq Pair
    /\ {CircularCfg.perHopFee, CircularCfg.feeMultiplier, CircularCfg.feeStrict,
        CircularCfg.minLength, CircularCfg.maxLength, CircularCfg.corroborationFloor,
        CircularCfg.reason, CircularCfg.moderateCap, CircularCfg.slowHopSlots} \subseteq Nat

(* An amount and a recurrence above the reason threshold reach Moderate    *)
(* between them, and recurrence alone corroborates: what the shipped       *)
(* configuration has and _check_band_invariants does not look at.          *)
ASSUME RepeatedRingCounts ==
    /\ (CircularCfg.weights.amount + CircularCfg.weights.recurrence) * (CircularCfg.reason + 1)
          > InformationalMax
    /\ CircularCfg.reason + 1 >= CircularCfg.corroborationFloor

-----------------------------------------------------------------------------
(* front_running: part of a mempool collision that shares an input. *)
FrontRunningGate(tx) == tx.kind = "front_running" /\ tx.shared >= 1

(* _OUTCOME_SCORES; an unknown label is neutral. *)
OutcomeScore(o) ==
    CASE o \in {"TX_B_CONFIRMED", "TX1_FAILS_UTXO_SPENT"} -> 100
      [] o \in {"TX_A_CONFIRMED", "TX1_WINS"} -> 0
      [] o = "TX2_WINS" -> 30
      [] OTHER -> 50

(* The reciprocal of the arrival gap, in ten-thousandths; similarity of    *)
(* fee and validity bound; a shared change address.                        *)
DeltaInv(ms) == 10000 \div AtLeast2(ms, 1)
Structure(tx) ==
    ((100 - Normalise(tx.feeGap, FrontRunningCfg.feeDelta))
     + (100 - Normalise(tx.ttlGap, FrontRunningCfg.ttlDelta))
     + (IF tx.sharesChange THEN 100 ELSE 0)) \div 3

(* Broken FrontRunningScore: the cap falls on the proved front-runner. *)
FrontRunningScoreCapsProved(tx) ==
    LET w == FrontRunningCfg.weights
        sum == w.outcome * OutcomeScore(tx.outcome)
               + w.delta * Normalise(DeltaInv(tx.deltaMs), FrontRunningCfg.deltaInv)
               + w.recurrence * Axis(tx.wins, tx.tiers.recurrence, FrontRunningCfg.recurrence)
               + w.structure * Structure(tx)
        final == FinaliseScore(sum)
    IN  IF tx.wins >= FrontRunningCfg.minWins /\ final >= CriticalThreshold
        THEN FrontRunningCfg.highBandCap ELSE final

(* The weighted sum; few wins of the attacker hold it below Critical. *)
FrontRunningScore(tx) ==
    LET w == FrontRunningCfg.weights
        sum == w.outcome * OutcomeScore(tx.outcome)
               + w.delta * Normalise(DeltaInv(tx.deltaMs), FrontRunningCfg.deltaInv)
               + w.recurrence * Axis(tx.wins, tx.tiers.recurrence, FrontRunningCfg.recurrence)
               + w.structure * Structure(tx)
        final == FinaliseScore(sum)
    IN  IF tx.wins < FrontRunningCfg.minWins /\ final >= CriticalThreshold
        THEN FrontRunningCfg.highBandCap ELSE final

-----------------------------------------------------------------------------
(* dex.detect_sandwich_pattern.  A transaction pays pools at a slot (0     *)
(* when it is unknown) and has neighbours, the other transactions that pay *)
(* them: id, first input address addr ("none" when it was not resolved),   *)
(* script (that address is a script), slot, idx (position in the block),   *)
(* net, what the leg adds to its sender's lovelace, and hist, its sender's *)
(* earlier legs.                                                           *)
Before(x, y) == x.slot < y.slot \/ (x.slot = y.slot /\ x.idx < y.idx)

(* _neighbors_in_window: the first of the window, the transaction itself   *)
(* among them.                                                             *)
InSlots(tx) == {n \in tx.neighbours : n.slot \in tx.slot - SandwichCfg.windowSlots
                                                  .. tx.slot + SandwichCfg.windowSlots}
Neighbours(tx) ==
    {n \in InSlots(tx) : Cardinality({m \in InSlots(tx) \cup {tx} : Before(m, n)})
                            < SandwichCfg.neighbourLimit}

(* The legs of one wallet around the transaction: the last one before it   *)
(* and the first one after it.                                             *)
LastLeg(S) == CHOOSE n \in S : \A m \in S : ~Before(n, m)
FirstLeg(S) == CHOOSE n \in S : \A m \in S : ~Before(m, n)
Legs(tx, w) ==
    [before |-> {n \in Neighbours(tx) : n.addr = w /\ Before(n, tx)},
     after |-> {n \in Neighbours(tx) : n.addr = w /\ Before(tx, n)}]

(* Wallets, not scripts, that bracket the transaction and did not send it. *)
Brackets(tx) ==
    {w \in {n.addr : n \in {m \in Neighbours(tx) : m.addr # "none" /\ ~m.script}} :
        w # tx.addr /\ Legs(tx, w).before # {} /\ Legs(tx, w).after # {}}

(* The candidate a wallet makes: _attacker_net_ada over its two legs.  The *)
(* rates and the price impact are not measured and stay 0.                 *)
Candidate(tx, w) ==
    LET front == LastLeg(Legs(tx, w).before)
        back == FirstLeg(Legs(tx, w).after)
    IN  [wallet |-> w, linked |-> TRUE, rateVictim |-> 0, rateBaseline |-> 0, impact |-> 0,
         profit |-> front.net + back.net, count |-> front.hist,
         slotSpan |-> back.slot - front.slot]
Candidates(tx) == {Candidate(tx, w) : w \in Brackets(tx)}

(* Every bracket is evaluated and the most profitable one kept. *)
Chosen(tx) ==
    IF tx.slot = 0 \/ ~tx.paysScript \/ Cardinality(Neighbours(tx)) < 2 THEN {}
    ELSE {c \in Candidates(tx) : \A d \in Candidates(tx) : d.profit <= c.profit}

-----------------------------------------------------------------------------
(* sandwich: the victim of a candidate triple inside the slot window. *)
SandwichGate(tx) ==
    tx.kind = "sandwich" /\ \E c \in Chosen(tx) : c.slotSpan <= SandwichCfg.windowSlots

(* How much worse the victim's rate is than the pool's, in percent of the  *)
(* baseline rate; no baseline rate gives no signal.                        *)
RateLoss(sw) ==
    IF sw.rateBaseline > 0
    THEN (100 * (sw.rateBaseline - sw.rateVictim)) \div sw.rateBaseline
    ELSE 0

(* The weighted sum; without a material profit there is no sandwich. *)
BracketScore(sw, tx) ==
    LET w == SandwichCfg.weights
        sum == w.link * (IF sw.linked THEN SandwichCfg.linked ELSE SandwichCfg.unlinked)
               + w.rate * Normalise(RateLoss(sw), SandwichCfg.rateDelta)
               + w.impact * Axis(sw.impact, tx.tiers.impact, SandwichCfg.impact)
               + w.profit * Axis(sw.profit, tx.tiers.profit, SandwichCfg.profit)
               + w.recurrence * Axis(sw.count, tx.tiers.recurrence, SandwichCfg.recurrence)
    IN  IF sw.profit < SandwichCfg.minProfit THEN NoFinding ELSE FinaliseScore(sum)
SandwichScore(tx) == BracketScore(CHOOSE c \in Chosen(tx) : TRUE, tx)

-----------------------------------------------------------------------------
(* circular: a detected cycle of admissible length that lost little more   *)
(* than fees.  Ratios are percentages.                                     *)
ExpectedFee(tx) == tx.length * CircularCfg.perHopFee
CircularGate(tx) ==
    /\ tx.kind = "circular"
    /\ tx.length \in CircularCfg.minLength .. CircularCfg.maxLength
    /\ tx.netLoss <= ExpectedFee(tx) * CircularCfg.feeMultiplier

(* The five axes.  Entropy is inverted: recycled intermediaries score      *)
(* high.  Speed is the reciprocal of the slots between hops.               *)
CircularAxes(tx) ==
    [amount |-> Normalise(tx.amountSim, CircularCfg.amountSim),
     recurrence |-> Axis(tx.recurrence, tx.tiers.recurrence, CircularCfg.recurrence),
     entropy |-> Normalise(100 - tx.entropy, CircularCfg.entropyInv),
     auxiliary |-> ((IF tx.round THEN 100 ELSE 0)
                    + Normalise(tx.temporal, CircularCfg.temporal)) \div 2,
     speed |-> Normalise(1000 \div AtLeast2(tx.hopSlots, 1), CircularCfg.hopInv)]

CircularSum(a) ==
    LET w == CircularCfg.weights
    IN  FinaliseScore(w.amount * a.amount + w.recurrence * a.recurrence
                      + w.entropy * a.entropy + w.auxiliary * a.auxiliary
                      + w.speed * a.speed)

(* Nothing but the shape of a benign script interaction speaks. *)
StructuralOnly(a) == a.entropy + a.auxiliary + a.speed < CircularCfg.corroborationFloor
RecurringLayering(tx, a) ==
    /\ tx.length >= CircularCfg.minLength
    /\ a.amount > CircularCfg.reason
    /\ a.recurrence > CircularCfg.reason
SlowOneOff(tx, a) ==
    /\ tx.hopSlots >= CircularCfg.slowHopSlots
    /\ a.entropy + a.speed + a.recurrence < CircularCfg.corroborationFloor

(* score: structural-only cycles are dropped unless they recur, and then   *)
(* capped at Moderate; a cycle that loses more than fees is capped at      *)
(* Moderate; a slow one-off round trip at Informational.                   *)
RingScore(tx, a) ==
    LET kept == IF StructuralOnly(a) THEN AtMost2(CircularSum(a), CircularCfg.moderateCap)
                ELSE CircularSum(a)
        feeCapped == IF kept > CircularCfg.moderateCap
                        /\ tx.netLoss > ExpectedFee(tx) * CircularCfg.feeStrict
                     THEN CircularCfg.moderateCap ELSE kept
    IN  IF StructuralOnly(a) /\ ~RecurringLayering(tx, a) THEN NoFinding
        ELSE IF SlowOneOff(tx, a) THEN AtMost2(feeCapped, InformationalMax) ELSE feeCapped
CircularScore(tx) == RingScore(tx, CircularAxes(tx))

-----------------------------------------------------------------------------
(* What the three scorers are given. *)
FrontRunningTx(t) ==
    /\ {"kind", "tiers", "shared", "outcome", "deltaMs", "wins", "feeGap", "ttlGap", "sharesChange"}
          \subseteq DOMAIN t
    /\ t.tiers.recurrence \in TierRows
    /\ {t.shared, t.wins} \subseteq Nat /\ {t.deltaMs, t.feeGap, t.ttlGap} \subseteq Int
SandwichTx(t) ==
    /\ {t.tiers.impact, t.tiers.profit, t.tiers.recurrence} \subseteq TierRows
    /\ t.slot \in Nat /\ t.idx \in Int
    /\ IsFiniteSet(t.neighbours)
    /\ \A n \in t.neighbours : {n.slot, n.idx, n.net, n.hist} \subseteq Int
CircularTx(t) ==
    /\ {"kind", "tiers", "length", "netLoss", "amountSim", "recurrence", "entropy", "round",
        "temporal", "hopSlots"} \subseteq DOMAIN t
    /\ t.tiers.recurrence \in TierRows
    /\ {t.length, t.recurrence} \subseteq Nat
    /\ {t.netLoss, t.amountSim, t.entropy, t.temporal, t.hopSlots} \subseteq Int
=============================================================================
