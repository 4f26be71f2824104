---------------------------- MODULE ValueScorers ----------------------------
(***************************************************************************)
(* The three scorers that judge single outputs at script addresses:        *)
(* large_value, token_dust and large_datum (analysis/scorers).  Every      *)
(* qualifying output is a candidate and the best candidate is the verdict. *)
(***************************************************************************)
EXTENDS Scoring, Payload

CONSTANTS LargeValueCfg, TokenDustCfg, LargeDatumCfg

ASSUME ValueCfgTypes ==
    /\ LargeValueCfg.weights \in [digits : Nat, bytes : Nat, adaInv : Nat]
    /\ TokenDustCfg.weights \in [bytes : Nat, assets : Nat, adaInv : Nat]
    /\ LargeDatumCfg.weights \in [datumBytes : Nat, ratio : Nat, valueInv : Nat]
    /\ {LargeValueCfg.digits, LargeValueCfg.bytes, LargeValueCfg.ada, TokenDustCfg.bytes,
        TokenDustCfg.tokens, TokenDustCfg.ada, LargeDatumCfg.bytes, LargeDatumCfg.ratio,
        LargeDatumCfg.value} \subseteq Pair
    /\ {LargeValueCfg.minDigits, TokenDustCfg.minTokens, TokenDustCfg.dosAssets,
        TokenDustCfg.dosCbor, TokenDustCfg.minAge, LargeDatumCfg.minBytes,
        LargeDatumCfg.entropyMax, LargeDatumCfg.leafMax, LargeDatumCfg.backstop,
        LargeDatumCfg.aggregateMin} \subseteq Nat

(* A datum at the backstop stands out against every pair the capping       *)
(* leaves: what the shipped configuration has and _validate does not look  *)
(* at.                                                                     *)
ASSUME BackstopCounts ==
    LET b == LargeDatumCfg.bytes
    IN  /\ CapMultiplier > 0 /\ b.p99 > 0 /\ b.p99 > b.p50
        /\ LargeDatumCfg.weights.datumBytes > 0
        /\ LargeDatumCfg.backstop >= LargeDatumCfg.minBytes
        /\ 100 * LargeDatumCfg.backstop >= 99 * b.p50 + b.p99
        /\ 100 * LargeDatumCfg.backstop
              >= 99 * P50Bound(b, CapMultiplier, SpreadFraction) + P99Cap(b, CapMultiplier)

(* The outputs at script addresses, by index. *)
ScriptOutputs(tx) == {i \in DOMAIN tx.outputs : tx.outputs[i].script}
HasOutputs(tx) == tx.kind = "outputs"

-----------------------------------------------------------------------------
(* large_value: a script output with one or two live asset classes. *)
FewAssets(out) == TokenCount(out) \in 1 .. 2
LargeValueGate(tx) == HasOutputs(tx) /\ \E i \in ScriptOutputs(tx) : FewAssets(tx.outputs[i])

(* _max_quantity_digits, with a quantity given by its number of digits. *)
MaxDigits(out) == Max({0} \cup {out.assets[a] : a \in DOMAIN out.assets})

(* _score_utxo: a normal quantity holds the other axes to Informational. *)
LargeValueUtxo(out, tiers) ==
    LET w == LargeValueCfg.weights
        digits == Axis(MaxDigits(out), tiers.digits, LargeValueCfg.digits)
        final == FinaliseScore(w.digits * digits
                               + w.bytes * Axis(out.cbor, tiers.bytes, LargeValueCfg.bytes)
                               + w.adaInv * AxisInverted(out.ada, tiers.ada, LargeValueCfg.ada))
    IN  IF digits < LargeValueCfg.minDigits THEN AtMost2(final, InformationalMax) ELSE final

LargeValueScore(tx) ==
    ReduceToBest([i \in {j \in ScriptOutputs(tx) : FewAssets(tx.outputs[j])} |->
                    LargeValueUtxo(tx.outputs[i], tx.tiers)])

-----------------------------------------------------------------------------
(* token_dust: many assets, or a large Value, at a script output. *)
Bundle(out) == TokenCount(out) >= TokenDustCfg.minTokens
DosShape(out) == TokenCount(out) >= TokenDustCfg.dosAssets \/ out.cbor >= TokenDustCfg.dosCbor
TokenDustGate(tx) ==
    HasOutputs(tx) /\ \E i \in ScriptOutputs(tx) : Bundle(tx.outputs[i]) /\ DosShape(tx.outputs[i])

(* _is_allowlisted_utxo: a known address, or only known policies. *)
AllowlistedUtxo(out) ==
    \/ out.cred \in TokenDustCfg.allowedCreds
    \/ /\ BundlePolicies(out) # {}
       /\ BundlePolicies(out) \subseteq TokenDustCfg.allowedPolicies

(* _policy_age_context: the first-seen slots the store answers with; a     *)
(* failed lookup is an empty answer.                                       *)
FirstSeen(tx) == IF tx.lookupFails THEN << >> ELSE tx.firstSeen

(* The established-collection test: every policy has a known age, the      *)
(* youngest is old enough, and nothing of the bundle is minted here.       *)
Established(out, tx) ==
    LET ps == BundlePolicies(out)
        seen == FirstSeen(tx)
    IN  /\ TokenDustCfg.establishedEnabled
        /\ ps # {}
        /\ ps \subseteq DOMAIN seen
        /\ tx.slotKnown
        /\ \A p \in ps : tx.slot - seen[p] >= TokenDustCfg.minAge
        /\ ps \cap tx.minted = {}

(* _score_utxo: few assets, or an established collection, are capped at    *)
(* the top of Moderate.                                                    *)
TokenDustUtxo(out, tx) ==
    LET w == TokenDustCfg.weights
        final == FinaliseScore(w.bytes * Axis(out.cbor, tx.tiers.bytes, TokenDustCfg.bytes)
                   + w.assets * Axis(TokenCount(out), tx.tiers.tokens, TokenDustCfg.tokens)
                   + w.adaInv * AxisInverted(out.ada, tx.tiers.ada, TokenDustCfg.ada))
    IN  IF TokenCount(out) < TokenDustCfg.dosAssets \/ Established(out, tx)
        THEN AtMost2(final, ModerateMax) ELSE final

TokenDustScore(tx) ==
    ReduceToBest([i \in {j \in ScriptOutputs(tx) : Bundle(tx.outputs[j])
                                                  /\ ~AllowlistedUtxo(tx.outputs[j])} |->
                    TokenDustUtxo(tx.outputs[i], tx)])

-----------------------------------------------------------------------------
(* large_datum: _bloat_trigger, which gate admits a datum. *)
BloatTrigger(d) ==
    LET bytes == DatumBytes(d)
    IN  CASE /\ bytes >= LargeDatumCfg.minBytes
             /\ \/ Entropy(d) <= LargeDatumCfg.entropyMax
                \/ LeafConcentration(d) >= LargeDatumCfg.leafMax -> "content"
          [] ~(/\ bytes >= LargeDatumCfg.minBytes
               /\ \/ Entropy(d) <= LargeDatumCfg.entropyMax
                  \/ LeafConcentration(d) >= LargeDatumCfg.leafMax)
             /\ bytes >= LargeDatumCfg.backstop ->
                IF ContentAssessable(d) THEN "size_backstop" ELSE "size_backstop_unassessed"
          [] OTHER -> "none"

(* _per_script_datum_bytes: the bytes at one payment credential. *)
PerScriptBytes(tx, c) ==
    SumOf([i \in DOMAIN tx.outputs |->
              IF /\ i \in ScriptOutputs(tx) /\ tx.outputs[i].cred = c
                 /\ DatumFlag(tx.outputs[i].datum) # 0
              THEN DatumBytes(tx.outputs[i].datum) ELSE 0])

(* _datum_hash_only_addresses: a hash nothing in the transaction sizes. *)
HashOnly(tx) ==
    {i \in ScriptOutputs(tx) : DatumFlag(tx.outputs[i].datum) = 1
                               /\ DatumBytes(tx.outputs[i].datum) = 0}

LargeDatumGate(tx) ==
    /\ HasOutputs(tx)
    /\ \/ \E i \in ScriptOutputs(tx) : BloatTrigger(tx.outputs[i].datum) # "none"
       \/ \E i \in ScriptOutputs(tx) :
             PerScriptBytes(tx, tx.outputs[i].cred) >= LargeDatumCfg.aggregateMin
       \/ LargeDatumCfg.flagHashOnly /\ HashOnly(tx) # {}

(* _score_utxo; the address and the script reference of the size estimate  *)
(* are a constant 100 bytes here.                                          *)
LargeDatumUtxo(out, tiers) ==
    LET w == LargeDatumCfg.weights
        bytes == DatumBytes(out.datum)
        final == FinaliseScore(w.datumBytes * Axis(bytes, tiers.datum, LargeDatumCfg.bytes)
                   + w.ratio * Normalise((100 * bytes) \div (bytes + out.cbor + 100), LargeDatumCfg.ratio)
                   + w.valueInv * AxisInverted(out.cbor, tiers.value, LargeDatumCfg.value))
    IN  IF /\ BloatTrigger(out.datum) = "size_backstop"
           /\ out.cred \in LargeDatumCfg.largeState
        THEN AtMost2(final, ModerateMax) ELSE final

(* score: the best triggered output; without a score above 0 the           *)
(* engagement is only observed, never a finding.                           *)
LargeDatumScore(tx) ==
    LET best == ReduceToBest([i \in {j \in ScriptOutputs(tx) :
                                        BloatTrigger(tx.outputs[j].datum) # "none"} |->
                                LargeDatumUtxo(tx.outputs[i], tx.tiers)])
    IN  IF best > 0 THEN best ELSE NoFinding

-----------------------------------------------------------------------------
(* What the three scorers are given. *)
ValueTiers(tiers) ==
    {tiers.digits, tiers.bytes, tiers.ada, tiers.tokens, tiers.datum, tiers.value} \subseteq TierRows
IsOutput(o) ==
    /\ {"script", "cred", "ada", "cbor", "assets", "datum"} \subseteq DOMAIN o
    /\ {o.ada, o.cbor} \subseteq Nat
    /\ IsFiniteSet(DOMAIN o.assets) /\ \A a \in DOMAIN o.assets : o.assets[a] \in Nat
    /\ {"delivery", "carried", "form", "size", "entropy", "leaf"} \subseteq DOMAIN o.datum
    /\ {o.datum.size, o.datum.entropy, o.datum.leaf} \subseteq Nat
OutputsTx(t) ==
    /\ {"kind", "tiers", "outputs", "lookupFails", "firstSeen", "slotKnown", "slot", "minted"}
          \subseteq DOMAIN t
    /\ ValueTiers(t.tiers)
    /\ \A i \in DOMAIN t.outputs : IsOutput(t.outputs[i])
=============================================================================
