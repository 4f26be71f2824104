------------------------------ MODULE Payload ------------------------------
(***************************************************************************)
(* What analysis/features.py reads from a raw transaction: the assets of a *)
(* value, the datum of an output and whether its content can be measured,  *)
(* and the redeemers in the two shapes Ogmios has used.                    *)
(*                                                                         *)
(* An output is a record: script says that its payment credential is a     *)
(* script, cred is that credential, ada its lovelace, cbor the size of its *)
(* Value, assets a function from <<policy, name>> to a quantity, datum a   *)
(* datum record.  A datum is delivered "none", "inline" or by "hash";      *)
(* carried says that the preimage of a hash is in the witness map; form is *)
(* "hex" (decodes), "badhex" (does not parse as hex), "badcbor" (parses,   *)
(* does not decode), "object" (with byte leaves) or "bare" (an object      *)
(* without); size, entropy (tenths of a bit) and leaf (percent of the      *)
(* bytes in the largest leaf) are what it measures when it is readable.    *)
(***************************************************************************)
EXTENDS Integers, Sequences, FiniteSets

(* count_assets: entries with a zero quantity do not count. *)
LiveAssets(out) == {a \in DOMAIN out.assets : out.assets[a] # 0}
TokenCount(out) == Cardinality(LiveAssets(out))

(* The policies of a bundle, zero quantities included: the key set. *)
BundlePolicies(out) == {a[1] : a \in DOMAIN out.assets}

(* iter_assets with the net flow of one asset class through a script:      *)
(* what its inputs bring minus what its outputs return.                    *)
Quantity(out, a) == IF a \in DOMAIN out.assets THEN out.assets[a] ELSE 0

-----------------------------------------------------------------------------
(* _extract_datum_info: 0 none, 1 by hash, 2 inline, and the byte size,    *)
(* which is 0 for a hash whose preimage the transaction does not carry.    *)
DatumFlag(d) ==
    CASE d.delivery = "inline" -> 2
      [] d.delivery = "hash" -> 1
      [] OTHER -> 0
DatumBytes(d) ==
    IF d.delivery = "inline" \/ (d.delivery = "hash" /\ d.carried) THEN d.size ELSE 0

(* assessable_datum and _datum_raw_bytes: the payload whose content can be *)
(* read, resolved in the order the byte gate sizes it.                     *)
Reachable(d) == d.delivery = "inline" \/ (d.delivery = "hash" /\ d.carried)
RawBytes(d) == Reachable(d) /\ d.form \in {"hex", "badcbor", "object"}

(* datum_shannon_entropy_bits and datum_leaf_concentration: the defaults   *)
(* of a datum that cannot be measured never look like padding.             *)
Entropy(d) == IF RawBytes(d) THEN d.entropy ELSE 80
LeafConcentration(d) ==
    IF RawBytes(d) /\ d.form # "badcbor" THEN d.leaf ELSE 0

(* datum_content_assessable: both measurements were really made. *)
ContentAssessable(d) == RawBytes(d) /\ d.form # "badcbor"

-----------------------------------------------------------------------------
(* extract_redeemers: in the v5 shape the purpose is in the key, in the v6 *)
(* shape under validator or, in older payloads, on the entry.  An entry is *)
(* [shape, key, validator, inline, payload], "" where it says nothing.     *)
RedeemerPurpose(e) ==
    IF e.shape = "v5" THEN e.key
    ELSE IF e.validator # "" THEN e.validator ELSE e.inline

(* has_spend_redeemer reads the same places. *)
HasSpendRedeemer(rs) ==
    \E i \in DOMAIN rs : IF rs[i].shape = "v5" THEN rs[i].key = "spend"
                         ELSE rs[i].validator = "spend" \/ rs[i].inline = "spend"

(* _spend_redeemer_payloads: absent payloads are dropped, empty ones kept. *)
SpendPayloads(rs) ==
    LET spends == {i \in DOMAIN rs : RedeemerPurpose(rs[i]) = "spend"
                                     /\ rs[i].payload # "absent"}
    IN  [count |-> Cardinality(spends), distinct |-> {rs[i].payload : i \in spends}]
=============================================================================
