-------------------------- MODULE DetectionConfig --------------------------
(***************************************************************************)
(* detection.yaml as analysis/scorer_config.py reads it at import: the     *)
(* document is edited, then loaded or refused.  What is loaded is what     *)
(* every scorer runs with, and a key a scorer does not find makes it raise *)
(* inside the engine's per-transaction guard, where the class falls silent.*)
(*                                                                         *)
(* A document maps the paths that are present to Block for a mapping, to   *)
(* Null for a key without a value and to a number otherwise; a leaf under  *)
(* a network-keyed allowlist is operator data.  The key tables are those   *)
(* of three scorers and two top-level blocks, cut down to a few keys of    *)
(* every kind.                                                             *)
(***************************************************************************)
EXTENDS Integers, Sequences, FiniteSets

CONSTANTS
  Shipped,     \* the document as shipped: path -> Block or number
  EditValues,  \* numbers an edit may write
  MaxEdits     \* bound: edits before the load

Block == -1
Null == -2

VARIABLES document, outcome, edits
configVars == <<document, outcome, edits>>

-----------------------------------------------------------------------------
(* What the code reads *)

RequiredKeys ==
  [multiple_sat |-> {<<"weights">>, <<"lazy_validator_floor">>, <<"allowlist_prefixes">>},
   front_running |-> {<<"weights">>, <<"fixed_anchors">>, <<"high_band_cap">>},
   circular |-> {<<"weights">>, <<"moderate_cap">>, <<"cycle">>,
                 <<"cycle", "closing_subset_max_outputs">>}]
ScorerNames == DOMAIN RequiredKeys
WeightNames == [multiple_sat |-> {"inputs"}, front_running |-> {"delta"}, circular |-> {"amount"}]
FixedAnchorNames == [multiple_sat |-> {}, front_running |-> {"fee_delta"}, circular |-> {}]
KnownOptionalKeys ==
  [multiple_sat |-> {}, front_running |-> {<<"reason_thresholds", "delta">>}, circular |-> {}]
FreeformSubtrees == {<<"scorers", "multiple_sat", "allowlist_prefixes">>}
RequiredContractAnomaly == {<<"verdict_floors", "malicious">>, <<"anomaly_consensus_scale">>}
TopBlocks == {"scorers", "contract_anomaly"}

Prefixes(p) == {SubSeq(p, 1, n) : n \in 1 .. Len(p)}
Section(s) == <<"scorers", s>>

WeightKeys(s) == {<<n>> : n \in WeightNames[s]}
AnchorKeys(s) == {<<n, leaf>> : n \in FixedAnchorNames[s], leaf \in {"p50", "p99"}}

\* _allowed_paths: every known key with each of its prefixes.
KnownBelow(at, keys) == UNION {Prefixes(at \o k) : k \in keys}
SectionPaths(s) ==
  KnownBelow(Section(s), RequiredKeys[s] \cup KnownOptionalKeys[s])
    \cup KnownBelow(Section(s) \o <<"weights">>, WeightKeys(s))
    \cup KnownBelow(Section(s) \o <<"fixed_anchors">>, AnchorKeys(s))
AllowedPaths ==
  {<<b>> : b \in TopBlocks}
    \cup KnownBelow(<<"contract_anomaly">>, RequiredContractAnomaly)
    \cup UNION {SectionPaths(s) : s \in ScorerNames}
\* Operator data lies under a network-keyed allowlist.
Operational(p) == \E q \in Prefixes(p) \ {p} : q \in FreeformSubtrees

\* The shipped document is a tree that holds the known keys and no others.
ASSUME DetectionConfigAssumption ==
  /\ \A p \in DOMAIN Shipped :
       /\ p \in Seq(STRING) /\ p # <<>> /\ Prefixes(p) \subseteq DOMAIN Shipped
       /\ Shipped[p] \in Int
       /\ p \in AllowedPaths \/ Operational(p)
  /\ AllowedPaths \subseteq DOMAIN Shipped
  /\ EditValues \subseteq Nat /\ MaxEdits \in Nat

-----------------------------------------------------------------------------
(* _validate *)

IsMap(p) == p \in DOMAIN document /\ document[p] = Block
\* A key is missing where the walk meets an absent hop or a value that is no block.
MissingDotted(at, keys) == {k \in keys : at \o k \notin DOMAIN document}

\* A block that is no mapping is left to the required keys, which it satisfies.
MissingScorerNames(s) ==
  LET w == Section(s) \o <<"weights">>
      f == Section(s) \o <<"fixed_anchors">>
  IN (IF IsMap(w) THEN MissingDotted(w, WeightKeys(s)) ELSE {}) \cup
     (IF IsMap(f) THEN MissingDotted(f, AnchorKeys(s)) ELSE {})

\* broken: blocks are not walked into
UnknownTopPaths == {p \in DOMAIN document : Len(p) <= 2 /\ p \notin AllowedPaths}
\* _unknown_paths: the walk stops below an unknown key and at operator data.
UnknownPaths ==
  {p \in DOMAIN document :
     /\ p \notin AllowedPaths
     /\ \A q \in Prefixes(p) \ {p} : q \in AllowedPaths /\ q \notin FreeformSubtrees}

\* _dotted_get, and the test of a contract: a key that is absent or has no value
\* is passed over, and a block is no number.
HasValue(p) == p \in DOMAIN document /\ document[p] # Null
AtLeast(p, lower) == HasValue(p) => lower <= document[p]
Within(p, lower, upper) == AtLeast(p, lower) /\ (HasValue(p) => document[p] < upper)

BandInvariants ==
  /\ AtLeast(Section("multiple_sat") \o <<"lazy_validator_floor">>, 60)
  /\ Within(Section("front_running") \o <<"high_band_cap">>, 60, 80)
  /\ Within(Section("circular") \o <<"moderate_cap">>, 31, 60)
  /\ AtLeast(<<"contract_anomaly", "verdict_floors", "malicious">>, 80)
  /\ Within(<<"contract_anomaly", "anomaly_consensus_scale">>, 31, 60)
RangeInvariants == Within(Section("circular") \o <<"cycle", "closing_subset_max_outputs">>, 0, 33)

Valid ==
  /\ IsMap(<<"scorers">>)
  /\ IsMap(<<"contract_anomaly">>)
  /\ MissingDotted(<<"contract_anomaly">>, RequiredContractAnomaly) = {}
  /\ \A s \in ScorerNames :
       /\ IsMap(Section(s))
       /\ MissingDotted(Section(s), RequiredKeys[s]) = {}
       /\ MissingScorerNames(s) = {}
  /\ UnknownPaths = {}
  /\ BandInvariants
  /\ RangeInvariants

LoadConfig ==
  /\ outcome = "unread"
  /\ outcome' = IF Valid THEN "loaded" ELSE "refused"
  /\ UNCHANGED <<document, edits>>

\* The scorers convert what they read when they are imported: a key without a value
\* ends the start there, and not in _validate.  contract_anomaly.py converts its two
\* for each row it projects.
ReadAtImport ==
  {Section("multiple_sat") \o <<"lazy_validator_floor">>,
   Section("front_running") \o <<"high_band_cap">>, Section("circular") \o <<"moderate_cap">>,
   Section("circular") \o <<"cycle", "closing_subset_max_outputs">>}
ImportScorers ==
  /\ outcome = "loaded"
  /\ outcome' = IF \A p \in ReadAtImport : document[p] # Null THEN "running" ELSE "refused"
  /\ UNCHANGED <<document, edits>>

-----------------------------------------------------------------------------
(* The operator's edits *)

Below(p) == {q \in DOMAIN document : p \in Prefixes(q)}

RemoveKey(p) == document' = [q \in DOMAIN document \ Below(p) |-> document[q]]
\* A misspelt key takes its block along.
RenameKey(p) ==
  LET wrong == [p EXCEPT ![Len(p)] = "typo"]
      Old(q) == IF wrong \in Prefixes(q) THEN p \o SubSeq(q, Len(p) + 1, Len(q)) ELSE q
      moved == {wrong \o SubSeq(q, Len(p) + 1, Len(q)) : q \in Below(p)}
  IN /\ wrong \notin DOMAIN document
     /\ document' = [q \in (DOMAIN document \ Below(p)) \cup moved |-> document[Old(q)]]
\* A block emptied to a scalar or to nothing, a number changed or left out.
SetKey(p, v) ==
  document' = [q \in (DOMAIN document \ Below(p)) \cup {p} |-> IF q = p THEN v ELSE document[q]]

EditConfig ==
  /\ outcome = "unread" /\ edits < MaxEdits
  /\ edits' = edits + 1
  /\ \E p \in DOMAIN document :
       RemoveKey(p) \/ RenameKey(p) \/ \E v \in EditValues \cup {Null} : SetKey(p, v)
  /\ UNCHANGED outcome

ConfigInit(on) ==
  /\ document = Shipped
  /\ outcome = (IF on THEN "unread" ELSE "off")
  /\ edits = (IF on THEN 0 ELSE MaxEdits)

ConfigNext == EditConfig \/ LoadConfig \/ ImportScorers
ConfigSpec == ConfigInit(TRUE) /\ [][ConfigNext]_configVars

-----------------------------------------------------------------------------
\* _unknown_paths: a document is loaded only if it holds no key the shipped one
\* lacks, however deep, so a misspelt tunable, also an optional one, is never
\* left unread while the code runs on a default; operator data is free.
MisspeltKeyRefused ==
  outcome \in {"loaded", "running"} =>
    \A p \in DOMAIN document : Operational(p) \/ p \in DOMAIN Shipped

\* _validate: with a loaded document every lookup of a scorer is answered; the
\* one exception is a weight or anchor block that is there and no mapping.  The
\* answer may be a key without a value.
ScorerLookupsAnswered ==
  outcome \in {"loaded", "running"} =>
    \A p \in DOMAIN Shipped :
      \/ p \in DOMAIN document
      \/ Operational(p)
      \/ \E s \in ScorerNames : \E k \in KnownOptionalKeys[s] : p \in Prefixes(Section(s) \o k)
      \/ \E q \in Prefixes(p) \ {p} : q \in DOMAIN document /\ document[q] # Block

\* _BAND_INVARIANTS against the bands of normalise.py: once the scorers are imported
\* a demoted score lands in its band and a promoted one in High or above, no consensus
\* lifts a bare anomaly to a band that pages, and a malicious label is Critical whatever
\* its consensus.  The checks pass over a key without a value: for the scorers' keys the
\* import then fails, but the scale and the floor of contract_anomaly may run without
\* one, and every projection of that verdict raises.
BandContractsHold ==
  LET cap == document[Section("front_running") \o <<"high_band_cap">>]
      weak == document[Section("circular") \o <<"moderate_cap">>]
      lazy == document[Section("multiple_sat") \o <<"lazy_validator_floor">>]
      floor == document[<<"contract_anomaly", "verdict_floors", "malicious">>]
      scale == document[<<"contract_anomaly", "anomaly_consensus_scale">>]
  IN outcome = "running" =>
       /\ 60 <= cap /\ cap < 80
       /\ 30 < weak /\ weak < 60
       /\ lazy >= 60
       /\ scale # Null => \A consensus \in 0 .. 100 : consensus * scale < 60 * 100
       /\ floor # Null => floor >= 80

\* A document that is loaded is read to its last key and answers every lookup, and what
\* runs keeps the relations between bands that the scorers were written for.
LoadedConfigSound == MisspeltKeyRefused /\ ScorerLookupsAnswered /\ BandContractsHold
=============================================================================
