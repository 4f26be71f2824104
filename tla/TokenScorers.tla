---------------------------- MODULE TokenScorers ----------------------------
(***************************************************************************)
(* The two scorers that judge what a transaction says: phishing and        *)
(* fake_token (analysis/scorers), with the text they read                  *)
(* (analysis/plutus_text.py, analysis/url_extraction.py) and the lists     *)
(* they compare it with (analysis/external.py).                            *)
(*                                                                         *)
(* A transaction carries spans of text.  A span has the carrier it was     *)
(* found in: "label" (text under a scanned metadata label), "bytes" (a     *)
(* byte string under one), "other" (text under any other label), "datum"   *)
(* or "asset" (a decoded asset name, of the asset in field asset); its     *)
(* nesting depth and length; its URLs; and whether it asks for credentials *)
(* (tier1), the urgency patterns it matches and the brands it names.  A    *)
(* URL says whether it has a scheme, its length, what its last label is    *)
(* ("public", "reserved" by RFC 2606 or "none"), whether that is           *)
(* phishing-prone, whether a blacklist pattern hits, whether its domain is *)
(* a known protocol's (own), and how close its brand comes to one          *)
(* (percent).                                                              *)
(***************************************************************************)
EXTENDS Scoring

CONSTANTS PhishingCfg, FakeTokenCfg

ASSUME TokenCfgTypes ==
    /\ {PhishingCfg.textDepth, PhishingCfg.datumDepth, PhishingCfg.minLen, PhishingCfg.minDomain,
        PhishingCfg.urgencyCap, PhishingCfg.urgencyStep, PhishingCfg.brandCap, PhishingCfg.brandStep,
        PhishingCfg.boldSocial, PhishingCfg.comboBonus, PhishingCfg.tldBonus} \subseteq Nat
    /\ {PhishingCfg.socialScore, PhishingCfg.brandSim, PhishingCfg.recipients} \subseteq Pair
    /\ PhishingCfg.content \in [blacklist : Nat, domain : Nat, social : Nat]
    /\ PhishingCfg.delivery \in [recipients : Nat, targeting : Nat]
    /\ PhishingCfg.overall \in [content : Nat, delivery : Nat]
    /\ {FakeTokenCfg.minSimilarity, FakeTokenCfg.multiplier} \subseteq Nat
    /\ FakeTokenCfg.unicode \in [zeroWidth : Nat, mixed : Nat, homoglyphs : Nat]
    /\ FakeTokenCfg.identity \in [name : Nat, unicode : Nat, cip25 : Nat]
    /\ FakeTokenCfg.distribution \in [recipients : Nat, ratio : Nat, policyAge : Nat]
    /\ FakeTokenCfg.overall \in [identity : Nat, distribution : Nat]
    /\ {FakeTokenCfg.nameSim, FakeTokenCfg.unicodeAnchor, FakeTokenCfg.cip25,
        FakeTokenCfg.recipients, FakeTokenCfg.mintRatio} \subseteq Pair

(* The weights leave something of every signal that is not zero: what the  *)
(* shipped configuration has and _validate does not look at.               *)
ASSUME TokenSignalsCount ==
    /\ \A w \in {PhishingCfg.content.blacklist, PhishingCfg.content.domain,
                  PhishingCfg.content.social} : PhishingCfg.overall.content * w >= 100
    /\ FakeTokenCfg.overall.distribution * FakeTokenCfg.distribution.policyAge >= 1

(* Largest of a set of naturals, 0 for none. *)
Best(S) == Max({0} \cup S)

-----------------------------------------------------------------------------
(* decode_datum_strings and _flatten_to_text: each walk stops at its own   *)
(* depth cap, and the first drops short spans.                             *)
Readable(s) ==
    IF s.carrier \in {"bytes", "datum"}
    THEN s.depth <= PhishingCfg.datumDepth /\ s.len >= PhishingCfg.minLen
    ELSE s.depth <= PhishingCfg.textDepth

(* looks_like_domain and validate_candidates. *)
ValidUrl(u) == u.scheme \/ (u.len >= PhishingCfg.minDomain /\ u.suffix # "none")

(* What URLs are read from; the text of every label is read for language.  *)
UrlCarriers == {"label", "bytes", "datum", "asset"}
Urls(tx, carriers) ==
    {u \in UNION {s.urls : s \in {t \in tx.spans : Readable(t) /\ t.carrier \in carriers}} :
        ValidUrl(u)}

-----------------------------------------------------------------------------
(* _classify_social_engineering: a request for credentials decides alone.  *)
Social(tx) ==
    LET heard == {s \in tx.spans : Readable(s)}
        urgency == Cardinality(UNION {s.urgency : s \in heard})
        brands == Cardinality(UNION {s.brands : s \in heard})
        score == AtMost2(PhishingCfg.urgencyCap, urgency * PhishingCfg.urgencyStep)
                 + AtMost2(PhishingCfg.brandCap, brands * PhishingCfg.brandStep)
    IN  IF \E s \in heard : s.tier1 THEN 100 ELSE Normalise(score, PhishingCfg.socialScore)

(* _score_blacklist and _score_domain_suspicion. *)
Blacklist(urls) == IF \E u \in urls : u.black THEN 100 ELSE 0
DomainSuspicion(urls) ==
    Normalise(Best({u.sim : u \in {v \in urls : ~v.own /\ v.sim \in 51 .. 99}}),
              PhishingCfg.brandSim)

(* _sender_addresses with is_sender_allowlisted: resolved inputs only. *)
SenderAllowlisted(tx) ==
    \E i \in DOMAIN tx.inputs : tx.inputs[i].resolved /\ tx.inputs[i].addr \in PhishingCfg.allowedSenders

-----------------------------------------------------------------------------
(* _url_token_delivery_stats: URL-named assets by recipient; a pair is     *)
(* new unless the recipient is known to have held the asset and nothing of *)
(* it was minted here.                                                     *)
UrlAssets(tx) ==
    {s.asset : s \in {t \in tx.spans : t.carrier = "asset" /\ \E u \in t.urls : ValidUrl(u)}}
Pairs(tx) ==
    UNION {{<<a, tx.outputs[i].addr>> : a \in tx.outputs[i].assets \cap UrlAssets(tx)} :
           i \in DOMAIN tx.outputs}
HeldBefore(tx, p) ==
    \E i \in DOMAIN tx.inputs : /\ tx.inputs[i].resolved
                                /\ tx.inputs[i].addr = p[2]
                                /\ tx.inputs[i].valued
                                /\ p[1] \in tx.inputs[i].assets

NetNew(tx) == {p \in Pairs(tx) : p[1] \in tx.minted \/ ~HeldBefore(tx, p)}

(* The bonuses are withheld only when asset names alone carry the URLs and *)
(* every pair is proved to be the holder's own change.                     *)
SuppressBonuses(tx) ==
    /\ Urls(tx, {"asset"}) # {}
    /\ Urls(tx, UrlCarriers \ {"asset"}) = {}
    /\ Pairs(tx) # {}
    /\ NetNew(tx) = {}

(* gate: a URL in any carrier, or language alone. *)
PhishingGate(tx) ==
    /\ tx.kind = "phishing"
    /\ ~SenderAllowlisted(tx)
    /\ Urls(tx, UrlCarriers) # {} \/ Social(tx) > 0

PhishingScore(tx) ==
    LET urls == Urls(tx, UrlCarriers)
        recipients == Cardinality({tx.outputs[i].addr : i \in DOMAIN tx.outputs})
        content == PhishingCfg.content.blacklist * Blacklist(urls)
                   + PhishingCfg.content.domain * DomainSuspicion(urls)
                   + PhishingCfg.content.social * Social(tx)
        targeting == IF Pairs(tx) = {} THEN 0
                     ELSE (100 * Cardinality(NetNew(tx))) \div Cardinality(Pairs(tx))
        delivery == PhishingCfg.delivery.recipients
                        * Axis(recipients, tx.tiers.recipients, PhishingCfg.recipients)
                    + PhishingCfg.delivery.targeting * targeting
        bold == ~SuppressBonuses(tx) /\ Social(tx) >= PhishingCfg.boldSocial
        combo == IF bold /\ urls # {} THEN PhishingCfg.comboBonus ELSE 0
        tld == IF bold /\ \E u \in urls : u.prone THEN PhishingCfg.tldBonus ELSE 0
    IN  IF urls = {} /\ Social(tx) = 0 THEN 0
        ELSE FinaliseScore((PhishingCfg.overall.content * content
                            + PhishingCfg.overall.delivery * delivery) \div 100
                           + combo + tld)

-----------------------------------------------------------------------------
(* fake_token.  A minted asset has a policy, a quantity (burns are not     *)
(* positive), the name its hex decodes to and the name CIP-25 metadata     *)
(* gives it ("none": it gives none); a name has, per legitimate token, its *)
(* similarity before and after the ASCII lookalike fold, and the marks     *)
(* _compute_unicode_suspicion finds.  The comparison itself is rapidfuzz.  *)

(* get_legitimate_tokens: names of main network tokens, by network. *)
LegitimateTokens(network) ==
    IF network = "mainnet" \/ FakeTokenCfg.testnetMode THEN FakeTokenCfg.legit ELSE << >>

(* _extract_minted_assets: mints only, the CIP-25 name first. *)
MintedAssets(tx) == {i \in DOMAIN tx.mint : tx.mint[i].qty > 0}
ShownName(m) == IF m.cip25 = << >> THEN m.hex ELSE m.cip25[1]

(* The pairs that look alike under a policy that is not the token's. *)
Similarity(m, legit) == ShownName(m).folded[legit]
Lookalikes(tx) ==
    LET legit == LegitimateTokens(tx.network)
    IN  {p \in MintedAssets(tx) \X DOMAIN legit :
            /\ tx.mint[p[1]].policy \notin legit[p[2]]
            /\ Similarity(tx.mint[p[1]], p[2]) >= FakeTokenCfg.minSimilarity}

FakeTokenGate(tx) == tx.kind = "fake_token" /\ Lookalikes(tx) # {}

(* score: the candidate is the most similar pair, whatever it would score. *)
BestLookalikes(tx) ==
    {p \in Lookalikes(tx) : \A q \in Lookalikes(tx) :
        Similarity(tx.mint[q[1]], q[2]) <= Similarity(tx.mint[p[1]], p[2])}

(* The suspicion of the hex name, with the fold-gain test for ASCII. *)
UnicodeSuspicion(m, legit) ==
    AtMost2(100, (IF "zero_width" \in m.hex.marks THEN FakeTokenCfg.unicode.zeroWidth ELSE 0)
                 + (IF "mixed" \in m.hex.marks THEN FakeTokenCfg.unicode.mixed ELSE 0)
                 + (IF "homoglyph" \in m.hex.marks THEN FakeTokenCfg.unicode.homoglyphs ELSE 0)
                 + (IF m.hex.folded[legit] > m.hex.plain[legit]
                    THEN FakeTokenCfg.unicode.homoglyphs ELSE 0))

(* An identity that impersonates a critical asset is amplified, capped. *)
Identity(tx, p) ==
    LET m == tx.mint[p[1]]
        w == FakeTokenCfg.identity
        plain == w.name * Normalise(Similarity(m, p[2]), FakeTokenCfg.nameSim)
                 + w.unicode * Normalise(UnicodeSuspicion(m, p[2]), FakeTokenCfg.unicodeAnchor)
                 + w.cip25 * Normalise(tx.cip25Text[p[2]], FakeTokenCfg.cip25)
    IN  IF p[2] \in FakeTokenCfg.critical
        THEN AtMost2(10000, (plain * FakeTokenCfg.multiplier) \div 100) ELSE plain

Distribution(tx, p) ==
    LET w == FakeTokenCfg.distribution
        ratio == tx.mint[p[1]].qty \div AtLeast2(1, tx.recipients)
    IN  w.recipients * Axis(tx.recipients, tx.tiers.recipients, FakeTokenCfg.recipients)
        + w.ratio * AxisInverted(ratio, tx.tiers.ratio, FakeTokenCfg.mintRatio)
        + w.policyAge * 100

FakeTokenScore(tx) ==
    IF Lookalikes(tx) = {} THEN 0
    ELSE LET p == CHOOSE q \in BestLookalikes(tx) : \A r \in BestLookalikes(tx) : q[1] <= r[1]
         IN  FinaliseScore((FakeTokenCfg.overall.identity * Identity(tx, p)
                            + FakeTokenCfg.overall.distribution * Distribution(tx, p)) \div 100)

-----------------------------------------------------------------------------
(* What the two scorers are given. *)
PhishingTx(t) ==
    /\ {"inputs", "outputs", "spans", "minted", "tiers"} \subseteq DOMAIN t
    /\ t.tiers.recipients \in TierRows
    /\ IsFiniteSet(t.spans)
    /\ \A s \in t.spans :
          /\ IsFiniteSet(s.urgency) /\ IsFiniteSet(s.brands)
          /\ \A u \in s.urls : u.sim \in 0 .. 100
    /\ IsList(t.inputs) /\ IsList(t.outputs)
    /\ \A i \in DOMAIN t.inputs :
          {"addr", "resolved", "valued", "assets"} \subseteq DOMAIN t.inputs[i]
    /\ \A i \in DOMAIN t.outputs : IsFiniteSet(t.outputs[i].assets)
FakeTokenTx(t) ==
    /\ t.tiers.recipients \in TierRows /\ t.tiers.ratio \in TierRows
    /\ t.recipients \in Nat
    /\ IsList(t.mint)
    /\ \A i \in DOMAIN t.mint : t.mint[i].qty \in Int
    /\ \A legit \in DOMAIN LegitimateTokens(t.network) :
          /\ t.cip25Text[legit] \in 0 .. 100
          /\ \A i \in DOMAIN t.mint :
                /\ Similarity(t.mint[i], legit) \in 0 .. 100
                /\ t.mint[i].hex.folded[legit] \in 0 .. 100 /\ t.mint[i].hex.plain[legit] \in 0 .. 100
=============================================================================
