----------------------------- MODULE MCScoring -----------------------------
(***************************************************************************)
(* Verdict on enumerated transactions, with the weights, anchors and       *)
(* thresholds config/detection.yaml ships.  Amounts are scaled: lovelace   *)
(* of multiple_sat in ADA, of outputs in tenths of an ADA, execution units *)
(* in hundreds of thousands.                                               *)
(***************************************************************************)
EXTENDS Verdict, TLC

P(a, b) == [p50 |-> a, p99 |-> b]

MCFrontRunning ==
    [weights |-> [outcome |-> 35, delta |-> 30, recurrence |-> 25, structure |-> 10],
     deltaInv |-> P(5, 50), feeDelta |-> P(500, 5000), ttlDelta |-> P(10, 100),
     recurrence |-> P(0, 5), minWins |-> 3, highBandCap |-> 7900]
MCSandwich ==
    [weights |-> [link |-> 30, rate |-> 30, impact |-> 20, profit |-> 10, recurrence |-> 10],
     linked |-> 100, unlinked |-> 20, rateDelta |-> P(0, 15), impact |-> P(0, 5),
     profit |-> P(0, 50), recurrence |-> P(0, 5), neighbourLimit |-> 5, windowSlots |-> 5,
     minProfit |-> 2]
MCCircular ==
    [weights |-> [amount |-> 30, recurrence |-> 30, entropy |-> 20, auxiliary |-> 10,
                  speed |-> 10],
     amountSim |-> P(70, 97), recurrence |-> P(0, 5), entropyInv |-> P(20, 70),
     temporal |-> P(30, 85), hopInv |-> P(50, 500), perHopFee |-> 2, feeMultiplier |-> 4,
     feeStrict |-> 2, minLength |-> 3, maxLength |-> 6, corroborationFloor |-> 10,
     reason |-> 50, moderateCap |-> 5900, slowHopSlots |-> 1800]
MCLargeValue ==
    [weights |-> [digits |-> 55, bytes |-> 20, adaInv |-> 15], digits |-> P(13, 19),
     bytes |-> P(100, 1500), ada |-> P(12, 20), minDigits |-> 5]
MCTokenDust ==
    [weights |-> [bytes |-> 35, assets |-> 35, adaInv |-> 15], minTokens |-> 2,
     dosAssets |-> 3, dosCbor |-> 1000, bytes |-> P(100, 1500), tokens |-> P(1, 4),
     ada |-> P(12, 20), establishedEnabled |-> TRUE, minAge |-> 5,
     allowedCreds |-> {"listed"}, allowedPolicies |-> {"known"}]
MCLargeDatum ==
    [weights |-> [datumBytes |-> 50, ratio |-> 35, valueInv |-> 5], bytes |-> P(500, 14000),
     ratio |-> P(70, 97), value |-> P(100, 1500), minBytes |-> 6000, entropyMax |-> 40,
     leafMax |-> 50, backstop |-> 12288, aggregateMin |-> 12000, flagHashOnly |-> TRUE,
     largeState |-> {"listed"}]
MCMultipleSat ==
    [lazyFloor |-> 6000, saturationFloor |-> 6000, netValue |-> P(5, 500),
     assetsOut |-> P(0, 2), headroom |-> 3, exunits |-> P(1, 100), inputs |-> P(2, 10),
     recurrence |-> P(0, 100), sweepInputs |-> 3,
     weights |-> [extraction |-> 42, exunitsInv |-> 28, inputs |-> 16, recurrence |-> 14],
     lazyThreshold |-> 80, lazyExtraction |-> 0, satExtraction |-> 99, satInputs |-> 99,
     escape |-> 10, escapes |-> TRUE, sweepGuard |-> TRUE, uniformRedeemer |-> TRUE,
     noReturn |-> TRUE]
MCPhishing ==
    [textDepth |-> 3, datumDepth |-> 6, minLen |-> 4, minDomain |-> 6,
     urgencyCap |-> 60, urgencyStep |-> 15,
     brandCap |-> 30, brandStep |-> 10, socialScore |-> P(0, 30), brandSim |-> P(0, 85),
     allowedSenders |-> {"team"},
     content |-> [blacklist |-> 30, domain |-> 30, social |-> 40],
     delivery |-> [recipients |-> 35, targeting |-> 25], recipients |-> P(1, 50),
     boldSocial |-> 30, comboBonus |-> 2500, tldBonus |-> 1500,
     overall |-> [content |-> 65, delivery |-> 35]]
MCFakeToken ==
    [testnetMode |-> FALSE, legit |-> [ada |-> {"pa"}, snek |-> {"ps"}], minSimilarity |-> 70,
     unicode |-> [zeroWidth |-> 40, mixed |-> 30, homoglyphs |-> 30],
     identity |-> [name |-> 40, unicode |-> 35, cip25 |-> 25], nameSim |-> P(80, 97),
     unicodeAnchor |-> P(0, 60), cip25 |-> P(0, 80), critical |-> {"ada"}, multiplier |-> 180,
     distribution |-> [recipients |-> 40, ratio |-> 30, policyAge |-> 20],
     recipients |-> P(1, 100), mintRatio |-> P(100, 100000),
     overall |-> [identity |-> 60, distribution |-> 40]]

-----------------------------------------------------------------------------
(* Baseline tables: none; too few samples; a wide own row; an own row with *)
(* no spread above a wide global one; an ordinary own row.                 *)
Situations == {"none", "thin", "wide", "flat", "median", "usual"}
Row(a, b) == [n |-> MinSamples, p50 |-> a, p99 |-> b]
Tier(s, anchor) ==
    LET wide == Row(anchor.p99, 9 * anchor.p99 + 1)
    IN  CASE s = "none" -> [own |-> NoRow, global |-> NoRow]
          [] s = "thin" -> [own |-> [wide EXCEPT !.n = MinSamples - 1], global |-> NoRow]
          [] s = "wide" -> [own |-> wide, global |-> NoRow]
          [] s = "flat" -> [own |-> Row(anchor.p99, anchor.p99), global |-> wide]
          [] s = "median" -> [own |-> Row(8 * anchor.p99, 9 * anchor.p99), global |-> wide]
          [] OTHER -> [own |-> Row(anchor.p50, anchor.p99 + 1), global |-> wide]
Tiers(s, anchors) == [f \in DOMAIN anchors |-> Tier(s, anchors[f])]

FrontRunningTxs ==
    LET anchors == [recurrence |-> MCFrontRunning.recurrence]
    IN  [kind : {"front_running"}, anchors : {anchors},
         tiers : {Tiers(s, anchors) : s \in Situations}, shared : {0, 1},
         outcome : {"TX_B_CONFIRMED", "TX1_WINS", "TX2_WINS", "BOTH_PENDING"},
         deltaMs : {0, 100, 5000}, wins : 0 .. 4, feeGap : {0, 3000}, ttlGap : {0, 500},
         sharesChange : BOOLEAN]

Leg(i, w, s, n) == [id |-> i, addr |-> w, script |-> (w = "pool"), slot |-> s, idx |-> 1,
                    net |-> n, hist |-> 1]
SandwichTxs ==
    LET anchors == [impact |-> MCSandwich.impact, profit |-> MCSandwich.profit,
                    recurrence |-> MCSandwich.recurrence]
        fronts == {Leg(1, w, s, n) : w \in {"a", "b", "pool", "none"}, s \in {7, 9},
                                     n \in {-1, 4}}
        backs == {Leg(3, w, s, n) : w \in {"a", "b"}, s \in {11, 15}, n \in {-1, 5}}
        middles == {{}, {Leg(2, "b", 10, 1), Leg(4, "b", 12, 1)}, {Leg(4, "b", 12, 2)}}
    IN  [kind : {"sandwich"}, anchors : {anchors},
         tiers : {Tiers(s, anchors) : s \in {"none", "wide"}}, slot : {0, 10}, idx : {2},
         addr : {"victim", "a"}, paysScript : BOOLEAN,
         neighbours : {{f, b} \cup m : f \in fronts, b \in backs, m \in middles}]

CircularTxs ==
    LET anchors == [recurrence |-> MCCircular.recurrence]
    IN  [kind : {"circular"}, anchors : {anchors},
         tiers : {Tiers(s, anchors) : s \in {"none", "wide", "usual"}}, length : {2, 3, 6},
         netLoss : {0, 13, 30}, amountSim : {60, 97, 100}, recurrence : {0, 1, 3, 5},
         entropy : {20, 90}, round : BOOLEAN, temporal : {20, 90}, hopSlots : {1, 1800}]

Datum(v, c, f, z, e, l) == [delivery |-> v, carried |-> c, form |-> f, size |-> z,
                            entropy |-> e, leaf |-> l]
NoDatum == Datum("none", FALSE, "bare", 0, 0, 0)
Datums ==
    {NoDatum} \cup {Datum(v, c, f, z, e, 0) : v \in {"inline", "hash"}, c \in BOOLEAN,
                    f \in {"hex", "badhex", "badcbor", "bare"}, z \in {5500, 7000, 14000},
                    e \in {20, 60}}
Holdings == {<< >>, (<<"known", "n1">> :> 15), (<<"old", "n1">> :> 5) @@ (<<"old", "n2">> :> 5),
             (<<"old", "n1">> :> 18) @@ (<<"new", "n1">> :> 0),
             (<<"old", "n1">> :> 5) @@ (<<"old", "n2">> :> 5) @@ (<<"new", "n1">> :> 5)}
Output(c, b, as, d) == [script |-> TRUE, cred |-> c, ada |-> 15, cbor |-> b, assets |-> as,
                        datum |-> d]
OutputTxs ==
    LET anchors == [digits |-> MCLargeValue.digits, bytes |-> MCLargeValue.bytes,
                    ada |-> MCLargeValue.ada, tokens |-> MCTokenDust.tokens,
                    datum |-> MCLargeDatum.bytes, value |-> MCLargeDatum.value]
        bundles == [kind : {"outputs"}, anchors : {anchors},
                    tiers : {Tiers(s, anchors) : s \in Situations},
                    outputs : {<<Output(c, b, as, NoDatum)>> :
                                  c \in {"listed", "c"}, b \in {100, 1500}, as \in Holdings},
                    lookupFails : BOOLEAN,
                    firstSeen : {("old" :> 1), ("old" :> 1) @@ ("new" :> 9), << >>},
                    slotKnown : BOOLEAN, slot : {10}, minted : {{}, {"new"}}]
        datums == [kind : {"outputs"}, anchors : {anchors},
                   tiers : {Tiers(s, anchors) : s \in {"none", "wide"}},
                   outputs : {<<Output(c, 100, << >>, d), Output("c", 100, << >>, e)>> :
                                 c \in {"listed", "c"}, d \in Datums,
                                 e \in {NoDatum, Datum("inline", FALSE, "hex", 7000, 60, 0)}},
                   lookupFails : {FALSE}, firstSeen : {<< >>}, slotKnown : {TRUE}, slot : {10},
                   minted : {{}}]
    IN  bundles \cup datums

Spent(n, dec, alw, as) ==
    [i \in 1 .. n |-> [script |-> TRUE, cred |-> "s", decoded |-> dec, allowed |-> alw,
                       ada |-> 2, assets |-> as]]
Returned(c, n, as) == [script |-> c = "s", cred |-> c, decoded |-> TRUE, allowed |-> FALSE,
                       ada |-> n, assets |-> as]
Two == (<<"p", "n1">> :> 1) @@ (<<"p", "n2">> :> 1)
MultipleSatTxs ==
    LET fields == {"netValue", "assetsOut", "exunits", "inputs", "recurrence"}
        anchors == [f \in fields |-> MCMultipleSat[f]]
        spend(p) == [shape |-> "v6", key |-> "", validator |-> "spend", inline |-> "",
                     payload |-> p]
    IN  [kind : {"multiple_sat"}, anchors : {anchors},
         tiers : {Tiers(s, anchors) : s \in Situations},
         inputs : {Spent(n, d, l, as) : n \in {1, 2, 4}, d \in BOOLEAN, l \in BOOLEAN,
                                        as \in {<< >>, (<<"p", "n1">> :> 1), Two}},
         outputs : {<<Returned(c, n, as)>> : c \in {"s", "w"}, n \in {0, 1, 4},
                                             as \in {<< >>, (<<"p", "n1">> :> 2)}},
         redeemers : {<<spend("d"), spend("d"), spend("d"), spend("d")>>,
                      <<spend("d"), spend("e")>>,
                      <<[shape |-> "v5", key |-> "mint", validator |-> "", inline |-> "",
                         payload |-> "d"]>>},
         cpu : {4, 400}, recurrence : {0, 60}]

Url(sch, suf, blk, sim) == [scheme |-> sch, len |-> 8, suffix |-> suf, prone |-> suf = "public",
                            black |-> blk, own |-> sim = 100, sim |-> sim]
Span(c, d, us, t1, ur, br) == [carrier |-> c, depth |-> d, len |-> 6, urls |-> us, tier1 |-> t1,
                               urgency |-> ur, brands |-> br, asset |-> "t1"]
PhishingTxs ==
    LET anchors == [recipients |-> MCPhishing.recipients]
        at == ({"label", "other", "asset"} \X {1, 4}) \cup ({"datum"} \X {4, 7})
        spans == {{Span(p[1], p[2], us, t1, ur, br)} : p \in at,
                    us \in {{}, {Url(TRUE, "none", FALSE, 0)}, {Url(FALSE, "public", TRUE, 90)},
                            {Url(FALSE, "none", FALSE, 90)}},
                    t1 \in BOOLEAN, ur \in {{}, {"now", "claim"}},
                    br \in {{}, {"ada"}}}
    IN  [kind : {"phishing"}, anchors : {anchors},
         tiers : {Tiers(s, anchors) : s \in {"none", "wide"}},
         spans : {{}} \cup spans,
         inputs : {<<[addr |-> a, resolved |-> r, valued |-> v, assets |-> {"t1"}]>> :
                      a \in {"team", "x"}, r \in BOOLEAN, v \in BOOLEAN},
         outputs : {<<[addr |-> a, assets |-> {"t1"}], [addr |-> "y", assets |-> as]>> :
                      a \in {"x", "z"}, as \in {{}, {"t1"}}},
         minted : {{}, {"t1"}}]

Name(n, x, y, ms) == [plain |-> [ada |-> x, snek |-> n], folded |-> [ada |-> y, snek |-> n],
                      marks |-> ms]
Names == {Name(60, 60, 98, {}), Name(90, 0, 0, {"homoglyph"}), Name(0, 0, 0, {}),
          Name(75, 85, 85, {"zero_width", "mixed"})}
Mint(p, q, h, c) == [policy |-> p, qty |-> q, hex |-> h, cip25 |-> c]
FakeTokenTxs ==
    LET anchors == [recipients |-> MCFakeToken.recipients, ratio |-> MCFakeToken.mintRatio]
        mints == {Mint(p, q, h, c) : p \in {"pa", "px"}, q \in {-5, 1000}, h \in Names,
                                     c \in {<< >>, <<Name(0, 0, 0, {})>>}}
    IN  [kind : {"fake_token"}, anchors : {anchors},
         tiers : {Tiers(s, anchors) : s \in {"none", "wide"}}, network : {"mainnet", "preprod"},
         mint : {<<m>> : m \in mints} \cup {<<m, Mint("px", 7, Name(90, 0, 0, {}), << >>)>> :
                                              m \in mints},
         cip25Text : {[ada |-> 0, snek |-> 0], [ada |-> 80, snek |-> 10]}, recipients : {1, 60}]

MCTransactions ==
    FrontRunningTxs \cup SandwichTxs \cup CircularTxs \cup OutputTxs \cup MultipleSatTxs
    \cup PhishingTxs \cup FakeTokenTxs
=============================================================================
