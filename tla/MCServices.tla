----------------------------- MODULE MCServices -----------------------------
(***************************************************************************)
(* The components that do not share state at this level of detail, checked *)
(* side by side: in a behaviour one part runs and the others are off, so   *)
(* that the states add up instead of multiplying.                          *)
(***************************************************************************)
EXTENDS Auth, RateLimiter, CycleSearch, HistoryWalk, InputFlow, Publish, Baselines,
        Reports, DetectionConfig, MCScoring

\* CycleSearch: transactions around a ring of three hops.
Pay(a, n) == [addr |-> a, amt |-> n]
MCPool == <<[spends |-> {1, 2}, pays |-> <<Pay(3, 10), Pay(1, 4)>>, slot |-> 1],
            [spends |-> {3}, pays |-> <<Pay(4, 6), Pay(5, 3)>>, slot |-> 2],
            [spends |-> {4, 5}, pays |-> <<Pay(2, 1), Pay(1, 5), Pay(1, 2), Pay(2, 9)>>, slot |-> 3],
            [spends |-> {3}, pays |-> <<Pay(5, 9), Pay(6, 1)>>, slot |-> 3],
            [spends |-> {5}, pays |-> <<Pay(4, 8), Pay(3, 1)>>, slot |-> 3],
            [spends |-> {6}, pays |-> <<Pay(5, 1), Pay(1, 9)>>, slot |-> 9],
            [spends |-> {3}, pays |-> <<Pay(1, 9)>>, slot |-> 4],
            [spends |-> {5}, pays |-> <<Pay(2, 7)>>, slot |-> 4]>>
MCMissing == {{}, {<<2, 3>>}, {<<3, 4>>, <<3, 5>>}}

\* HistoryWalk: the block of each transaction, the slot of each block.
MCHeight == <<1, 1, 3, 5, 6, 9, 10>>
MCSlotOf == <<1, 2, 3, 4, 8, 12, 13, 14, 15, 16>>

\* InputFlow: a chain of spends with a failed script, a missing index, two
\* collateral returns.
T(ins, rf, cols, outs, ret, wd, script) ==
  [ins |-> ins, refs |-> rf, cols |-> cols, outs |-> outs, ret |-> ret, wd |-> wd,
   script |-> script]
MCCatalogue == <<
  T(<< <<0,0>> >>, <<>>, <<>>, <<3, 4>>, 0, 0, FALSE),
  T(<< <<1,0>> >>, << <<0,2>> >>, << <<0,1>> >>, <<5, 6>>, 2, 3, TRUE),
  T(<< <<2,2>>, <<0,2>> >>, <<>>, <<>>, <<1, 2>>, 0, 0, FALSE),
  T(<< <<2,1>>, <<1,1>> >>, <<>>, << <<0,2>> >>, <<7>>, 1, 0, TRUE),
  T(<< <<0,3>> >>, << <<0,2>> >>, << <<1,1>> >>, <<4>>, 0, 5, TRUE),
  T(<< <<5,0>>, <<4,1>> >>, <<>>, <<>>, <<2>>, 0, 0, FALSE) >>
MCGenesisOuts == <<9, 8, 7, 6>>

\* Baselines
MCReadings == {[p50 |-> a, p99 |-> b] : <<a, b>> \in {<<1, 3>>, <<2, 4>>, <<2, 7>>}}

\* DetectionConfig: the leaves of the shipped document.
MCLeaves ==
  {<<<<"scorers", "multiple_sat", "weights", "inputs">>, 16>>,
   <<<<"scorers", "multiple_sat", "lazy_validator_floor">>, 60>>,
   <<<<"scorers", "multiple_sat", "allowlist_prefixes", "mainnet">>, 1>>,
   <<<<"scorers", "front_running", "weights", "delta">>, 30>>,
   <<<<"scorers", "front_running", "fixed_anchors", "fee_delta", "p50">>, 5>>,
   <<<<"scorers", "front_running", "fixed_anchors", "fee_delta", "p99">>, 50>>,
   <<<<"scorers", "front_running", "high_band_cap">>, 79>>,
   <<<<"scorers", "front_running", "reason_thresholds", "delta">>, 50>>,
   <<<<"scorers", "circular", "weights", "amount">>, 30>>,
   <<<<"scorers", "circular", "moderate_cap">>, 59>>,
   <<<<"scorers", "circular", "cycle", "closing_subset_max_outputs">>, 16>>,
   <<<<"contract_anomaly", "verdict_floors", "malicious">>, 80>>,
   <<<<"contract_anomaly", "anomaly_consensus_scale">>, 59>>}
MCShipped ==
  LET leaves == {l[1] : l \in MCLeaves}
  IN [p \in UNION {Prefixes(l) : l \in leaves} |->
        IF p \in leaves THEN (CHOOSE l \in MCLeaves : l[1] = p)[2] ELSE Block]

VARIABLE part   \* the one that runs

allVars == <<part, authVars, rateVars, cycleVars, historyVars, flowVars,
              publishVars, baselineVars, reportVars,
              configVars, verdictVars>>

Init ==
  /\ part \in {"auth", "rate", "cycle", "history", "flow", "publish", "baselines",
               "reports", "config", "verdict"}
  /\ AuthInit(part = "auth")
  /\ RateInit(part = "rate")
  /\ CycleInit(part = "cycle")
  /\ HistoryInit(part = "history")
  /\ FlowInit(part = "flow")
  /\ PublishInit(part = "publish")
  /\ BaselinesInit(part = "baselines")
  /\ ReportsInit(part = "reports")
  /\ ConfigInit(part = "config")
  /\ VerdictInit(part = "verdict")

Next ==
  \/ /\ part = "auth" /\ AuthNext
     /\ UNCHANGED <<part, rateVars, cycleVars, historyVars, flowVars,
                    publishVars, baselineVars, reportVars,
                    configVars, verdictVars>>
  \/ /\ part = "rate" /\ RateNext
     /\ UNCHANGED <<part, authVars, cycleVars, historyVars, flowVars,
                    publishVars, baselineVars, reportVars,
                    configVars, verdictVars>>
  \/ /\ part = "cycle" /\ CycleNext
     /\ UNCHANGED <<part, authVars, rateVars, historyVars, flowVars,
                    publishVars, baselineVars, reportVars,
                    configVars, verdictVars>>
  \/ /\ part = "history" /\ HistoryNext
     /\ UNCHANGED <<part, authVars, rateVars, cycleVars, flowVars,
                    publishVars, baselineVars, reportVars,
                    configVars, verdictVars>>
  \/ /\ part = "flow" /\ FlowNext
     /\ UNCHANGED <<part, authVars, rateVars, cycleVars, historyVars,
                    publishVars, baselineVars, reportVars,
                    configVars, verdictVars>>
  \/ /\ part = "publish" /\ PublishNext
     /\ UNCHANGED <<part, authVars, rateVars, cycleVars, historyVars,
                    flowVars, baselineVars, reportVars,
                    configVars, verdictVars>>
  \/ /\ part = "baselines" /\ BaselinesNext
     /\ UNCHANGED <<part, authVars, rateVars, cycleVars, historyVars,
                    flowVars, publishVars, reportVars,
                    configVars, verdictVars>>
  \/ /\ part = "reports" /\ ReportsNext
     /\ UNCHANGED <<part, authVars, rateVars, cycleVars, historyVars,
                    flowVars, publishVars, baselineVars,
                    configVars, verdictVars>>
  \/ /\ part = "config" /\ ConfigNext
     /\ UNCHANGED <<part, authVars, rateVars, cycleVars, historyVars,
                    flowVars, publishVars, baselineVars,
                    reportVars, verdictVars>>
  \/ /\ part = "verdict" /\ VerdictNext
     /\ UNCHANGED <<part, authVars, rateVars, cycleVars, historyVars,
                    flowVars, publishVars, baselineVars,
                    reportVars, configVars>>

Spec == Init /\ [][Next]_allVars
=============================================================================
