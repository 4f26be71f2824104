----------------------------- MODULE InputFlow -----------------------------
(***************************************************************************)
(* What a stored transaction says about the value it moved.  Ogmios names  *)
(* inputs as bare references; the parser (ingestion/ogmios_parser.py)      *)
(* records them with their flags, and ingestion/input_enrichment.py gives  *)
(* them amounts from the mempool-time ledger query, the other outputs of   *)
(* the same block and the outputs already in ClickHouse.  A transaction    *)
(* whose script fails consumes its collateral and creates only the         *)
(* collateral return.  Before scoring, analysis/enrichment.py patches the  *)
(* raw inputs once more.  An address is the reference it owns.             *)
(***************************************************************************)
EXTENDS Integers, Sequences, FiniteSets, SeqFilter

CONSTANTS
  Catalogue,     \* the transactions, each [ins, refs, cols, outs, ret, wd, script]
  GenesisOuts,   \* amounts of the outputs that exist at the start: references <<0, i>>
  GenesisStored, \* the indexes of those that were ingested
  MaxBlock       \* most transactions of a block

References == Nat \X Nat
\* The ledger's inputs, reference inputs and collateral inputs are sets.
InputLists == {s \in Seq(References) : \A i, j \in DOMAIN s : s[i] = s[j] => i = j}
CatalogueEntries == [ins : InputLists, refs : InputLists, cols : InputLists,
                     outs : Seq(Nat \ {0}), ret : Nat, wd : Nat, script : BOOLEAN]

ASSUME InputFlowAssumption ==
  /\ MaxBlock \in Nat \ {0}
  /\ GenesisOuts \in Seq(Nat \ {0}) /\ GenesisStored \subseteq 0 .. Len(GenesisOuts) - 1
  /\ Catalogue \in Seq(CatalogueEntries)

VARIABLES
  utxo,       \* the ledger: live references to their amounts
  prefetched, \* _pending_input_cache: for a mempool transaction, reference to amount
  outputs,    \* transaction_outputs: reference to amount
  recorded    \* the stored transactions

flowVars == <<utxo, prefetched, outputs, recorded>>

FlowTx == DOMAIN Catalogue
NoAmounts == [r \in {} |-> 0]
\* The ledger numbers outputs from 0.
RefsOf(t, n) == {<<t, i>> : i \in 0 .. n - 1}
GenesisAmounts(S) == [r \in {<<0, i>> : i \in S} |-> GenesisOuts[r[2] + 1]]
Only(f, S) == [r \in DOMAIN f \cap S |-> f[r]]
Without(f, S) == [r \in DOMAIN f \ S |-> f[r]]
Over(f, g) == [r \in DOMAIN f \cup DOMAIN g |-> IF r \in DOMAIN f THEN f[r] ELSE g[r]]
Elements(s) == {s[i] : i \in DOMAIN s}

(***************************************************************************)
(* The ledger's rules (external): what a transaction consumes and creates. *)
(***************************************************************************)
LedgerConsumes(t, valid) == Elements(IF valid THEN Catalogue[t].ins ELSE Catalogue[t].cols)
LedgerCreates(t, valid) ==
  LET c == Catalogue[t] IN
  IF valid THEN [r \in RefsOf(t, Len(c.outs)) |-> c.outs[r[2] + 1]]
  ELSE IF c.ret > 0 THEN [r \in {<<t, Len(c.outs)>>} |-> c.ret] ELSE NoAmounts
LedgerAdmits(t, valid, live) ==
  LET c == Catalogue[t] IN
  /\ Elements(c.ins) \cup Elements(c.cols) \cup Elements(c.refs) \subseteq DOMAIN live
  /\ ~valid => c.script
\* The ledger after the first n transactions of a block: an output is made once.
Position(ts, t) == CHOOSE j \in DOMAIN ts : ts[j] = t
LedgerCreated(ts, vs, n) ==
  [r \in UNION {DOMAIN LedgerCreates(ts[j], vs[j]) : j \in 1 .. n} |->
     LedgerCreates(r[1], vs[Position(ts, r[1])])[r]]
LedgerAfter(ts, vs, n) ==
  Without(Over(LedgerCreated(ts, vs, n), utxo),
          UNION {LedgerConsumes(ts[j], vs[j]) : j \in 1 .. n})

(***************************************************************************)
(* The parser.                                                             *)
(***************************************************************************)
RawInputs(t, valid) ==
  LET c == Catalogue[t]
      As(s, kind) == [i \in DOMAIN s |-> [ref |-> s[i], kind |-> kind, amount |-> 0]]
  IN As(c.ins, IF valid THEN "spent" ELSE "attempt")
       \o As(c.refs, "reference") \o As(c.cols, "collateral")

ReturnIndex(t) == Len(Catalogue[t].outs)

ParsedOutputs(t, valid) ==
  LET c == Catalogue[t] IN
  IF valid THEN [r \in RefsOf(t, Len(c.outs)) |-> c.outs[r[2] + 1]]
  ELSE IF c.ret > 0 THEN [r \in {<<t, ReturnIndex(t)>>} |-> c.ret] ELSE NoAmounts

\* broken: a failed script consumes its regular inputs
ConsumedByLedgerRegular(inp, valid) == inp.kind \in {"spent", "attempt"}
ConsumedByLedger(inp, valid) ==
  IF valid THEN inp.kind = "spent" ELSE inp.kind = "collateral"

Unpriced == -1   \* total_input_value NULL

Parsed(t, valid) ==
  LET ins == RawInputs(t, valid) IN
  [valid |-> valid, inputs |-> ins, outputs |-> ParsedOutputs(t, valid),
   count |-> Cardinality({i \in DOMAIN ins : ConsumedByLedger(ins[i], valid)}),
   withdrawn |-> Catalogue[t].wd, total |-> Unpriced, parties |-> {}]

(***************************************************************************)
(* Pricing the inputs.                                                     *)
(***************************************************************************)
WithdrawalTotal(x) == IF x.valid THEN x.withdrawn ELSE 0

\* _resolve_tx_inputs: an amount already known is kept, a reference input is
\* never priced.
Priced(inp, lookup) ==
  IF inp.kind # "reference" /\ inp.amount = 0 /\ inp.ref \in DOMAIN lookup
  THEN [inp EXCEPT !.amount = lookup[inp.ref]] ELSE inp
PricedInputs(x, lookup) == [i \in DOMAIN x.inputs |-> Priced(x.inputs[i], lookup)]

PricedTotal(x, ins) ==
  LET counted == [i \in DOMAIN ins |->
                    IF ConsumedByLedger(ins[i], x.valid) THEN ins[i].amount ELSE 0]
  IN WithdrawalTotal(x) + SumOf(counted)

FlowAddresses(x, ins) ==
  {ins[i].ref : i \in {j \in DOMAIN ins :
      /\ ins[j].amount > 0 /\ ins[j].kind # "reference"
      /\ ins[j].kind = "collateral" => ~x.valid}}

Repriced(x, ins) ==
  LET total == PricedTotal(x, ins) IN
  [x EXCEPT !.inputs = ins, !.total = IF total > 0 THEN total ELSE Unpriced,
            !.parties = @ \cup FlowAddresses(x, ins)]

ApplyResolvedInputs(x, lookup) == Repriced(x, PricedInputs(x, lookup))

\* The mempool cache of a transaction is applied as its block is parsed.
Prepared(t, valid) ==
  LET x == Parsed(t, valid) IN
  IF prefetched[t] = NoAmounts THEN x ELSE ApplyResolvedInputs(x, prefetched[t])

\* Only unpriced inputs the flow needs are looked up beyond the block.
WantsLookup(x, inp) ==
  inp.kind # "reference" /\ inp.amount = 0 /\ (inp.kind = "collateral" => ~x.valid)

IntraBlock(block) ==
  LET outs == {block[i].outputs : i \in DOMAIN block}
      refs == UNION {DOMAIN o : o \in outs}
  IN [r \in refs |-> (CHOOSE o \in outs : r \in DOMAIN o)[r]]

CrossBlockRefs(block) ==
  LET Wanted(x) == {inp.ref : inp \in {y \in Elements(x.inputs) : WantsLookup(x, y)}}
  IN (UNION {Wanted(block[i]) : i \in DOMAIN block}) \ DOMAIN IntraBlock(block)

BlockLookup(block) == Over(IntraBlock(block), Only(outputs, CrossBlockRefs(block)))

\* A transaction is priced again where the lookup adds to it, or a withdrawal does.
Resolved(x, lookup) ==
  LET ins == PricedInputs(x, lookup) IN
  IF ins # x.inputs \/ WithdrawalTotal(x) > 0 THEN Repriced(x, ins) ELSE x

ResolveInputAmounts(block) == [i \in DOMAIN block |-> Resolved(block[i], BlockLookup(block))]

(***************************************************************************)
(* Steps.                                                                  *)
(***************************************************************************)
OnChain(t) == recorded[t].at # 0

\* The node holds the transaction in its mempool and the monitor asks for its
\* regular inputs; inputs made by other mempool transactions are not live yet.
MempoolResolves(t) ==
  /\ ~OnChain(t) /\ prefetched[t] = NoAmounts
  /\ LET found == Only(utxo, Elements(Catalogue[t].ins)) IN
     found # NoAmounts /\ prefetched' = [prefetched EXCEPT ![t] = found]
  /\ UNCHANGED <<utxo, outputs, recorded>>

\* A block: the ledger applies it in order, the handler stores it at once, as it was
\* parsed when the lookup raises.
Ingested(ts, vs, resolves) ==
  LET parsed == [i \in DOMAIN ts |-> Prepared(ts[i], vs[i])]
      block == IF resolves THEN ResolveInputAmounts(parsed) ELSE parsed
      Stored(t) ==
        LET i == Position(ts, t) IN
        [at |-> 1, row |-> block[i], priced |-> resolves \/ prefetched[t] # NoAmounts,
         known |-> DOMAIN prefetched[t]
                     \cup (IF resolves THEN DOMAIN outputs \cup DOMAIN IntraBlock(block) ELSE {}),
         spent |-> Only(LedgerAfter(ts, vs, i - 1), LedgerConsumes(t, vs[i]))]
  IN /\ \A i \in DOMAIN ts : LedgerAdmits(ts[i], vs[i], LedgerAfter(ts, vs, i - 1))
     /\ ~resolves => CrossBlockRefs(parsed) # {}
     /\ utxo' = LedgerAfter(ts, vs, Len(ts))
     /\ recorded' = [t \in FlowTx |-> IF t \in Elements(ts) THEN Stored(t) ELSE recorded[t]]
     /\ outputs' = Over(IntraBlock(block), outputs)
     /\ prefetched' = [t \in FlowTx |-> IF t \in Elements(ts) THEN NoAmounts ELSE prefetched[t]]

RollForwardBlock ==
  \E n \in 1 .. MaxBlock : \E ts \in [1 .. n -> FlowTx] :
    /\ \A i \in 1 .. n : ~OnChain(ts[i])
    /\ \A i, j \in 1 .. n : ts[i] = ts[j] => i = j
    /\ \E vs \in [1 .. n -> BOOLEAN], resolves \in BOOLEAN : Ingested(ts, vs, resolves)

FlowInit(on) ==
  /\ utxo = IF on THEN GenesisAmounts(0 .. Len(GenesisOuts) - 1) ELSE NoAmounts
  /\ prefetched = [t \in FlowTx |-> NoAmounts]
  /\ outputs = IF on THEN GenesisAmounts(GenesisStored) ELSE NoAmounts
  /\ recorded = [t \in FlowTx |-> [at |-> 0]]

FlowNext == RollForwardBlock \/ \E t \in FlowTx : MempoolResolves(t)
FlowSpec == FlowInit(TRUE) /\ [][FlowNext]_flowVars

\* enrich_inputs_with_resolved_addresses: the value of a raw input is read from
\* the raw outputs of the transaction it names, when that one is stored.  An input
\* past the cap of the lookup stays without a value; its address, which the same loop
\* takes from the recorded row, is left out.
PatchedValue(r) ==
  IF r[1] # 0 /\ OnChain(r[1]) /\ r[2] + 1 \in DOMAIN Catalogue[r[1]].outs
  THEN Catalogue[r[1]].outs[r[2] + 1] ELSE Unpriced

(***************************************************************************)
(* What must hold.                                                         *)
(***************************************************************************)
FlowTypeOK ==
  /\ \A r \in DOMAIN utxo : utxo[r] > 0
  /\ \A t \in FlowTx : OnChain(t) => recorded[t].row.total \in Nat \cup {Unpriced}

\* The stored input value is what the ledger took from the inputs the system
\* could know, plus a withdrawal that was applied: complete when every consumed
\* output was ingested, in the block or in the mempool query, never more.  Where
\* the lookup raised, the mempool query is all that was known, and without it the
\* value stays open.
InputValueExact ==
  \A t \in FlowTx : OnChain(t) =>
    LET s == recorded[t]
        taken == IF s.row.valid THEN Catalogue[t].ins ELSE Catalogue[t].cols
        seen == [i \in DOMAIN taken |-> IF taken[i] \in s.known THEN s.spent[taken[i]] ELSE 0]
        value == SumOf(seen) + IF s.priced THEN WithdrawalTotal(s.row) ELSE 0
    IN /\ s.row.total = IF value > 0 THEN value ELSE Unpriced
       /\ s.row.count = Cardinality(DOMAIN s.spent)

\* Every live output the warehouse knows has the ledger's amount under the
\* ledger's index, so a later spend of it resolves: outputs of failed
\* transactions included.
LiveOutputsKnown ==
  \A r \in DOMAIN utxo :
    /\ r \in DOMAIN outputs => outputs[r] = utxo[r]
    /\ r[1] # 0 => r \in DOMAIN outputs

\* Who paid is always among a transaction's addresses, who was only read never.
PayersListed ==
  \A t \in FlowTx : OnChain(t) =>
    LET s == recorded[t] IN
    /\ DOMAIN s.spent \cap s.known \subseteq s.row.parties
    /\ s.row.parties \cap (Elements(Catalogue[t].refs)
                            \ (Elements(Catalogue[t].ins) \cup Elements(Catalogue[t].cols))) = {}

\* The scorers read the true value of an input or none.
PatchedValueTrue ==
  \A t \in FlowTx : OnChain(t) =>
    \A r \in DOMAIN recorded[t].spent : PatchedValue(r) \in {Unpriced, recorded[t].spent[r]}

\* What is stored of a transaction is what the ledger did with it: the value it
\* moved, the outputs it left, who paid, and the values patched in for scoring.
ValueFlowTrue ==
  /\ FlowTypeOK
  /\ InputValueExact /\ LiveOutputsKnown /\ PayersListed /\ PatchedValueTrue
=============================================================================
