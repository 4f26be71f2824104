---------------------------- MODULE CycleSearch ----------------------------
(***************************************************************************)
(* detect_cycle of analysis/graph.py: a bounded breadth-first search for   *)
(* value that returns to the sender, one warehouse query per hop, while    *)
(* the chain-sync client goes on inserting transactions.                   *)
(*                                                                         *)
(* Pool gives every transaction the addresses it spends from, the outputs  *)
(* it pays (a sequence of [addr, amt]) and its slot.  Addresses and        *)
(* transactions are numbers, whose order is the code's sorting order.      *)
(* address_transactions, the index every hop query is narrowed by, may     *)
(* lack rows: unindexed holds the missing <<transaction, address>> pairs.  *)
(***************************************************************************)
EXTENDS Integers, Sequences, FiniteSets, SeqFilter

LOCAL INSTANCE SequencesExt
LOCAL INSTANCE FiniteSetsExt

CONSTANTS Pool, Origin, MaxHops, MaxFanout, MaxOutputFanout, RowLimit, MaxAge,
          MinCycle, MaxCycle, SubsetMax,
          MissingIndex,  \* sets of index rows that may be missing
          MaxArrivals    \* bound: transactions inserted during a search

ASSUME CycleAssumption ==
    /\ Pool \in Seq([spends : SUBSET Nat, pays : Seq([addr : Nat, amt : Nat]), slot : Int])
    /\ Origin \in DOMAIN Pool
    /\ {MaxHops, MaxFanout, MaxOutputFanout, RowLimit} \subseteq Nat \ {0}
    /\ MinCycle \in Nat \ {0} /\ {MaxCycle, SubsetMax, MaxArrivals} \subseteq Nat

VARIABLES ledger,      \* transactions the warehouse holds
          unindexed,   \* index rows that are missing
          search       \* the state of the one search

cycleVars == <<ledger, unindexed, search>>

Txs == DOMAIN Pool
Paid(t) == {Pool[t].pays[i].addr : i \in DOMAIN Pool[t].pays}
Touched(t) == Pool[t].spends \cup Paid(t)
AmountTo(t, a) ==
    MapThenSumSet(LAMBDA i : Pool[t].pays[i].amt,
                  {i \in DOMAIN Pool[t].pays : Pool[t].pays[i].addr = a})
Senders == Pool[Origin].spends
Recipients == Paid(Origin) \ Senders
OriginAmount == MapThenSumSet(LAMBDA a : AmountTo(Origin, a), Recipients)

(* A missing slot is read as 0. *)
OriginSlot == IF Pool[Origin].slot < 0 THEN 0 ELSE Pool[Origin].slot
InWindow(t) == Pool[t].slot \in OriginSlot .. OriginSlot + MaxAge

-----------------------------------------------------------------------------
(* _HOP_QUERY: what each spend from the addresses paid each address,       *)
(* oldest first, cut at the row limit.  A transaction is seen only if the  *)
(* index has a row of it under one of the addresses.                       *)
Spends(t, addrs) ==
    /\ t # Origin
    /\ InWindow(t)
    /\ Pool[t].spends \cap addrs # {}
Indexed(t, addrs) == \E a \in Touched(t) \cap addrs : <<t, a>> \notin unindexed
RowOrder(r, s) ==
    \/ r.slot < s.slot
    \/ r.slot = s.slot /\ r.tx < s.tx
    \/ r.slot = s.slot /\ r.tx = s.tx /\ r.addr < s.addr
HopRow(t, a) == [tx |-> t, addr |-> a, paid |-> AmountTo(t, a), slot |-> Pool[t].slot]
RowsOf(t) == {HopRow(t, a) : a \in Paid(t)}
AllRows(addrs) == UNION {RowsOf(t) : t \in {u \in ledger : Spends(u, addrs) /\ Indexed(u, addrs)}}
Ahead(rows, r) == {q \in rows : RowOrder(q, r)}
HopRows(addrs) == {r \in AllRows(addrs) : Cardinality(Ahead(AllRows(addrs), r)) < RowLimit}
First(rows) == CHOOSE r \in rows : Ahead(rows, r) = {}
Paying(rows, addrs) == {r \in rows : r.addr \in addrs}

(* The addresses sorted(frontier) lists before a. *)
SortedBefore(addrs, a) == {b \in addrs : b < a}

(* Broken Asked: one address too few. *)
AskedTooFew(addrs) == {a \in addrs : Cardinality(SortedBefore(addrs, a)) < MaxFanout - 1}

(* The frontier that is really asked: the first MaxFanout, sorted. *)
Asked(addrs) == {a \in addrs : Cardinality(SortedBefore(addrs, a)) < MaxFanout}

(* address_index_gaps: spends in the warehouse the index lacks. *)
IndexGaps ==
    {g \in unindexed : g[1] \in ledger /\ g[2] \in Pool[g[1]].spends}

-----------------------------------------------------------------------------
(* _amount_similarity is 1 - CV, at least 0.  Two readings are compared by *)
(* the square of their CV, a fraction.                                     *)
SumSquares(h) == SumOf([i \in DOMAIN h |-> h[i] * h[i]])
CvNum(h) == Len(h) * (Len(h) * SumSquares(h) - SumOf(h) * SumOf(h))
CvDen(h) == (Len(h) - 1) * SumOf(h) * SumOf(h)
AsSimilar(h, g) ==
    \/ CvNum(g) >= CvDen(g)
    \/ CvNum(h) * CvDen(g) <= CvNum(g) * CvDen(h)

(* _subset_sums and _nearest_subset_sums, meeting in the middle.  target   *)
(* is the fraction num/den.                                                *)
SubsetSums(xs) == FoldSeq(LAMBDA x, sums : sums \cup {s + x : s \in sums}, {0}, xs)
NearestSubsetSums(xs, num, den) ==
    LET half == Len(xs) \div 2
        left == SubsetSums(SubSeq(xs, 1, half))
        right == SubsetSums(SubSeq(xs, half + 1, Len(xs)))
        sums == {p[1] + p[2] : p \in left \X right} \ {0}
        below == {s \in sums : s * den <= num}
        above == {s \in sums : s * den >= num}
    IN  (IF below = {} THEN {} ELSE {Max(below)}) \cup (IF above = {} THEN {} ELSE {Min(above)})

(* Where the similarity peaks, over the other hops. *)
ClosingPeak(prior) == [num |-> SumSquares(prior), den |-> SumOf(prior)]

(* Python's round: a half goes to the even neighbour. *)
Rounded(num, den) ==
    LET half == 2 * (num % den) IN
    (num \div den) + IF half > den \/ (half = den /\ (num \div den) % 2 = 1) THEN 1 ELSE 0

(* _closing_reading: the candidate that fits the other hops best. *)
ClosingReading(xs, matched, total, prior) ==
    LET peak == ClosingPeak(prior)
        near == IF SumOf(prior) = 0 \/ xs = << >> THEN {}
                ELSE IF Len(xs) <= SubsetMax THEN NearestSubsetSums(xs, peak.num, peak.den)
                ELSE {Min({total, Max({Rounded(peak.num, peak.den), Min(Range(xs))})})}
        fits == {c \in {total, matched} \cup near :
                    \A d \in {total, matched} \cup near :
                        AsSimilar(Append(prior, c), Append(prior, d))}
    IN  IF total \in fits THEN total
        ELSE IF matched \in fits THEN matched ELSE Min(fits)

(* _closing_leg_amounts: skipped for a length the gate never scores; a     *)
(* failed read measures the cycle by the matched row.                      *)
Scorable(length) == length \in MinCycle .. MaxCycle
ToOrigin(t) ==
    LET idx == SetToSortSeq({i \in DOMAIN Pool[t].pays : Pool[t].pays[i].addr \in Senders}, <)
    IN  [k \in DOMAIN idx |-> Pool[t].pays[idx[k]].amt]
ClosingLeg(row, length, prior, fails) ==
    IF fails \/ ~Scorable(length)
    THEN [returned |-> row.paid, reading |-> row.paid, unavailable |-> fails /\ Scorable(length)]
    ELSE LET total == Max({SumOf(ToOrigin(row.tx)), row.paid})
         IN  [returned |-> total, unavailable |-> FALSE,
              reading |-> ClosingReading(ToOrigin(row.tx), row.paid, total, prior)]

-----------------------------------------------------------------------------
(* _ring_path: backwards from the closing transaction, the frontier        *)
(* addresses that spent into it, then the transactions that first paid     *)
(* those.                                                                  *)
Spenders(txs, frontier) == {a \in frontier : \E t \in txs : a \in Pool[t].spends}
RingLevels(closing, queried, creator) ==
    LET level[k \in 0 .. Len(queried)] ==
            IF k = 0 THEN [txs |-> {closing}, path |-> {}]
            ELSE LET spenders == Spenders(level[k - 1].txs, queried[Len(queried) + 1 - k])
                 IN  [txs |-> {creator[a] : a \in spenders} \ {Origin},
                      path |-> level[k - 1].path \cup spenders]
    IN  level
RingPath(closing, queried, creator) == RingLevels(closing, queried, creator)[Len(queried)].path

(* _cycle_history: the representatives stand in for a path that was not    *)
(* read.                                                                   *)
Intermediaries(row, length, s, fails) ==
    LET path == RingPath(row.tx, s.queried, s.creator)
    IN  IF fails \/ ~Scorable(length) \/ path = {} THEN Range(Tail(s.reps)) ELSE path

-----------------------------------------------------------------------------
NoCycle == [length |-> 0]
Searching == search.at = "hop"

CycleInit(on) ==
    /\ ledger \in IF on THEN {L \in SUBSET Txs : Origin \in L} ELSE {{}}
    /\ unindexed \in IF on THEN MissingIndex ELSE {{}}
    /\ search = [at |-> IF on THEN "start" ELSE "off", base |-> {}, frontier |-> {},
                 visited |-> {}, queried |-> << >>, creator |-> << >>,
                 reps |-> << >>, amounts |-> << >>, cut |-> FALSE,
                 found |-> NoCycle]

(* Steps 1 and 2 of detect_cycle: who sent, who received, and the          *)
(* pre-filter on the number of recipients.                                 *)
StartSearch ==
    /\ search.at = "start"
    /\ LET skip == Senders = {} \/ Recipients = {} \/ Cardinality(Recipients) > MaxOutputFanout
       IN  search' = [search EXCEPT
               !.at = IF skip THEN "done" ELSE "hop",
               !.base = ledger,
               !.frontier = Recipients,
               !.visited = Senders \cup Recipients,
               !.creator = [a \in Recipients |-> Origin],
               !.reps = <<Min(Senders)>>,
               !.amounts = <<OriginAmount>>,
               !.cut = Cardinality(Recipients) > MaxOutputFanout]
    /\ UNCHANGED <<ledger, unindexed>>

(* The addresses a hop reaches for the first time. *)
NewAddresses(rows) == {r.addr : r \in rows} \ search.visited

(* A hop whose rows pay nobody of the origin: the next frontier. *)
NextFrontier(rows) ==
    LET new == NewAddresses(rows)
        first(a) == First(Paying(rows, {a})).tx
        moved == MapThenSumSet(LAMBDA r : r.paid, Paying(rows, new))
    IN  [search EXCEPT
            !.at = IF new = {} \/ Len(search.queried) + 1 >= MaxHops THEN "done" ELSE "hop",
            !.frontier = new,
            !.visited = @ \cup new,
            !.queried = Append(@, Asked(search.frontier)),
            !.creator = [a \in DOMAIN @ \cup new |-> IF a \in DOMAIN @ THEN @[a] ELSE first(a)],
            !.reps = Append(@, Min(search.frontier)),
            !.amounts = Append(@, moved),
            !.cut = @ \/ Cardinality(search.frontier) > MaxFanout
                      \/ Cardinality(AllRows(Asked(search.frontier))) > RowLimit]

(* The cycle closes at the first row that pays the origin. *)
Closes(rows, legFails, historyFails) ==
    LET row == First(Paying(rows, Senders))
        asked == [search EXCEPT !.queried = Append(@, Asked(search.frontier))]
        length == Len(asked.queried) + 1
        leg == ClosingLeg(row, length, search.amounts, legFails)
    IN  [asked EXCEPT
            !.at = "done",
            !.amounts = Append(@, leg.reading),
            !.found = [length |-> length, closing |-> row.tx, matched |-> row.paid,
                       returned |-> leg.returned,
                       netLoss |-> Max({0, OriginAmount - leg.returned}),
                       path |-> Intermediaries(row, length, asked, historyFails),
                       unavailable |-> leg.unavailable \/ (historyFails /\ Scorable(length))]]

(* One iteration of the loop: query the frontier, close or go on. *)
Hop ==
    /\ Searching
    /\ LET rows == HopRows(Asked(search.frontier))
           paysOrigin == Paying(rows, Senders) # {}
       IN  \/ /\ rows = {}
              /\ search' = [search EXCEPT !.at = "done",
                                          !.cut = @ \/ Cardinality(search.frontier) > MaxFanout]
           \/ /\ rows # {} /\ ~paysOrigin
              /\ search' = NextFrontier(rows)
           \/ /\ paysOrigin
              /\ \E legFails, historyFails \in BOOLEAN :
                    search' = Closes(rows, legFails, historyFails)
    /\ UNCHANGED <<ledger, unindexed>>

(* The chain-sync client inserts a transaction between two queries. *)
ArriveTx(t) ==
    /\ Searching
    /\ t \in Txs \ ledger
    /\ Cardinality(ledger \ search.base) < MaxArrivals
    /\ ledger' = ledger \cup {t}
    /\ UNCHANGED <<unindexed, search>>

CycleNext == StartSearch \/ Hop \/ \E t \in Txs : ArriveTx(t)
CycleSpec == CycleInit(TRUE) /\ [][CycleNext]_cycleVars

-----------------------------------------------------------------------------
(* Addresses the origin's value reaches in k hops through the transactions *)
(* of L: the definition the search is checked against.                     *)
PaidFrom(L, S) == UNION {Paid(t) : t \in {u \in L : Spends(u, S)}}
ReachedUpTo(L, k) ==
    LET r[i \in 0 .. k] == IF i = 0 THEN Recipients ELSE r[i - 1] \cup PaidFrom(L, r[i - 1])
    IN  r
ReachedIn(L, k) == ReachedUpTo(L, k)[k]
ClosesBy(L, k) == \E t \in L : Spends(t, ReachedIn(L, k) \ Senders) /\ Paid(t) \cap Senders # {}

(* A reported cycle is a walk of value through transactions of the         *)
(* warehouse back to the sender; and a search that nothing cut short, over *)
(* an index address_index_gaps reports complete, misses no cycle that was  *)
(* there when it started (_HOP_QUERY, detect_cycle).                       *)
CycleVerdictRight ==
    search.at = "done" =>
        /\ search.found.length > 0 =>
              /\ Paid(search.found.closing) \cap Senders # {}
              /\ Spends(search.found.closing, ReachedIn(ledger, search.found.length - 2))
        /\ search.found.length = 0 /\ ~search.cut /\ IndexGaps = {} =>
              ~ClosesBy(search.base, MaxHops - 1)

(* The path stored with a cycle, which later cycles of the origin are      *)
(* compared with, passes every hop of the search: no level of the walk is  *)
(* missing (_ring_path).                                                   *)
RingPathWhole ==
    (search.at = "done" /\ Scorable(search.found.length) /\ ~search.found.unavailable) =>
        \A k \in DOMAIN search.queried : search.found.path \cap search.queried[k] # {}

(* The closing leg is read so that no part of what it paid the sender fits *)
(* the ring better: change beside the repayment, or a repayment split over *)
(* outputs, never hides a ring (_closing_reading).                         *)
ClosingReadingBest ==
    (search.at = "done" /\ Scorable(search.found.length) /\ ~search.found.unavailable) =>
        LET xs == ToOrigin(search.found.closing)
            prior == Front(search.amounts)
        IN  /\ AsSimilar(search.amounts, Append(prior, search.found.matched))
            /\ AsSimilar(search.amounts, Append(prior, search.found.returned))
            /\ Len(xs) <= SubsetMax =>
                  \A S \in SUBSET DOMAIN xs \ {{}} :
                     AsSimilar(search.amounts,
                               Append(prior, MapThenSumSet(LAMBDA i : xs[i], S)))

(* What detect_cycle hands the scorer is right: the verdict, the path and  *)
(* the amount of the closing leg.                                          *)
CycleResultRight == CycleVerdictRight /\ RingPathWhole /\ ClosingReadingBest
=============================================================================
