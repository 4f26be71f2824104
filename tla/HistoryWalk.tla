---------------------------- MODULE HistoryWalk ----------------------------
(***************************************************************************)
(* The clustering sidecar's Blockfrost history flavour: BlockfrostHistory  *)
(* of service/history.py, the resumable ingester it drives and the paged   *)
(* provider source, for one watched address.                               *)
(*                                                                         *)
(* The address's transactions are numbered oldest first; Height gives each *)
(* one's block and SlotOf the slot of a block.  The host holds the         *)
(* transactions of the blocks from HostStart to its tip.                   *)
(*  The sidecar's own tables are two: rows (transactions) and parts   *)
(* (their inputs, outputs and assets), written in that order.              *)
(***************************************************************************)
EXTENDS Integers, Sequences, FiniteSets

CONSTANTS Height, SlotOf, HostStart,
          SafetySlots, SafetyBlocks,   \* rollback safety window
          PageSize,
          FirstCap, RaisedCap,         \* the contract's download depth
          FitWindow, MinHost,          \* host rows that make a download needless, 0: never
          Unserved                     \* transactions the provider answers 404 for

ASSUME HistoryAssumption ==
    /\ SlotOf \in Seq(Nat \ {0})
    /\ \A h, k \in DOMAIN SlotOf : h < k => SlotOf[h] < SlotOf[k]
    /\ Height \in Seq(DOMAIN SlotOf)
    /\ \A i, j \in DOMAIN Height : i < j => Height[i] <= Height[j]
    /\ {SafetySlots, SafetyBlocks, FitWindow, MinHost, RaisedCap} \subseteq Nat
    /\ {HostStart, PageSize} \subseteq Nat \ {0}
    /\ FirstCap \in 1 .. RaisedCap

VARIABLES tip,        \* the host's tip height, 0 before it has one
          peak,       \* the highest tip so far
          joined,     \* transactions rows of the address outlive their index rows
          cap,        \* history_cap of the contract
          marker,     \* the ingest cursor of the address
          rows, parts,
          walk,       \* the running attempt
          want, first \* what the marker promises; it was never re-opened

hostVars == <<tip, peak>>
tableVars == <<marker, rows, parts>>
historyVars == <<hostVars, tableVars, joined, cap, walk, want, first>>

NoMarker == [set |-> FALSE, done |-> FALSE, seen |-> 0, page |-> 0, anchor |-> 0]
WalkResting == [at |-> "idle"]
Least(S) == IF S = {} THEN 0 ELSE CHOOSE x \in S : \A y \in S : x <= y
Smaller(a, b) == IF a < b THEN a ELSE b

-----------------------------------------------------------------------------
(* host_history_boundary *)
HostRows == {i \in DOMAIN Height : Height[i] \in HostStart .. tip}
TipSlot == SlotOf[tip]
TargetSlot == Least({SlotOf[Height[i]] : i \in HostRows})
\* round(slot * tip_height / tip_slot), used when the height join is empty
EstimatedHeight == (2 * TargetSlot * tip + TipSlot) \div (2 * TipSlot)
TargetHeight == IF joined THEN Least({Height[i] : i \in HostRows})
                ELSE IF TargetSlot > 0 THEN EstimatedHeight ELSE 0
FloorSlotUnsafe == IF TargetSlot > 0 THEN TargetSlot ELSE TipSlot - SafetySlots
FloorHeightUnsafe == IF TargetHeight > 0 THEN TargetHeight ELSE tip - SafetyBlocks
FloorSlot == Smaller(FloorSlotUnsafe, TipSlot - SafetySlots)
FloorHeight == Smaller(FloorHeightUnsafe, tip - SafetyBlocks)
HasBoundary ==
    /\ tip > 0
    /\ TipSlot > SafetySlots /\ tip > SafetyBlocks
    /\ FloorSlot > 0 /\ FloorHeight > 0

(* The provider: the address's transactions up to a height, in pages. *)
UpTo(h) == {i \in DOMAIN Height : Height[i] <= h}
Newest(n, S) == {i \in S : Cardinality({j \in S : j > i}) < n}
RecentAnchor(n, to) ==
    IF Cardinality(UpTo(to)) >= n THEN Height[Least(Newest(n, UpTo(to)))] ELSE 0
Listed(anchor, to) == {i \in UpTo(to) : Height[i] >= anchor}
Page(S, p) ==
    {i \in S : Cardinality({j \in S : j < i}) \in (p - 1) * PageSize .. p * PageSize - 1}
Oldest(n, S) == {i \in S : Cardinality({j \in S : j < i}) < n}
\* What n places of the listing reach of the n newest.  The listing begins with the
\* whole block of the anchor: an older transaction there takes the place of a newest.
Reached(n, to) == Newest(n, UpTo(to)) \cap Oldest(n, Listed(RecentAnchor(n, to), to))

(* _marker_complete: done, or a walk that stopped at the cap. *)
MarkerComplete == marker.set /\ (marker.done \/ marker.seen >= cap)

-----------------------------------------------------------------------------
(* _plan_walk, _discovery_max_items and _start_page *)
Mode == IF marker.set /\ ~marker.done THEN "resume" ELSE "restart"
MaxItems == IF Mode = "restart" THEN cap ELSE cap - marker.seen
StartPage == IF Mode = "resume" THEN marker.page + 1 ELSE 1
Reanchors == Mode = "restart" \/ (marker.page = 0 /\ marker.anchor = 0)

Planned ==
    [at |-> "discover", mode |-> Mode, page |-> StartPage, to |-> FloorHeight - 1,
     floor |-> FloorSlot, seen |-> marker.seen, items |-> MaxItems, yielded |-> 0,
     anchor |-> IF Reanchors THEN -1 ELSE marker.anchor,
     last |-> [page |-> marker.page, anchor |-> marker.anchor],
     fresh |-> TRUE, batch |-> {}, full |-> FALSE]

\* _mark_done: nothing to download at this cap.
MarkDone ==
    marker' = [set |-> TRUE, done |-> TRUE, seen |-> cap, page |-> 0, anchor |-> 0]

\* What lies below both bounds of the boundary.
BelowBoundary == {i \in DOMAIN Height : Height[i] < FloorHeight /\ SlotOf[Height[i]] < FloorSlot}

\* The host's rows fill the window of the fit, or the operator calls them enough.
HostSuffices == \E limit \in {FitWindow, MinHost} : limit > 0 /\ Cardinality(HostRows) >= limit

\* Preflight of BlockfrostHistory._run.
Run ==
    /\ walk = WalkResting
    /\ ~(marker.set /\ marker.seen >= cap)
    /\ HasBoundary
    /\ IF HostSuffices
       THEN MarkDone /\ UNCHANGED <<walk, want, first>>
       ELSE /\ walk' = Planned
            /\ first' = (first /\ ~marker.done)
            /\ want' = BelowBoundary \cap
                         (IF Reanchors \/ ~first' THEN Reached(cap, FloorHeight - 1) ELSE want)
            /\ UNCHANGED marker
    /\ UNCHANGED <<hostVars, rows, parts, joined, cap>>

\* The classify tick resumes a history that is incomplete; a refit asks always.
ClassifyTick == ~MarkerComplete /\ Run
Refit == MarkerComplete /\ Run

(* _recent_anchor, then the listing of the walk's pages. *)
FindAnchor ==
    /\ walk.at = "discover" /\ walk.anchor = -1
    /\ walk' = [walk EXCEPT !.anchor = RecentAnchor(walk.items, walk.to)]
    /\ UNCHANGED <<hostVars, tableVars, joined, cap, want, first>>

\* The provider has no transaction below the bound: SourceNotFound.
NoHistory ==
    /\ walk.at = "discover" /\ walk.page = 1 /\ UpTo(walk.to) = {}
    /\ MarkDone /\ walk' = WalkResting
    /\ UNCHANGED <<hostVars, rows, parts, joined, cap, want, first>>

LastYield(p) ==
    \/ p = {}
    \/ walk.yielded >= walk.items
    \/ walk.yielded > 0 /\ walk.yielded % PageSize # 0

CurrentPage == Page(Listed(walk.anchor, walk.to), walk.page)
PageAsked == Oldest(cap - walk.seen, CurrentPage)
Exhausted == LastYield(CurrentPage) \/ PageAsked = {}

(* _drain_pages: one page is fetched concurrently and folded into the batch. *)
FetchPage ==
    /\ walk.at = "discover" /\ walk.anchor >= 0 /\ ~Exhausted
    /\ LET got == PageAsked \ Unserved
           seen == walk.seen + Cardinality(got)
       IN  walk' = [walk EXCEPT !.at = "flush", !.batch = got, !.seen = seen,
                                !.yielded = @ + Cardinality(CurrentPage),
                                !.full = seen >= cap]
    /\ UNCHANGED <<hostVars, tableVars, joined, cap, want, first>>

(* _CursorTracker.interrupted and rate_limited: 402 from any request. *)
InterruptedSkipsPage == [page |-> walk.page, anchor |-> walk.anchor]
Interrupted ==
    IF walk.fresh /\ walk.mode = "restart" THEN [page |-> 0, anchor |-> 0] ELSE walk.last
RateLimited ==
    /\ walk.at = "discover" /\ UpTo(walk.to) # {}
    /\ marker' = [set |-> TRUE, done |-> FALSE, seen |-> walk.seen,
                  page |-> Interrupted.page, anchor |-> Interrupted.anchor]
    /\ walk' = WalkResting
    /\ UNCHANGED <<hostVars, rows, parts, joined, cap, want, first>>

\* The process dies: the attempt ends where it is.
Dies ==
    /\ walk.at \in {"discover", "flush", "parts", "save"}
    /\ walk' = WalkResting
    /\ UNCHANGED <<hostVars, tableVars, joined, cap, want, first>>

(* _SlotCappedRepo: a row at or above the floor is dropped, its parts too. *)
Kept(batch) == {i \in batch : SlotOf[Height[i]] < walk.floor}

\* Another error of the provider: _consume_results raises at the failed
\* transaction, the batch so far is flushed, the cursor is not saved.
FetchFails ==
    /\ walk.at = "discover" /\ walk.anchor >= 0 /\ ~Exhausted
    /\ \E n \in 0 .. Cardinality(PageAsked) - 1 :
         LET got == Kept(Oldest(n, PageAsked) \ Unserved)
         IN  rows' = rows \cup got /\ parts' = parts \cup got
    /\ walk' = WalkResting
    /\ UNCHANGED <<hostVars, marker, joined, cap, want, first>>

(* _Batch.flush: transactions, then their parts. *)
FlushRows ==
    /\ walk.at = "flush"
    /\ rows' = rows \cup Kept(walk.batch)
    /\ walk' = [walk EXCEPT !.at = "parts"]
    /\ UNCHANGED <<hostVars, marker, parts, joined, cap, want, first>>

FlushParts ==
    /\ walk.at = "parts"
    /\ parts' = parts \cup Kept(walk.batch)
    /\ walk' = [walk EXCEPT !.at = "save"]
    /\ UNCHANGED <<hostVars, marker, rows, joined, cap, want, first>>

\* page_done, or the stop at max_txs with the page's cursor.
SavePage ==
    /\ walk.at = "save"
    /\ marker' = [set |-> TRUE, done |-> FALSE, seen |-> walk.seen,
                  page |-> walk.page, anchor |-> walk.anchor]
    /\ walk' = IF walk.full THEN WalkResting
               ELSE [walk EXCEPT !.at = "discover", !.page = @ + 1, !.fresh = FALSE,
                                 !.batch = {},
                                 !.last = [page |-> walk.page, anchor |-> walk.anchor]]
    /\ UNCHANGED <<hostVars, rows, parts, joined, cap, want, first>>

\* completed: the listing ran out.
Completed ==
    /\ walk.at = "discover" /\ walk.anchor >= 0 /\ UpTo(walk.to) # {} /\ Exhausted
    /\ marker' = [set |-> TRUE, done |-> TRUE, seen |-> walk.seen,
                  page |-> walk.last.page, anchor |-> walk.last.anchor]
    /\ walk' = WalkResting
    /\ UNCHANGED <<hostVars, rows, parts, joined, cap, want, first>>

-----------------------------------------------------------------------------
(* Around the sidecar: the host follows the chain, an operator raises the cap. *)
HostGrows ==
    /\ walk.at # "off"
    /\ tip' \in {h \in DOMAIN SlotOf : h >= HostStart /\ h > tip}
    /\ peak' = IF tip' > peak THEN tip' ELSE peak
    /\ UNCHANGED <<tableVars, joined, cap, walk, want, first>>

HostRollsBack ==
    /\ walk.at # "off"
    /\ tip > HostStart
    /\ tip' \in {h \in HostStart .. tip - 1 : h >= peak - SafetyBlocks}
    /\ UNCHANGED <<tableVars, peak, joined, cap, walk, want, first>>

RaiseCap ==
    /\ walk = WalkResting /\ cap < RaisedCap
    /\ cap' = RaisedCap
    /\ first' = (first /\ ~marker.set)
    /\ UNCHANGED <<hostVars, tableVars, joined, walk, want>>

HistoryInit(on) ==
    /\ tip = 0 /\ peak = 0
    /\ joined \in IF on THEN BOOLEAN ELSE {TRUE}
    /\ cap = FirstCap
    /\ marker = NoMarker /\ rows = {} /\ parts = {}
    /\ walk = IF on THEN WalkResting ELSE [at |-> "off"]
    /\ want = {} /\ first = TRUE

HistoryNext ==
    \/ ClassifyTick \/ Refit
    \/ FindAnchor \/ NoHistory \/ FetchPage \/ RateLimited \/ FetchFails \/ Dies
    \/ FlushRows \/ FlushParts \/ SavePage \/ Completed
    \/ HostGrows \/ HostRollsBack \/ RaiseCap

HistorySpec == HistoryInit(TRUE) /\ [][HistoryNext]_historyVars

-----------------------------------------------------------------------------
\* _marker_complete, the cursor tracker and the flush order: once the marker
\* calls a history complete for the first time, the transactions the walk was
\* opened for are in both tables, whatever quota stops, errors, crashes and
\* moves of the host's tip it went through.  Those are the cap newest below the
\* boundary, without as many of the newest as there are older transactions in the
\* block of the oldest.
HistoryCovered ==
    (first /\ MarkerComplete /\ marker.page > 0)
        => want \ Unserved \subseteq rows \cap parts

\* host_history_boundary and _SlotCappedRepo: a downloaded row lies strictly
\* below the address's first host row, so the two never overlap, and no
\* rollback of the host takes back its block.
HistoryBelowHost ==
    \A i \in rows \cup parts :
        /\ Height[i] <= tip
        /\ \A j \in HostRows : SlotOf[Height[i]] < SlotOf[Height[j]]

\* The downloaded history joins the host's rows: nothing is missing below the
\* boundary and nothing is stored above it.
HistoryExact == HistoryCovered /\ HistoryBelowHost
=============================================================================
