-------------------------- MODULE StoredDataProofs --------------------------
(***************************************************************************)
(* Proofs about what the services keep: the history that a walk collects   *)
(* for a clustering job, the value that an ingested transaction moved, and *)
(* the detection configuration that is in force.                           *)
(***************************************************************************)
EXTENDS HistoryWalk, InputFlow, DetectionConfig, DataLemmas

-----------------------------------------------------------------------------
(* The sidecar's history walk                                              *)

N == Len(Height)
TotalUpTo(h) == Cardinality(UpTo(h))
\* How many listed transactions lie below the anchor, and a transaction's place
\* in the listing that starts at it.
Before(A) == TotalUpTo(A - 1)
Rank(A, i) == i - 1 - Before(A)

LEMMA HistoryConstants ==
    /\ N \in Nat /\ DOMAIN Height = 1..N
    /\ \A i \in 1..N : Height[i] \in DOMAIN SlotOf /\ Height[i] \in Nat \ {0}
                       /\ SlotOf[Height[i]] \in Nat \ {0}
    /\ \A i, j \in 1..N : i < j => Height[i] <= Height[j]
    /\ \A i, j \in 1..N : Height[i] < Height[j] => SlotOf[Height[i]] < SlotOf[Height[j]]
    /\ \A h \in DOMAIN SlotOf : h \in Nat \ {0} /\ SlotOf[h] \in Nat \ {0}
    /\ \A h, k \in DOMAIN SlotOf : h < k => SlotOf[h] < SlotOf[k]
    /\ SafetySlots \in Nat /\ SafetyBlocks \in Nat /\ FitWindow \in Nat /\ RaisedCap \in Nat
    /\ HostStart \in Nat \ {0} /\ PageSize \in Nat \ {0} /\ FirstCap \in 1..RaisedCap
<1>1. Height \in Seq(DOMAIN SlotOf) /\ SlotOf \in Seq(Nat \ {0})
  BY HistoryAssumption
<1>2. DOMAIN SlotOf = 1..Len(SlotOf) /\ Len(SlotOf) \in Nat
      /\ \A h \in 1..Len(SlotOf) : SlotOf[h] \in Nat \ {0}
  BY <1>1, LenProperties, ElementOfSeq
<1>3. N \in Nat /\ DOMAIN Height = 1..N /\ \A i \in 1..N : Height[i] \in DOMAIN SlotOf
  BY <1>1, LenProperties, ElementOfSeq DEF N
<1>4. \A h \in DOMAIN SlotOf : h \in Nat \ {0} /\ SlotOf[h] \in Nat \ {0}
  BY <1>2
<1>5. \A h, k \in DOMAIN SlotOf : h < k => SlotOf[h] < SlotOf[k]
  BY HistoryAssumption
<1>6. \A i, j \in 1..N : i < j => Height[i] <= Height[j]
  BY <1>3, HistoryAssumption
<1>7. /\ SafetySlots \in Nat /\ SafetyBlocks \in Nat /\ FitWindow \in Nat /\ RaisedCap \in Nat
      /\ HostStart \in Nat \ {0} /\ PageSize \in Nat \ {0} /\ FirstCap \in 1..RaisedCap
  BY HistoryAssumption
<1> QED BY <1>3, <1>4, <1>5, <1>6, <1>7

\* The transactions up to a height are the first so many.
LEMMA Prefix ==
    ASSUME NEW h \in Int
    PROVE  TotalUpTo(h) \in 0..N /\ UpTo(h) = 1..TotalUpTo(h)
<1> DEFINE T == {k \in Nat : k + 1 \notin UpTo(h)}
<1>1. N \in T BY HistoryConstants DEF UpTo
<1>2. PICK m \in T : \A k \in T : m <= k BY <1>1, LeastNat
<1>3. m \in 0..N BY <1>1, <1>2, HistoryConstants
<1>4. ASSUME NEW i \in 1..m PROVE i \in UpTo(h)
  <2>1. i - 1 \in Nat /\ ~(m <= i - 1) BY <1>3, HistoryConstants
  <2>2. (i - 1) + 1 = i BY <1>3, HistoryConstants
  <2> QED BY <1>2, <2>1, <2>2
<1>5. ASSUME NEW i \in UpTo(h) PROVE i \in 1..m
  <2>1. i \in 1..N /\ Height[i] <= h BY HistoryConstants DEF UpTo
  <2>2. SUFFICES ASSUME i > m PROVE FALSE BY <1>3, <2>1, HistoryConstants
  <2>3. m + 1 \in 1..N /\ m + 1 <= i BY <1>3, <2>1, <2>2, HistoryConstants
  <2>4. Height[m + 1] <= Height[i]
    <3>1. CASE m + 1 = i BY <3>1, <2>1, HistoryConstants
    <3>2. CASE m + 1 # i
      <4>1. m + 1 < i BY <2>3, <3>2, <2>1, HistoryConstants
      <4>2. Height[m + 1] <= Height[i] /\ Height[m + 1] \in Nat /\ Height[i] \in Nat
        BY <4>1, <2>1, <2>3, HistoryConstants
      <4> QED BY <4>2
    <3> QED BY <3>1, <3>2
  <2>5. Height[m + 1] \in Nat /\ Height[i] \in Nat BY <2>1, <2>3, HistoryConstants
  <2>6. m + 1 \in UpTo(h) BY <2>1, <2>3, <2>4, <2>5, HistoryConstants DEF UpTo
  <2> QED BY <1>2, <2>6
<1>6. UpTo(h) = 1..m BY <1>4, <1>5
<1>7. Cardinality(1..m) = m
  <2>1. m \in Int /\ 1 \in Int BY <1>3, HistoryConstants
  <2>2. Cardinality(1..m) = IF 1 > m THEN 0 ELSE m - 1 + 1 BY <2>1, FS_Interval
  <2> QED BY <2>2, <1>3, HistoryConstants
<1> QED BY <1>3, <1>6, <1>7 DEF TotalUpTo

LEMMA BeforeType ==
    ASSUME NEW A \in Int
    PROVE  Before(A) \in 0..N /\ Before(A) \in Int /\ Before(A) >= 0
<1>1. A - 1 \in Int OBVIOUS
<1>2. Before(A) \in 0..N BY <1>1, Prefix DEF Before
<1> QED BY <1>2, HistoryConstants

LEMMA BeforeMeans ==
    ASSUME NEW A \in Int, NEW i \in 1..N
    PROVE  /\ Before(A) \in 0..N /\ Rank(A, i) \in Int
           /\ Height[i] >= A <=> i > Before(A)
           /\ Height[i] >= A <=> Rank(A, i) >= 0
<1>1. A - 1 \in Int OBVIOUS
<1>2. Before(A) \in 0..N /\ UpTo(A - 1) = 1..Before(A) BY <1>1, Prefix DEF Before
<1>3. Height[i] \in Nat BY HistoryConstants
<1>4. i \in UpTo(A - 1) <=> Height[i] <= A - 1 BY HistoryConstants DEF UpTo
<1>5. i \in 1..Before(A) <=> i <= Before(A) BY <1>2, HistoryConstants
<1> QED BY <1>2, <1>3, <1>4, <1>5, HistoryConstants, SMTT(30) DEF Rank

LEMMA ListedIs ==
    ASSUME NEW A \in Int, NEW to \in Int
    PROVE  Listed(A, to) = (Before(A) + 1)..TotalUpTo(to)
<1>1. UpTo(to) = 1..TotalUpTo(to) /\ TotalUpTo(to) \in 0..N BY Prefix
<1>2. \A i \in 1..N : Height[i] >= A <=> i > Before(A) BY BeforeMeans
<1>3. Before(A) \in Nat
  <2>1. A - 1 \in Int OBVIOUS
  <2> QED BY <2>1, Prefix, HistoryConstants DEF Before
<1> QED BY <1>1, <1>2, <1>3, HistoryConstants, SMTT(30) DEF Listed

LEMMA ShiftArith ==
    ASSUME NEW a \in Int, NEW b \in Int, NEW c \in Int, a >= b - c
    PROVE  b <= a + c
  OBVIOUS

\* Places in the listing and on a page that begins at lo.
LEMMA PlaceArith ==
    ASSUME NEW i \in Int, NEW b \in Int, NEW s \in Int, NEW z \in Int, NEW m \in Int, NEW lo \in Int,
           lo = b + 1 + s
    PROVE  /\ (i - 1 - b) - s = i - lo
           /\ (i - 1 - b >= s) <=> (lo <= i)
           /\ (i - 1 - b < s + z) <=> (i < lo + z)
           /\ i <= m /\ i - 1 - b >= s + z - 1 => lo + z - 1 <= m
  OBVIOUS

\* Rank within an interval.
LEMMA IntervalRank ==
    ASSUME NEW lo \in Int, NEW hi \in Int, NEW i \in lo..hi
    PROVE  Cardinality({j \in lo..hi : j < i}) = i - lo
<1>1. {j \in lo..hi : j < i} = lo..(i - 1) OBVIOUS
<1>2. lo \in Int /\ i - 1 \in Int OBVIOUS
<1>3. Cardinality(lo..(i - 1)) = IF lo > i - 1 THEN 0 ELSE (i - 1) - lo + 1 BY <1>2, FS_Interval
<1>4. (IF lo > i - 1 THEN 0 ELSE (i - 1) - lo + 1) = i - lo OBVIOUS
<1> QED BY <1>1, <1>3, <1>4, Zenon

LEMMA PageStart ==
    ASSUME NEW p \in Nat \ {0}
    PROVE  /\ (p - 1) * PageSize \in Nat /\ p * PageSize \in Nat
           /\ p * PageSize = (p - 1) * PageSize + PageSize
  BY HistoryConstants

\* A page is a stretch of the listing; what is asked of it is its first part.
LEMMA PageIs ==
    ASSUME NEW A \in Int, NEW to \in Int, NEW p \in Nat \ {0}
    PROVE  LET lo == Before(A) + 1 + (p - 1) * PageSize
               P == Page(Listed(A, to), p)
           IN  /\ lo \in Nat
               /\ \A i : i \in P <=> i \in 1..TotalUpTo(to) /\ lo <= i /\ i < lo + PageSize
               /\ \A n \in Int : \A i : i \in Oldest(n, P) <=> i \in P /\ i - lo < n
               /\ IsFiniteSet(P) /\ Cardinality(P) <= PageSize /\ Cardinality(P) \in Nat
               /\ lo + PageSize - 1 <= TotalUpTo(to) => Cardinality(P) = PageSize
<1> DEFINE c == Before(A)
           m == TotalUpTo(to)
           s == (p - 1) * PageSize
           lo == c + 1 + s
           hi == IF m < lo + PageSize - 1 THEN m ELSE lo + PageSize - 1
           P == Page(Listed(A, to), p)
<1>1. Listed(A, to) = (c + 1)..m BY ListedIs
<1>2. c \in Nat /\ m \in Nat
  <2>1. A - 1 \in Int OBVIOUS
  <2> QED BY <2>1, Prefix, HistoryConstants DEF Before
<1>3. s \in Nat /\ p * PageSize = s + PageSize /\ PageSize \in Nat \ {0}
  BY PageStart, HistoryConstants
<1> HIDE DEF c, m, s
<1>4. P = {i \in (c + 1)..m : i - (c + 1) \in s..(s + PageSize - 1)}
  <2>1. \A i \in (c + 1)..m : Cardinality({j \in (c + 1)..m : j < i}) = i - (c + 1)
    BY <1>2, IntervalRank
  <2> QED BY <1>1, <1>3, <2>1 DEF Page, s
<1>5. P = lo..hi BY <1>2, <1>3, <1>4
<1>6. lo \in Nat /\ hi \in Int BY <1>2, <1>3
<1>7. \A i : i \in P <=> i \in 1..m /\ lo <= i /\ i < lo + PageSize BY <1>2, <1>3, <1>4
<1>8. ASSUME NEW n \in Int, NEW i PROVE i \in Oldest(n, P) <=> i \in P /\ i - lo < n
  <2>1. CASE i \in P
    <3>1. Cardinality({j \in P : j < i}) = i - lo
      <4> HIDE DEF lo, hi
      <4> QED BY <1>5, <1>6, <2>1, IntervalRank
    <3> QED BY <2>1, <3>1 DEF Oldest
  <2>2. CASE i \notin P BY <2>2 DEF Oldest
  <2> QED BY <2>1, <2>2
<1>9. IsFiniteSet(P) /\ Cardinality(P) = IF lo > hi THEN 0 ELSE hi - lo + 1
  <2> HIDE DEF lo, hi
  <2> QED BY <1>5, <1>6, FS_Interval
<1>10. Cardinality(P) <= PageSize /\ Cardinality(P) \in Nat BY <1>2, <1>3, <1>6, <1>9
<1>11. lo + PageSize - 1 <= m => Cardinality(P) = PageSize BY <1>2, <1>3, <1>6, <1>9
<1> QED BY <1>6, <1>7, <1>8, <1>9, <1>10, <1>11 DEF c, m, s

LEMMA LeastIs ==
    ASSUME NEW S \in SUBSET Nat, S # {}
    PROVE  Least(S) \in S /\ \A y \in S : Least(S) <= y
<1>1. \E x \in S : \A y \in S : x <= y BY LeastNat
<1> QED BY <1>1 DEF Least

\* The newest n of the transactions up to a height, and the height of the oldest
\* of them.
LEMMA NewestIs ==
    ASSUME NEW n \in Nat \ {0}, NEW to \in Int
    PROVE  \A i : i \in Newest(n, UpTo(to)) <=> i \in 1..TotalUpTo(to) /\ TotalUpTo(to) - i < n
<1> DEFINE m == TotalUpTo(to)
<1>1. UpTo(to) = 1..m /\ m \in Nat BY Prefix, HistoryConstants
<1> HIDE DEF m
<1>2. ASSUME NEW i \in 1..m PROVE Cardinality({j \in 1..m : j > i}) = m - i
  <2>1. {j \in 1..m : j > i} = (i + 1)..m BY <1>1
  <2>2. i + 1 \in Int /\ m \in Int BY <1>1
  <2>3. Cardinality((i + 1)..m) = IF i + 1 > m THEN 0 ELSE m - (i + 1) + 1 BY <2>2, FS_Interval
  <2>4. (IF i + 1 > m THEN 0 ELSE m - (i + 1) + 1) = m - i BY <1>1
  <2> QED BY <2>1, <2>3, <2>4, Zenon
<1> QED BY <1>1, <1>2 DEF Newest, m

LEMMA AnchorIs ==
    ASSUME NEW n \in Nat \ {0}, NEW to \in Int
    PROVE  /\ RecentAnchor(n, to) \in Nat
           /\ \A i \in Reached(n, to) :
                /\ Height[i] >= RecentAnchor(n, to)
                /\ Rank(RecentAnchor(n, to), i) < n
<1> DEFINE m == TotalUpTo(to)
           A == RecentAnchor(n, to)
<1>1. m \in 0..N /\ UpTo(to) = 1..m BY Prefix
<1>2. \A i : i \in Newest(n, UpTo(to)) <=> i \in 1..m /\ m - i < n BY NewestIs
<1>3. A \in Nat
  <2>1. CASE m >= n
    <3> HIDE DEF m
    <3> DEFINE k == m - n + 1
    <3>0. m \in Nat /\ n \in Nat \ {0} /\ m >= n BY <1>1, <2>1, HistoryConstants
    <3>1. k \in 1..m /\ m - k < n BY <3>0
    <3> HIDE DEF k
    <3>2. Newest(n, UpTo(to)) \subseteq Nat /\ k \in Newest(n, UpTo(to))
      <4>1. k \in Newest(n, UpTo(to)) BY <1>2, <3>1
      <4>2. \A i \in Newest(n, UpTo(to)) : i \in 1..m BY <1>2
      <4> QED BY <3>0, <4>1, <4>2
    <3> DEFINE x == Least(Newest(n, UpTo(to)))
    <3>4. x \in Newest(n, UpTo(to)) BY <3>2, LeastIs
    <3> HIDE DEF x
    <3>3. x \in 1..N BY <1>1, <1>2, <3>4, HistoryConstants
    <3> QED BY <2>1, <3>3, HistoryConstants DEF RecentAnchor, TotalUpTo, x, m
  <2>2. CASE ~(m >= n) BY <2>2 DEF RecentAnchor, TotalUpTo
  <2> QED BY <2>1, <2>2
<1>4. Listed(A, to) = (Before(A) + 1)..m BY <1>3, ListedIs
<1>5. Before(A) \in Int BY <1>3, BeforeType
<1> HIDE DEF A, m
<1>6. ASSUME NEW i \in Reached(n, to) PROVE Height[i] >= A /\ Rank(A, i) < n
  <2>1. i \in Listed(A, to) /\ Cardinality({j \in Listed(A, to) : j < i}) < n
    BY DEF Reached, Oldest, A
  <2>2. Height[i] >= A BY <2>1 DEF Listed
  <2>3. m \in Int /\ Before(A) + 1 \in Int /\ i \in (Before(A) + 1)..m
    BY <1>1, <1>4, <1>5, <2>1, HistoryConstants
  <2>4. Cardinality({j \in Listed(A, to) : j < i}) = i - (Before(A) + 1)
    BY <1>4, <2>3, IntervalRank
  <2>5. i - (Before(A) + 1) = i - 1 - Before(A) BY <1>5, <2>3
  <2> QED BY <2>1, <2>2, <2>4, <2>5 DEF Rank
<1> QED BY <1>3, <1>6 DEF A

WalkRecord ==
    [at : {"discover", "flush", "parts", "save"}, mode : {"resume", "restart"},
     page : Nat \ {0}, to : Int, floor : Int, seen : Nat, items : Nat \ {0}, yielded : Nat,
     anchor : Int, last : [page : Nat, anchor : Nat], fresh : BOOLEAN,
     batch : SUBSET (1..N), full : BOOLEAN]
MarkerRecord == [set : BOOLEAN, done : BOOLEAN, seen : Nat, page : Nat, anchor : Nat]
Walking == walk.at \in {"discover", "flush", "parts", "save"}

HostTypes == /\ tip \in {0} \cup DOMAIN SlotOf /\ peak \in {0} \cup DOMAIN SlotOf
             /\ tip <= peak /\ peak <= tip + SafetyBlocks
TableTypes == /\ rows \subseteq 1..N /\ parts \subseteq 1..N /\ want \subseteq 1..N
              /\ cap \in Nat \ {0} /\ first \in BOOLEAN /\ joined \in BOOLEAN
MarkerTypes == marker \in MarkerRecord /\ (~marker.set => marker = NoMarker)
WalkTypes == /\ walk \in {WalkResting, [at |-> "off"]} \cup WalkRecord
             /\ Walking => walk.anchor >= -1 /\ (walk.at # "discover" => walk.anchor >= 0)
HistoryTypes == HostTypes /\ TableTypes /\ MarkerTypes /\ WalkTypes

\* A transaction that no rollback reaches and no host row precedes.
Settledly(i) == /\ Height[i] + SafetyBlocks < peak
                /\ \A j \in 1..N : Height[j] >= HostStart => SlotOf[Height[i]] < SlotOf[Height[j]]

\* The bounds the walk was planned with stay sound while the host moves on.
BoundsSound ==
    /\ \A i \in rows \cup parts : Settledly(i)
    /\ Walking => /\ walk.to + SafetyBlocks < peak
                  /\ \A j \in 1..N : Height[j] >= HostStart => walk.floor <= SlotOf[Height[j]]
                  /\ walk.batch \subseteq UpTo(walk.to)

\* After n whole pages from the anchor, s transactions served: every wanted
\* transaction lies in the first cap places, and those of the n pages are stored.
Stored(i) == i \in rows \cap parts
Placed(A) == \A i \in want : Height[i] >= A /\ Rank(A, i) < cap
PagesStored(A, n) == \A i \in want \ Unserved : Rank(A, i) < n * PageSize => Stored(i)
CoveredTo(A, n, s) == s <= n * PageSize /\ Placed(A) /\ PagesStored(A, n)

MarkerCovers ==
    first /\ marker.set =>
        /\ marker.page = 0 /\ ~marker.done => marker.seen = 0 /\ marker.anchor = 0
        /\ marker.page > 0 => CoveredTo(marker.anchor, marker.page, marker.seen)
        /\ marker.page > 0 /\ marker.done => \A i \in want \ Unserved : Stored(i)

\* The listing ends within the n pages, or all pages of this attempt were full.
Paging(n) ==
    \/ \A i \in UpTo(walk.to) : Rank(walk.anchor, i) < n * PageSize
    \/ /\ \E k \in Nat : walk.yielded = k * PageSize
       /\ walk.yielded + cap <= n * PageSize + walk.items

WalkStarts ==
    /\ walk.page = 1 /\ walk.seen = 0 /\ walk.items = cap /\ walk.yielded = 0
    /\ walk.last = [page |-> 0, anchor |-> 0] /\ walk.fresh
    /\ want \subseteq Reached(cap, walk.to)

WalkAsks ==
    /\ CoveredTo(walk.anchor, walk.page - 1, walk.seen)
    /\ Paging(walk.page - 1)
    /\ walk.fresh /\ walk.mode = "restart" => walk.seen = 0
    /\ walk.last.page = 0 => walk.seen = 0 /\ walk.last.anchor = 0
    /\ ~(walk.fresh /\ walk.mode = "restart") /\ walk.last.page > 0 =>
          walk.last.page = walk.page - 1 /\ walk.last.anchor = walk.anchor
    /\ walk.last.page > 0 => ~(walk.fresh /\ walk.mode = "restart")

WalkFolds ==
    /\ walk.seen <= walk.page * PageSize
    /\ Placed(walk.anchor) /\ PagesStored(walk.anchor, walk.page - 1)
    /\ Paging(walk.page)
    /\ \A i \in want \ Unserved :
          /\ Rank(walk.anchor, i) >= (walk.page - 1) * PageSize
          /\ Rank(walk.anchor, i) < walk.page * PageSize
          => /\ i \in walk.batch
             /\ walk.at \in {"parts", "save"} => i \in rows
             /\ walk.at = "save" => i \in parts

WalkCovers ==
    first /\ Walking =>
        /\ ~marker.done
        /\ \A i \in want : i \in UpTo(walk.to) /\ SlotOf[Height[i]] < walk.floor
        /\ walk.at = "discover" /\ walk.anchor = -1 => WalkStarts
        /\ walk.at = "discover" /\ walk.anchor >= 0 => WalkAsks
        /\ walk.at # "discover" => WalkFolds

HistoryInv == HistoryTypes /\ BoundsSound /\ MarkerCovers /\ WalkCovers

-----------------------------------------------------------------------------
LEMMA HistoryInitInv == HistoryInit(TRUE) => HistoryInv
<1> SUFFICES ASSUME HistoryInit(TRUE) PROVE HistoryInv OBVIOUS
<1> USE HistoryConstants DEF HistoryInit
<1>1. HostTypes BY DEF HostTypes
<1>2. TableTypes BY DEF TableTypes
<1>3. MarkerTypes BY DEF MarkerTypes, MarkerRecord, NoMarker
<1>4. walk.at = "idle" BY DEF WalkResting
<1>5. WalkTypes BY <1>4 DEF WalkTypes, Walking
<1>6. BoundsSound BY <1>4 DEF BoundsSound, Walking
<1>7. marker.set = FALSE BY DEF NoMarker
<1>8. MarkerCovers /\ WalkCovers BY <1>4, <1>7 DEF MarkerCovers, WalkCovers, Walking
<1> QED BY <1>1, <1>2, <1>3, <1>5, <1>6, <1>8 DEF HistoryInv, HistoryTypes

\* The tables only grow, so what the marker stands for stays stored.
LEMMA MarkerStays ==
    ASSUME MarkerCovers, UNCHANGED <<marker, want, first, cap>>,
           rows \subseteq rows', parts \subseteq parts'
    PROVE  MarkerCovers'
  BY DEF MarkerCovers, CoveredTo, Placed, PagesStored, Stored, Rank, Before, TotalUpTo, UpTo

LEMMA WalkStays ==
    ASSUME WalkCovers, UNCHANGED <<walk, marker, want, first, cap, rows, parts>>
    PROVE  WalkCovers'
  BY DEF WalkCovers, Walking, WalkStarts, WalkAsks, WalkFolds, CoveredTo, Placed, PagesStored,
         Paging, Stored, Rank, Before, TotalUpTo, UpTo

LEMMA AtRest ==
    ASSUME walk' = WalkResting
    PROVE  WalkTypes' /\ WalkCovers' /\ ~Walking'
<1>1. walk'.at = "idle" BY DEF WalkResting
<1> QED BY <1>1 DEF WalkTypes, WalkCovers, Walking

LEMMA HostMoves ==
    ASSUME HistoryInv, HostGrows \/ HostRollsBack
    PROVE  HistoryInv'
<1>1. UNCHANGED <<marker, rows, parts, joined, cap, walk, want, first>>
  BY DEF HostGrows, HostRollsBack, tableVars
<1>2. HostTypes' /\ peak' >= peak /\ peak' \in Nat /\ peak \in Nat
  <2> USE HistoryConstants DEF HistoryInv, HistoryTypes, HostTypes
  <2>0. /\ tip \in Nat /\ peak \in Nat
        /\ \A h \in DOMAIN SlotOf : \A k \in 1..h : k \in DOMAIN SlotOf
    <3>1. DOMAIN SlotOf = 1..Len(SlotOf) /\ Len(SlotOf) \in Nat
      BY HistoryAssumption, LenProperties
    <3>2. tip \in Nat /\ peak \in Nat OBVIOUS
    <3> QED BY <3>1, <3>2
  <2>1. CASE HostGrows BY <2>0, <2>1 DEF HostGrows
  <2>2. CASE HostRollsBack
    <3>1. tip' \in HostStart .. tip - 1 /\ tip' >= peak - SafetyBlocks /\ peak' = peak
      BY <2>2 DEF HostRollsBack
    <3>2. tip' \in 1..tip BY <2>0, <3>1
    <3>3. tip # 0 BY <2>0, <3>2
    <3>4. tip' \in DOMAIN SlotOf BY <2>0, <3>2, <3>3
    <3>5. tip' <= peak' /\ peak' <= tip' + SafetyBlocks
      <4>1. tip <= peak BY DEF HistoryInv
      <4>2. tip' \in Int /\ tip' <= tip /\ tip' >= peak - SafetyBlocks /\ peak' = peak BY <2>0, <3>1, <3>2
      <4>3. SafetyBlocks \in Nat /\ tip \in Nat /\ peak \in Nat BY <2>0
      <4>4. tip' <= peak BY <4>1, <4>2, <4>3
      <4>5. peak <= tip' + SafetyBlocks
        <5>1. tip' \in Int /\ peak \in Int /\ SafetyBlocks \in Int /\ tip' >= peak - SafetyBlocks
          BY <4>2, <4>3
        <5> QED BY ONLY <5>1, ShiftArith
      <4> QED BY <4>2, <4>4, <4>5
    <3>6. peak' >= peak /\ peak' \in {0} \cup DOMAIN SlotOf BY <2>0, <3>1
    <3> QED BY <2>0, <3>1, <3>4, <3>5, <3>6
  <2> QED BY <2>1, <2>2
<1>3. TableTypes' /\ MarkerTypes' /\ WalkTypes'
  BY <1>1 DEF HistoryInv, HistoryTypes, TableTypes, MarkerTypes, WalkTypes, Walking
<1>4. BoundsSound'
  <2>1. \A i \in rows \cup parts : Settledly(i)'
    <3> SUFFICES ASSUME NEW i \in rows \cup parts PROVE Settledly(i)' OBVIOUS
    <3>1. i \in 1..N /\ Settledly(i) BY DEF HistoryInv, HistoryTypes, TableTypes, BoundsSound
    <3>2. Height[i] \in Nat BY <3>1, HistoryConstants
    <3> QED BY <1>2, <3>1, <3>2, HistoryConstants DEF Settledly
  <2>2. Walking => /\ walk.to + SafetyBlocks < peak'
                   /\ \A j \in 1..N : Height[j] >= HostStart => walk.floor <= SlotOf[Height[j]]
                   /\ walk.batch \subseteq UpTo(walk.to)
    <3> SUFFICES ASSUME Walking PROVE walk.to + SafetyBlocks < peak'
      BY DEF HistoryInv, BoundsSound
    <3>1. walk.to \in Int
      BY DEF HistoryInv, HistoryTypes, WalkTypes, Walking, WalkRecord, WalkResting
    <3> QED BY <1>2, <3>1, HistoryConstants DEF HistoryInv, BoundsSound
  <2> QED BY <1>1, <2>1, <2>2 DEF BoundsSound, Walking, UpTo
<1>5. MarkerCovers' BY <1>1, MarkerStays DEF HistoryInv
<1>6. WalkCovers' BY <1>1, WalkStays DEF HistoryInv
<1> QED BY <1>2, <1>3, <1>4, <1>5, <1>6 DEF HistoryInv, HistoryTypes

\* Steps that end the attempt and leave the tables alone.
LEMMA AttemptEnds ==
    ASSUME HistoryInv, walk' = WalkResting, UNCHANGED <<tip, peak, rows, parts, joined, cap, want, first>>,
           MarkerTypes', MarkerCovers'
    PROVE  HistoryInv'
<1>1. WalkTypes' /\ WalkCovers' /\ ~Walking' BY AtRest
<1>2. HostTypes' /\ TableTypes' BY DEF HistoryInv, HistoryTypes, HostTypes, TableTypes
<1>3. BoundsSound' BY <1>1 DEF HistoryInv, BoundsSound, Settledly
<1> QED BY <1>1, <1>2, <1>3 DEF HistoryInv, HistoryTypes

LEMMA MarkDoneKeeps ==
    ASSUME HistoryInv, MarkDone, UNCHANGED <<want, first, cap, rows, parts>>
    PROVE  MarkerTypes' /\ MarkerCovers'
<1>1. marker' = [set |-> TRUE, done |-> TRUE, seen |-> cap, page |-> 0, anchor |-> 0] BY DEF MarkDone
<1>2. cap \in Nat BY DEF HistoryInv, HistoryTypes, TableTypes
<1>3. MarkerTypes' BY <1>1, <1>2 DEF MarkerTypes, MarkerRecord
<1>4. marker'.page = 0 /\ marker'.done = TRUE BY <1>1
<1>5. MarkerCovers' BY <1>4 DEF MarkerCovers
<1> QED BY <1>3, <1>5

LEMMA NoHistoryKeeps == ASSUME HistoryInv, NoHistory PROVE HistoryInv'
<1>1. /\ walk' = WalkResting /\ MarkDone
      /\ UNCHANGED <<tip, peak, rows, parts, joined, cap, want, first>>
  BY DEF NoHistory, hostVars
<1> QED BY <1>1, MarkDoneKeeps, AttemptEnds

LEMMA DiesKeeps == ASSUME HistoryInv, Dies PROVE HistoryInv'
<1>1. /\ walk' = WalkResting
      /\ UNCHANGED <<tip, peak, rows, parts, joined, cap, want, first, marker>>
  BY DEF Dies, hostVars, tableVars
<1>2. MarkerTypes' /\ MarkerCovers'
  BY <1>1, MarkerStays DEF HistoryInv, HistoryTypes, MarkerTypes
<1> QED BY <1>1, <1>2, AttemptEnds

LEMMA RaiseCapKeeps == ASSUME HistoryInv, RaiseCap PROVE HistoryInv'
<1>1. /\ walk = WalkResting /\ walk' = walk /\ cap' = RaisedCap /\ cap < RaisedCap
      /\ first' = (first /\ ~marker.set)
      /\ UNCHANGED <<tip, peak, marker, rows, parts, joined, want>>
  BY DEF RaiseCap, hostVars, tableVars
<1>2. WalkTypes' /\ WalkCovers' /\ ~Walking' BY <1>1, AtRest
<1>3. HostTypes' /\ MarkerTypes' BY <1>1 DEF HistoryInv, HistoryTypes, HostTypes, MarkerTypes
<1>4. TableTypes'
  <2>1. cap' \in Nat \ {0} BY <1>1, HistoryConstants DEF HistoryInv, HistoryTypes, TableTypes
  <2>2. first' \in BOOLEAN BY <1>1
  <2> QED BY <1>1, <2>1, <2>2 DEF HistoryInv, HistoryTypes, TableTypes
<1>5. BoundsSound' BY <1>1, <1>2 DEF HistoryInv, BoundsSound, Settledly
<1>6. MarkerCovers' BY <1>1 DEF MarkerCovers
<1> QED BY <1>2, <1>3, <1>4, <1>5, <1>6 DEF HistoryInv, HistoryTypes

-----------------------------------------------------------------------------
\* host_history_boundary: the bounds lie below the rollback window and below
\* every host row, now and later.
LEMMA BoundarySound ==
    ASSUME HistoryInv, HasBoundary
    PROVE  /\ FloorHeight \in Int /\ FloorSlot \in Int
           /\ FloorHeight - 1 + SafetyBlocks < peak
           /\ \A j \in 1..N : Height[j] >= HostStart => FloorSlot <= SlotOf[Height[j]]
<1> USE HistoryConstants
<1>1. /\ tip \in DOMAIN SlotOf /\ tip \in Nat \ {0} /\ TipSlot \in Nat \ {0}
      /\ peak \in Nat /\ tip <= peak
  BY DEF HistoryInv, HistoryTypes, HostTypes, HasBoundary, TipSlot
<1> DEFINE slots == {SlotOf[Height[i]] : i \in HostRows}
           heights == {Height[i] : i \in HostRows}
<1>2. HostRows \subseteq 1..N BY DEF HostRows
<1>3. slots \subseteq Nat \ {0} /\ heights \subseteq Nat \ {0} BY <1>2
<1>4. slots \subseteq Nat /\ heights \subseteq Nat BY <1>3
<1>5. TargetSlot \in Nat /\ \A i \in HostRows : TargetSlot > 0 /\ TargetSlot <= SlotOf[Height[i]]
  <2>1. CASE slots = {} BY <2>1 DEF TargetSlot, Least
  <2>2. CASE slots # {}
    <3>1. Least(slots) \in slots /\ \A y \in slots : Least(slots) <= y BY <1>4, <2>2, LeastIs
    <3>2. TargetSlot = Least(slots) BY DEF TargetSlot
    <3> QED BY <1>3, <3>1, <3>2
  <2> QED BY <2>1, <2>2
<1>6. FloorSlotUnsafe \in Int BY <1>1, <1>5 DEF FloorSlotUnsafe
<1>7. FloorSlot \in Int /\ FloorSlot <= FloorSlotUnsafe /\ FloorSlot <= TipSlot - SafetySlots
  BY <1>1, <1>6 DEF FloorSlot, Smaller
<1>8. TargetHeight \in Int
  <2>1. CASE joined
    <3>1. CASE heights = {} BY <2>1, <3>1 DEF TargetHeight, Least
    <3>2. CASE heights # {}
      <4>1. Least(heights) \in heights BY <1>4, <3>2, LeastIs
      <4> QED BY <1>3, <2>1, <4>1 DEF TargetHeight
    <3> QED BY <3>1, <3>2
  <2>2. CASE ~joined
    <3>1. EstimatedHeight \in Int
      <4>1. 2 * TargetSlot * tip + TipSlot \in Int /\ 2 * TipSlot \in Nat \ {0} BY <1>1, <1>5
      <4> HIDE DEF EstimatedHeight
      <4> QED BY <4>1 DEF EstimatedHeight
    <3> QED BY <2>2, <3>1 DEF TargetHeight
  <2> QED BY <2>1, <2>2
<1>9. FloorHeight \in Int /\ FloorHeight <= tip - SafetyBlocks
  BY <1>1, <1>8 DEF FloorHeight, FloorHeightUnsafe, Smaller
<1>10. ASSUME NEW j \in 1..N, Height[j] >= HostStart PROVE FloorSlot <= SlotOf[Height[j]]
  <2>0. SlotOf[Height[j]] \in Nat /\ Height[j] \in Nat /\ Height[j] \in DOMAIN SlotOf OBVIOUS
  <2>1. CASE Height[j] <= tip
    <3>1. j \in HostRows BY <1>1, <1>10, <2>0, <2>1 DEF HostRows
    <3>2. FloorSlotUnsafe = TargetSlot BY <1>5, <3>1 DEF FloorSlotUnsafe
    <3>3. TargetSlot <= SlotOf[Height[j]] BY <1>5, <3>1
    <3> HIDE DEF slots, heights
    <3> QED BY <1>5, <1>7, <2>0, <3>2, <3>3
  <2>2. CASE ~(Height[j] <= tip)
    <3>1. tip < Height[j] BY <1>1, <2>0, <2>2
    <3>2. TipSlot < SlotOf[Height[j]] BY <1>1, <2>0, <3>1 DEF TipSlot
    <3> QED BY <1>1, <1>7, <2>0, <3>2
  <2> QED BY <2>1, <2>2
<1> QED BY <1>1, <1>7, <1>9, <1>10

LEMMA RunKeeps == ASSUME HistoryInv, Run PROVE HistoryInv'
<1> USE HistoryConstants
<1>0. /\ walk = WalkResting /\ HasBoundary /\ UNCHANGED <<tip, peak, rows, parts, joined, cap>>
      /\ ~(marker.set /\ marker.seen >= cap)
  BY DEF Run, hostVars
<1>1. CASE MarkDone /\ UNCHANGED <<walk, want, first>>
  <2>1. walk' = WalkResting BY <1>0, <1>1
  <2> QED BY <1>0, <1>1, <2>1, MarkDoneKeeps, AttemptEnds
<1>2. CASE /\ walk' = Planned /\ first' = (first /\ ~marker.done)
           /\ want' = BelowBoundary \cap
                 (IF Reanchors \/ ~first' THEN Reached(cap, FloorHeight - 1) ELSE want)
           /\ marker' = marker
  <2>1. /\ FloorHeight \in Int /\ FloorSlot \in Int
        /\ FloorHeight - 1 + SafetyBlocks < peak
        /\ \A j \in 1..N : Height[j] >= HostStart => FloorSlot <= SlotOf[Height[j]]
    BY <1>0, BoundarySound
  <2>2. marker \in MarkerRecord /\ (~marker.set => marker = NoMarker) /\ cap \in Nat \ {0}
        /\ first \in BOOLEAN
    BY DEF HistoryInv, HistoryTypes, MarkerTypes, TableTypes
  <2>3. /\ marker.set \in BOOLEAN /\ marker.done \in BOOLEAN /\ marker.seen \in Nat
        /\ marker.page \in Nat /\ marker.anchor \in Nat
    BY <2>2 DEF MarkerRecord
  <2>4. MaxItems \in Nat \ {0} /\ StartPage \in Nat \ {0} /\ Mode \in {"resume", "restart"}
    BY <1>0, <2>2, <2>3 DEF MaxItems, StartPage, Mode
  <2> DEFINE A == IF Reanchors THEN -1 ELSE marker.anchor
             to == FloorHeight - 1
             fl == FloorSlot
  <2>5. A \in Int /\ A >= -1 /\ to \in Int BY <2>1, <2>3
  <2>6. /\ walk'.at = "discover" /\ walk'.mode = Mode /\ walk'.page = StartPage
        /\ walk'.to = to /\ walk'.floor = fl /\ walk'.seen = marker.seen
        /\ walk'.items = MaxItems /\ walk'.yielded = 0 /\ walk'.anchor = A
        /\ walk'.last = [page |-> marker.page, anchor |-> marker.anchor]
        /\ walk'.fresh = TRUE /\ walk'.batch = {} /\ walk'.full = FALSE
    BY <1>2 DEF Planned
  <2>7. walk' \in WalkRecord
    <3> HIDE DEF A, to, fl
    <3>1. Planned = [at |-> "discover", mode |-> Mode, page |-> StartPage, to |-> to,
                     floor |-> fl, seen |-> marker.seen, items |-> MaxItems, yielded |-> 0,
                     anchor |-> A, last |-> [page |-> marker.page, anchor |-> marker.anchor],
                     fresh |-> TRUE, batch |-> {}, full |-> FALSE]
      BY DEF Planned, A, to, fl
    <3>2. fl \in Int BY <2>1 DEF fl
    <3>3. [page |-> marker.page, anchor |-> marker.anchor] \in [page : Nat, anchor : Nat] BY <2>3
    <3>4. {} \in SUBSET (1..N) OBVIOUS
    <3>5. 0 \in Nat OBVIOUS
    <3> QED BY <1>2, <2>3, <2>4, <2>5, <3>1, <3>2, <3>3, <3>4, <3>5, Zenon DEF WalkRecord
  <2> HIDE DEF A, to, fl
  <2>8. WalkTypes' BY <2>5, <2>6, <2>7 DEF WalkTypes, Walking
  <2>9. HostTypes' /\ MarkerTypes'
    BY <1>0, <1>2 DEF HistoryInv, HistoryTypes, HostTypes, MarkerTypes
  <2>10. want' \subseteq 1..N BY <1>2 DEF BelowBoundary
  <2>11. TableTypes'
    <3>1. first' \in BOOLEAN BY <1>2
    <3> QED BY <1>0, <2>10, <3>1 DEF HistoryInv, HistoryTypes, TableTypes
  <2>12. BoundsSound'
    <3>1. \A i \in rows \cup parts : Settledly(i)'
      BY <1>0 DEF HistoryInv, BoundsSound, Settledly
    <3>2. to + SafetyBlocks < peak' /\ \A j \in 1..N : Height[j] >= HostStart => fl <= SlotOf[Height[j]]
      BY <1>0, <2>1 DEF to, fl
    <3> QED BY <1>0, <2>6, <3>1, <3>2 DEF BoundsSound
  <2>13. MarkerCovers'
    <3> SUFFICES ASSUME first', marker.set PROVE MarkerCovers' BY <1>2 DEF MarkerCovers
    <3>1. first /\ ~marker.done BY <1>2
    <3>2. marker.page = 0 => marker.seen = 0 /\ marker.anchor = 0
      BY <3>1 DEF HistoryInv, MarkerCovers
    <3>3. ASSUME marker.page > 0 PROVE CoveredTo(marker.anchor, marker.page, marker.seen)'
      <4>1. CoveredTo(marker.anchor, marker.page, marker.seen)
        BY <3>1, <3>3 DEF HistoryInv, MarkerCovers
      <4>2. ~Reanchors BY <3>1, <3>3, <2>3 DEF Reanchors, Mode
      <4>3. want' \subseteq want BY <1>2, <4>2
      <4> QED BY <1>0, <1>2, <4>1, <4>3
          DEF CoveredTo, Placed, PagesStored, Stored, Rank, Before, TotalUpTo, UpTo
    <3> QED BY <1>2, <3>1, <3>2, <3>3 DEF MarkerCovers
  <2>14. WalkCovers'
    <3> SUFFICES ASSUME first' PROVE WalkCovers' BY DEF WalkCovers
    <3>1. first /\ ~marker.done BY <1>2
    <3>2. \A i \in want' : i \in UpTo(to) /\ SlotOf[Height[i]] < fl
      <4> SUFFICES ASSUME NEW i \in want' PROVE i \in UpTo(to) /\ SlotOf[Height[i]] < fl OBVIOUS
      <4>1. i \in 1..N /\ Height[i] < FloorHeight /\ SlotOf[Height[i]] < FloorSlot
        BY <1>2 DEF BelowBoundary
      <4>2. Height[i] \in Nat BY <4>1
      <4> QED BY <2>1, <4>1, <4>2 DEF UpTo, to, fl
    <3>3. CASE Reanchors
      <4>1. A = -1 BY <3>3 DEF A
      <4>2. marker.page = 0 /\ marker.seen = 0 /\ marker.anchor = 0
        <5>1. CASE ~marker.set BY <2>2, <5>1 DEF NoMarker
        <5>2. CASE marker.set
          <6>1. marker.page = 0 BY <3>1, <3>3, <5>2 DEF Reanchors, Mode
          <6> QED BY <3>1, <5>2, <6>1 DEF HistoryInv, MarkerCovers
        <5> QED BY <5>1, <5>2
      <4>3. StartPage = 1 /\ MaxItems = cap BY <2>2, <4>2 DEF StartPage, MaxItems, Mode
      <4>4. want' \subseteq Reached(cap, to) BY <1>2, <3>3 DEF to
      <4>5. WalkStarts' BY <1>0, <2>6, <4>2, <4>3, <4>4 DEF WalkStarts
      <4> QED BY <1>2, <2>6, <3>1, <3>2, <4>1, <4>5 DEF WalkCovers, UpTo
    <3>4. CASE ~Reanchors
      <4>1. marker.set /\ ~(marker.page = 0 /\ marker.anchor = 0) /\ Mode = "resume"
        BY <3>4 DEF Reanchors, Mode
      <4>2. marker.page > 0 BY <2>3, <3>1, <4>1 DEF HistoryInv, MarkerCovers
      <4>3. A = marker.anchor /\ A >= 0 BY <2>3, <3>4 DEF A
      <4>4. CoveredTo(A, marker.page, marker.seen)
        BY <3>1, <4>1, <4>2, <4>3 DEF HistoryInv, MarkerCovers
      <4>5. want' \subseteq want BY <1>2, <3>4
      <4>6. CoveredTo(A, marker.page, marker.seen)'
        BY <1>0, <1>2, <4>4, <4>5
        DEF CoveredTo, Placed, PagesStored, Stored, Rank, Before, TotalUpTo, UpTo, A, Reanchors, Mode
      <4>7. StartPage - 1 = marker.page /\ MaxItems = cap - marker.seen
        BY <2>3, <4>1 DEF StartPage, MaxItems
      <4>8. CoveredTo(walk.anchor, walk.page - 1, walk.seen)'
        <5>1. walk'.anchor = A' /\ walk'.page - 1 = marker'.page /\ walk'.seen = marker'.seen
          BY <1>2, <2>6, <4>3, <4>7 DEF A, Reanchors, Mode
        <5> QED BY <4>6, <5>1
      <4>9. Paging(walk.page - 1)'
        <5>1. marker.seen <= marker.page * PageSize /\ marker.page * PageSize \in Nat
          BY <2>3, <4>4 DEF CoveredTo
        <5>2. 0 \in Nat /\ 0 = 0 * PageSize OBVIOUS
        <5>3. 0 + cap <= marker.page * PageSize + MaxItems BY <2>2, <2>3, <4>7, <5>1
        <5>4. walk'.page - 1 = marker.page BY <2>6, <4>7
        <5> QED BY <1>0, <2>6, <5>2, <5>3, <5>4 DEF Paging
      <4>10. WalkAsks'
        BY <2>6, <4>1, <4>2, <4>3, <4>7, <4>8, <4>9, <2>3 DEF WalkAsks
      <4>11. A # -1 BY <2>5, <4>3
      <4> QED BY <1>2, <2>6, <3>1, <3>2, <4>3, <4>10, <4>11 DEF WalkCovers, UpTo
    <3> QED BY <3>3, <3>4
  <2> QED BY <2>8, <2>9, <2>11, <2>12, <2>13, <2>14 DEF HistoryInv, HistoryTypes
<1> QED BY <1>1, <1>2 DEF Run

-----------------------------------------------------------------------------
\* What a running attempt's fields are.
LEMMA WalkFields ==
    ASSUME HistoryInv, Walking
    PROVE  /\ walk \in WalkRecord
           /\ walk.at \in {"discover", "flush", "parts", "save"} /\ walk.mode \in {"resume", "restart"}
           /\ walk.page \in Nat \ {0} /\ walk.to \in Int /\ walk.floor \in Int /\ walk.seen \in Nat
           /\ walk.items \in Nat \ {0} /\ walk.yielded \in Nat /\ walk.anchor \in Int /\ walk.anchor >= -1
           /\ walk.last \in [page : Nat, anchor : Nat] /\ walk.last.page \in Nat
           /\ walk.last.anchor \in Nat /\ walk.fresh \in BOOLEAN /\ walk.batch \subseteq 1..N
           /\ walk.full \in BOOLEAN
<1>1. walk \in WalkRecord /\ walk.anchor >= -1
  BY DEF HistoryInv, HistoryTypes, WalkTypes, Walking, WalkResting
<1> QED BY <1>1 DEF WalkRecord

\* A step of the attempt that leaves the host, the marker and the tables alone.
LEMMA AttemptGoesOn ==
    ASSUME HistoryInv, UNCHANGED <<tip, peak, marker, rows, parts, joined, cap, want, first>>,
           Walking, walk' \in WalkRecord, walk'.anchor >= 0, walk'.to = walk.to, walk'.floor = walk.floor,
           walk'.batch \subseteq UpTo(walk.to), WalkCovers'
    PROVE  HistoryInv'
<1>1. HostTypes' /\ TableTypes' /\ MarkerTypes'
  BY DEF HistoryInv, HistoryTypes, HostTypes, TableTypes, MarkerTypes
<1>2. WalkTypes'
  <2>1. walk'.anchor \in Int BY DEF WalkRecord
  <2> QED BY <2>1 DEF WalkTypes
<1>3. BoundsSound' BY DEF HistoryInv, BoundsSound, Settledly, UpTo
<1>4. MarkerCovers' BY MarkerStays DEF HistoryInv
<1> QED BY <1>1, <1>2, <1>3, <1>4 DEF HistoryInv, HistoryTypes

LEMMA FindAnchorKeeps == ASSUME HistoryInv, FindAnchor PROVE HistoryInv'
<1> USE HistoryConstants
<1> DEFINE A == RecentAnchor(walk.items, walk.to)
<1>1. /\ walk.at = "discover" /\ walk.anchor = -1 /\ walk' = [walk EXCEPT !.anchor = A]
      /\ UNCHANGED <<tip, peak, marker, rows, parts, joined, cap, want, first>>
  BY DEF FindAnchor, hostVars, tableVars
<1>2. Walking BY <1>1 DEF Walking
<1>0. walk.items \in Nat \ {0} /\ walk.to \in Int BY <1>2, WalkFields
<1>3. A \in Nat BY <1>0, AnchorIs
<1>4. A \in Int /\ A >= 0 /\ A # -1 BY <1>3
<1>5. \A i \in Reached(walk.items, walk.to) : Height[i] >= A /\ Rank(A, i) < walk.items
  BY <1>0, AnchorIs
<1> HIDE DEF A
<1>6. walk' \in WalkRecord
  <2>1. walk \in WalkRecord BY <1>2, WalkFields
  <2> QED BY ONLY <1>1, <1>4, <2>1, ZenonT(60) DEF WalkRecord
<1>7. /\ walk'.at = "discover" /\ walk'.anchor = A /\ walk'.to = walk.to /\ walk'.floor = walk.floor
      /\ walk'.page = walk.page /\ walk'.seen = walk.seen /\ walk'.items = walk.items
      /\ walk'.yielded = walk.yielded /\ walk'.last = walk.last /\ walk'.batch = walk.batch
      /\ walk'.fresh = walk.fresh /\ walk'.mode = walk.mode
  <2>1. walk \in WalkRecord BY <1>2, WalkFields
  <2> QED BY <1>1, <2>1 DEF WalkRecord
<1>8. WalkCovers'
  <2> SUFFICES ASSUME first PROVE WalkCovers' BY <1>1 DEF WalkCovers
  <2>1. /\ ~marker.done /\ WalkStarts
        /\ \A i \in want : i \in UpTo(walk.to) /\ SlotOf[Height[i]] < walk.floor
    BY <1>1, <1>2 DEF HistoryInv, WalkCovers
  <2>2. walk.page - 1 = 0 /\ 0 * PageSize = 0 /\ cap \in Nat
    BY <2>1 DEF WalkStarts, HistoryInv, HistoryTypes, TableTypes
  <2>3. ASSUME NEW i \in want PROVE Height[i] >= A /\ Rank(A, i) < cap /\ ~(Rank(A, i) < 0)
    <3>1. i \in Reached(walk.items, walk.to) /\ walk.items = cap BY <2>1 DEF WalkStarts
    <3>2. i \in 1..N BY DEF HistoryInv, HistoryTypes, TableTypes
    <3>3. Height[i] >= A /\ Rank(A, i) < cap BY <1>5, <3>1
    <3>4. Rank(A, i) \in Int /\ Rank(A, i) >= 0 BY <1>4, <3>2, <3>3, BeforeMeans
    <3> QED BY <3>3, <3>4
  <2>4. CoveredTo(A, 0, 0)
    BY <2>2, <2>3 DEF CoveredTo, Placed, PagesStored
  <2>5. walk.seen = 0 /\ walk.page = 1 BY <2>1 DEF WalkStarts
  <2>6. CoveredTo(walk.anchor, walk.page - 1, walk.seen)'
    <3>1. walk'.anchor = A /\ walk'.page - 1 = 0 /\ walk'.seen = 0 BY <1>7, <2>2, <2>5
    <3> QED BY <1>1, <2>4, <3>1
        DEF CoveredTo, Placed, PagesStored, Stored, Rank, Before, TotalUpTo, UpTo
  <2>7. Paging(walk.page - 1)'
    <3>1. walk'.page - 1 = 0 /\ walk'.yielded = 0 /\ walk'.items = cap
      BY <1>7, <2>1, <2>2 DEF WalkStarts
    <3>2. 0 \in Nat /\ 0 = 0 * PageSize /\ 0 + cap <= 0 * PageSize + cap BY <2>2
    <3> QED BY <1>1, <3>1, <3>2 DEF Paging
  <2>8. WalkAsks'
    <3>1. walk'.last.page = 0 /\ walk'.last.anchor = 0 /\ walk'.seen = 0 BY <1>7, <2>1 DEF WalkStarts
    <3> QED BY <2>6, <2>7, <3>1 DEF WalkAsks
  <2> QED BY <1>1, <1>4, <1>7, <2>1, <2>8 DEF WalkCovers, UpTo
<1>9. walk'.batch \subseteq UpTo(walk.to) BY <1>2, <1>7 DEF HistoryInv, BoundsSound
<1> QED BY <1>1, <1>2, <1>4, <1>6, <1>7, <1>8, <1>9, AttemptGoesOn

\* Every wanted transaction of the page is asked for: its place lies within the cap.
LEMMA PageHolds ==
    ASSUME HistoryInv, walk.at = "discover", walk.anchor >= 0
    PROVE  /\ IsFiniteSet(CurrentPage) /\ Cardinality(CurrentPage) \in 0..PageSize
           /\ PageAsked \subseteq CurrentPage /\ CurrentPage \subseteq UpTo(walk.to)
           /\ CurrentPage \subseteq 1..N
           /\ (\E i \in UpTo(walk.to) : Rank(walk.anchor, i) >= walk.page * PageSize - 1)
                => Cardinality(CurrentPage) = PageSize
           /\ \A i \in UpTo(walk.to) :
                 /\ Rank(walk.anchor, i) >= (walk.page - 1) * PageSize
                 /\ Rank(walk.anchor, i) < walk.page * PageSize
                 => /\ i \in CurrentPage
                    /\ Rank(walk.anchor, i) - (walk.page - 1) * PageSize < cap - walk.seen
                          => i \in PageAsked
           /\ (\E i \in UpTo(walk.to) : Rank(walk.anchor, i) >= (walk.page - 1) * PageSize)
                => CurrentPage # {}
           /\ CurrentPage # {} /\ cap - walk.seen > 0 => PageAsked # {}
<1> USE HistoryConstants
<1> DEFINE A == walk.anchor
           p == walk.page
           to == walk.to
           s == (p - 1) * PageSize
           lo == Before(A) + 1 + s
           m == TotalUpTo(to)
           P == Page(Listed(A, to), p)
<1>1. Walking BY DEF Walking
<1>2. A \in Int /\ p \in Nat \ {0} /\ to \in Int /\ walk.seen \in Nat BY <1>1, WalkFields
<1>20. UpTo(to) = 1..m /\ m \in 0..N BY <1>2, Prefix
<1>21. m \in Nat BY <1>20
<1>3. UpTo(to) = 1..m /\ m \in 0..N /\ m \in Nat /\ m \in Int BY <1>20, <1>21
<1>22. Before(A) \in Int /\ Before(A) >= 0 BY <1>2, BeforeType
<1>4. Before(A) \in Nat BY <1>22
<1>5. s \in Nat /\ p * PageSize = s + PageSize /\ p * PageSize \in Nat BY <1>2, PageStart
<1>6. /\ lo \in Nat
      /\ \A i : i \in P <=> i \in 1..m /\ lo <= i /\ i < lo + PageSize
      /\ \A n \in Int : \A i : i \in Oldest(n, P) <=> i \in P /\ i - lo < n
      /\ IsFiniteSet(P) /\ Cardinality(P) <= PageSize /\ Cardinality(P) \in Nat
      /\ lo + PageSize - 1 <= m => Cardinality(P) = PageSize
  BY <1>2, PageIs
<1>7. cap \in Nat /\ cap - walk.seen \in Int BY <1>2 DEF HistoryInv, HistoryTypes, TableTypes
<1>8. CurrentPage = P /\ PageAsked = Oldest(cap - walk.seen, P) BY DEF CurrentPage, PageAsked
<1>9. \A i : Rank(A, i) = i - 1 - Before(A) BY DEF Rank
<1>10. lo = Before(A) + 1 + s OBVIOUS
<1> HIDE DEF A, p, to, s, lo, m, P
<1>23. s \in Int /\ lo \in Int /\ PageSize \in Int BY <1>5, <1>6
<1>24. ASSUME NEW i \in 1..m
       PROVE  /\ Rank(A, i) - s = i - lo
              /\ (Rank(A, i) >= s) <=> (lo <= i)
              /\ (Rank(A, i) < p * PageSize) <=> (i < lo + PageSize)
              /\ Rank(A, i) >= p * PageSize - 1 => lo + PageSize - 1 <= m
  <2>1. i \in Int /\ i <= m BY <1>3
  <2> DEFINE b == Before(A)
  <2>2. b \in Int BY <1>22
  <2> HIDE DEF b
  <2>3. lo = b + 1 + s BY <1>10 DEF b
  <2>4. /\ (i - 1 - b) - s = i - lo
        /\ (i - 1 - b >= s) <=> (lo <= i)
        /\ (i - 1 - b < s + PageSize) <=> (i < lo + PageSize)
        /\ i <= m /\ i - 1 - b >= s + PageSize - 1 => lo + PageSize - 1 <= m
    BY ONLY <1>3, <1>23, <2>1, <2>2, <2>3, PlaceArith
  <2>5. Rank(A, i) = i - 1 - b BY <1>9 DEF b
  <2>6. p * PageSize = s + PageSize BY <1>5
  <2> DEFINE rk == Rank(A, i)
             q == p * PageSize
  <2>7. rk = i - 1 - b /\ q = s + PageSize BY <2>5, <2>6
  <2> HIDE DEF rk, q
  <2>8. /\ rk - s = i - lo
        /\ (rk >= s) <=> (lo <= i)
        /\ (rk < q) <=> (i < lo + PageSize)
        /\ rk >= q - 1 => lo + PageSize - 1 <= m
    BY ONLY <1>23, <2>1, <2>2, <2>4, <2>7
  <2> QED BY ONLY <2>8 DEF rk, q
<1>11. IsFiniteSet(P) /\ Cardinality(P) \in 0..PageSize BY <1>6
<1>12. Oldest(cap - walk.seen, P) \subseteq P /\ P \subseteq UpTo(to) /\ P \subseteq 1..N
  BY <1>3, <1>6, <1>7
<1>13. ASSUME NEW i \in UpTo(to), Rank(A, i) >= p * PageSize - 1
       PROVE  Cardinality(P) = PageSize
  <2>1. i \in 1..m BY <1>3
  <2>2. lo + PageSize - 1 <= m BY <1>24, <1>13, <2>1
  <2> QED BY <1>6, <2>2
<1>14. ASSUME NEW i \in UpTo(to), Rank(A, i) >= s, Rank(A, i) < p * PageSize
       PROVE  i \in P /\ (Rank(A, i) - s < cap - walk.seen => i \in Oldest(cap - walk.seen, P))
  <2>1. i \in 1..m BY <1>3
  <2>2. lo <= i /\ i < lo + PageSize /\ i - lo = Rank(A, i) - s
    BY <1>24, <1>14, <2>1
  <2> QED BY <1>6, <1>7, <2>1, <2>2
<1>15. ASSUME NEW i \in 1..m, lo <= i PROVE lo \in P
  <2>1. 1 <= lo BY <1>4, <1>5, <1>10
  <2>2. lo \in 1..m /\ lo <= lo /\ lo < lo + PageSize BY <1>3, <1>15, <1>23, <2>1
  <2> QED BY <1>6, <2>2
<1>25. ASSUME NEW i \in UpTo(to), Rank(A, i) >= s PROVE P # {}
  <2>1. i \in 1..m BY <1>3
  <2>2. lo <= i BY <1>24, <1>25, <2>1
  <2> QED BY <1>15, <2>1, <2>2
<1>16. ASSUME P # {}, cap - walk.seen > 0 PROVE Oldest(cap - walk.seen, P) # {}
  <2>1. PICK i \in P : TRUE BY <1>16
  <2>2. i \in 1..m /\ lo <= i BY <1>6
  <2>3. lo \in P BY <1>15, <2>2
  <2>4. lo - lo < cap - walk.seen
    <3>1. lo - lo = 0 BY <1>23
    <3> QED BY <1>7, <1>16, <3>1
  <2>5. lo \in Oldest(cap - walk.seen, P) BY <1>6, <1>7, <2>3, <2>4
  <2> QED BY <2>5
<1> QED BY <1>8, <1>11, <1>12, <1>13, <1>14, <1>25, <1>16 DEF A, p, to, s

LEMMA GapArith ==
    ASSUME NEW a \in Int, NEW c \in Int, NEW s \in Int, NEW d \in Int, a < c, d <= s
    PROVE  a - s < c - d
  OBVIOUS

LEMMA FoldedArith ==
    ASSUME NEW s \in Int, NEW z \in Int, NEW seen \in Int, NEW got \in Int, NEW n \in Int,
           seen <= s, got <= n, n <= z
    PROVE  seen + got <= s + z
  OBVIOUS

LEMMA NextMultiple ==
    ASSUME NEW y \in Nat, NEW z \in Nat \ {0}, NEW k \in Nat, y = k * z
    PROVE  k + 1 \in Nat /\ y + z = (k + 1) * z
  OBVIOUS

LEMMA MultipleRemainder ==
    ASSUME NEW y \in Nat, NEW z \in Nat \ {0}, NEW k \in Nat, y = k * z
    PROVE  y % z = 0
  OBVIOUS

LEMMA FetchPageKeeps == ASSUME HistoryInv, FetchPage PROVE HistoryInv'
<1> USE HistoryConstants
<1> DEFINE got == PageAsked \ Unserved
           n == Cardinality(CurrentPage)
           g == Cardinality(got)
<1>1. /\ walk.at = "discover" /\ walk.anchor >= 0 /\ ~Exhausted
      /\ walk' = [walk EXCEPT !.at = "flush", !.batch = got, !.seen = walk.seen + g,
                              !.yielded = walk.yielded + n, !.full = walk.seen + g >= cap]
      /\ UNCHANGED <<tip, peak, marker, rows, parts, joined, cap, want, first>>
  BY DEF FetchPage, hostVars, tableVars
<1>2. Walking BY <1>1 DEF Walking
<1>3. walk \in WalkRecord BY <1>2, WalkFields
<1>4. /\ IsFiniteSet(CurrentPage) /\ n \in 0..PageSize
      /\ PageAsked \subseteq CurrentPage /\ CurrentPage \subseteq UpTo(walk.to)
      /\ CurrentPage \subseteq 1..N
  BY <1>1, PageHolds
<1>5. g \in Nat /\ g <= n /\ n \in Nat
  <2>1. got \subseteq CurrentPage BY <1>4
  <2>2. IsFiniteSet(got) /\ g <= n BY <1>4, <2>1, FS_Subset
  <2>3. g \in Nat BY <2>2, FS_CardinalityType
  <2>4. n \in Nat BY <1>4
  <2> QED BY <2>2, <2>3, <2>4
<1>6. got \subseteq 1..N /\ got \subseteq UpTo(walk.to) BY <1>4
<1>7. cap \in Nat BY DEF HistoryInv, HistoryTypes, TableTypes
<1>8. /\ walk.seen \in Nat /\ walk.yielded \in Nat /\ walk.page \in Nat \ {0} /\ walk.anchor \in Int
      /\ walk.items \in Nat /\ walk.to \in Int
  BY <1>2, WalkFields
<1> HIDE DEF got, n, g
<1>9. walk' \in WalkRecord
  <2>1. walk.seen + g \in Nat /\ walk.yielded + n \in Nat BY <1>5, <1>8
  <2>2. (walk.seen + g >= cap) \in BOOLEAN OBVIOUS
  <2>3. got \in SUBSET (1..N) BY <1>6
  <2>4. "flush" \in {"discover", "flush", "parts", "save"} OBVIOUS
  <2> QED BY ONLY <1>1, <1>3, <2>1, <2>2, <2>3, <2>4, ZenonT(90) DEF WalkRecord
<1>10. /\ walk'.at = "flush" /\ walk'.batch = got /\ walk'.seen = walk.seen + g
       /\ walk'.yielded = walk.yielded + n /\ walk'.anchor = walk.anchor /\ walk'.to = walk.to
       /\ walk'.floor = walk.floor /\ walk'.page = walk.page /\ walk'.items = walk.items
  BY <1>1, <1>3 DEF WalkRecord
<1>11. WalkCovers'
  <2> SUFFICES ASSUME first PROVE WalkCovers' BY <1>1 DEF WalkCovers
  <2> DEFINE A == walk.anchor
             s == (walk.page - 1) * PageSize
             e == walk.page * PageSize
  <2>1. /\ ~marker.done /\ WalkAsks
        /\ \A i \in want : i \in UpTo(walk.to) /\ SlotOf[Height[i]] < walk.floor
    BY <1>1, <1>2 DEF HistoryInv, WalkCovers
  <2>2. /\ walk.seen <= s /\ Placed(A) /\ PagesStored(A, walk.page - 1) /\ Paging(walk.page - 1)
    BY <2>1 DEF WalkAsks, CoveredTo
  <2>3. s \in Nat /\ e = s + PageSize /\ e \in Nat BY <1>8, PageStart
  <2>4. walk'.seen <= walk'.page * PageSize
    <3>1. walk.seen \in Int /\ g \in Int /\ n \in Int /\ s \in Int /\ PageSize \in Int /\ n <= PageSize
      BY <1>4, <1>5, <1>8, <2>3
    <3>2. walk.seen + g <= s + PageSize BY <1>5, <2>2, <3>1, FoldedArith
    <3> QED BY <1>10, <2>3, <3>2
  <2>5. Placed(walk.anchor)' /\ PagesStored(walk.anchor, walk.page - 1)'
    BY <1>1, <1>10, <2>2 DEF Placed, PagesStored, Stored, Rank, Before, TotalUpTo, UpTo
  <2>6. ASSUME NEW i \in want \ Unserved, Rank(A, i) >= s, Rank(A, i) < e PROVE i \in got
    <3>1. i \in UpTo(walk.to) BY <2>1
    <3>2. Rank(A, i) < cap BY <2>2 DEF Placed
    <3>3. i \in 1..N BY DEF HistoryInv, HistoryTypes, TableTypes
    <3>4. Rank(A, i) \in Int BY <1>8, <3>3, BeforeMeans
    <3>5. Rank(A, i) - s < cap - walk.seen
      <4> DEFINE rk == Rank(A, i)
      <4>1. rk \in Int /\ rk < cap /\ walk.seen <= s BY <2>2, <3>2, <3>4
      <4> HIDE DEF rk, s
      <4>2. s \in Int /\ cap \in Int /\ walk.seen \in Int BY <1>7, <1>8, <2>3
      <4>3. rk - s < cap - walk.seen BY ONLY <4>1, <4>2, GapArith
      <4> QED BY <4>3 DEF rk
    <3>6. i \in PageAsked BY <1>1, <2>6, <3>1, <3>5, PageHolds
    <3> QED BY <3>6 DEF got
  <2>7. Paging(walk.page)'
    <3> HIDE DEF s, e
    <3>1. CASE \A i \in UpTo(walk.to) : Rank(A, i) < s
      <4>1. ASSUME NEW i \in UpTo(walk.to) PROVE Rank(A, i) < e
        <5>1. i \in 1..N BY DEF UpTo
        <5>2. Rank(A, i) \in Int BY <1>8, <5>1, BeforeMeans
        <5> QED BY <2>3, <3>1, <5>2
      <4>2. \A i \in UpTo(walk.to) : Rank(A, i) < walk.page * PageSize BY <4>1 DEF e
      <4> QED BY <1>10, <4>2 DEF Paging, Rank, Before, TotalUpTo, UpTo
    <3>2. CASE \A i \in UpTo(walk.to) : Rank(A, i) < e
      <4>2. \A i \in UpTo(walk.to) : Rank(A, i) < walk.page * PageSize BY <3>2 DEF e
      <4> QED BY <1>10, <4>2 DEF Paging, Rank, Before, TotalUpTo, UpTo
    <3>3. CASE /\ \E k \in Nat : walk.yielded = k * PageSize
               /\ walk.yielded + cap <= s + walk.items
               /\ ~ \A i \in UpTo(walk.to) : Rank(A, i) < e
      <4>1. PICK i \in UpTo(walk.to) : ~(Rank(A, i) < e) BY <3>3
      <4>2. i \in 1..N BY DEF UpTo
      <4>3. Rank(A, i) \in Int BY <1>8, <4>2, BeforeMeans
      <4>4. Rank(A, i) >= e - 1 BY <2>3, <4>1, <4>3
      <4>5. n = PageSize BY <1>1, <4>4, PageHolds DEF n, e
      <4>6. \E k \in Nat : walk'.yielded = k * PageSize
        <5>1. PICK k \in Nat : walk.yielded = k * PageSize BY <3>3
        <5>2. k + 1 \in Nat /\ walk.yielded + PageSize = (k + 1) * PageSize
          BY <1>8, <5>1, NextMultiple
        <5> QED BY <1>10, <4>5, <5>2
      <4>7. walk'.yielded + cap <= e + walk.items
        <5>1. walk'.yielded = walk.yielded + PageSize BY <1>10, <4>5
        <5>2. walk.yielded + PageSize + cap <= e + walk.items
          BY ONLY <1>7, <1>8, <2>3, <3>3, HistoryConstants
        <5> QED BY <5>1, <5>2
      <4> QED BY <1>1, <1>10, <4>6, <4>7 DEF Paging, e
    <3> QED BY <2>2, <3>1, <3>2, <3>3 DEF Paging, s
  <2>8. \A i \in want \ Unserved :
          Rank(A, i) >= s /\ Rank(A, i) < e => i \in walk'.batch
    BY <1>10, <2>6
  <2>9. WalkFolds'
    BY <1>1, <1>10, <2>4, <2>5, <2>7, <2>8 DEF WalkFolds, Rank, Before, TotalUpTo, UpTo
  <2> QED BY <1>1, <1>10, <2>1, <2>9 DEF WalkCovers, UpTo
<1> QED BY <1>1, <1>2, <1>6, <1>9, <1>10, <1>11, AttemptGoesOn

-----------------------------------------------------------------------------
\* _SlotCappedRepo lets through only what lies below the boundary.
LEMMA KeptSettled ==
    ASSUME HistoryInv, Walking, NEW S \in SUBSET UpTo(walk.to)
    PROVE  Kept(S) \subseteq 1..N /\ \A i \in Kept(S) : Settledly(i)
<1> USE HistoryConstants
<1>1. walk.to \in Int /\ walk.floor \in Int BY WalkFields
<1>2. /\ walk.to + SafetyBlocks < peak
      /\ \A j \in 1..N : Height[j] >= HostStart => walk.floor <= SlotOf[Height[j]]
  BY DEF HistoryInv, BoundsSound
<1>3. peak \in Nat BY DEF HistoryInv, HistoryTypes, HostTypes
<1>4. Kept(S) \subseteq 1..N BY DEF Kept, UpTo
<1>5. ASSUME NEW i \in Kept(S) PROVE Settledly(i)
  <2>1. i \in 1..N /\ Height[i] <= walk.to /\ SlotOf[Height[i]] < walk.floor BY DEF Kept, UpTo
  <2>2. Height[i] \in Nat /\ SlotOf[Height[i]] \in Nat BY <2>1
  <2>3. Height[i] + SafetyBlocks < peak BY <1>1, <1>2, <1>3, <2>1, <2>2
  <2>4. ASSUME NEW j \in 1..N, Height[j] >= HostStart PROVE SlotOf[Height[i]] < SlotOf[Height[j]]
    <3>1. SlotOf[Height[j]] \in Nat /\ walk.floor <= SlotOf[Height[j]] BY <1>2, <2>4
    <3> QED BY <1>1, <2>1, <2>2, <3>1
  <2> QED BY <2>3, <2>4 DEF Settledly
<1> QED BY <1>4, <1>5

LEMMA FetchFailsKeeps == ASSUME HistoryInv, FetchFails PROVE HistoryInv'
<1>1. /\ walk.at = "discover" /\ walk.anchor >= 0 /\ walk' = WalkResting
      /\ UNCHANGED <<tip, peak, marker, joined, cap, want, first>>
  BY DEF FetchFails, hostVars
<1>2. PICK n \in 0 .. Cardinality(PageAsked) - 1 :
         /\ rows' = rows \cup Kept(Oldest(n, PageAsked) \ Unserved)
         /\ parts' = parts \cup Kept(Oldest(n, PageAsked) \ Unserved)
  BY DEF FetchFails
<1> DEFINE S == Oldest(n, PageAsked) \ Unserved
<1>3. Walking BY <1>1 DEF Walking
<1>4. S \in SUBSET UpTo(walk.to)
  <2>1. PageAsked \subseteq UpTo(walk.to) BY <1>1, PageHolds
  <2> QED BY <2>1 DEF Oldest
<1>5. Kept(S) \subseteq 1..N /\ \A i \in Kept(S) : Settledly(i) BY <1>3, <1>4, KeptSettled
<1>6. rows' = rows \cup Kept(S) /\ parts' = parts \cup Kept(S) BY <1>2
<1> HIDE DEF S
<1>7. WalkTypes' /\ WalkCovers' /\ ~Walking' BY <1>1, AtRest
<1>8. HostTypes' /\ MarkerTypes' BY <1>1 DEF HistoryInv, HistoryTypes, HostTypes, MarkerTypes
<1>9. TableTypes' BY <1>1, <1>5, <1>6 DEF HistoryInv, HistoryTypes, TableTypes
<1>10. BoundsSound' BY <1>1, <1>5, <1>6, <1>7 DEF HistoryInv, BoundsSound, Settledly
<1>11. MarkerCovers' BY <1>1, <1>6, MarkerStays DEF HistoryInv
<1> QED BY <1>7, <1>8, <1>9, <1>10, <1>11 DEF HistoryInv, HistoryTypes

LEMMA FlushKeeps == ASSUME HistoryInv, FlushRows \/ FlushParts PROVE HistoryInv'
<1> DEFINE K == Kept(walk.batch)
           at == IF walk.at = "flush" THEN "parts" ELSE "save"
<1>1. /\ walk.at \in {"flush", "parts"} /\ walk' = [walk EXCEPT !.at = at]
      /\ rows' = (IF walk.at = "flush" THEN rows \cup K ELSE rows)
      /\ parts' = (IF walk.at = "flush" THEN parts ELSE parts \cup K)
      /\ UNCHANGED <<tip, peak, marker, joined, cap, want, first>>
  BY DEF FlushRows, FlushParts, hostVars
<1>2. Walking BY <1>1 DEF Walking
<1>3. walk \in WalkRecord /\ walk.anchor \in Int BY <1>2, WalkFields
<1>4. walk.batch \in SUBSET UpTo(walk.to) BY <1>2 DEF HistoryInv, BoundsSound
<1>5. K \subseteq 1..N /\ \A i \in K : Settledly(i) BY <1>2, <1>4, KeptSettled
<1>6. \A i \in walk.batch : SlotOf[Height[i]] < walk.floor => i \in K BY DEF Kept
<1>7. at \in {"parts", "save"} /\ at \in {"discover", "flush", "parts", "save"} BY <1>1
<1> HIDE DEF K
<1>8. walk' \in WalkRecord BY ONLY <1>1, <1>3, <1>7, ZenonT(90) DEF WalkRecord
<1>9. /\ walk'.at = at /\ walk'.batch = walk.batch /\ walk'.seen = walk.seen
      /\ walk'.yielded = walk.yielded /\ walk'.anchor = walk.anchor /\ walk'.to = walk.to
      /\ walk'.floor = walk.floor /\ walk'.page = walk.page /\ walk'.items = walk.items
  BY <1>1, <1>3 DEF WalkRecord
<1>10. WalkTypes'
  <2>1. walk.anchor >= 0 BY <1>1, <1>2 DEF HistoryInv, HistoryTypes, WalkTypes
  <2> QED BY <1>3, <1>8, <1>9, <2>1 DEF WalkTypes
<1>11. HostTypes' /\ MarkerTypes' BY <1>1 DEF HistoryInv, HistoryTypes, HostTypes, MarkerTypes
<1>12. TableTypes' BY <1>1, <1>5 DEF HistoryInv, HistoryTypes, TableTypes
<1>13. BoundsSound'
  <2>1. \A i \in rows' \cup parts' : Settledly(i) BY <1>1, <1>5 DEF HistoryInv, BoundsSound
  <2> QED BY <1>1, <1>2, <1>9, <2>1 DEF HistoryInv, BoundsSound, Settledly, UpTo
<1>14. rows \subseteq rows' /\ parts \subseteq parts' BY <1>1
<1>15. MarkerCovers' BY <1>1, <1>14, MarkerStays DEF HistoryInv
<1>16. WalkCovers'
  <2> SUFFICES ASSUME first PROVE WalkCovers' BY <1>1 DEF WalkCovers
  <2>1. /\ ~marker.done /\ WalkFolds
        /\ \A i \in want : i \in UpTo(walk.to) /\ SlotOf[Height[i]] < walk.floor
    BY <1>1, <1>2 DEF HistoryInv, WalkCovers
  <2>2. /\ Placed(walk.anchor)' /\ PagesStored(walk.anchor, walk.page - 1)' /\ Paging(walk.page)'
        /\ walk'.seen <= walk'.page * PageSize
    BY <1>1, <1>9, <1>14, <2>1
    DEF WalkFolds, Placed, PagesStored, Paging, Stored, Rank, Before, TotalUpTo, UpTo
  <2>3. ASSUME NEW i \in want \ Unserved,
               Rank(walk.anchor, i) >= (walk.page - 1) * PageSize,
               Rank(walk.anchor, i) < walk.page * PageSize
        PROVE  i \in walk'.batch /\ i \in rows' /\ (walk'.at = "save" => i \in parts')
    <3>1. i \in walk.batch /\ (walk.at = "parts" => i \in rows) BY <1>1, <2>1, <2>3 DEF WalkFolds
    <3>2. i \in K BY <1>6, <2>1, <3>1
    <3> QED BY <1>1, <1>9, <3>1, <3>2
  <2>4. WalkFolds'
    BY <1>1, <1>9, <2>2, <2>3 DEF WalkFolds, Rank, Before, TotalUpTo, UpTo
  <2> QED BY <1>1, <1>7, <1>9, <2>1, <2>4 DEF WalkCovers, UpTo
<1> QED BY <1>10, <1>11, <1>12, <1>13, <1>15, <1>16 DEF HistoryInv, HistoryTypes

LEMMA SavePageKeeps == ASSUME HistoryInv, SavePage PROVE HistoryInv'
<1> USE HistoryConstants
<1> DEFINE next == [walk EXCEPT !.at = "discover", !.page = walk.page + 1, !.fresh = FALSE,
                                !.batch = {},
                                !.last = [page |-> walk.page, anchor |-> walk.anchor]]
<1>1. /\ walk.at = "save" /\ walk' = (IF walk.full THEN WalkResting ELSE next)
      /\ marker' = [set |-> TRUE, done |-> FALSE, seen |-> walk.seen,
                    page |-> walk.page, anchor |-> walk.anchor]
      /\ UNCHANGED <<tip, peak, rows, parts, joined, cap, want, first>>
  BY DEF SavePage, hostVars
<1>2. Walking BY <1>1 DEF Walking
<1>3. /\ walk \in WalkRecord /\ walk.anchor \in Int /\ walk.page \in Nat \ {0} /\ walk.seen \in Nat
      /\ walk.to \in Int /\ walk.floor \in Int
  BY <1>2, WalkFields
<1>4. walk.anchor >= 0 /\ walk.anchor \in Nat
  <2>1. walk.anchor >= 0 BY <1>1, <1>2 DEF HistoryInv, HistoryTypes, WalkTypes
  <2> QED BY <1>3, <2>1
<1>5. MarkerTypes' BY <1>1, <1>3, <1>4 DEF MarkerTypes, MarkerRecord
<1>6. /\ marker'.set = TRUE /\ marker'.done = FALSE /\ marker'.seen = walk.seen
      /\ marker'.page = walk.page /\ marker'.anchor = walk.anchor
  BY <1>1
<1>7. ASSUME first
      PROVE  CoveredTo(walk.anchor, walk.page, walk.seen)
  <2>1. WalkFolds BY <1>1, <1>2, <1>7 DEF HistoryInv, WalkCovers
  <2>2. ASSUME NEW i \in want \ Unserved, Rank(walk.anchor, i) < walk.page * PageSize PROVE Stored(i)
    <3>1. i \in 1..N BY DEF HistoryInv, HistoryTypes, TableTypes
    <3>2. Rank(walk.anchor, i) \in Int /\ (walk.page - 1) * PageSize \in Nat
      BY <1>3, <3>1, BeforeMeans, PageStart
    <3>3. CASE Rank(walk.anchor, i) < (walk.page - 1) * PageSize
      BY <2>1, <3>3 DEF WalkFolds, PagesStored
    <3>4. CASE ~(Rank(walk.anchor, i) < (walk.page - 1) * PageSize)
      <4>1. Rank(walk.anchor, i) >= (walk.page - 1) * PageSize BY <3>2, <3>4
      <4> QED BY <1>1, <2>1, <2>2, <4>1 DEF WalkFolds, Stored
    <3> QED BY <3>3, <3>4
  <2> QED BY <2>1, <2>2 DEF WalkFolds, CoveredTo, PagesStored
<1>8. MarkerCovers'
  <2> SUFFICES ASSUME first PROVE MarkerCovers' BY <1>1 DEF MarkerCovers
  <2>1. CoveredTo(marker.anchor, marker.page, marker.seen)'
    BY <1>1, <1>6, <1>7 DEF CoveredTo, Placed, PagesStored, Stored, Rank, Before, TotalUpTo, UpTo
  <2>2. marker'.page # 0 BY <1>3, <1>6
  <2> QED BY <1>6, <2>1, <2>2 DEF MarkerCovers
<1>9. CASE walk.full BY <1>1, <1>5, <1>8, <1>9, AttemptEnds
<1>10. CASE ~walk.full
  <2>1. walk' = next BY <1>1, <1>10
  <2>2. next \in WalkRecord
    <3>1. [page |-> walk.page, anchor |-> walk.anchor] \in [page : Nat, anchor : Nat] BY <1>3, <1>4
    <3>2. walk.page + 1 \in Nat \ {0} BY <1>3
    <3>3. {} \in SUBSET (1..N) OBVIOUS
    <3>4. "discover" \in {"discover", "flush", "parts", "save"} OBVIOUS
    <3> QED BY ONLY <1>3, <3>1, <3>2, <3>3, <3>4, ZenonT(90) DEF WalkRecord
  <2>3. /\ next.at = "discover" /\ next.page = walk.page + 1 /\ next.fresh = FALSE /\ next.batch = {}
        /\ next.last = [page |-> walk.page, anchor |-> walk.anchor] /\ next.seen = walk.seen
        /\ next.yielded = walk.yielded /\ next.anchor = walk.anchor /\ next.to = walk.to
        /\ next.floor = walk.floor /\ next.items = walk.items
    BY <1>3 DEF WalkRecord
  <2> HIDE DEF next
  <2>4. WalkTypes' BY <1>3, <1>4, <2>1, <2>2, <2>3 DEF WalkTypes
  <2>5. HostTypes' /\ TableTypes' BY <1>1 DEF HistoryInv, HistoryTypes, HostTypes, TableTypes
  <2>6. BoundsSound'
    BY <1>1, <1>2, <2>1, <2>3 DEF HistoryInv, BoundsSound, Settledly, UpTo
  <2>7. WalkCovers'
    <3> SUFFICES ASSUME first PROVE WalkCovers' BY <1>1 DEF WalkCovers
    <3>1. /\ WalkFolds
          /\ \A i \in want : i \in UpTo(walk.to) /\ SlotOf[Height[i]] < walk.floor
      BY <1>1, <1>2 DEF HistoryInv, WalkCovers
    <3>2. next.page - 1 = walk.page /\ next.last.page = walk.page /\ next.last.anchor = walk.anchor
          /\ walk.page # 0
      BY <1>3, <2>3
    <3>3. CoveredTo(walk.anchor, walk.page - 1, walk.seen)'
      BY <1>1, <1>7, <2>1, <2>3, <3>2
      DEF CoveredTo, Placed, PagesStored, Stored, Rank, Before, TotalUpTo, UpTo
    <3>4. Paging(walk.page - 1)'
      BY <1>1, <2>1, <2>3, <3>1, <3>2 DEF WalkFolds, Paging, Rank, Before, TotalUpTo, UpTo
    <3>5. WalkAsks' BY <2>1, <2>3, <3>2, <3>3, <3>4 DEF WalkAsks
    <3>6. walk.anchor # -1 BY <1>4
    <3> QED BY <1>1, <1>6, <2>1, <2>3, <3>1, <3>5, <3>6 DEF WalkCovers, UpTo
  <2> QED BY <1>5, <1>8, <2>4, <2>5, <2>6, <2>7 DEF HistoryInv, HistoryTypes
<1> QED BY <1>9, <1>10

\* The cursor an attempt leaves when it is stopped before it saves another page.
LEMMA CursorCovers ==
    ASSUME HistoryInv, walk.at = "discover", first, walk.anchor >= 0, walk.last.page > 0
    PROVE  CoveredTo(walk.last.anchor, walk.last.page, walk.seen)
<1>1. Walking BY DEF Walking
<1>2. WalkAsks BY <1>1 DEF HistoryInv, WalkCovers
<1> QED BY <1>2 DEF WalkAsks

LEMMA RateLimitedKeeps == ASSUME HistoryInv, RateLimited PROVE HistoryInv'
<1>1. /\ walk.at = "discover" /\ walk' = WalkResting
      /\ marker' = [set |-> TRUE, done |-> FALSE, seen |-> walk.seen,
                    page |-> Interrupted.page, anchor |-> Interrupted.anchor]
      /\ UNCHANGED <<tip, peak, rows, parts, joined, cap, want, first>>
  BY DEF RateLimited, hostVars
<1>2. Walking BY <1>1 DEF Walking
<1>3. /\ walk.seen \in Nat /\ walk.last.page \in Nat /\ walk.last.anchor \in Nat
      /\ walk.anchor \in Int /\ walk.anchor >= -1
  BY <1>2, WalkFields
<1>4. /\ Interrupted.page = (IF walk.fresh /\ walk.mode = "restart" THEN 0 ELSE walk.last.page)
      /\ Interrupted.anchor = (IF walk.fresh /\ walk.mode = "restart" THEN 0 ELSE walk.last.anchor)
  BY DEF Interrupted
<1>5. Interrupted.page \in Nat /\ Interrupted.anchor \in Nat BY <1>3, <1>4
<1>6. /\ marker'.set = TRUE /\ marker'.done = FALSE /\ marker'.seen = walk.seen
      /\ marker'.page = Interrupted.page /\ marker'.anchor = Interrupted.anchor
  BY <1>1
<1>7. MarkerTypes' BY <1>1, <1>3, <1>5 DEF MarkerTypes, MarkerRecord
<1>8. MarkerCovers'
  <2> SUFFICES ASSUME first PROVE MarkerCovers' BY <1>1 DEF MarkerCovers
  <2>1. CASE walk.anchor = -1
    <3>1. WalkStarts BY <1>1, <1>2, <2>1 DEF HistoryInv, WalkCovers
    <3> QED BY <1>4, <1>6, <3>1 DEF WalkStarts, MarkerCovers
  <2>2. CASE walk.anchor # -1
    <3>1. walk.anchor >= 0 BY <1>3, <2>2
    <3>2. WalkAsks BY <1>1, <1>2, <3>1 DEF HistoryInv, WalkCovers
    <3>3. CASE Interrupted.page = 0
      <4>1. walk.seen = 0 /\ Interrupted.anchor = 0 BY <1>4, <3>2, <3>3 DEF WalkAsks
      <4> QED BY <1>6, <3>3, <4>1 DEF MarkerCovers
    <3>4. CASE Interrupted.page # 0
      <4>1. /\ Interrupted.page = walk.last.page /\ Interrupted.anchor = walk.last.anchor
            /\ walk.last.page > 0
        BY <1>3, <1>4, <3>4
      <4>2. CoveredTo(walk.last.anchor, walk.last.page, walk.seen)
        BY <1>1, <3>1, <4>1, CursorCovers
      <4>3. CoveredTo(marker.anchor, marker.page, marker.seen)'
        BY <1>1, <1>6, <4>1, <4>2
        DEF CoveredTo, Placed, PagesStored, Stored, Rank, Before, TotalUpTo, UpTo
      <4> QED BY <1>6, <3>4, <4>3 DEF MarkerCovers
    <3> QED BY <3>3, <3>4
  <2> QED BY <2>1, <2>2
<1> QED BY <1>1, <1>7, <1>8, AttemptEnds

\* The listing is exhausted only when every wanted transaction has been stored.
LEMMA ExhaustedStored ==
    ASSUME HistoryInv, walk.at = "discover", first, walk.anchor >= 0, Exhausted,
           NEW i \in want \ Unserved
    PROVE  Stored(i)
<1> USE HistoryConstants
<1> DEFINE A == walk.anchor
           s == (walk.page - 1) * PageSize
<1>1. Walking BY DEF Walking
<1>2. WalkAsks /\ i \in UpTo(walk.to) BY <1>1 DEF HistoryInv, WalkCovers
<1>3. walk.seen <= s /\ Placed(A) /\ PagesStored(A, walk.page - 1) /\ Paging(walk.page - 1)
  BY <1>2 DEF WalkAsks, CoveredTo
<1>4. /\ walk.seen \in Nat /\ walk.yielded \in Nat /\ walk.page \in Nat \ {0} /\ walk.anchor \in Int
      /\ walk.items \in Nat /\ cap \in Nat
  BY <1>1, WalkFields DEF HistoryInv, HistoryTypes, TableTypes
<1>5. i \in 1..N BY DEF HistoryInv, HistoryTypes, TableTypes
<1>6. Rank(A, i) \in Int /\ Rank(A, i) < cap BY <1>3, <1>4, <1>5, BeforeMeans DEF Placed
<1>7. s \in Nat BY <1>4, PageStart
<1> SUFFICES ASSUME ~(Rank(A, i) < s) PROVE FALSE
  BY <1>3 DEF PagesStored
<1>8. Rank(A, i) >= s /\ cap > s
  <2> DEFINE rk == Rank(A, i)
  <2>1. rk \in Int /\ rk < cap /\ ~(rk < s) BY <1>6
  <2> HIDE DEF rk, s
  <2>2. rk >= s /\ cap > s BY <1>4, <1>7, <2>1
  <2> QED BY <2>2 DEF rk
<1>9. CurrentPage # {} BY <1>2, <1>8, PageHolds
<1>10. /\ \E k \in Nat : walk.yielded = k * PageSize
       /\ walk.yielded + cap <= s + walk.items
  BY <1>2, <1>3 DEF Paging
<1> HIDE DEF s
<1>11. ~(walk.yielded >= walk.items) BY <1>4, <1>7, <1>8, <1>10
<1>12. walk.yielded % PageSize = 0 BY <1>4, <1>10, MultipleRemainder
<1>13. cap - walk.seen > 0 BY <1>3, <1>4, <1>7, <1>8
<1>14. PageAsked # {} BY <1>9, <1>13, PageHolds
<1> QED BY <1>9, <1>11, <1>12, <1>14 DEF Exhausted, LastYield

LEMMA CompletedKeeps == ASSUME HistoryInv, Completed PROVE HistoryInv'
<1>1. /\ walk.at = "discover" /\ walk.anchor >= 0 /\ Exhausted /\ walk' = WalkResting
      /\ marker' = [set |-> TRUE, done |-> TRUE, seen |-> walk.seen,
                    page |-> walk.last.page, anchor |-> walk.last.anchor]
      /\ UNCHANGED <<tip, peak, rows, parts, joined, cap, want, first>>
  BY DEF Completed, hostVars
<1>2. Walking BY <1>1 DEF Walking
<1>3. walk.seen \in Nat /\ walk.last.page \in Nat /\ walk.last.anchor \in Nat BY <1>2, WalkFields
<1>4. /\ marker'.set = TRUE /\ marker'.done = TRUE /\ marker'.seen = walk.seen
      /\ marker'.page = walk.last.page /\ marker'.anchor = walk.last.anchor
  BY <1>1
<1>5. MarkerTypes' BY <1>1, <1>3 DEF MarkerTypes, MarkerRecord
<1>6. MarkerCovers'
  <2> SUFFICES ASSUME first PROVE MarkerCovers' BY <1>1 DEF MarkerCovers
  <2>1. \A i \in want \ Unserved : Stored(i)' BY <1>1, ExhaustedStored DEF Stored
  <2>2. ASSUME walk.last.page > 0 PROVE CoveredTo(marker.anchor, marker.page, marker.seen)'
    <3>1. CoveredTo(walk.last.anchor, walk.last.page, walk.seen) BY <1>1, <2>2, CursorCovers
    <3> QED BY <1>1, <1>4, <3>1
        DEF CoveredTo, Placed, PagesStored, Stored, Rank, Before, TotalUpTo, UpTo
  <2> QED BY <1>1, <1>4, <2>1, <2>2 DEF MarkerCovers
<1> QED BY <1>1, <1>5, <1>6, AttemptEnds

LEMMA HistoryNextInv == HistoryInv /\ [HistoryNext]_historyVars => HistoryInv'
<1> SUFFICES ASSUME HistoryInv, [HistoryNext]_historyVars PROVE HistoryInv' OBVIOUS
<1>1. CASE UNCHANGED historyVars
  <2>1. UNCHANGED <<tip, peak, marker, rows, parts, joined, cap, walk, want, first>>
    BY <1>1 DEF historyVars, hostVars, tableVars
  <2>2. HistoryTypes'
    BY <2>1 DEF HistoryInv, HistoryTypes, HostTypes, TableTypes, MarkerTypes, WalkTypes, Walking
  <2>3. BoundsSound' BY <2>1 DEF HistoryInv, BoundsSound, Settledly, Walking, UpTo
  <2>4. MarkerCovers' BY <2>1, MarkerStays DEF HistoryInv
  <2>5. WalkCovers' BY <2>1, WalkStays DEF HistoryInv
  <2> QED BY <2>2, <2>3, <2>4, <2>5 DEF HistoryInv
<1>2. CASE ClassifyTick \/ Refit BY <1>2, RunKeeps DEF ClassifyTick, Refit
<1>3. CASE HistoryNext
  BY <1>2, <1>3, FindAnchorKeeps, NoHistoryKeeps, FetchPageKeeps, RateLimitedKeeps, FetchFailsKeeps,
     DiesKeeps, FlushKeeps, SavePageKeeps, CompletedKeeps, HostMoves, RaiseCapKeeps
  DEF HistoryNext
<1> QED BY <1>1, <1>3

LEMMA HistoryInvSound == HistoryInv => HistoryExact
<1> SUFFICES ASSUME HistoryInv PROVE HistoryCovered /\ HistoryBelowHost BY DEF HistoryExact
<1> USE HistoryConstants
<1>1. HistoryCovered
  <2> SUFFICES ASSUME first, MarkerComplete, marker.page > 0, NEW i \in want \ Unserved
               PROVE  i \in rows \cap parts
    BY DEF HistoryCovered
  <2>1. marker.set /\ (marker.done \/ marker.seen >= cap) BY DEF MarkerComplete
  <2>2. CASE marker.done BY <2>1, <2>2 DEF HistoryInv, MarkerCovers, Stored
  <2>3. CASE marker.seen >= cap
    <3> DEFINE e == marker.page * PageSize
               rk == Rank(marker.anchor, i)
    <3>1. CoveredTo(marker.anchor, marker.page, marker.seen) BY <2>1 DEF HistoryInv, MarkerCovers
    <3>2. /\ marker.seen \in Nat /\ cap \in Nat /\ marker.anchor \in Int /\ marker.page \in Nat
          /\ i \in 1..N
      BY DEF HistoryInv, HistoryTypes, MarkerTypes, MarkerRecord, TableTypes
    <3>3. rk \in Int BY <3>2, BeforeMeans
    <3>4. rk < cap /\ marker.seen <= e BY <3>1 DEF CoveredTo, Placed
    <3>5. e \in Int BY <3>2
    <3> HIDE DEF e, rk
    <3>6. rk < e BY <2>3, <3>2, <3>3, <3>4, <3>5
    <3>7. Stored(i) BY <3>1, <3>6 DEF CoveredTo, PagesStored, e, rk
    <3> QED BY <3>7 DEF Stored
  <2> QED BY <2>1, <2>2, <2>3
<1>2. HistoryBelowHost
  <2> SUFFICES ASSUME NEW i \in rows \cup parts
               PROVE  Height[i] <= tip /\ \A j \in HostRows : SlotOf[Height[i]] < SlotOf[Height[j]]
    BY DEF HistoryBelowHost
  <2>1. Settledly(i) /\ i \in 1..N BY DEF HistoryInv, BoundsSound, HistoryTypes, TableTypes
  <2>2. tip \in Nat /\ peak \in Nat /\ peak <= tip + SafetyBlocks BY DEF HistoryInv, HistoryTypes, HostTypes
  <2>3. Height[i] \in Nat BY <2>1
  <2>4. Height[i] <= tip BY <2>1, <2>2, <2>3 DEF Settledly
  <2>5. ASSUME NEW j \in HostRows PROVE SlotOf[Height[i]] < SlotOf[Height[j]]
    <3>1. j \in 1..N /\ Height[j] >= HostStart BY <2>2 DEF HostRows
    <3> QED BY <2>1, <3>1 DEF Settledly
  <2> QED BY <2>4, <2>5
<1> QED BY <1>1, <1>2

\* The paged download of a contract's history: whatever quota stops, provider
\* errors, crashes, resumes and rollbacks it went through, a marker that calls the
\* history complete for the first time stands for stored transactions, those its
\* listing reaches of the newest up to the cap, and nothing downloaded lies at or above
\* the host's first row or within reach of a rollback.
THEOREM HistoryIsExact == HistorySpec => []HistoryExact
<1>1. HistoryInit(TRUE) => HistoryInv BY HistoryInitInv
<1>2. HistoryInv /\ [HistoryNext]_historyVars => HistoryInv' BY HistoryNextInv
<1>3. HistoryInv => HistoryExact BY HistoryInvSound
<1> QED BY <1>1, <1>2, <1>3, PTL DEF HistorySpec

-----------------------------------------------------------------------------
(* What a stored transaction says about the value it moved                 *)

\* A reference has one amount, whoever names it: outputs and the collateral return
\* of a transaction have different indexes.
Amount(r) ==
  IF r[1] = 0 THEN GenesisOuts[r[2] + 1]
  ELSE LET c == Catalogue[r[1]] IN IF r[2] < Len(c.outs) THEN c.outs[r[2] + 1] ELSE c.ret

TrueAmounts(f) ==
  \A r \in DOMAIN f : /\ f[r] = Amount(r) /\ Amount(r) \in Nat \ {0}
                      /\ r[1] \in FlowTx \cup {0} /\ r[2] \in Nat

PrefetchedTrue ==
  \A t \in FlowTx : /\ TrueAmounts(prefetched[t])
                    /\ prefetched[t] = [r \in DOMAIN prefetched[t] |-> prefetched[t][r]]

\* What the ledger holds and the warehouse does not is older than the ingestion.
OwnOutputsStored == \A r \in DOMAIN utxo : r[1] # 0 => r \in DOMAIN outputs

\* A stored transaction, as the ledger saw it; no later step changes what this says.
Taken(t, valid) == IF valid THEN Catalogue[t].ins ELSE Catalogue[t].cols
Seen(t, s) == [i \in DOMAIN Taken(t, s.row.valid) |->
                 IF Taken(t, s.row.valid)[i] \in s.known THEN s.spent[Taken(t, s.row.valid)[i]] ELSE 0]
RowTotal(t, s) == SumOf(Seen(t, s)) + IF s.priced THEN WithdrawalTotal(s.row) ELSE 0
RowTrue(t, s) ==
  /\ TrueAmounts(s.spent)
  /\ RowTotal(t, s) \in Nat
  /\ s.row.total = IF RowTotal(t, s) > 0 THEN RowTotal(t, s) ELSE Unpriced
  /\ s.row.count = Cardinality(DOMAIN s.spent)
  /\ DOMAIN s.spent \cap s.known \subseteq s.row.parties
  /\ s.row.parties \subseteq Elements(Catalogue[t].ins) \cup Elements(Catalogue[t].cols)
RowsTrue == \A t \in FlowTx : OnChain(t) => RowTrue(t, recorded[t])

FlowInv ==
  /\ TrueAmounts(utxo) /\ TrueAmounts(outputs)
  /\ PrefetchedTrue /\ OwnOutputsStored /\ RowsTrue

LEMMA FlowConstants ==
  /\ \A i \in 1 .. Len(GenesisOuts) : GenesisOuts[i] \in Nat \ {0}
  /\ Len(GenesisOuts) \in Nat /\ GenesisStored \subseteq 0 .. Len(GenesisOuts) - 1
  /\ \A t \in FlowTx :
       /\ t \in Nat \ {0}
       /\ Catalogue[t].ins \in Seq(References) /\ Catalogue[t].refs \in Seq(References)
       /\ Catalogue[t].cols \in Seq(References)
       /\ \A i, j \in DOMAIN Catalogue[t].ins : Catalogue[t].ins[i] = Catalogue[t].ins[j] => i = j
       /\ \A i, j \in DOMAIN Catalogue[t].cols : Catalogue[t].cols[i] = Catalogue[t].cols[j] => i = j
       /\ Catalogue[t].outs \in Seq(Nat \ {0}) /\ Len(Catalogue[t].outs) \in Nat
       /\ DOMAIN Catalogue[t].outs = 1 .. Len(Catalogue[t].outs)
       /\ \A i \in 1 .. Len(Catalogue[t].outs) : Catalogue[t].outs[i] \in Nat \ {0}
       /\ Catalogue[t].ret \in Nat /\ Catalogue[t].wd \in Nat
<1>1. /\ \A i \in 1 .. Len(GenesisOuts) : GenesisOuts[i] \in Nat \ {0}
      /\ Len(GenesisOuts) \in Nat /\ GenesisStored \subseteq 0 .. Len(GenesisOuts) - 1
  BY InputFlowAssumption, LenProperties, ElementOfSeq
<1>2. ASSUME NEW t \in FlowTx
      PROVE  t \in Nat \ {0} /\ Catalogue[t] \in CatalogueEntries
  BY InputFlowAssumption, LenProperties, ElementOfSeq DEF FlowTx
<1>3. ASSUME NEW t \in FlowTx
      PROVE  /\ Catalogue[t].ins \in InputLists /\ Catalogue[t].refs \in InputLists
             /\ Catalogue[t].cols \in InputLists
             /\ Catalogue[t].outs \in Seq(Nat \ {0})
             /\ Catalogue[t].ret \in Nat /\ Catalogue[t].wd \in Nat
  BY <1>2 DEF CatalogueEntries
<1>4. ASSUME NEW t \in FlowTx
      PROVE  /\ Len(Catalogue[t].outs) \in Nat
             /\ DOMAIN Catalogue[t].outs = 1 .. Len(Catalogue[t].outs)
             /\ \A i \in 1 .. Len(Catalogue[t].outs) : Catalogue[t].outs[i] \in Nat \ {0}
  BY <1>3, LenProperties, ElementOfSeq
<1> QED BY <1>1, <1>2, <1>3, <1>4 DEF InputLists

LEMMA CreatesTrue ==
  ASSUME NEW t \in FlowTx, NEW v \in BOOLEAN
  PROVE  /\ ParsedOutputs(t, v) = LedgerCreates(t, v)
         /\ TrueAmounts(LedgerCreates(t, v))
         /\ \A r \in DOMAIN LedgerCreates(t, v) : r[1] = t
<1> DEFINE c == Catalogue[t]
<1>1. /\ t \in Nat \ {0} /\ Len(c.outs) \in Nat /\ c.ret \in Nat
      /\ \A i \in 1 .. Len(c.outs) : c.outs[i] \in Nat \ {0}
  BY FlowConstants
<1>2. ParsedOutputs(t, v) = LedgerCreates(t, v) BY DEF ParsedOutputs, LedgerCreates, ReturnIndex
<1>3. CASE v
  <2> DEFINE f == [r \in RefsOf(t, Len(c.outs)) |-> c.outs[r[2] + 1]]
  <2>1. LedgerCreates(t, v) = f BY <1>3 DEF LedgerCreates
  <2>2. ASSUME NEW r \in RefsOf(t, Len(c.outs))
        PROVE  r[1] = t /\ r[2] \in Nat /\ r[2] < Len(c.outs) /\ r[2] + 1 \in 1 .. Len(c.outs)
    BY <1>1 DEF RefsOf
  <2>3. ASSUME NEW r \in RefsOf(t, Len(c.outs)) PROVE Amount(r) = c.outs[r[2] + 1]
    BY <1>1, <2>2 DEF Amount
  <2> QED BY <1>1, <1>2, <2>1, <2>2, <2>3 DEF TrueAmounts
<1>4. CASE ~v /\ c.ret > 0
  <2>1. LedgerCreates(t, v) = [r \in {<<t, Len(c.outs)>>} |-> c.ret] BY <1>4 DEF LedgerCreates
  <2>2. Amount(<<t, Len(c.outs)>>) = c.ret BY <1>1 DEF Amount
  <2> QED BY <1>1, <1>2, <1>4, <2>1, <2>2 DEF TrueAmounts
<1>5. CASE ~v /\ ~(c.ret > 0)
  <2>1. LedgerCreates(t, v) = NoAmounts BY <1>5 DEF LedgerCreates
  <2> QED BY <1>2, <2>1 DEF TrueAmounts, NoAmounts
<1> QED BY <1>3, <1>4, <1>5

LEMMA AmountsMerged ==
  ASSUME NEW f, TrueAmounts(f), NEW g, TrueAmounts(g), NEW S
  PROVE  TrueAmounts(Over(f, g)) /\ TrueAmounts(Only(f, S)) /\ TrueAmounts(Without(f, S))
BY DEF TrueAmounts, Over, Only, Without

\* A block names its transactions once.
Block1(ts) == /\ ts \in Seq(FlowTx)
              /\ \A i, j \in DOMAIN ts : ts[i] = ts[j] => i = j

LEMMA PositionIs ==
  ASSUME NEW ts, Block1(ts), NEW i \in DOMAIN ts
  PROVE  Position(ts, ts[i]) = i /\ ts[i] \in FlowTx
<1>1. ts[i] \in FlowTx BY ElementOfSeq, LenProperties DEF Block1
<1>2. \A j \in DOMAIN ts : ts[j] = ts[i] => j = i BY DEF Block1
<1> QED BY <1>1, <1>2 DEF Position

LEMMA LedgerTrue ==
  ASSUME TrueAmounts(utxo), NEW ts, Block1(ts), NEW vs \in [DOMAIN ts -> BOOLEAN],
         NEW n \in 0 .. Len(ts)
  PROVE  /\ TrueAmounts(LedgerAfter(ts, vs, n))
         /\ \A r \in DOMAIN LedgerAfter(ts, vs, n) :
              \/ r \in DOMAIN utxo
              \/ \E j \in 1 .. n : r \in DOMAIN LedgerCreates(ts[j], vs[j])
<1> DEFINE C == LedgerCreated(ts, vs, n)
<1>1. DOMAIN ts = 1 .. Len(ts) /\ Len(ts) \in Nat BY LenProperties DEF Block1
<1>2. DOMAIN C = UNION {DOMAIN LedgerCreates(ts[j], vs[j]) : j \in 1 .. n}
      /\ \A r \in DOMAIN C : C[r] = LedgerCreates(r[1], vs[Position(ts, r[1])])[r]
  BY DEF LedgerCreated
<1> HIDE DEF C
<1>3. ASSUME NEW r \in DOMAIN C
      PROVE  /\ \E j \in 1 .. n : r \in DOMAIN LedgerCreates(ts[j], vs[j])
             /\ C[r] = Amount(r) /\ Amount(r) \in Nat \ {0}
             /\ r[1] \in FlowTx \cup {0} /\ r[2] \in Nat
  <2>1. PICK j \in 1 .. n : r \in DOMAIN LedgerCreates(ts[j], vs[j]) BY <1>2
  <2>2. j \in DOMAIN ts /\ vs[j] \in BOOLEAN BY <1>1
  <2>3. ts[j] \in FlowTx /\ Position(ts, ts[j]) = j BY <2>2, PositionIs
  <2>4. r[1] = ts[j] /\ TrueAmounts(LedgerCreates(ts[j], vs[j])) BY <2>1, <2>2, <2>3, CreatesTrue
  <2>5. C[r] = LedgerCreates(ts[j], vs[j])[r] BY <1>2, <2>3, <2>4
  <2> QED BY <2>1, <2>4, <2>5 DEF TrueAmounts
<1>4. TrueAmounts(C) BY <1>3 DEF TrueAmounts
<1>5. TrueAmounts(Over(C, utxo)) BY <1>4, AmountsMerged
<1>6. TrueAmounts(LedgerAfter(ts, vs, n)) BY <1>5, AmountsMerged DEF LedgerAfter, C
<1>7. DOMAIN LedgerAfter(ts, vs, n) \subseteq DOMAIN C \cup DOMAIN utxo
  BY DEF LedgerAfter, Without, Over, C
<1> QED BY <1>3, <1>6, <1>7

-----------------------------------------------------------------------------
Kinds == {"spent", "attempt", "reference", "collateral"}
InputRecord == [ref : References, kind : Kinds, amount : Nat]
RawAs(s, kind) == [i \in DOMAIN s |-> [ref |-> s[i], kind |-> kind, amount |-> 0]]

LEMMA RawAsFacts ==
  ASSUME NEW s \in Seq(References), NEW k \in Kinds
  PROVE  /\ RawAs(s, k) \in Seq(InputRecord) /\ Len(RawAs(s, k)) = Len(s) /\ Len(s) \in Nat
         /\ DOMAIN s = 1 .. Len(s)
         /\ \A i \in 1 .. Len(s) : RawAs(s, k)[i] = [ref |-> s[i], kind |-> k, amount |-> 0]
<1>1. Len(s) \in Nat /\ DOMAIN s = 1 .. Len(s) /\ \A i \in 1 .. Len(s) : s[i] \in References
  BY LenProperties, ElementOfSeq
<1>2. \A i \in 1 .. Len(s) : [ref |-> s[i], kind |-> k, amount |-> 0] \in InputRecord
  BY <1>1 DEF InputRecord
<1>3. RawAs(s, k) \in [1 .. Len(s) -> InputRecord] BY <1>1, <1>2 DEF RawAs
<1>4. RawAs(s, k) \in Seq(InputRecord) /\ Len(RawAs(s, k)) = Len(s)
  BY <1>1, <1>3, LenProperties, SeqDef
<1> QED BY <1>1, <1>4 DEF RawAs

\* The parser lists the regular inputs, then the reference inputs, then the collateral.
LEMMA RawInputsFacts ==
  ASSUME NEW t \in FlowTx, NEW v \in BOOLEAN
  PROVE  LET c == Catalogue[t]
             a == Len(c.ins)
             b == Len(c.ins) + Len(c.refs)
             m == Len(c.ins) + Len(c.refs) + Len(c.cols)
             raw == RawInputs(t, v)
         IN /\ raw \in Seq(InputRecord) /\ Len(raw) = m /\ DOMAIN raw = 1 .. m
            /\ a \in Nat /\ Len(c.refs) \in Nat /\ Len(c.cols) \in Nat
            /\ \A i \in 1 .. m :
                 raw[i] = IF i <= a THEN [ref |-> c.ins[i], kind |-> IF v THEN "spent" ELSE "attempt", amount |-> 0]
                          ELSE IF i <= b THEN [ref |-> c.refs[i - a], kind |-> "reference", amount |-> 0]
                          ELSE [ref |-> c.cols[i - b], kind |-> "collateral", amount |-> 0]
<1> DEFINE c == Catalogue[t]
           k == IF v THEN "spent" ELSE "attempt"
           A == RawAs(c.ins, k)
           B == RawAs(c.refs, "reference")
           C == RawAs(c.cols, "collateral")
           la == Len(c.ins)
           lb == Len(c.refs)
           lc == Len(c.cols)
<1>1. RawInputs(t, v) = (A \o B) \o C BY DEF RawInputs, RawAs
<1>2. k \in Kinds /\ "reference" \in Kinds /\ "collateral" \in Kinds BY DEF Kinds
<1>3. /\ A \in Seq(InputRecord) /\ Len(A) = la /\ la \in Nat
      /\ \A i \in 1 .. la : A[i] = [ref |-> c.ins[i], kind |-> k, amount |-> 0]
  BY <1>2, FlowConstants, RawAsFacts
<1>4. /\ B \in Seq(InputRecord) /\ Len(B) = lb /\ lb \in Nat
      /\ \A i \in 1 .. lb : B[i] = [ref |-> c.refs[i], kind |-> "reference", amount |-> 0]
  BY <1>2, FlowConstants, RawAsFacts
<1>5. /\ C \in Seq(InputRecord) /\ Len(C) = lc /\ lc \in Nat
      /\ \A i \in 1 .. lc : C[i] = [ref |-> c.cols[i], kind |-> "collateral", amount |-> 0]
  BY <1>2, FlowConstants, RawAsFacts
<1> HIDE DEF A, B, C, la, lb, lc, k
<1>6. /\ A \o B \in Seq(InputRecord) /\ Len(A \o B) = la + lb
      /\ \A i \in 1 .. la + lb : (A \o B)[i] = IF i <= la THEN A[i] ELSE B[i - la]
  BY <1>3, <1>4, ConcatProperties
<1> DEFINE D == A \o B
           all == D \o C
           ld == la + lb
           m == la + lb + lc
<1>6a. D \in Seq(InputRecord) /\ Len(D) = ld /\ ld \in Nat
      /\ \A i \in 1 .. ld : D[i] = IF i <= la THEN A[i] ELSE B[i - la]
  BY <1>3, <1>4, <1>6
<1> HIDE DEF D, ld
<1>7. /\ all \in Seq(InputRecord) /\ Len(all) = ld + lc
      /\ \A i \in 1 .. ld + lc : all[i] = IF i <= ld THEN D[i] ELSE C[i - ld]
  BY <1>5, <1>6a, ConcatProperties
<1>8. m = ld + lc /\ m \in Nat BY <1>3, <1>4, <1>5 DEF ld
<1>9. ASSUME NEW i \in 1 .. m
      PROVE all[i] = IF i <= la THEN [ref |-> c.ins[i], kind |-> k, amount |-> 0]
                     ELSE IF i <= la + lb THEN [ref |-> c.refs[i - la], kind |-> "reference", amount |-> 0]
                     ELSE [ref |-> c.cols[i - (la + lb)], kind |-> "collateral", amount |-> 0]
  <2>1. i \in 1 .. ld + lc BY <1>8
  <2>2. CASE i <= la
    <3>1. i \in 1 .. ld /\ i \in 1 .. la /\ i <= ld BY <1>3, <1>4, <2>2 DEF ld
    <3>2. all[i] = D[i] BY <1>7, <2>1, <3>1
    <3>3. D[i] = A[i] BY <1>6a, <2>2, <3>1
    <3> QED BY <1>3, <2>2, <3>1, <3>2, <3>3
  <2>3. CASE ~(i <= la) /\ i <= ld
    <3>1. i \in 1 .. ld /\ i - la \in 1 .. lb BY <1>3, <1>4, <2>3 DEF ld
    <3>2. all[i] = D[i] BY <1>7, <2>1, <2>3
    <3>3. D[i] = B[i - la] BY <1>6a, <2>3, <3>1
    <3> QED BY <1>4, <2>3, <3>1, <3>2, <3>3 DEF ld
  <2>4. CASE ~(i <= ld)
    <3>1. i - ld \in 1 .. lc /\ ~(i <= la) BY <1>3, <1>4, <1>5, <1>6a, <2>1, <2>4 DEF ld
    <3>2. all[i] = C[i - ld] BY <1>7, <2>1, <2>4
    <3> QED BY <1>5, <2>4, <3>1, <3>2 DEF ld
  <2> QED BY <2>2, <2>3, <2>4
<1>10. RawInputs(t, v) = all BY <1>1 DEF D
<1>11. Len(all) = m /\ DOMAIN all = 1 .. m BY <1>7, <1>8, LenProperties
<1> HIDE DEF all
<1> QED BY <1>3, <1>4, <1>5, <1>7, <1>9, <1>10, <1>11 DEF la, lb, lc, k

\* The same, field by field.
RawShape(c, v, raw, a, lb, lc) ==
  /\ raw \in Seq(InputRecord) /\ DOMAIN raw = 1 .. a + lb + lc
  /\ a \in Nat /\ lb \in Nat /\ lc \in Nat
  /\ \A i \in DOMAIN raw :
       /\ raw[i].amount = 0
       /\ i <= a => raw[i].ref = c.ins[i] /\ raw[i].kind = IF v THEN "spent" ELSE "attempt"
       /\ ~(i <= a) /\ i <= a + lb => raw[i].ref = c.refs[i - a] /\ raw[i].kind = "reference"
       /\ ~(i <= a + lb) => raw[i].ref = c.cols[i - (a + lb)] /\ raw[i].kind = "collateral"

LEMMA RawFields ==
  ASSUME NEW t \in FlowTx, NEW v \in BOOLEAN
  PROVE  RawShape(Catalogue[t], v, RawInputs(t, v), Len(Catalogue[t].ins),
                  Len(Catalogue[t].refs), Len(Catalogue[t].cols))
<1> DEFINE c == Catalogue[t]
           a == Len(c.ins)
           b == Len(c.ins) + Len(c.refs)
           m == Len(c.ins) + Len(c.refs) + Len(c.cols)
           raw == RawInputs(t, v)
           k == IF v THEN "spent" ELSE "attempt"
<1>1. /\ raw \in Seq(InputRecord) /\ DOMAIN raw = 1 .. m
      /\ a \in Nat /\ Len(c.refs) \in Nat /\ Len(c.cols) \in Nat
      /\ \A i \in 1 .. m :
           raw[i] = IF i <= a THEN [ref |-> c.ins[i], kind |-> k, amount |-> 0]
                    ELSE IF i <= b THEN [ref |-> c.refs[i - a], kind |-> "reference", amount |-> 0]
                    ELSE [ref |-> c.cols[i - b], kind |-> "collateral", amount |-> 0]
  BY RawInputsFacts, Zenon
<1>1a. Len(c.ins) \in Nat /\ Len(c.refs) \in Nat /\ Len(c.cols) \in Nat
  BY FlowConstants, LenProperties
<1>1b. \A p, q, r \in Nat : p <= p + q /\ p + q \in Nat /\ p + q + r \in Nat OBVIOUS
<1>2. a <= b BY ONLY <1>1a, <1>1b, Zenon DEF a, b
<1>3. a \in Nat /\ b \in Nat /\ m \in Nat BY ONLY <1>1a, <1>1b, Zenon DEF a, b, m
<1> HIDE DEF raw, k, a, b, m
<1>4. ASSUME NEW i \in DOMAIN raw
      PROVE  /\ raw[i].amount = 0
             /\ i <= a => raw[i].ref = c.ins[i] /\ raw[i].kind = k
             /\ ~(i <= a) /\ i <= b => raw[i].ref = c.refs[i - a] /\ raw[i].kind = "reference"
             /\ ~(i <= b) => raw[i].ref = c.cols[i - b] /\ raw[i].kind = "collateral"
  <2>0. i \in 1 .. m /\ i \in Nat BY <1>1, <1>3
  <2>1. CASE i <= a
    <3>1. raw[i] = [ref |-> c.ins[i], kind |-> k, amount |-> 0] BY <1>1, <2>0, <2>1
    <3>2. i <= b BY <1>2, <1>3, <2>0, <2>1
    <3> QED BY <2>1, <3>1, <3>2
  <2>2. CASE ~(i <= a) /\ i <= b
    <3>1. raw[i] = [ref |-> c.refs[i - a], kind |-> "reference", amount |-> 0] BY <1>1, <2>0, <2>2
    <3> QED BY <2>2, <3>1
  <2>3. CASE ~(i <= b)
    <3>1. ~(i <= a) BY <1>2, <1>3, <2>0, <2>3
    <3>2. raw[i] = [ref |-> c.cols[i - b], kind |-> "collateral", amount |-> 0] BY <1>1, <2>0, <2>3, <3>1
    <3> QED BY <2>3, <3>1, <3>2
  <2> QED BY <2>1, <2>2, <2>3
<1> QED BY <1>1, <1>4, Zenon DEF raw, k, a, b, m, RawShape

LEMMA PricedFacts ==
  ASSUME NEW inp \in InputRecord, NEW L, TrueAmounts(L)
  PROVE  /\ Priced(inp, L) \in InputRecord
         /\ Priced(inp, L).ref = inp.ref /\ Priced(inp, L).kind = inp.kind
         /\ Priced(inp, L).amount =
              IF inp.kind # "reference" /\ inp.amount = 0 /\ inp.ref \in DOMAIN L
              THEN Amount(inp.ref) ELSE inp.amount
         /\ inp.ref \notin DOMAIN L => Priced(inp, L) = inp
<1>1. inp.ref \in DOMAIN L => L[inp.ref] = Amount(inp.ref) /\ Amount(inp.ref) \in Nat
  BY DEF TrueAmounts
<1>2. CASE inp.kind # "reference" /\ inp.amount = 0 /\ inp.ref \in DOMAIN L
  <2> DEFINE p == [inp EXCEPT !.amount = Amount(inp.ref)]
  <2>1. Priced(inp, L) = p BY <1>1, <1>2 DEF Priced
  <2>2. p \in InputRecord /\ p.ref = inp.ref /\ p.kind = inp.kind /\ p.amount = Amount(inp.ref)
    BY <1>1, <1>2 DEF InputRecord
  <2> QED BY <1>2, <2>1, <2>2
<1>3. CASE ~(inp.kind # "reference" /\ inp.amount = 0 /\ inp.ref \in DOMAIN L)
  <2>1. Priced(inp, L) = inp BY <1>3 DEF Priced
  <2> QED BY <1>3, <2>1
<1> QED BY <1>2, <1>3

-----------------------------------------------------------------------------
Row(v, ins, outs, n, wd, tot, ps) ==
  [valid |-> v, inputs |-> ins, outputs |-> outs, count |-> n, withdrawn |-> wd,
   total |-> tot, parties |-> ps]
Counted(ins, v) == [i \in DOMAIN ins |-> IF ConsumedByLedger(ins[i], v) THEN ins[i].amount ELSE 0]
Charged(ins, v) == {ins[i].ref : i \in {j \in DOMAIN ins :
                      /\ ins[j].amount > 0 /\ ins[j].kind # "reference"
                      /\ ins[j].kind = "collateral" => ~v}}
Withdrawn(v, wd) == IF v THEN wd ELSE 0
OrUnpriced(n) == IF n > 0 THEN n ELSE Unpriced

LEMMA RepricedRow ==
  ASSUME NEW v, NEW old, NEW ins, NEW outs, NEW n, NEW wd, NEW tot, NEW ps
  PROVE  /\ Repriced(Row(v, old, outs, n, wd, tot, ps), ins)
              = Row(v, ins, outs, n, wd, OrUnpriced(Withdrawn(v, wd) + SumOf(Counted(ins, v))),
                    ps \cup Charged(ins, v))
         /\ WithdrawalTotal(Row(v, old, outs, n, wd, tot, ps)) = Withdrawn(v, wd)
         /\ Row(v, old, outs, n, wd, tot, ps).inputs = old
<1> DEFINE x == Row(v, old, outs, n, wd, tot, ps)
           T == Withdrawn(v, wd) + SumOf(Counted(ins, v))
<1>1. x.valid = v /\ x.withdrawn = wd /\ x.inputs = old /\ x.parties = ps BY DEF Row
<1>2. WithdrawalTotal(x) = Withdrawn(v, wd) BY <1>1 DEF WithdrawalTotal, Withdrawn
<1>3. PricedTotal(x, ins) = T BY <1>1, <1>2, Zenon DEF PricedTotal, Counted
<1>4. FlowAddresses(x, ins) = Charged(ins, v) BY <1>1, Zenon DEF FlowAddresses, Charged
<1>5. Repriced(x, ins) = [x EXCEPT !.inputs = ins, !.total = OrUnpriced(PricedTotal(x, ins)),
                                   !.parties = @ \cup FlowAddresses(x, ins)]
  BY DEF Repriced, OrUnpriced
<1>6. Repriced(x, ins) = Row(v, ins, outs, n, wd, OrUnpriced(T), ps \cup Charged(ins, v))
  <2> DEFINE P == PricedTotal(x, ins)
             F == FlowAddresses(x, ins)
  <2>1. P = T /\ F = Charged(ins, v) BY <1>3, <1>4
  <2>2. Repriced(x, ins) = [x EXCEPT !.inputs = ins, !.total = OrUnpriced(P), !.parties = @ \cup F]
    BY <1>5
  <2> HIDE DEF P, F, T
  <2> QED BY <2>1, <2>2 DEF Row
<1> QED BY <1>1, <1>2, <1>6

InputsOnce(t, v, pf) == [i \in DOMAIN RawInputs(t, v) |-> Priced(RawInputs(t, v)[i], pf)]
InputsTwice(t, v, pf, L) == [i \in DOMAIN RawInputs(t, v) |-> Priced(InputsOnce(t, v, pf)[i], L)]
ConsumedCount(t, v) ==
  Cardinality({i \in DOMAIN RawInputs(t, v) : ConsumedByLedger(RawInputs(t, v)[i], v)})
PreparedAs(t, v, pf) ==
  IF pf = NoAmounts THEN Parsed(t, v) ELSE ApplyResolvedInputs(Parsed(t, v), pf)

LEMMA InputsOnceFacts ==
  ASSUME NEW t \in FlowTx, NEW v \in BOOLEAN, NEW pf, TrueAmounts(pf)
  PROVE  LET raw == RawInputs(t, v)
             once == InputsOnce(t, v, pf)
         IN /\ DOMAIN once = DOMAIN raw
            /\ \A i \in DOMAIN raw :
                 /\ once[i] \in InputRecord /\ raw[i] \in InputRecord
                 /\ once[i].ref = raw[i].ref /\ once[i].kind = raw[i].kind
                 /\ once[i].amount = IF raw[i].kind # "reference" /\ raw[i].ref \in DOMAIN pf
                                     THEN Amount(raw[i].ref) ELSE 0
            /\ pf = NoAmounts => once = raw /\ \A i \in DOMAIN raw : once[i].amount = 0
<1> DEFINE raw == RawInputs(t, v)
           once == InputsOnce(t, v, pf)
<1>1. raw \in Seq(InputRecord) /\ \A i \in DOMAIN raw : raw[i].amount = 0
  BY RawFields, Zenon DEF RawShape
<1>2. \A i \in DOMAIN raw : raw[i] \in InputRecord BY <1>1, LenProperties, ElementOfSeq
<1>3. DOMAIN once = DOMAIN raw /\ \A i \in DOMAIN raw : once[i] = Priced(raw[i], pf)
  BY DEF InputsOnce
<1>4. raw = [i \in DOMAIN raw |-> raw[i]] BY <1>1
<1>4a. once = [i \in DOMAIN raw |-> once[i]] BY DEF InputsOnce
<1> HIDE DEF raw, once
<1>5. ASSUME NEW i \in DOMAIN raw
      PROVE  /\ once[i] \in InputRecord /\ raw[i] \in InputRecord
             /\ once[i].ref = raw[i].ref /\ once[i].kind = raw[i].kind
             /\ once[i].amount = IF raw[i].kind # "reference" /\ raw[i].ref \in DOMAIN pf
                                 THEN Amount(raw[i].ref) ELSE 0
             /\ raw[i].ref \notin DOMAIN pf => once[i] = raw[i]
  BY <1>1, <1>2, <1>3, PricedFacts
<1>6. ASSUME pf = NoAmounts PROVE once = raw /\ \A i \in DOMAIN raw : once[i].amount = 0
  <2>1. DOMAIN pf = {} BY <1>6 DEF NoAmounts
  <2>2. \A i \in DOMAIN raw : once[i] = raw[i] BY <1>5, <2>1
  <2>3. once = raw BY <1>4, <1>4a, <2>2
  <2> QED BY <1>1, <2>3
<1> QED BY <1>3, <1>5, <1>6 DEF raw, once

LEMMA PreparedRow ==
  ASSUME NEW t \in FlowTx, NEW v \in BOOLEAN, NEW pf, TrueAmounts(pf)
  PROVE  LET once == InputsOnce(t, v, pf)
             wd == Catalogue[t].wd
         IN \E tot, ps :
              /\ PreparedAs(t, v, pf) = Row(v, once, LedgerCreates(t, v), ConsumedCount(t, v), wd, tot, ps)
              /\ pf # NoAmounts =>
                   /\ tot = OrUnpriced(Withdrawn(v, wd) + SumOf(Counted(once, v)))
                   /\ ps = Charged(once, v)
              /\ pf = NoAmounts => tot = Unpriced /\ ps = {}
<1> DEFINE raw == RawInputs(t, v)
           once == InputsOnce(t, v, pf)
           wd == Catalogue[t].wd
           O == LedgerCreates(t, v)
           n == ConsumedCount(t, v)
<1>1. Parsed(t, v) = Row(v, raw, O, n, wd, Unpriced, {})
  BY CreatesTrue DEF Parsed, Row, ConsumedCount
<1>2. PricedInputs(Parsed(t, v), pf) = once
  <2>1. Parsed(t, v).inputs = raw BY DEF Parsed
  <2> QED BY <2>1 DEF PricedInputs, InputsOnce
<1>3. CASE pf = NoAmounts
  <2>1. once = raw BY <1>3, InputsOnceFacts
  <2>2. PreparedAs(t, v, pf) = Row(v, once, O, n, wd, Unpriced, {})
    BY <1>1, <1>3, <2>1 DEF PreparedAs
  <2> QED BY <1>3, <2>2
<1>4. CASE pf # NoAmounts
  <2>1. PreparedAs(t, v, pf) = Repriced(Row(v, raw, O, n, wd, Unpriced, {}), once)
    BY <1>1, <1>2, <1>4 DEF PreparedAs, ApplyResolvedInputs
  <2>2. PreparedAs(t, v, pf)
          = Row(v, once, O, n, wd, OrUnpriced(Withdrawn(v, wd) + SumOf(Counted(once, v))),
                {} \cup Charged(once, v))
    <3> HIDE DEF raw, once, O, n, wd
    <3> QED BY ONLY <2>1, RepricedRow
  <2>3. {} \cup Charged(once, v) = Charged(once, v) OBVIOUS
  <2> QED BY <1>4, <2>2, <2>3, Zenon
<1> QED BY <1>3, <1>4

LEMMA SumOfZeros ==
  ASSUME NEW s \in Seq(Nat), \A i \in 1 .. Len(s) : s[i] = 0
  PROVE  SumOf(s) = 0
<1>1. <<>> \in Seq(Nat) /\ Len(<<>>) = 0 BY EmptySeq
<1>2. Len(s) \in Nat BY LenProperties
<1>3. \A i \in 1 .. Len(s) : s[i] = IF 0 < i /\ i <= 0 + Len(<<>>) THEN <<>>[i - 0] ELSE 0
  BY <1>1, <1>2
<1>4. 0 + Len(<<>>) <= Len(s) BY <1>1, <1>2
<1>5. SumOf(s) = SumOf(<<>>) BY <1>1, <1>3, <1>4, SumOfStretch
<1>6. SumOf(<<>>) = 0 BY <1>1, SumStepwise DEF SumOf
<1> QED BY <1>5, <1>6

LEMMA InputsTwiceFacts ==
  ASSUME NEW t \in FlowTx, NEW v \in BOOLEAN, NEW pf, TrueAmounts(pf), NEW L, TrueAmounts(L)
  PROVE  LET raw == RawInputs(t, v)
             twice == InputsTwice(t, v, pf, L)
         IN /\ DOMAIN twice = DOMAIN raw
            /\ twice = [i \in DOMAIN raw |-> twice[i]]
            /\ \A i \in DOMAIN raw :
                 /\ twice[i] \in InputRecord
                 /\ twice[i].ref = raw[i].ref /\ twice[i].kind = raw[i].kind
                 /\ twice[i].amount =
                      IF raw[i].kind # "reference" /\ raw[i].ref \in DOMAIN pf \cup DOMAIN L
                      THEN Amount(raw[i].ref) ELSE 0
<1> DEFINE raw == RawInputs(t, v)
           once == InputsOnce(t, v, pf)
           twice == InputsTwice(t, v, pf, L)
<1>1. /\ DOMAIN twice = DOMAIN raw /\ \A i \in DOMAIN raw : twice[i] = Priced(once[i], L)
      /\ twice = [i \in DOMAIN raw |-> twice[i]]
  BY DEF InputsTwice
<1>2. \A i \in DOMAIN raw :
        /\ once[i] \in InputRecord /\ raw[i] \in InputRecord
        /\ once[i].ref = raw[i].ref /\ once[i].kind = raw[i].kind
        /\ once[i].amount = IF raw[i].kind # "reference" /\ raw[i].ref \in DOMAIN pf
                            THEN Amount(raw[i].ref) ELSE 0
  BY InputsOnceFacts
<1> HIDE DEF raw, once, twice
<1>3. ASSUME NEW i \in DOMAIN raw
      PROVE  /\ twice[i] \in InputRecord
             /\ twice[i].ref = raw[i].ref /\ twice[i].kind = raw[i].kind
             /\ twice[i].amount =
                  IF raw[i].kind # "reference" /\ raw[i].ref \in DOMAIN pf \cup DOMAIN L
                  THEN Amount(raw[i].ref) ELSE 0
  <2>1. /\ twice[i] \in InputRecord
        /\ twice[i].ref = once[i].ref /\ twice[i].kind = once[i].kind
        /\ twice[i].amount = IF once[i].kind # "reference" /\ once[i].amount = 0 /\ once[i].ref \in DOMAIN L
                             THEN Amount(once[i].ref) ELSE once[i].amount
    BY <1>1, <1>2, PricedFacts
  <2>2. raw[i].ref \in DOMAIN pf => Amount(raw[i].ref) # 0 BY DEF TrueAmounts
  <2> QED BY <1>2, <2>1, <2>2
<1> QED BY <1>1, <1>3 DEF raw, twice

\* What the handler stores of a transaction: the inputs with every amount that one of
\* its sources gave, their sum, and those charged.
LEMMA ResolvedRow ==
  ASSUME NEW t \in FlowTx, NEW v \in BOOLEAN, NEW pf, TrueAmounts(pf), NEW L, TrueAmounts(L)
  PROVE  LET once == InputsOnce(t, v, pf)
             twice == InputsTwice(t, v, pf, L)
             wd == Catalogue[t].wd
         IN \E ps :
              /\ Resolved(PreparedAs(t, v, pf), L)
                   = Row(v, twice, LedgerCreates(t, v), ConsumedCount(t, v), wd,
                         OrUnpriced(Withdrawn(v, wd) + SumOf(Counted(twice, v))), ps)
              /\ Charged(twice, v) \subseteq ps
              /\ ps \subseteq Charged(once, v) \cup Charged(twice, v)
<1> DEFINE raw == RawInputs(t, v)
           once == InputsOnce(t, v, pf)
           twice == InputsTwice(t, v, pf, L)
           wd == Catalogue[t].wd
           O == LedgerCreates(t, v)
           n == ConsumedCount(t, v)
           W == Withdrawn(v, wd)
<1>1. PICK tot, ps :
        /\ PreparedAs(t, v, pf) = Row(v, once, O, n, wd, tot, ps)
        /\ pf # NoAmounts => tot = OrUnpriced(W + SumOf(Counted(once, v))) /\ ps = Charged(once, v)
        /\ pf = NoAmounts => tot = Unpriced /\ ps = {}
  BY PreparedRow, Zenon
<1> DEFINE x == Row(v, once, O, n, wd, tot, ps)
<1>2. /\ Repriced(x, twice) = Row(v, twice, O, n, wd, OrUnpriced(W + SumOf(Counted(twice, v))),
                                  ps \cup Charged(twice, v))
      /\ WithdrawalTotal(x) = W /\ x.inputs = once
  <2> HIDE DEF once, twice, O, n, wd
  <2> QED BY RepricedRow
<1>3. DOMAIN once = DOMAIN raw /\ (pf = NoAmounts => \A i \in DOMAIN raw : once[i].amount = 0)
      /\ \A i \in DOMAIN raw : once[i] \in InputRecord
  BY InputsOnceFacts
<1>4. PricedInputs(x, L) = twice
  <2>1. PricedInputs(x, L) = [i \in DOMAIN once |-> Priced(once[i], L)] BY <1>2, Zenon DEF PricedInputs
  <2>2. twice = [i \in DOMAIN raw |-> Priced(once[i], L)] BY DEF InputsTwice
  <2> QED BY <1>3, <2>1, <2>2
<1>5. Resolved(x, L) = IF twice # once \/ W > 0 THEN Repriced(x, twice) ELSE x
  BY <1>2, <1>4, Zenon DEF Resolved
<1>6. W \in Nat BY FlowConstants DEF Withdrawn
<1>7. ps \subseteq Charged(once, v) BY <1>1
<1>8. CASE twice # once \/ W > 0
  <2>1. Resolved(PreparedAs(t, v, pf), L)
          = Row(v, twice, O, n, wd, OrUnpriced(W + SumOf(Counted(twice, v))), ps \cup Charged(twice, v))
    BY <1>1, <1>2, <1>5, <1>8
  <2>2. /\ Charged(twice, v) \subseteq ps \cup Charged(twice, v)
        /\ ps \cup Charged(twice, v) \subseteq Charged(once, v) \cup Charged(twice, v)
    BY <1>7
  <2> QED BY <2>1, <2>2
<1>9. CASE twice = once /\ ~(W > 0)
  <2>1. Resolved(PreparedAs(t, v, pf), L) = Row(v, twice, O, n, wd, tot, ps) BY <1>1, <1>5, <1>9
  <2>2. CASE pf # NoAmounts
    <3>1. tot = OrUnpriced(W + SumOf(Counted(twice, v))) /\ ps = Charged(twice, v)
      BY <1>1, <1>9, <2>2
    <3>2. Charged(twice, v) \subseteq ps /\ ps \subseteq Charged(once, v) \cup Charged(twice, v)
      BY <1>7, <3>1
    <3> QED BY <2>1, <3>1, <3>2
  <2>3. CASE pf = NoAmounts
    <3>1. tot = Unpriced /\ ps = {} BY <1>1, <2>3
    <3>2. \A i \in DOMAIN raw : twice[i].amount = 0 BY <1>3, <1>9, <2>3
    <3>3. Counted(twice, v) \in Seq(Nat) /\ \A i \in 1 .. Len(Counted(twice, v)) : Counted(twice, v)[i] = 0
      <4>1. raw \in Seq(InputRecord) BY RawFields, Zenon DEF RawShape
      <4>2. DOMAIN raw = 1 .. Len(raw) /\ Len(raw) \in Nat BY <4>1, LenProperties
      <4> DEFINE C == Counted(twice, v)
      <4>3. DOMAIN C = 1 .. Len(raw) /\ \A i \in DOMAIN C : C[i] = 0
        BY <1>3, <1>9, <3>2, <4>2 DEF Counted
      <4>4. C = [i \in 1 .. Len(raw) |-> C[i]] BY <1>3, <1>9, <4>2 DEF Counted
      <4> HIDE DEF C
      <4>5. C \in [1 .. Len(raw) -> Nat] BY <4>3, <4>4
      <4>6. C \in Seq(Nat) BY <4>2, <4>5, SeqDef
      <4> QED BY <4>3, <4>6, LenProperties DEF C
    <3>4. SumOf(Counted(twice, v)) = 0
      <4> HIDE DEF twice
      <4> QED BY <3>3, SumOfZeros
    <3>5. W + SumOf(Counted(twice, v)) = 0 BY <1>6, <1>9, <3>4
    <3>6. tot = OrUnpriced(W + SumOf(Counted(twice, v))) BY <3>1, <3>5 DEF OrUnpriced
    <3>7. Charged(twice, v) = {} BY <1>3, <1>9, <3>2 DEF Charged
    <3>8. Charged(twice, v) \subseteq ps /\ ps \subseteq Charged(once, v) \cup Charged(twice, v)
      BY <3>1, <3>7
    <3> QED BY <2>1, <3>6, <3>8
  <2> QED BY <2>2, <2>3
<1> QED BY <1>6, <1>8, <1>9

-----------------------------------------------------------------------------
Start(t, v) == IF v THEN 0 ELSE Len(Catalogue[t].ins) + Len(Catalogue[t].refs)

\* The inputs that the ledger consumes are a stretch of the parser's list.
LEMMA ConsumedStretch ==
  ASSUME NEW t \in FlowTx, NEW v \in BOOLEAN
  PROVE  LET raw == RawInputs(t, v)
             taken == Taken(t, v)
             b == Start(t, v)
             m == Len(raw)
         IN /\ taken \in Seq(References) /\ b \in Nat /\ m \in Nat /\ DOMAIN raw = 1 .. m
            /\ b + Len(taken) <= m
            /\ \A i, j \in DOMAIN taken : taken[i] = taken[j] => i = j
            /\ \A i \in 1 .. m :
                 /\ ConsumedByLedger(raw[i], v) <=> b < i /\ i <= b + Len(taken)
                 /\ ConsumedByLedger(raw[i], v) =>
                      /\ i - b \in 1 .. Len(taken) /\ raw[i].ref = taken[i - b]
                      /\ raw[i].kind # "reference" /\ (raw[i].kind = "collateral" => ~v)
<1> DEFINE c == Catalogue[t]
           la == Len(c.ins)
           lb == Len(c.refs)
           lc == Len(c.cols)
           raw == RawInputs(t, v)
           taken == Taken(t, v)
<1>1. /\ raw \in Seq(InputRecord) /\ DOMAIN raw = 1 .. la + lb + lc
      /\ la \in Nat /\ lb \in Nat /\ lc \in Nat
      /\ \A i \in DOMAIN raw :
           /\ i <= la => raw[i].ref = c.ins[i] /\ raw[i].kind = IF v THEN "spent" ELSE "attempt"
           /\ ~(i <= la) /\ i <= la + lb => raw[i].kind = "reference"
           /\ ~(i <= la + lb) => raw[i].ref = c.cols[i - (la + lb)] /\ raw[i].kind = "collateral"
  <2>1. RawShape(c, v, raw, la, lb, lc) BY RawFields
  <2> HIDE DEF raw, la, lb, lc
  <2> QED BY <2>1 DEF RawShape
<1>2. Len(raw) = la + lb + lc /\ Len(raw) \in Nat
  <2>1. DOMAIN raw = 1 .. Len(raw) /\ Len(raw) \in Nat BY <1>1, LenProperties
  <2> HIDE DEF raw, la, lb, lc
  <2>2. la + lb + lc \in Nat /\ DOMAIN raw = 1 .. la + lb + lc BY <1>1
  <2>3. \A p, q \in Nat : 1 .. p = 1 .. q => p = q
    <3>1. SUFFICES ASSUME NEW p \in Nat, NEW q \in Nat, 1 .. p = 1 .. q PROVE p = q OBVIOUS
    <3>2. CASE p < q
      <4>1. q \in 1 .. q BY <3>2
      <4>2. q \in 1 .. p BY <3>1, <4>1
      <4> QED BY <3>2, <4>2
    <3>3. CASE q < p
      <4>1. p \in 1 .. p BY <3>3
      <4>2. p \in 1 .. q BY <3>1, <4>1
      <4> QED BY <3>3, <4>2
    <3> QED BY <3>2, <3>3
  <2> QED BY <2>1, <2>2, <2>3
<1>3. /\ taken \in Seq(References)
      /\ \A i, j \in DOMAIN taken : taken[i] = taken[j] => i = j
  BY FlowConstants DEF Taken
<1>4. v => taken = c.ins /\ Start(t, v) = 0 BY DEF Taken, Start
<1>5. ~v => taken = c.cols /\ Start(t, v) = la + lb BY DEF Taken, Start
<1>6. CASE v
  <2>1. taken = c.ins /\ Start(t, v) = 0 /\ Len(taken) = la BY <1>4, <1>6
  <2> HIDE DEF raw, taken, la, lb, lc
  <2>2. ASSUME NEW i \in 1 .. Len(raw)
        PROVE  /\ ConsumedByLedger(raw[i], v) <=> 0 < i /\ i <= 0 + la
               /\ ConsumedByLedger(raw[i], v) =>
                    /\ i - 0 \in 1 .. la /\ raw[i].ref = taken[i - 0]
                    /\ raw[i].kind # "reference" /\ (raw[i].kind = "collateral" => ~v)
    <3>1. i \in DOMAIN raw /\ i \in Nat /\ 0 < i BY <1>1, <1>2
    <3>2. CASE i <= la
      <4>1. raw[i].ref = c.ins[i] /\ raw[i].kind = "spent" BY <1>1, <1>6, <3>1, <3>2
      <4>2. ConsumedByLedger(raw[i], v) BY <1>6, <4>1 DEF ConsumedByLedger
      <4>3. i - 0 = i /\ i \in 1 .. la /\ i <= 0 + la BY <1>1, <3>1, <3>2
      <4> QED BY <2>1, <3>1, <4>1, <4>2, <4>3
    <3>3. CASE ~(i <= la)
      <4>1. raw[i].kind \in {"reference", "collateral"} BY <1>1, <3>1, <3>3
      <4>2. ~ConsumedByLedger(raw[i], v) BY <1>6, <4>1 DEF ConsumedByLedger
      <4>3. ~(i <= 0 + la) BY <1>1, <3>1, <3>3
      <4> QED BY <4>2, <4>3
    <3> QED BY <3>2, <3>3
  <2>3. 0 + la <= Len(raw) /\ 0 \in Nat BY <1>1, <1>2
  <2> QED BY <1>1, <1>2, <1>3, <2>1, <2>2, <2>3 DEF raw, taken
<1>7. CASE ~v
  <2> DEFINE b == la + lb
  <2>1. taken = c.cols /\ Start(t, v) = b /\ Len(taken) = lc BY <1>5, <1>7
  <2>2. b \in Nat /\ la <= b
    <3> HIDE DEF la, lb
    <3> QED BY <1>1
  <2>2a. b + lc <= Len(raw)
    <3> HIDE DEF la, lb, lc, raw
    <3> QED BY <1>1, <1>2
  <2>2b. \A i \in DOMAIN raw :
           /\ i <= la => raw[i].kind = "attempt"
           /\ ~(i <= la) /\ i <= b => raw[i].kind = "reference"
           /\ ~(i <= b) => raw[i].ref = c.cols[i - b] /\ raw[i].kind = "collateral"
    BY <1>1, <1>7
  <2>2c. Len(raw) = b + lc BY <1>2
  <2> HIDE DEF raw, taken, la, lb, lc, b
  <2>3. ASSUME NEW i \in 1 .. Len(raw)
        PROVE  /\ ConsumedByLedger(raw[i], v) <=> b < i /\ i <= b + lc
               /\ ConsumedByLedger(raw[i], v) =>
                    /\ i - b \in 1 .. lc /\ raw[i].ref = taken[i - b]
                    /\ raw[i].kind # "reference" /\ (raw[i].kind = "collateral" => ~v)
    <3>1. i \in DOMAIN raw /\ i \in Nat /\ i <= b + lc BY <1>1, <1>2, <2>2c
    <3>2. CASE i <= b
      <4>1. raw[i].kind \in {"attempt", "reference"} BY <2>2b, <3>1, <3>2
      <4>2. ~ConsumedByLedger(raw[i], v) BY <1>7, <4>1 DEF ConsumedByLedger
      <4>3. ~(b < i) BY <2>2, <3>1, <3>2
      <4> QED BY <4>2, <4>3
    <3>3. CASE ~(i <= b)
      <4>0. ~(i <= la) BY <1>1, <2>2, <3>1, <3>3
      <4>1. raw[i].ref = c.cols[i - b] /\ raw[i].kind = "collateral" BY <2>2b, <3>1, <3>3
      <4>2. ConsumedByLedger(raw[i], v) BY <1>7, <4>1 DEF ConsumedByLedger
      <4>3. b < i /\ i - b \in 1 .. lc BY <1>1, <2>2, <3>1, <3>3
      <4> QED BY <1>7, <2>1, <3>1, <4>1, <4>2, <4>3
    <3> QED BY <3>2, <3>3
  <2> QED BY <1>1, <1>2, <1>3, <2>1, <2>2, <2>2a, <2>3 DEF raw, taken
<1> QED BY <1>6, <1>7

\* The inputs the ledger consumes, counted by the parser and as a set.
LEMMA ConsumedCounted ==
  ASSUME NEW t \in FlowTx, NEW v \in BOOLEAN
  PROVE  ConsumedCount(t, v) = Cardinality(Elements(Taken(t, v)))
<1> DEFINE raw == RawInputs(t, v)
           taken == Taken(t, v)
           b == Start(t, v)
           m == Len(raw)
           n == Len(taken)
           I == {i \in DOMAIN raw : ConsumedByLedger(raw[i], v)}
<1>1. /\ taken \in Seq(References) /\ b \in Nat /\ m \in Nat /\ DOMAIN raw = 1 .. m
      /\ b + n <= m
      /\ \A i, j \in DOMAIN taken : taken[i] = taken[j] => i = j
      /\ \A i \in 1 .. m : ConsumedByLedger(raw[i], v) <=> b < i /\ i <= b + n
  BY ConsumedStretch
<1>2. n \in Nat /\ DOMAIN taken = 1 .. n BY <1>1, LenProperties
<1>2a. ConsumedCount(t, v) = Cardinality(I) BY DEF ConsumedCount
<1> HIDE DEF raw, taken, b, m, n
<1>3. I = (b + 1) .. (b + n)
  <2>1. ASSUME NEW i \in I PROVE i \in (b + 1) .. (b + n) BY <1>1, <1>2
  <2>2. ASSUME NEW i \in (b + 1) .. (b + n) PROVE i \in I BY <1>1, <1>2
  <2> QED BY <2>1, <2>2
<1>4. Cardinality(I) = n
  <2>1. b + 1 \in Int /\ b + n \in Int BY <1>1, <1>2
  <2>2. Cardinality((b + 1) .. (b + n)) = IF b + 1 > b + n THEN 0 ELSE (b + n) - (b + 1) + 1
    BY <2>1, FS_Interval
  <2>3. (IF b + 1 > b + n THEN 0 ELSE (b + n) - (b + 1) + 1) = n BY <1>1, <1>2
  <2> QED BY <1>3, <2>2, <2>3
<1>5. IsFiniteSet(1 .. n) /\ Cardinality(1 .. n) = n
  <2>1. IsFiniteSet(1 .. n) /\ Cardinality(1 .. n) = IF 1 > n THEN 0 ELSE n - 1 + 1
    BY <1>2, FS_Interval
  <2> QED BY <1>2, <2>1
<1>6. ExistsBijection(1 .. n, Elements(taken))
  <2> DEFINE f == [i \in 1 .. n |-> taken[i]]
  <2>1. f \in [1 .. n -> Elements(taken)] BY <1>2 DEF Elements
  <2>2. \A i, j \in 1 .. n : f[i] = f[j] => i = j BY <1>1, <1>2
  <2>3. \A r \in Elements(taken) : \E i \in 1 .. n : f[i] = r BY <1>2 DEF Elements
  <2> HIDE DEF f
  <2>4. f \in Bijection(1 .. n, Elements(taken))
    BY <2>1, <2>2, <2>3 DEF Bijection, Injection, Surjection, IsInjective
  <2> QED BY <2>4 DEF ExistsBijection
<1>7. Cardinality(Elements(taken)) = n BY <1>5, <1>6, FS_Bijection
<1> QED BY <1>2a, <1>4, <1>7 DEF taken

\* The row that the two passes leave.
PricedRow(x, t, v, pf, L) ==
  \E ps : /\ x = Row(v, InputsTwice(t, v, pf, L), LedgerCreates(t, v), ConsumedCount(t, v),
                     Catalogue[t].wd,
                     OrUnpriced(Withdrawn(v, Catalogue[t].wd)
                                  + SumOf(Counted(InputsTwice(t, v, pf, L), v))), ps)
          /\ Charged(InputsTwice(t, v, pf, L), v) \subseteq ps
          /\ ps \subseteq Charged(InputsOnce(t, v, pf), v) \cup Charged(InputsTwice(t, v, pf, L), v)

LEMMA ResolvedIsPriced ==
  ASSUME NEW t \in FlowTx, NEW v \in BOOLEAN, NEW pf, TrueAmounts(pf), NEW L, TrueAmounts(L)
  PROVE  PricedRow(Resolved(PreparedAs(t, v, pf), L), t, v, pf, L)
BY ResolvedRow, Zenon DEF PricedRow

\* Where the lookup raises, the mempool query alone was applied.
LEMMA PreparedIsPriced ==
  ASSUME NEW t \in FlowTx, NEW v \in BOOLEAN, NEW pf, TrueAmounts(pf), pf # NoAmounts
  PROVE  PricedRow(PreparedAs(t, v, pf), t, v, pf, NoAmounts)
<1> DEFINE once == InputsOnce(t, v, pf)
           twice == InputsTwice(t, v, pf, NoAmounts)
           wd == Catalogue[t].wd
           O == LedgerCreates(t, v)
           n == ConsumedCount(t, v)
<1>1. once = twice
  <2>1. ASSUME NEW inp PROVE Priced(inp, NoAmounts) = inp BY DEF Priced, NoAmounts
  <2>2. twice = [i \in DOMAIN RawInputs(t, v) |-> once[i]] BY <2>1 DEF InputsTwice
  <2> QED BY <2>2 DEF InputsOnce
<1>2. PICK tot, ps :
        /\ PreparedAs(t, v, pf) = Row(v, once, O, n, wd, tot, ps)
        /\ pf # NoAmounts =>
             tot = OrUnpriced(Withdrawn(v, wd) + SumOf(Counted(once, v))) /\ ps = Charged(once, v)
        /\ pf = NoAmounts => tot = Unpriced /\ ps = {}
  BY PreparedRow, Zenon
<1>3. PreparedAs(t, v, pf) = Row(v, once, O, n, wd, OrUnpriced(Withdrawn(v, wd) + SumOf(Counted(once, v))),
                                 Charged(once, v))
  BY <1>2
<1>4. Charged(once, v) \subseteq Charged(once, v) \cup Charged(once, v) OBVIOUS
<1> HIDE DEF once
<1>5. PreparedAs(t, v, pf) = Row(v, twice, O, n, wd, OrUnpriced(Withdrawn(v, wd) + SumOf(Counted(twice, v))),
                                 Charged(once, v))
      /\ Charged(twice, v) \subseteq Charged(once, v)
      /\ Charged(once, v) \subseteq Charged(once, v) \cup Charged(twice, v)
  BY <1>1, <1>3, <1>4
<1> QED BY <1>5, Zenon DEF PricedRow, once

\* Without it the row stays as the parser left it, and nothing was known.
LEMMA UnpricedIsTrue ==
  ASSUME NEW t \in FlowTx, NEW v \in BOOLEAN,
         NEW live, TrueAmounts(live), Elements(Taken(t, v)) \subseteq DOMAIN live,
         NEW s, s.row = PreparedAs(t, v, NoAmounts), s.priced = FALSE, s.known = {},
         s.spent = Only(live, LedgerConsumes(t, v))
  PROVE  RowTrue(t, s)
<1> DEFINE once == InputsOnce(t, v, NoAmounts)
           wd == Catalogue[t].wd
           O == LedgerCreates(t, v)
           n == ConsumedCount(t, v)
           taken == Taken(t, v)
           g == Seen(t, s)
<1>0. TrueAmounts(NoAmounts) BY DEF TrueAmounts, NoAmounts
<1>1. PICK tot, ps :
        /\ PreparedAs(t, v, NoAmounts) = Row(v, once, O, n, wd, tot, ps)
        /\ NoAmounts # NoAmounts =>
             tot = OrUnpriced(Withdrawn(v, wd) + SumOf(Counted(once, v))) /\ ps = Charged(once, v)
        /\ NoAmounts = NoAmounts => tot = Unpriced /\ ps = {}
  BY <1>0, PreparedRow, Zenon
<1>2. s.row = Row(v, once, O, n, wd, Unpriced, {}) BY <1>1
<1>3. s.row.valid = v /\ s.row.count = n /\ s.row.total = Unpriced /\ s.row.parties = {}
  <2> HIDE DEF once, O, n, wd
  <2> QED BY <1>2 DEF Row
<1>4. n = Cardinality(Elements(taken)) BY ConsumedCounted
<1>5. DOMAIN s.spent = Elements(taken) /\ TrueAmounts(s.spent)
  <2>1. LedgerConsumes(t, v) = Elements(taken) BY DEF LedgerConsumes, Taken
  <2>2. DOMAIN Only(live, Elements(taken)) = Elements(taken) BY DEF Only
  <2>3. TrueAmounts(Only(live, Elements(taken))) BY AmountsMerged
  <2> QED BY <2>1, <2>2, <2>3
<1>6. SumOf(g) = 0
  <2>1. taken \in Seq(References) BY FlowConstants DEF Taken
  <2>2. DOMAIN taken = 1 .. Len(taken) /\ Len(taken) \in Nat BY <2>1, LenProperties
  <2>3. g = [i \in 1 .. Len(taken) |-> 0] BY <1>3, <2>2 DEF Seen
  <2>4. g \in [1 .. Len(taken) -> Nat] BY <2>3
  <2>5. g \in Seq(Nat) BY <2>2, <2>4, SeqDef
  <2>6. \A i \in 1 .. Len(g) : g[i] = 0 BY <2>2, <2>3, <2>5, LenProperties
  <2> HIDE DEF g
  <2> QED BY <2>5, <2>6, SumOfZeros
<1>7. RowTotal(t, s) = 0 BY <1>6 DEF RowTotal
<1> HIDE DEF n, g, taken
<1> QED BY <1>3, <1>4, <1>5, <1>7 DEF RowTrue

\* The row of a transaction whose known inputs are those that a source priced.
LEMMA RowIsTrue ==
  ASSUME NEW t \in FlowTx, NEW v \in BOOLEAN, NEW pf, TrueAmounts(pf), NEW L, TrueAmounts(L),
         NEW live, TrueAmounts(live), Elements(Taken(t, v)) \subseteq DOMAIN live,
         NEW s, PricedRow(s.row, t, v, pf, L), s.priced,
         s.spent = Only(live, LedgerConsumes(t, v)),
         \A r \in Elements(Taken(t, v)) : r \in s.known <=> r \in DOMAIN pf \cup DOMAIN L
  PROVE  RowTrue(t, s)
<1> DEFINE raw == RawInputs(t, v)
           once == InputsOnce(t, v, pf)
           twice == InputsTwice(t, v, pf, L)
           taken == Taken(t, v)
           b == Start(t, v)
           m == Len(raw)
           n == Len(taken)
           wd == Catalogue[t].wd
           W == Withdrawn(v, wd)
           C == Counted(twice, v)
           g == [i \in DOMAIN taken |-> IF taken[i] \in s.known THEN s.spent[taken[i]] ELSE 0]
           cost(r) == IF r \in s.known THEN Amount(r) ELSE 0
<1>1. PICK ps :
        /\ s.row = Row(v, twice, LedgerCreates(t, v), ConsumedCount(t, v), wd,
                       OrUnpriced(W + SumOf(C)), ps)
        /\ Charged(twice, v) \subseteq ps
        /\ ps \subseteq Charged(once, v) \cup Charged(twice, v)
  BY Zenon DEF PricedRow
<1>2. /\ s.row.valid = v /\ s.row.outputs = LedgerCreates(t, v) /\ s.row.count = ConsumedCount(t, v)
      /\ s.row.withdrawn = wd /\ s.row.total = OrUnpriced(W + SumOf(C)) /\ s.row.parties = ps
  BY <1>1 DEF Row
<1>3. /\ taken \in Seq(References) /\ b \in Nat /\ m \in Nat /\ DOMAIN raw = 1 .. m
      /\ b + n <= m
      /\ \A i \in 1 .. m :
           /\ ConsumedByLedger(raw[i], v) <=> b < i /\ i <= b + n
           /\ ConsumedByLedger(raw[i], v) =>
                /\ i - b \in 1 .. n /\ raw[i].ref = taken[i - b]
                /\ raw[i].kind # "reference" /\ (raw[i].kind = "collateral" => ~v)
  BY ConsumedStretch
<1>4. n \in Nat /\ DOMAIN taken = 1 .. n BY <1>3, LenProperties
<1>5. DOMAIN s.spent = Elements(taken) /\ TrueAmounts(s.spent)
      /\ \A r \in Elements(taken) : s.spent[r] = Amount(r) /\ Amount(r) \in Nat \ {0}
  <2>1. LedgerConsumes(t, v) = Elements(taken) BY DEF LedgerConsumes, Taken
  <2>2. DOMAIN Only(live, Elements(taken)) = Elements(taken) BY DEF Only
  <2>3. TrueAmounts(Only(live, Elements(taken))) BY AmountsMerged
  <2> QED BY <2>1, <2>2, <2>3 DEF TrueAmounts
<1>6. /\ DOMAIN twice = DOMAIN raw
      /\ \A i \in DOMAIN raw :
           /\ twice[i] \in InputRecord
           /\ twice[i].ref = raw[i].ref /\ twice[i].kind = raw[i].kind
           /\ twice[i].amount =
                IF raw[i].kind # "reference" /\ raw[i].ref \in DOMAIN pf \cup DOMAIN L
                THEN Amount(raw[i].ref) ELSE 0
  BY InputsTwiceFacts
<1>7. /\ DOMAIN once = DOMAIN raw
      /\ \A i \in DOMAIN raw : once[i].ref = raw[i].ref /\ once[i].kind = raw[i].kind
  BY InputsOnceFacts
<1>8. DOMAIN C = DOMAIN twice
      /\ C = [i \in DOMAIN twice |-> IF ConsumedByLedger(twice[i], v) THEN twice[i].amount ELSE 0]
  BY DEF Counted
<1>8a. Seen(t, s) = g BY <1>2 DEF Seen
<1>8b. RawShape(Catalogue[t], v, raw, Len(Catalogue[t].ins), Len(Catalogue[t].refs), Len(Catalogue[t].cols))
  BY RawFields
<1>8c. \A r \in Elements(taken) : r \in s.known <=> r \in DOMAIN pf \cup DOMAIN L OBVIOUS
<1>8d. ConsumedCount(t, v) = Cardinality(Elements(taken)) BY ConsumedCounted
<1>8e. W \in Nat /\ WithdrawalTotal(s.row) = W
  BY <1>2, FlowConstants DEF Withdrawn, WithdrawalTotal
<1> HIDE DEF raw, once, twice, taken, b, m, n, C, g, wd, W
<1>9. ASSUME NEW i \in 1 .. n PROVE taken[i] \in Elements(taken) BY <1>4 DEF Elements
<1>10. g \in Seq(Nat) /\ Len(g) = n /\ \A i \in 1 .. n : g[i] = cost(taken[i])
  <2>1. \A i \in 1 .. n : g[i] = cost(taken[i]) /\ g[i] \in Nat BY <1>4, <1>5, <1>9 DEF g
  <2>2. g \in [1 .. n -> Nat]
    <3>1. g = [i \in 1 .. n |-> g[i]] BY <1>4 DEF g
    <3> QED BY <2>1, <3>1
  <2> QED BY <1>4, <2>1, <2>2, SeqDef, LenProperties
<1>11. ASSUME NEW i \in 1 .. m
       PROVE  C[i] = IF b < i /\ i <= b + n THEN g[i - b] ELSE 0
  <2>0. i \in DOMAIN raw /\ i \in DOMAIN twice BY <1>3, <1>6
  <2>1. ConsumedByLedger(twice[i], v) <=> ConsumedByLedger(raw[i], v)
    BY <1>6, <2>0 DEF ConsumedByLedger
  <2>2. CASE ConsumedByLedger(raw[i], v)
    <3>1. i - b \in 1 .. n /\ raw[i].ref = taken[i - b] /\ raw[i].kind # "reference"
          /\ b < i /\ i <= b + n
      BY <1>3, <2>2
    <3>2. C[i] = twice[i].amount BY <1>8, <2>0, <2>1, <2>2
    <3>3. twice[i].amount = cost(taken[i - b])
      <4>1. taken[i - b] \in Elements(taken) BY <1>9, <3>1
      <4>2. raw[i].ref \in s.known <=> raw[i].ref \in DOMAIN pf \cup DOMAIN L BY <1>8c, <3>1, <4>1
      <4> QED BY <1>6, <2>0, <3>1, <4>2
    <3>4. g[i - b] = cost(taken[i - b]) BY <1>10, <3>1
    <3> QED BY <3>1, <3>2, <3>3, <3>4
  <2>3. CASE ~ConsumedByLedger(raw[i], v)
    <3>1. ~(b < i /\ i <= b + n) BY <1>3, <2>3
    <3>2. C[i] = 0 BY <1>8, <2>0, <2>1, <2>3
    <3> QED BY <3>1, <3>2
  <2> QED BY <2>2, <2>3
<1>12. C \in Seq(Nat) /\ Len(C) = m
  <2>1. \A i \in 1 .. m : C[i] \in Nat
    <3>1. ASSUME NEW i \in 1 .. m, b < i, i <= b + n PROVE g[i - b] \in Nat
      <4>1. i - b \in 1 .. n BY <1>3, <1>4, <3>1
      <4> QED BY <1>10, <4>1, ElementOfSeq
    <3> QED BY <1>11, <3>1
  <2>2. C = [i \in 1 .. m |-> C[i]] BY <1>3, <1>6, <1>8
  <2>3. C \in [1 .. m -> Nat] BY <2>1, <2>2
  <2> QED BY <1>3, <2>3, SeqDef, LenProperties
<1>13. SumOf(C) = SumOf(g)
  <2>1. \A i \in 1 .. Len(C) : C[i] = IF b < i /\ i <= b + Len(g) THEN g[i - b] ELSE 0
    BY <1>10, <1>11, <1>12
  <2>2. b + Len(g) <= Len(C) BY <1>3, <1>10, <1>12
  <2> QED BY <1>3, <1>10, <1>12, <2>1, <2>2, SumOfStretch
<1>14. SumOf(g) \in Nat BY <1>10, SumStepwise
<1>15. RowTotal(t, s) = W + SumOf(C) /\ RowTotal(t, s) \in Nat
  <2>1. RowTotal(t, s) = SumOf(g) + W BY <1>8a, <1>8e DEF RowTotal
  <2> QED BY <1>8e, <1>13, <1>14, <2>1
<1>16. s.row.total = IF RowTotal(t, s) > 0 THEN RowTotal(t, s) ELSE Unpriced
  BY <1>2, <1>15 DEF OrUnpriced
<1>17. s.row.count = Cardinality(DOMAIN s.spent) BY <1>2, <1>5, <1>8d
<1>18. ASSUME NEW r \in DOMAIN s.spent, r \in s.known PROVE r \in s.row.parties
  <2>1. PICK j \in 1 .. n : r = taken[j] BY <1>4, <1>5 DEF Elements
  <2> DEFINE i == b + j
  <2>2. i \in 1 .. m /\ b < i /\ i <= b + n /\ i - b = j BY <1>3, <1>4
  <2> HIDE DEF i
  <2>3. ConsumedByLedger(raw[i], v) BY <1>3, <2>2
  <2>4. raw[i].ref = r /\ raw[i].kind # "reference" /\ (raw[i].kind = "collateral" => ~v)
    BY <1>3, <2>1, <2>2, <2>3
  <2>5. i \in DOMAIN raw /\ r \in Elements(taken) BY <1>3, <1>5, <2>2
  <2>6. r \in DOMAIN pf \cup DOMAIN L BY <1>8c, <1>18, <2>5
  <2>7. twice[i].amount = Amount(r) /\ twice[i].ref = r /\ twice[i].kind = raw[i].kind
    BY <1>6, <2>4, <2>5, <2>6
  <2>8. twice[i].amount > 0 BY <1>5, <2>5, <2>7
  <2>9. r \in Charged(twice, v) BY <1>6, <2>4, <2>5, <2>7, <2>8 DEF Charged
  <2> QED BY <1>1, <1>2, <2>9
<1>19. ASSUME NEW i \in DOMAIN raw, raw[i].kind # "reference"
       PROVE  raw[i].ref \in Elements(Catalogue[t].ins) \cup Elements(Catalogue[t].cols)
  <2> DEFINE c == Catalogue[t]
             la == Len(c.ins)
             lb == Len(c.refs)
             lc == Len(c.cols)
  <2>1. RawShape(c, v, raw, la, lb, lc) BY <1>8b
  <2>2. DOMAIN c.ins = 1 .. la /\ DOMAIN c.cols = 1 .. lc BY FlowConstants, LenProperties
  <2> HIDE DEF la, lb, lc, c
  <2>3. i \in 1 .. la + lb + lc /\ la \in Nat /\ lb \in Nat /\ lc \in Nat BY <2>1 DEF RawShape
  <2>4. CASE i <= la
    <3>1. raw[i].ref = c.ins[i] BY <2>1, <2>4 DEF RawShape
    <3>2. i \in DOMAIN c.ins BY <2>2, <2>3, <2>4
    <3> QED BY <3>1, <3>2 DEF Elements, c
  <2>5. CASE ~(i <= la) /\ i <= la + lb
    <3>1. raw[i].kind = "reference" BY <2>1, <2>5 DEF RawShape
    <3> QED BY <1>19, <3>1
  <2>6. CASE ~(i <= la + lb)
    <3>1. raw[i].ref = c.cols[i - (la + lb)] BY <2>1, <2>6 DEF RawShape
    <3>2. i - (la + lb) \in DOMAIN c.cols BY <2>2, <2>3, <2>6
    <3> QED BY <3>1, <3>2 DEF Elements, c
  <2> QED BY <2>3, <2>4, <2>5, <2>6
<1>20. s.row.parties \subseteq Elements(Catalogue[t].ins) \cup Elements(Catalogue[t].cols)
  <2>1. ASSUME NEW r \in Charged(once, v)
        PROVE  r \in Elements(Catalogue[t].ins) \cup Elements(Catalogue[t].cols)
    <3>1. PICK i \in DOMAIN raw : r = raw[i].ref /\ raw[i].kind # "reference"
      BY <1>7 DEF Charged
    <3> QED BY <1>19, <3>1
  <2>2. ASSUME NEW r \in Charged(twice, v)
        PROVE  r \in Elements(Catalogue[t].ins) \cup Elements(Catalogue[t].cols)
    <3>1. PICK i \in DOMAIN raw : r = raw[i].ref /\ raw[i].kind # "reference"
      BY <1>6 DEF Charged
    <3> QED BY <1>19, <3>1
  <2> QED BY <1>1, <1>2, <2>1, <2>2
<1> QED BY <1>2, <1>5, <1>15, <1>16, <1>17, <1>18, <1>20 DEF RowTrue

-----------------------------------------------------------------------------
LEMMA FlowInitInv == FlowInit(TRUE) => FlowInv
<1> SUFFICES ASSUME FlowInit(TRUE) PROVE FlowInv OBVIOUS
<1>1. ASSUME NEW S, S \subseteq 0 .. Len(GenesisOuts) - 1
      PROVE  TrueAmounts(GenesisAmounts(S)) /\ \A r \in DOMAIN GenesisAmounts(S) : r[1] = 0
  <2>1. ASSUME NEW r \in {<<0, i>> : i \in S}
        PROVE  r[1] = 0 /\ r[2] \in Nat /\ r[2] + 1 \in 1 .. Len(GenesisOuts)
    BY <1>1, FlowConstants
  <2>2. ASSUME NEW r \in {<<0, i>> : i \in S}
        PROVE  Amount(r) = GenesisOuts[r[2] + 1] /\ Amount(r) \in Nat \ {0}
    BY <2>1, FlowConstants DEF Amount
  <2>3. DOMAIN GenesisAmounts(S) = {<<0, i>> : i \in S}
        /\ \A r \in DOMAIN GenesisAmounts(S) : GenesisAmounts(S)[r] = GenesisOuts[r[2] + 1]
    BY DEF GenesisAmounts
  <2> QED BY <2>1, <2>2, <2>3 DEF TrueAmounts
<1>2. /\ utxo = GenesisAmounts(0 .. Len(GenesisOuts) - 1)
      /\ outputs = GenesisAmounts(GenesisStored)
      /\ prefetched = [t \in FlowTx |-> NoAmounts]
      /\ recorded = [t \in FlowTx |-> [at |-> 0]]
  BY DEF FlowInit
<1>3. TrueAmounts(utxo) /\ OwnOutputsStored BY <1>1, <1>2 DEF OwnOutputsStored
<1>4. TrueAmounts(outputs) BY <1>1, <1>2, FlowConstants
<1>5. PrefetchedTrue BY <1>2 DEF PrefetchedTrue, NoAmounts, TrueAmounts
<1>6. RowsTrue BY <1>2 DEF RowsTrue, OnChain
<1> QED BY <1>3, <1>4, <1>5, <1>6 DEF FlowInv

LEMMA ResolvesKeeps ==
  ASSUME FlowInv, NEW t \in FlowTx, MempoolResolves(t)
  PROVE  FlowInv'
<1> DEFINE found == Only(utxo, Elements(Catalogue[t].ins))
<1>1. /\ prefetched' = [prefetched EXCEPT ![t] = found]
      /\ utxo' = utxo /\ outputs' = outputs /\ recorded' = recorded
  BY DEF MempoolResolves
<1>2. TrueAmounts(found) BY AmountsMerged DEF FlowInv
<1>3. found = [r \in DOMAIN found |-> found[r]] BY DEF Only
<1> HIDE DEF found
<1>4. ASSUME NEW u \in FlowTx PROVE prefetched'[u] = prefetched[u] \/ prefetched'[u] = found
  BY <1>1
<1>5. PrefetchedTrue'
  <2>1. ASSUME NEW u \in FlowTx
        PROVE  /\ TrueAmounts(prefetched'[u])
               /\ prefetched'[u] = [r \in DOMAIN prefetched'[u] |-> prefetched'[u][r]]
    <3>1. CASE prefetched'[u] = prefetched[u] BY <3>1 DEF FlowInv, PrefetchedTrue
    <3>2. CASE prefetched'[u] = found BY <1>2, <1>3, <3>2
    <3> QED BY <1>4, <3>1, <3>2
  <2> QED BY <2>1 DEF PrefetchedTrue, TrueAmounts, Amount
<1> QED BY <1>1, <1>5 DEF FlowInv, OwnOutputsStored, RowsTrue, OnChain

\* The outputs of a block's transactions, merged.
LEMMA IntraTrue ==
  ASSUME NEW ts, Block1(ts), NEW vs \in [DOMAIN ts -> BOOLEAN], NEW B, DOMAIN B = DOMAIN ts,
         \A i \in DOMAIN ts : B[i].outputs = LedgerCreates(ts[i], vs[i])
  PROVE  /\ TrueAmounts(IntraBlock(B))
         /\ \A r : r \in DOMAIN IntraBlock(B) <=>
                     \E i \in DOMAIN ts : r \in DOMAIN LedgerCreates(ts[i], vs[i])
<1> DEFINE outs == {B[i].outputs : i \in DOMAIN B}
           refs == UNION {DOMAIN o : o \in outs}
<1>1. IntraBlock(B) = [r \in refs |-> (CHOOSE o \in outs : r \in DOMAIN o)[r]]
  BY DEF IntraBlock
<1>2. \A o \in outs : TrueAmounts(o)
  <2>1. ASSUME NEW i \in DOMAIN ts PROVE TrueAmounts(B[i].outputs)
    <3>1. ts[i] \in FlowTx /\ vs[i] \in BOOLEAN BY PositionIs
    <3> QED BY <3>1, CreatesTrue
  <2> QED BY <2>1
<1>3. \A r : r \in refs <=> \E i \in DOMAIN ts : r \in DOMAIN LedgerCreates(ts[i], vs[i])
  OBVIOUS
<1>4. \A r \in refs : \E o \in outs : r \in DOMAIN o OBVIOUS
<1> HIDE DEF outs, refs
<1>5. ASSUME NEW r \in refs
      PROVE  /\ IntraBlock(B)[r] = Amount(r) /\ Amount(r) \in Nat \ {0}
             /\ r[1] \in FlowTx \cup {0} /\ r[2] \in Nat
  <2> DEFINE o == CHOOSE q \in outs : r \in DOMAIN q
  <2>1. o \in outs /\ r \in DOMAIN o BY <1>4
  <2>2. IntraBlock(B)[r] = o[r] BY <1>1
  <2> HIDE DEF o
  <2> QED BY <1>2, <2>1, <2>2 DEF TrueAmounts
<1>6. DOMAIN IntraBlock(B) = refs BY <1>1
<1> QED BY <1>3, <1>5, <1>6 DEF TrueAmounts

\* What the two pricing passes leave alone.
LEMMA PreparedFields ==
  ASSUME NEW t \in FlowTx, NEW v \in BOOLEAN, NEW pf, TrueAmounts(pf)
  PROVE  /\ PreparedAs(t, v, pf).outputs = LedgerCreates(t, v)
         /\ PreparedAs(t, v, pf).inputs = InputsOnce(t, v, pf)
         /\ PreparedAs(t, v, pf).valid = v
<1> DEFINE once == InputsOnce(t, v, pf)
           O == LedgerCreates(t, v)
           n == ConsumedCount(t, v)
           wd == Catalogue[t].wd
<1>1. PICK tot, ps :
        /\ PreparedAs(t, v, pf) = Row(v, once, O, n, wd, tot, ps)
        /\ pf # NoAmounts =>
             tot = OrUnpriced(Withdrawn(v, wd) + SumOf(Counted(once, v))) /\ ps = Charged(once, v)
        /\ pf = NoAmounts => tot = Unpriced /\ ps = {}
  BY PreparedRow, Zenon
<1> HIDE DEF once, O, n, wd
<1>2. LET x == PreparedAs(t, v, pf) IN x.outputs = O /\ x.inputs = once /\ x.valid = v
  BY <1>1 DEF Row
<1> QED BY <1>2 DEF once, O

LEMMA ResolvedFields ==
  ASSUME NEW t \in FlowTx, NEW v \in BOOLEAN, NEW pf, TrueAmounts(pf), NEW L, TrueAmounts(L)
  PROVE  Resolved(PreparedAs(t, v, pf), L).outputs = LedgerCreates(t, v)
<1> DEFINE ins == InputsTwice(t, v, pf, L)
           O == LedgerCreates(t, v)
           n == ConsumedCount(t, v)
           wd == Catalogue[t].wd
           T == OrUnpriced(Withdrawn(v, wd) + SumOf(Counted(ins, v)))
<1>1. PICK ps : /\ Resolved(PreparedAs(t, v, pf), L) = Row(v, ins, O, n, wd, T, ps)
                /\ Charged(ins, v) \subseteq ps
                /\ ps \subseteq Charged(InputsOnce(t, v, pf), v) \cup Charged(ins, v)
  BY ResolvedRow, Zenon
<1> HIDE DEF ins, O, n, wd, T
<1>2. Resolved(PreparedAs(t, v, pf), L).outputs = O BY <1>1 DEF Row
<1> QED BY <1>2 DEF O

\* A block is stored as the ledger applied it.
LEMMA IngestedRows ==
  ASSUME FlowInv, NEW ts, Block1(ts), NEW vs \in [DOMAIN ts -> BOOLEAN],
         NEW resolves \in BOOLEAN, Ingested(ts, vs, resolves)
  PROVE  LET parsed == [i \in DOMAIN ts |-> Prepared(ts[i], vs[i])]
             block == IF resolves THEN ResolveInputAmounts(parsed) ELSE parsed
         IN /\ TrueAmounts(IntraBlock(block))
            /\ \A r : r \in DOMAIN IntraBlock(block) <=>
                        \E i \in DOMAIN ts : r \in DOMAIN LedgerCreates(ts[i], vs[i])
            /\ \A u \in Elements(ts) : RowTrue(u, recorded'[u])
<1> DEFINE B0 == [i \in DOMAIN ts |-> Prepared(ts[i], vs[i])]
           block == IF resolves THEN ResolveInputAmounts(B0) ELSE B0
           L == BlockLookup(B0)
           pf(i) == prefetched[ts[i]]
<1>0. DOMAIN ts = 1 .. Len(ts) /\ Len(ts) \in Nat BY LenProperties DEF Block1
<1>1. ASSUME NEW i \in DOMAIN ts
      PROVE  ts[i] \in FlowTx /\ vs[i] \in BOOLEAN /\ Position(ts, ts[i]) = i
             /\ TrueAmounts(pf(i))
  BY PositionIs DEF FlowInv, PrefetchedTrue
<1>2. DOMAIN B0 = DOMAIN ts /\ \A i \in DOMAIN ts : B0[i] = PreparedAs(ts[i], vs[i], pf(i))
  BY DEF Prepared, PreparedAs
<1>3. /\ DOMAIN block = DOMAIN ts
      /\ \A i \in DOMAIN ts : block[i] = IF resolves THEN Resolved(B0[i], L) ELSE B0[i]
  BY <1>2 DEF ResolveInputAmounts
<1>4. ASSUME NEW i \in DOMAIN ts
      PROVE  /\ B0[i].outputs = LedgerCreates(ts[i], vs[i])
             /\ B0[i].inputs = InputsOnce(ts[i], vs[i], pf(i))
             /\ B0[i].valid = vs[i]
  BY <1>1, <1>2, PreparedFields
<1> HIDE DEF B0, block, L
<1>5. /\ TrueAmounts(IntraBlock(B0))
      /\ \A r : r \in DOMAIN IntraBlock(B0) <=>
                  \E i \in DOMAIN ts : r \in DOMAIN LedgerCreates(ts[i], vs[i])
  BY <1>2, <1>4, IntraTrue
<1>6. TrueAmounts(L)
  <2>1. TrueAmounts(Only(outputs, CrossBlockRefs(B0)))
    BY AmountsMerged DEF FlowInv
  <2> QED BY <1>5, <2>1, AmountsMerged DEF L, BlockLookup
<1>7. \A r : r \in DOMAIN L <=> \/ r \in DOMAIN IntraBlock(B0)
                                \/ r \in DOMAIN outputs /\ r \in CrossBlockRefs(B0)
  BY DEF L, BlockLookup, Over, Only
<1>8. ASSUME NEW i \in DOMAIN ts, NEW r \in Elements(Taken(ts[i], vs[i])), r \notin DOMAIN pf(i),
             r \notin DOMAIN IntraBlock(B0)
      PROVE  r \in CrossBlockRefs(B0)
  <2> DEFINE t == ts[i]
             v == vs[i]
             raw == RawInputs(t, v)
             once == InputsOnce(t, v, pf(i))
             taken == Taken(t, v)
             b == Start(t, v)
             m == Len(raw)
  <2>0. t \in FlowTx /\ v \in BOOLEAN /\ TrueAmounts(pf(i)) BY <1>1
  <2>1. /\ taken \in Seq(References) /\ b \in Nat /\ m \in Nat /\ DOMAIN raw = 1 .. m
        /\ b + Len(taken) <= m
        /\ \A k \in 1 .. m :
             /\ ConsumedByLedger(raw[k], v) <=> b < k /\ k <= b + Len(taken)
             /\ ConsumedByLedger(raw[k], v) =>
                  /\ k - b \in 1 .. Len(taken) /\ raw[k].ref = taken[k - b]
                  /\ raw[k].kind # "reference" /\ (raw[k].kind = "collateral" => ~v)
    BY <2>0, ConsumedStretch
  <2>2. /\ DOMAIN once = DOMAIN raw
        /\ \A k \in DOMAIN raw :
             /\ once[k].ref = raw[k].ref /\ once[k].kind = raw[k].kind
             /\ once[k].amount = IF raw[k].kind # "reference" /\ raw[k].ref \in DOMAIN pf(i)
                                 THEN Amount(raw[k].ref) ELSE 0
    BY <2>0, InputsOnceFacts
  <2>3. Len(taken) \in Nat /\ DOMAIN taken = 1 .. Len(taken) BY <2>1, LenProperties
  <2>4. PICK j \in 1 .. Len(taken) : r = taken[j] BY <1>8, <2>3 DEF Elements
  <2> HIDE DEF t, v, raw, once, taken, b, m
  <2> DEFINE k == b + j
  <2>5. k \in 1 .. m /\ b < k /\ k <= b + Len(taken) /\ k - b = j BY <2>1, <2>3
  <2> HIDE DEF k
  <2>6. raw[k].ref = r /\ raw[k].kind # "reference" /\ (raw[k].kind = "collateral" => ~v)
    BY <2>1, <2>4, <2>5
  <2>7. k \in DOMAIN once /\ once[k].ref = r /\ once[k].amount = 0 /\ once[k].kind = raw[k].kind
    BY <1>8, <2>1, <2>2, <2>5, <2>6
  <2>8. B0[i].inputs = once /\ B0[i].valid = v BY <1>4 DEF once, t, v
  <2>9. once[k] \in Elements(B0[i].inputs) BY <2>7, <2>8 DEF Elements
  <2>10. WantsLookup(B0[i], once[k]) BY <2>6, <2>7, <2>8 DEF WantsLookup
  <2>11. i \in DOMAIN B0 BY <1>2
  <2> QED BY <1>8, <2>7, <2>9, <2>10, <2>11 DEF CrossBlockRefs
<1> DEFINE Looked == IF resolves THEN DOMAIN outputs \cup DOMAIN IntraBlock(block) ELSE {}
<1>9. ASSUME NEW i \in DOMAIN ts
      PROVE  LET s == recorded'[ts[i]] IN
             /\ s.row = block[i] /\ s.spent = Only(LedgerAfter(ts, vs, i - 1), LedgerConsumes(ts[i], vs[i]))
             /\ s.known = DOMAIN pf(i) \cup Looked /\ s.priced = (resolves \/ pf(i) # NoAmounts)
             /\ LedgerAdmits(ts[i], vs[i], LedgerAfter(ts, vs, i - 1))
  <2> DEFINE known == DOMAIN pf(i) \cup Looked
             priced == resolves \/ pf(i) # NoAmounts
             spent == Only(LedgerAfter(ts, vs, i - 1), LedgerConsumes(ts[i], vs[i]))
  <2>1. ts[i] \in Elements(ts) /\ ts[i] \in FlowTx /\ Position(ts, ts[i]) = i BY <1>1 DEF Elements
  <2>2. recorded'[ts[i]] = [at |-> 1, row |-> block[i], priced |-> priced, known |-> known,
                            spent |-> spent]
    BY <2>1 DEF Ingested, block, B0
  <2>3. LedgerAdmits(ts[i], vs[i], LedgerAfter(ts, vs, i - 1)) BY DEF Ingested
  <2> HIDE DEF known, spent, priced
  <2> QED BY <2>2, <2>3 DEF known, spent, priced

<1>10. ASSUME NEW i \in DOMAIN ts PROVE block[i].outputs = LedgerCreates(ts[i], vs[i])
  <2>1. CASE resolves BY <1>1, <1>2, <1>3, <1>6, <2>1, ResolvedFields
  <2>2. CASE ~resolves BY <1>3, <1>4, <2>2
  <2> QED BY <2>1, <2>2
<1>11. /\ TrueAmounts(IntraBlock(block))
       /\ \A r : r \in DOMAIN IntraBlock(block) <=>
                   \E i \in DOMAIN ts : r \in DOMAIN LedgerCreates(ts[i], vs[i])
  BY <1>3, <1>10, IntraTrue
<1>12. ASSUME NEW i \in DOMAIN ts PROVE RowTrue(ts[i], recorded'[ts[i]])
  <2> DEFINE t == ts[i]
             v == vs[i]
             live == LedgerAfter(ts, vs, i - 1)
             s == recorded'[t]
  <2>1. t \in FlowTx /\ v \in BOOLEAN /\ TrueAmounts(pf(i)) BY <1>1
  <2>2. TrueAmounts(live)
    <3>1. i - 1 \in 0 .. Len(ts) BY <1>0
    <3> QED BY <3>1, LedgerTrue DEF FlowInv
  <2>3. /\ s.row = IF resolves THEN Resolved(PreparedAs(t, v, pf(i)), L) ELSE PreparedAs(t, v, pf(i))
        /\ s.spent = Only(live, LedgerConsumes(t, v))
        /\ s.known = DOMAIN pf(i) \cup Looked /\ s.priced = (resolves \/ pf(i) # NoAmounts)
    BY <1>2, <1>3, <1>9
  <2>4. Elements(Taken(t, v)) \subseteq DOMAIN live
    <3>1. LedgerAdmits(t, v, live) BY <1>9
    <3> QED BY <3>1 DEF LedgerAdmits, Taken
  <2>5. CASE resolves
    <3>1. \A r : r \in DOMAIN IntraBlock(block) <=> r \in DOMAIN IntraBlock(B0) BY <1>5, <1>11
    <3>2. s.known = DOMAIN pf(i) \cup (DOMAIN outputs \cup DOMAIN IntraBlock(block)) BY <2>3, <2>5
    <3>3. \A r \in Elements(Taken(t, v)) : r \in s.known <=> r \in DOMAIN pf(i) \cup DOMAIN L
      BY <1>7, <1>8, <3>1, <3>2
    <3>4. PricedRow(s.row, t, v, pf(i), L) BY <1>6, <2>1, <2>3, <2>5, ResolvedIsPriced
    <3>5. s.priced /\ s.spent = Only(live, LedgerConsumes(t, v)) BY <2>3, <2>5
    <3> HIDE DEF t, v, live, s
    <3>6. RowTrue(t, s) BY <1>6, <2>1, <2>2, <2>4, <3>3, <3>4, <3>5, RowIsTrue
    <3> QED BY <3>6 DEF t, s
  <2>6. CASE ~resolves /\ pf(i) # NoAmounts
    <3>1. PricedRow(s.row, t, v, pf(i), NoAmounts) BY <2>1, <2>3, <2>6, PreparedIsPriced
    <3>2. TrueAmounts(NoAmounts) /\ DOMAIN NoAmounts = {} BY DEF TrueAmounts, NoAmounts
    <3>3. s.known = DOMAIN pf(i) \cup {} /\ s.priced /\ s.spent = Only(live, LedgerConsumes(t, v))
      BY <2>3, <2>6
    <3>4. \A r \in Elements(Taken(t, v)) : r \in s.known <=> r \in DOMAIN pf(i) \cup DOMAIN NoAmounts
      BY <3>2, <3>3
    <3> HIDE DEF t, v, live, s
    <3>5. RowTrue(t, s) BY <2>1, <2>2, <2>4, <3>1, <3>2, <3>3, <3>4, RowIsTrue
    <3> QED BY <3>5 DEF t, s
  <2>7. CASE ~resolves /\ pf(i) = NoAmounts
    <3>1. s.row = PreparedAs(t, v, NoAmounts) BY <2>3, <2>7
    <3>2. s.known = {} /\ s.priced = FALSE
      <4>1. DOMAIN pf(i) = {} BY <2>7 DEF NoAmounts
      <4>2. s.known = DOMAIN pf(i) \cup {} BY <2>3, <2>7
      <4>3. s.priced = FALSE BY <2>3, <2>7
      <4> QED BY <4>1, <4>2, <4>3
    <3> HIDE DEF t, v, live, s
    <3>3. RowTrue(t, s) BY <2>1, <2>2, <2>3, <2>4, <3>1, <3>2, UnpricedIsTrue
    <3> QED BY <3>3 DEF t, s
  <2> QED BY <2>5, <2>6, <2>7
<1>13. \A u \in Elements(ts) : RowTrue(u, recorded'[u]) BY <1>12 DEF Elements
<1> QED BY <1>11, <1>13 DEF block, B0

LEMMA IngestedKeeps ==
  ASSUME FlowInv, NEW ts, Block1(ts), NEW vs \in [DOMAIN ts -> BOOLEAN],
         NEW resolves \in BOOLEAN, Ingested(ts, vs, resolves)
  PROVE  FlowInv'
<1> DEFINE parsed == [i \in DOMAIN ts |-> Prepared(ts[i], vs[i])]
           block == IF resolves THEN ResolveInputAmounts(parsed) ELSE parsed
           intra == IntraBlock(block)
<1>1. /\ TrueAmounts(intra)
      /\ \A r : r \in DOMAIN intra <=> \E i \in DOMAIN ts : r \in DOMAIN LedgerCreates(ts[i], vs[i])
      /\ \A u \in Elements(ts) : RowTrue(u, recorded'[u])
  BY IngestedRows
<1>2. /\ utxo' = LedgerAfter(ts, vs, Len(ts))
      /\ outputs' = Over(intra, outputs)
      /\ prefetched' = [t \in FlowTx |-> IF t \in Elements(ts) THEN NoAmounts ELSE prefetched[t]]
      /\ \A t \in FlowTx \ Elements(ts) : recorded'[t] = recorded[t]
  BY DEF Ingested
<1> HIDE DEF parsed, block, intra
<1>3. DOMAIN ts = 1 .. Len(ts) /\ Len(ts) \in 0 .. Len(ts) BY LenProperties DEF Block1
<1>4. TrueAmounts(utxo) /\ TrueAmounts(outputs) BY DEF FlowInv
<1>5. /\ TrueAmounts(LedgerAfter(ts, vs, Len(ts)))
      /\ \A r \in DOMAIN LedgerAfter(ts, vs, Len(ts)) :
           \/ r \in DOMAIN utxo
           \/ \E j \in 1 .. Len(ts) : r \in DOMAIN LedgerCreates(ts[j], vs[j])
  BY <1>3, <1>4, LedgerTrue
<1>6. TrueAmounts(utxo)' BY <1>2, <1>5 DEF TrueAmounts, Amount
<1>7. TrueAmounts(outputs)'
  <2>1. TrueAmounts(Over(intra, outputs)) BY <1>1, <1>4, AmountsMerged
  <2> QED BY <1>2, <2>1 DEF TrueAmounts, Amount
<1>8. OwnOutputsStored'
  <2>1. DOMAIN outputs' = DOMAIN intra \cup DOMAIN outputs BY <1>2 DEF Over
  <2>2. ASSUME NEW r \in DOMAIN utxo', r[1] # 0 PROVE r \in DOMAIN outputs'
    <3>1. CASE r \in DOMAIN utxo BY <2>1, <2>2, <3>1 DEF FlowInv, OwnOutputsStored
    <3>2. CASE \E j \in 1 .. Len(ts) : r \in DOMAIN LedgerCreates(ts[j], vs[j])
      BY <1>1, <1>3, <2>1, <3>2
    <3> QED BY <1>2, <1>5, <3>1, <3>2
  <2> QED BY <2>2 DEF OwnOutputsStored
<1>9. PrefetchedTrue'
  <2>1. ASSUME NEW u \in FlowTx
        PROVE  /\ TrueAmounts(prefetched'[u])
               /\ prefetched'[u] = [r \in DOMAIN prefetched'[u] |-> prefetched'[u][r]]
    <3>1. CASE u \in Elements(ts)
      <4>1. prefetched'[u] = NoAmounts BY <1>2, <3>1
      <4> QED BY <4>1 DEF NoAmounts, TrueAmounts
    <3>2. CASE u \notin Elements(ts)
      <4>1. prefetched'[u] = prefetched[u] BY <1>2, <3>2
      <4> QED BY <4>1 DEF FlowInv, PrefetchedTrue
    <3> QED BY <3>1, <3>2
  <2> QED BY <2>1 DEF PrefetchedTrue, TrueAmounts, Amount
<1>10. RowsTrue'
  <2>1. ASSUME NEW t \in FlowTx, recorded'[t].at # 0 PROVE RowTrue(t, recorded'[t])
    <3>1. CASE t \in Elements(ts) BY <1>1, <3>1
    <3>2. CASE t \notin Elements(ts)
      <4>1. recorded'[t] = recorded[t] BY <1>2, <3>2
      <4> QED BY <2>1, <4>1 DEF FlowInv, RowsTrue, OnChain
    <3> QED BY <3>1, <3>2
  <2> QED BY <2>1 DEF RowsTrue, OnChain
<1> QED BY <1>6, <1>7, <1>8, <1>9, <1>10 DEF FlowInv

LEMMA FlowNextInv == FlowInv /\ [FlowNext]_flowVars => FlowInv'
<1> SUFFICES ASSUME FlowInv, [FlowNext]_flowVars PROVE FlowInv' OBVIOUS
<1>1. CASE RollForwardBlock
  <2>1. PICK n \in 1 .. MaxBlock :
          \E ts \in [1 .. n -> FlowTx] :
            /\ \A i, j \in 1 .. n : ts[i] = ts[j] => i = j
            /\ \E vs \in [1 .. n -> BOOLEAN], resolves \in BOOLEAN : Ingested(ts, vs, resolves)
    BY <1>1 DEF RollForwardBlock
  <2>2. PICK ts \in [1 .. n -> FlowTx], vs \in [1 .. n -> BOOLEAN], resolves \in BOOLEAN :
          (\A i, j \in 1 .. n : ts[i] = ts[j] => i = j) /\ Ingested(ts, vs, resolves)
    BY <2>1
  <2>3. n \in Nat BY InputFlowAssumption
  <2>4. Block1(ts) BY <2>2, <2>3, SeqDef DEF Block1
  <2> QED BY <2>2, <2>4, IngestedKeeps
<1>2. ASSUME NEW t \in FlowTx, MempoolResolves(t) PROVE FlowInv' BY <1>2, ResolvesKeeps
<1>3. CASE UNCHANGED flowVars
  BY <1>3 DEF flowVars, FlowInv, PrefetchedTrue, OwnOutputsStored, RowsTrue, OnChain
<1> QED BY <1>1, <1>2, <1>3 DEF FlowNext

LEMMA FlowInvSound == FlowInv => ValueFlowTrue
<1> SUFFICES ASSUME FlowInv PROVE ValueFlowTrue OBVIOUS
<1>1. ASSUME NEW t \in FlowTx, OnChain(t) PROVE RowTrue(t, recorded[t])
  BY <1>1 DEF FlowInv, RowsTrue
<1>2. FlowTypeOK
  <2>1. ASSUME NEW t \in FlowTx, OnChain(t) PROVE recorded[t].row.total \in Nat \cup {Unpriced}
    BY <1>1, <2>1 DEF RowTrue
  <2>2. \A r \in DOMAIN utxo : utxo[r] > 0 BY DEF FlowInv, TrueAmounts
  <2> QED BY <2>1, <2>2 DEF FlowTypeOK
<1>3. InputValueExact
  <2>1. ASSUME NEW t \in FlowTx, OnChain(t)
        PROVE  LET s == recorded[t] IN
               /\ s.row.total = IF RowTotal(t, s) > 0 THEN RowTotal(t, s) ELSE Unpriced
               /\ s.row.count = Cardinality(DOMAIN s.spent)
    BY <1>1, <2>1 DEF RowTrue
  <2> QED BY <2>1, Zenon DEF InputValueExact, RowTotal, Seen, Taken
<1>4. LiveOutputsKnown BY DEF FlowInv, TrueAmounts, OwnOutputsStored, LiveOutputsKnown
<1>5. PayersListed
  <2>1. ASSUME NEW t \in FlowTx, OnChain(t)
        PROVE  LET s == recorded[t] IN
               /\ DOMAIN s.spent \cap s.known \subseteq s.row.parties
               /\ s.row.parties \cap (Elements(Catalogue[t].refs)
                     \ (Elements(Catalogue[t].ins) \cup Elements(Catalogue[t].cols))) = {}
    BY <1>1, <2>1 DEF RowTrue
  <2> QED BY <2>1 DEF PayersListed
<1>6. PatchedValueTrue
  <2>1. ASSUME NEW t \in FlowTx, OnChain(t), NEW r \in DOMAIN recorded[t].spent
        PROVE  PatchedValue(r) \in {Unpriced, recorded[t].spent[r]}
    <3>1. recorded[t].spent[r] = Amount(r) /\ r[1] \in FlowTx \cup {0} /\ r[2] \in Nat
      BY <1>1, <2>1 DEF RowTrue, TrueAmounts
    <3>2. CASE r[1] # 0 /\ OnChain(r[1]) /\ r[2] + 1 \in DOMAIN Catalogue[r[1]].outs
      <4>1. r[2] < Len(Catalogue[r[1]].outs) BY <3>1, <3>2, FlowConstants
      <4>2. Amount(r) = Catalogue[r[1]].outs[r[2] + 1] BY <3>2, <4>1 DEF Amount
      <4> QED BY <3>1, <3>2, <4>2 DEF PatchedValue
    <3>3. CASE ~(r[1] # 0 /\ OnChain(r[1]) /\ r[2] + 1 \in DOMAIN Catalogue[r[1]].outs)
      BY <3>3 DEF PatchedValue
    <3> QED BY <3>2, <3>3
  <2> QED BY <2>1 DEF PatchedValueTrue
<1> QED BY <1>2, <1>3, <1>4, <1>5, <1>6 DEF ValueFlowTrue

\* What is stored of a transaction is what the ledger did with it, for blocks of any
\* length, transactions of any shape, and whatever was known when it arrived.
THEOREM ValueFlowIsTrue == FlowSpec => []ValueFlowTrue
<1>1. FlowSpec => []FlowInv BY FlowInitInv, FlowNextInv, PTL DEF FlowSpec
<1> QED BY <1>1, FlowInvSound, PTL

-----------------------------------------------------------------------------
(* The detection configuration                                             *)

\* The name that a misspelt key gets is one of the names.
KeyName == STRING \cup {"typo"}
Path == Seq(KeyName) \ {<<>>}

\* The document is a tree: with a key it holds the blocks above it.
DocumentTree ==
  /\ \A p \in DOMAIN document :
       p \in Path /\ Prefixes(p) \subseteq DOMAIN document /\ document[p] \in Int

\* What is loaded has been through _validate, and what runs through the import too.
LoadedValid ==
  /\ outcome \in {"loaded", "running"} => Valid
  /\ outcome = "running" => \A p \in ReadAtImport : document[p] # Null

ConfigInv == DocumentTree /\ LoadedValid

LEMMA PrefixOf ==
  ASSUME NEW p \in Path, NEW n \in 1 .. Len(p)
  PROVE  /\ SubSeq(p, 1, n) \in Path /\ Len(SubSeq(p, 1, n)) = n
         /\ \A i \in 1 .. n : SubSeq(p, 1, n)[i] = p[i]
         /\ SubSeq(p, 1, n) \in Prefixes(p)
         /\ Prefixes(SubSeq(p, 1, n)) \subseteq Prefixes(p)
<1>1. p \in Seq(KeyName) /\ Len(p) \in Nat BY LenProperties DEF Path
<1>2. SubSeq(p, 1, n) \in Seq(KeyName) /\ Len(SubSeq(p, 1, n)) = n
      /\ \A i \in 1 .. n : SubSeq(p, 1, n)[i] = p[i]
  BY <1>1, SubSeqProperties
<1>3. SubSeq(p, 1, n) # <<>> BY <1>2, n # 0
<1>4. SubSeq(p, 1, n) \in Prefixes(p) BY DEF Prefixes
<1>5. ASSUME NEW q \in Prefixes(SubSeq(p, 1, n)) PROVE q \in Prefixes(p)
  <2>1. PICK m \in 1 .. n : q = SubSeq(SubSeq(p, 1, n), 1, m) BY <1>2 DEF Prefixes
  <2>2. q \in Seq(KeyName) /\ Len(q) = m /\ \A i \in 1 .. m : q[i] = SubSeq(p, 1, n)[i]
    BY <1>2, <2>1, SubSeqProperties
  <2>3. m \in 1 .. Len(p) BY <1>1
  <2>4. SubSeq(p, 1, m) \in Seq(KeyName) /\ Len(SubSeq(p, 1, m)) = m
        /\ \A i \in 1 .. m : SubSeq(p, 1, m)[i] = p[i]
    BY <1>1, <2>3, SubSeqProperties
  <2>5. q = SubSeq(p, 1, m)
    BY <1>2, <2>2, <2>4, SeqEqual
  <2> QED BY <2>3, <2>5 DEF Prefixes
<1> QED BY <1>1, <1>2, <1>3, <1>4, <1>5 DEF Path

LEMMA PrefixFacts ==
  ASSUME NEW p \in Path, NEW q \in Prefixes(p)
  PROVE  /\ q \in Path /\ Len(q) \in 1 .. Len(p) /\ q = SubSeq(p, 1, Len(q))
         /\ \A i \in 1 .. Len(q) : q[i] = p[i]
         /\ Prefixes(q) \subseteq Prefixes(p)
         /\ p \in Prefixes(q) => p = q
         /\ Len(q) = Len(p) => p = q
         /\ p \in Prefixes(p)
<1>1. PICK n \in 1 .. Len(p) : q = SubSeq(p, 1, n) BY DEF Prefixes
<1>2. /\ q \in Path /\ Len(q) = n /\ \A i \in 1 .. n : q[i] = p[i]
      /\ Prefixes(q) \subseteq Prefixes(p)
  BY <1>1, PrefixOf
<1>3. p \in Seq(KeyName) /\ Len(p) \in Nat /\ p # <<>> /\ Len(p) # 0
  BY LenProperties, EmptySeq DEF Path
<1>4. Len(q) = Len(p) => p = q BY <1>2, <1>3, SeqEqual DEF Path
<1>5. ASSUME p \in Prefixes(q) PROVE p = q
  <2>1. PICK m \in 1 .. Len(q) : p = SubSeq(q, 1, m) BY <1>5 DEF Prefixes
  <2>2. Len(p) = m BY <1>2, <2>1, PrefixOf
  <2> QED BY <1>2, <1>3, <1>4, <2>2
<1>6. p \in Prefixes(p)
  <2>1. Len(p) \in 1 .. Len(p) BY <1>3
  <2>2. SubSeq(p, 1, Len(p)) \in Path /\ Len(SubSeq(p, 1, Len(p))) = Len(p)
        /\ \A i \in 1 .. Len(p) : SubSeq(p, 1, Len(p))[i] = p[i] /\ SubSeq(p, 1, Len(p)) \in Prefixes(p)
    BY <2>1, PrefixOf
  <2>3. SubSeq(p, 1, Len(p)) = p BY <1>3, <2>2, SeqEqual, SMTT(30) DEF Path
  <2> QED BY <2>1, <2>3 DEF Prefixes
<1> QED BY <1>1, <1>2, <1>4, <1>5, <1>6

\* A path agrees with the other on its whole length when it is one of its prefixes.
LEMMA IsPrefix ==
  ASSUME NEW p \in Path, NEW q \in Path, Len(q) <= Len(p), \A i \in 1 .. Len(q) : q[i] = p[i]
  PROVE  q \in Prefixes(p)
<1>1. /\ q \in Seq(KeyName) /\ Len(q) \in Nat /\ q # <<>> /\ Len(q) # 0
      /\ p \in Seq(KeyName) /\ Len(p) \in Nat
  BY LenProperties, EmptySeq DEF Path
<1>2. Len(q) \in 1 .. Len(p) BY <1>1
<1>3. SubSeq(p, 1, Len(q)) \in Path /\ Len(SubSeq(p, 1, Len(q))) = Len(q)
      /\ \A i \in 1 .. Len(q) : SubSeq(p, 1, Len(q))[i] = p[i]
  BY <1>2, PrefixOf
<1>4. q = SubSeq(p, 1, Len(q)) BY <1>1, <1>3, SeqEqual DEF Path
<1> QED BY <1>2, <1>4 DEF Prefixes

Tree(D) == \A p \in D : p \in Path /\ Prefixes(p) \subseteq D
Subtree(D, p) == {q \in D : p \in Prefixes(q)}

LEMMA TreeCut ==
  ASSUME NEW D, Tree(D), NEW p \in D
  PROVE  /\ Tree(D \ Subtree(D, p))
         /\ p \in Path /\ p \in Subtree(D, p)
         /\ \A r \in Prefixes(p) : r = p \/ r \in D \ Subtree(D, p)
<1>1. ASSUME NEW q \in D \ Subtree(D, p) PROVE q \in Path /\ Prefixes(q) \subseteq D \ Subtree(D, p)
  <2>1. q \in Path /\ Prefixes(q) \subseteq D BY DEF Tree
  <2>2. ASSUME NEW r \in Prefixes(q), p \in Prefixes(r) PROVE FALSE
    BY <1>1, <2>1, <2>2, PrefixFacts DEF Subtree
  <2> QED BY <2>1, <2>2 DEF Subtree
<1>2. p \in Path /\ Prefixes(p) \subseteq D BY DEF Tree
<1>3. p \in Prefixes(p)
  <2>1. Len(p) \in 1 .. Len(p) BY <1>2, LenProperties, EmptySeq DEF Path
  <2> QED BY <1>2, <2>1, IsPrefix
<1>4. ASSUME NEW r \in Prefixes(p), r # p PROVE r \in D \ Subtree(D, p)
  BY <1>2, <1>4, PrefixFacts DEF Subtree
<1> QED BY <1>1, <1>2, <1>3, <1>4 DEF Tree, Subtree

LEMMA TreeSet ==
  ASSUME NEW D, Tree(D), NEW p \in D
  PROVE  Tree((D \ Subtree(D, p)) \cup {p})
<1>1. /\ Tree(D \ Subtree(D, p)) /\ p \in Path
      /\ \A r \in Prefixes(p) : r = p \/ r \in D \ Subtree(D, p)
  BY TreeCut
<1> QED BY <1>1 DEF Tree

Misspelt(p) == [p EXCEPT ![Len(p)] = "typo"]
Rest(p, q) == SubSeq(q, Len(p) + 1, Len(q))

LEMMA MisspeltFacts ==
  ASSUME NEW p \in Path
  PROVE  /\ Misspelt(p) \in Path /\ Len(Misspelt(p)) = Len(p) /\ Len(p) \in Nat \ {0}
         /\ \A i \in 1 .. Len(p) : Misspelt(p)[i] = IF i = Len(p) THEN "typo" ELSE p[i]
<1>1. p \in Seq(KeyName) /\ Len(p) \in Nat /\ Len(p) # 0
  BY LenProperties, EmptySeq DEF Path
<1>2. /\ Misspelt(p) \in Seq(KeyName) /\ Len(Misspelt(p)) = Len(p)
      /\ \A i \in 1 .. Len(p) : Misspelt(p)[i] = IF i = Len(p) THEN "typo" ELSE p[i]
  <2>1. Len(p) \in 1 .. Len(p) BY <1>1
  <2>2. "typo" \in KeyName BY DEF KeyName
  <2>3. ASSUME NEW e \in KeyName, NEW n \in 1 .. Len(p)
        PROVE  /\ [p EXCEPT ![n] = e] \in Seq(KeyName)
               /\ Len([p EXCEPT ![n] = e]) = Len(p)
               /\ \A j \in 1 .. Len(p) : [p EXCEPT ![n] = e][j] = IF j = n THEN e ELSE p[j]
    BY ONLY <1>1, ExceptSeq
  <2> QED BY <2>1, <2>2, <2>3 DEF Misspelt
<1>3. Misspelt(p) # <<>> BY <1>1, <1>2, EmptySeq
<1> QED BY <1>1, <1>2, <1>3 DEF Path

\* A path whose first part is replaced by another of the same length.
LEMMA Regrafted ==
  ASSUME NEW p \in Path, NEW w \in Path, Len(w) = Len(p), NEW q \in Path, p \in Prefixes(q)
  PROVE  LET r == w \o Rest(p, q) IN
         /\ r \in Path /\ Len(r) = Len(q) /\ Len(p) <= Len(q) /\ Len(p) \in Nat /\ Len(q) \in Nat
         /\ \A i \in 1 .. Len(q) : r[i] = IF i <= Len(p) THEN w[i] ELSE q[i]
<1>1. /\ p \in Seq(KeyName) /\ Len(p) \in Nat \ {0} /\ w \in Seq(KeyName) /\ q \in Seq(KeyName)
      /\ Len(q) \in Nat
  BY LenProperties, EmptySeq DEF Path
<1>2. Len(p) \in 1 .. Len(q) BY PrefixFacts
<1>3. \A i \in (Len(p) + 1) .. Len(q) : q[i] \in KeyName BY <1>1, ElementOfSeq
<1>4. Rest(p, q) \in Seq(KeyName) /\ Len(Rest(p, q)) = Len(q) - Len(p)
      /\ \A i \in 1 .. Len(q) - Len(p) : Rest(p, q)[i] = q[Len(p) + i]
  BY <1>1, <1>2, <1>3, SubSeqProperties DEF Rest
<1> DEFINE u == Rest(p, q)
           a == Len(p)
           b == Len(q)
<1>5. a \in Nat \ {0} /\ b \in Nat /\ a <= b BY <1>1, <1>2
<1>6. u \in Seq(KeyName) /\ Len(u) = b - a /\ \A i \in 1 .. b - a : u[i] = q[a + i] BY <1>4
<1> HIDE DEF u, a, b
<1>7. Len(w) = a BY DEF a
<1>8. /\ w \o u \in Seq(KeyName) /\ Len(w \o u) = a + (b - a)
      /\ \A i \in 1 .. a + (b - a) : (w \o u)[i] = IF i <= a THEN w[i] ELSE u[i - a]
  BY <1>1, <1>6, <1>7, ConcatProperties
<1>9. Len(w \o u) = b BY <1>5, <1>8
<1>10. ASSUME NEW i \in 1 .. b PROVE (w \o u)[i] = IF i <= a THEN w[i] ELSE q[i]
  <2>1. i \in 1 .. a + (b - a) BY <1>5
  <2>2. CASE i <= a BY <1>8, <2>1, <2>2
  <2>3. CASE ~(i <= a)
    <3>1. i - a \in 1 .. b - a /\ a + (i - a) = i BY <1>5, <2>3
    <3> QED BY <1>6, <1>8, <2>1, <2>3, <3>1
  <2> QED BY <2>2, <2>3
<1>11. w \o u # <<>> BY <1>5, <1>9, EmptySeq
<1> QED BY <1>5, <1>8, <1>9, <1>10, <1>11 DEF Path, u, a, b

\* A block that is moved under another name keeps its keys under it.
LEMMA TreeMoved ==
  ASSUME NEW D, Tree(D), NEW p \in D
  PROVE  LET moved == {Misspelt(p) \o Rest(p, q) : q \in Subtree(D, p)} IN
         Tree((D \ Subtree(D, p)) \cup moved)
<1> DEFINE w == Misspelt(p)
           cut == D \ Subtree(D, p)
           moved == {w \o Rest(p, q) : q \in Subtree(D, p)}
<1>1. /\ Tree(cut) /\ p \in Path
      /\ \A r \in Prefixes(p) : r = p \/ r \in cut
  BY TreeCut
<1>2. /\ w \in Path /\ Len(w) = Len(p) /\ Len(p) \in Nat \ {0}
      /\ \A i \in 1 .. Len(p) : w[i] = IF i = Len(p) THEN "typo" ELSE p[i]
  BY <1>1, MisspeltFacts
<1>3. ASSUME NEW q \in Subtree(D, p)
      PROVE  /\ w \o Rest(p, q) \in Path
             /\ Prefixes(w \o Rest(p, q)) \subseteq cut \cup moved
  <2> DEFINE m == w \o Rest(p, q)
  <2>1. q \in Path /\ q \in D /\ p \in Prefixes(q) /\ Prefixes(q) \subseteq D BY DEF Subtree, Tree
  <2>2. /\ m \in Path /\ Len(m) = Len(q) /\ Len(p) <= Len(q) /\ Len(q) \in Nat
        /\ \A i \in 1 .. Len(q) : m[i] = IF i <= Len(p) THEN w[i] ELSE q[i]
    BY <1>1, <1>2, <2>1, Regrafted
  <2> HIDE DEF m
  <2>3. ASSUME NEW r \in Prefixes(m) PROVE r \in cut \cup moved
    <3>1. r \in Path /\ Len(r) \in 1 .. Len(m) /\ \A i \in 1 .. Len(r) : r[i] = m[i]
      BY <2>2, PrefixFacts
    <3>2. CASE Len(r) < Len(p)
      <4>1. \A i \in 1 .. Len(r) : r[i] = p[i] BY <1>2, <2>2, <3>1, <3>2
      <4>2. r \in Prefixes(p) BY <1>1, <1>2, <3>1, <3>2, <4>1, IsPrefix
      <4> QED BY <1>1, <3>2, <4>2
    <3>3. CASE Len(r) >= Len(p)
      <4> DEFINE o == SubSeq(q, 1, Len(r))
      <4>1. /\ o \in Path /\ Len(o) = Len(r) /\ o \in Prefixes(q)
            /\ \A i \in 1 .. Len(r) : o[i] = q[i]
        BY <2>1, <2>2, <3>1, PrefixOf
      <4> HIDE DEF o
      <4>2. \A i \in 1 .. Len(p) : p[i] = q[i] BY <2>1, PrefixFacts
      <4>3. p \in Prefixes(o) BY <1>1, <1>2, <3>1, <3>3, <4>1, <4>2, IsPrefix
      <4>4. o \in Subtree(D, p) BY <2>1, <4>1, <4>3 DEF Subtree
      <4>5. /\ w \o Rest(p, o) \in Path /\ Len(w \o Rest(p, o)) = Len(o)
            /\ \A i \in 1 .. Len(o) : (w \o Rest(p, o))[i] = IF i <= Len(p) THEN w[i] ELSE o[i]
        BY <1>1, <1>2, <4>1, <4>3, Regrafted
      <4>6. \A i \in 1 .. Len(r) : (w \o Rest(p, o))[i] = r[i]
        BY <2>2, <3>1, <4>1, <4>5
      <4>7. r = w \o Rest(p, o) BY <3>1, <4>1, <4>5, <4>6, SeqEqual DEF Path
      <4> QED BY <4>4, <4>7
    <3> QED BY <1>2, <3>1, <3>2, <3>3, <2>2
  <2> QED BY <2>2, <2>3 DEF m
<1> HIDE DEF w
<1>4. ASSUME NEW r \in cut PROVE r \in Path /\ Prefixes(r) \subseteq cut \cup moved
  BY <1>1 DEF Tree
<1>5. \A r \in moved : r \in Path /\ Prefixes(r) \subseteq cut \cup moved BY <1>3
<1> QED BY <1>4, <1>5 DEF Tree, w

-----------------------------------------------------------------------------
LEMMA ConfigInitInv == ConfigInit(TRUE) => ConfigInv
<1> SUFFICES ASSUME ConfigInit(TRUE) PROVE ConfigInv OBVIOUS
<1>1. document = Shipped /\ outcome = "unread" BY DEF ConfigInit
<1>2. ASSUME NEW p \in DOMAIN Shipped
      PROVE  p \in Path /\ Prefixes(p) \subseteq DOMAIN Shipped /\ Shipped[p] \in Int
  <2>1. /\ p \in Seq(STRING) /\ p # <<>> /\ Prefixes(p) \subseteq DOMAIN Shipped
        /\ Shipped[p] \in Int
    BY DetectionConfigAssumption
  <2> QED BY <2>1 DEF Path, KeyName
<1> QED BY <1>1, <1>2 DEF ConfigInv, DocumentTree, LoadedValid

LEMMA RemoveKeepsTree ==
  ASSUME DocumentTree, NEW p \in DOMAIN document, RemoveKey(p)
  PROVE  DocumentTree'
<1>1. Tree(DOMAIN document) BY DEF DocumentTree, Tree
<1>2. Tree(DOMAIN document \ Subtree(DOMAIN document, p)) BY <1>1, TreeCut
<1>3. DOMAIN document' = DOMAIN document \ Subtree(DOMAIN document, p)
      /\ \A q \in DOMAIN document' : document'[q] = document[q]
  BY DEF RemoveKey, Below, Subtree
<1> QED BY <1>2, <1>3 DEF DocumentTree, Tree

LEMMA SetKeepsTree ==
  ASSUME DocumentTree, NEW p \in DOMAIN document, NEW v \in EditValues \cup {Null}, SetKey(p, v)
  PROVE  DocumentTree'
<1>1. Tree(DOMAIN document) BY DEF DocumentTree, Tree
<1>2. Tree((DOMAIN document \ Subtree(DOMAIN document, p)) \cup {p}) BY <1>1, TreeSet
<1>3. /\ DOMAIN document' = (DOMAIN document \ Subtree(DOMAIN document, p)) \cup {p}
      /\ \A q \in DOMAIN document' : document'[q] = IF q = p THEN v ELSE document[q]
  BY DEF SetKey, Below, Subtree
<1>4. v \in Int
  <2>1. EditValues \subseteq Nat BY DetectionConfigAssumption
  <2> QED BY <2>1 DEF Null
<1>5. \A q \in DOMAIN document' : document'[q] \in Int BY <1>3, <1>4 DEF DocumentTree
<1> QED BY <1>2, <1>3, <1>5 DEF DocumentTree, Tree

LEMMA RenameKeepsTree ==
  ASSUME DocumentTree, NEW p \in DOMAIN document, RenameKey(p)
  PROVE  DocumentTree'
<1> DEFINE D == DOMAIN document
           w == Misspelt(p)
           moved == {w \o Rest(p, q) : q \in Subtree(D, p)}
           Old(q) == IF w \in Prefixes(q) THEN p \o SubSeq(q, Len(p) + 1, Len(q)) ELSE q
           E == (D \ Subtree(D, p)) \cup moved
<1>1. Tree(D) BY DEF DocumentTree, Tree
<1>2. Tree(E) BY <1>1, TreeMoved
<1>3. w \notin D /\ document' = [q \in E |-> document[Old(q)]]
  BY DEF RenameKey, Below, Subtree, Misspelt, Rest
<1>4. p \in Path /\ w \in Path /\ Len(w) = Len(p) BY <1>1, MisspeltFacts DEF Tree
<1> HIDE DEF w
<1>5. ASSUME NEW q \in E PROVE Old(q) \in D
  <2>1. CASE q \in D \ Subtree(D, p)
    <3>1. w \notin Prefixes(q) BY <1>1, <1>3, <2>1 DEF Tree
    <3> QED BY <2>1, <3>1
  <2>2. CASE q \in moved
    <3>1. PICK o \in Subtree(D, p) : q = w \o Rest(p, o) BY <2>2
    <3>2. o \in D /\ o \in Path /\ p \in Prefixes(o) BY <1>1 DEF Subtree, Tree
    <3>3. /\ q \in Path /\ Len(q) = Len(o) /\ Len(p) <= Len(o) /\ Len(p) \in Nat /\ Len(o) \in Nat
          /\ \A i \in 1 .. Len(o) : q[i] = IF i <= Len(p) THEN w[i] ELSE o[i]
      BY <1>4, <3>1, <3>2, Regrafted
    <3>4. w \in Prefixes(q) BY <1>4, <3>3, IsPrefix
    <3>5. /\ p \o Rest(w, q) \in Path /\ Len(p \o Rest(w, q)) = Len(q)
          /\ \A i \in 1 .. Len(q) : (p \o Rest(w, q))[i] = IF i <= Len(w) THEN p[i] ELSE q[i]
      BY <1>4, <3>3, <3>4, Regrafted
    <3>6. \A i \in 1 .. Len(p) : p[i] = o[i] BY <3>2, PrefixFacts
    <3>7. ASSUME NEW i \in 1 .. Len(o) PROVE (p \o Rest(w, q))[i] = o[i]
      <4> DEFINE z == p \o Rest(w, q)
      <4>1. /\ z[i] = IF i <= Len(p) THEN p[i] ELSE q[i]
            /\ q[i] = IF i <= Len(p) THEN w[i] ELSE o[i]
        BY <1>4, <3>3, <3>5
      <4>2. i <= Len(p) => p[i] = o[i] BY <3>3, <3>6
      <4> HIDE DEF z
      <4>3. z[i] = o[i] BY <4>1, <4>2
      <4> QED BY <4>3 DEF z
    <3>8. p \o Rest(w, q) = o BY <3>2, <3>3, <3>5, <3>7, SeqEqual DEF Path
    <3>9. Old(q) = p \o Rest(w, q) BY <1>4, <3>4 DEF Rest
    <3> QED BY <3>2, <3>8, <3>9
  <2> QED BY <2>1, <2>2
<1> HIDE DEF E, Old
<1>6. DOMAIN document' = E /\ \A q \in E : document'[q] = document[Old(q)] BY <1>3
<1>7. \A q \in E : document'[q] \in Int BY <1>5, <1>6 DEF DocumentTree
<1> QED BY <1>2, <1>6, <1>7 DEF DocumentTree, Tree

LEMMA ConfigNextInv == ConfigInv /\ [ConfigNext]_configVars => ConfigInv'
<1> SUFFICES ASSUME ConfigInv, [ConfigNext]_configVars PROVE ConfigInv' OBVIOUS
<1>1. CASE EditConfig
  <2>1. outcome' = outcome /\ outcome = "unread" BY <1>1 DEF EditConfig
  <2>2. DocumentTree'
    BY <1>1, RemoveKeepsTree, SetKeepsTree, RenameKeepsTree DEF ConfigInv, EditConfig
  <2> QED BY <2>1, <2>2 DEF ConfigInv, LoadedValid
<1>2. ASSUME document' = document
      PROVE  DocumentTree' /\ (Valid' <=> Valid)
  <2>1. DocumentTree' BY <1>2 DEF ConfigInv, DocumentTree
  <2>2. Valid' <=> Valid
    BY <1>2 DEF Valid, IsMap, MissingDotted, MissingScorerNames, UnknownPaths, BandInvariants,
                RangeInvariants, Within, AtLeast, HasValue
  <2> QED BY <2>1, <2>2
<1>3. CASE LoadConfig
  <2>1. document' = document /\ outcome' # "running" /\ (outcome' = "loaded" => Valid)
    BY <1>3 DEF LoadConfig
  <2> QED BY <1>2, <2>1 DEF ConfigInv, LoadedValid
<1>4. CASE ImportScorers
  <2>1. /\ document' = document /\ outcome = "loaded" /\ outcome' \in {"running", "refused"}
        /\ outcome' = "running" => \A p \in ReadAtImport : document[p] # Null
    BY <1>4 DEF ImportScorers
  <2> QED BY <1>2, <2>1 DEF ConfigInv, LoadedValid, ReadAtImport
<1>5. CASE UNCHANGED configVars
  <2>1. document' = document /\ outcome' = outcome BY <1>5 DEF configVars
  <2> QED BY <1>2, <2>1 DEF ConfigInv, LoadedValid, ReadAtImport
<1> QED BY <1>1, <1>3, <1>4, <1>5 DEF ConfigNext

-----------------------------------------------------------------------------
\* An unknown key lies under a first unknown key, which the walk reports.
LEMMA MisspeltKeysRefused == ConfigInv => MisspeltKeyRefused
<1> SUFFICES ASSUME ConfigInv, outcome \in {"loaded", "running"},
                    NEW p \in DOMAIN document, ~Operational(p), p \notin DOMAIN Shipped
             PROVE  FALSE
  BY DEF MisspeltKeyRefused
<1>1. UnknownPaths = {} BY DEF ConfigInv, LoadedValid, Valid
<1>2. p \in Path /\ Prefixes(p) \subseteq DOMAIN document BY DEF ConfigInv, DocumentTree
<1>3. p \notin AllowedPaths BY DetectionConfigAssumption
<1> DEFINE bad == {n \in 1 .. Len(p) : SubSeq(p, 1, n) \notin AllowedPaths}
<1>4. p \in Prefixes(p) /\ Len(p) \in Nat
  <2>1. Len(p) \in 1 .. Len(p) BY <1>2, LenProperties, EmptySeq DEF Path
  <2> QED BY <1>2, <2>1, IsPrefix
<1>5. bad # {} /\ bad \in SUBSET Nat
  <2>1. PICK n \in 1 .. Len(p) : p = SubSeq(p, 1, n) BY <1>4 DEF Prefixes
  <2>2. n \in bad BY <1>3, <2>1
  <2> QED BY <2>2, <1>4
<1>6. PICK n \in bad : \A m \in bad : n <= m BY <1>5, LeastNat
<1>7. n \in 1 .. Len(p) /\ SubSeq(p, 1, n) \notin AllowedPaths
      /\ \A m \in 1 .. n - 1 : SubSeq(p, 1, m) \in AllowedPaths
  BY <1>4, <1>6
<1> HIDE DEF bad
<1> DEFINE q == SubSeq(p, 1, n)
<1>8. q \in Path /\ Len(q) = n /\ q \in Prefixes(p) BY <1>2, <1>7, PrefixOf
<1> HIDE DEF q
<1>9. ASSUME NEW r \in Prefixes(q) \ {q} PROVE r \in AllowedPaths /\ r \notin FreeformSubtrees
  <2>1. r \in Prefixes(p) /\ Len(r) \in 1 .. n /\ Len(r) # n
    BY <1>2, <1>8, <1>9, PrefixFacts
  <2>2. r = SubSeq(p, 1, Len(r)) BY <1>2, <2>1, PrefixFacts
  <2>3. Len(r) \in 1 .. n - 1 BY <2>1, <1>7, <1>4
  <2>4. r \in AllowedPaths BY <1>7, <2>2, <2>3
  <2>5. r # p
    <3>1. Len(p) >= n BY <1>4, <1>7
    <3> QED BY <2>3, <3>1, <1>7, <1>4
  <2> QED BY <2>1, <2>4, <2>5 DEF Operational
<1>10. q \in UnknownPaths BY <1>2, <1>7, <1>8, <1>9 DEF UnknownPaths, q
<1> QED BY <1>1, <1>10

\* Short paths, spelt out.
LEMMA Joined11 == ASSUME NEW a, NEW b PROVE <<a>> \o <<b>> = <<a, b>>
<1> DEFINE S == {a, b}
<1>1. /\ <<a>> \in Seq(S) /\ <<b>> \in Seq(S) /\ <<a, b>> \in Seq(S)
      /\ Len(<<a>>) = 1 /\ Len(<<b>>) = 1 /\ Len(<<a, b>>) = 2
  OBVIOUS
<1>2. <<a>> \o <<b>> \in Seq(S) /\ Len(<<a>> \o <<b>>) = 2 BY <1>1, ConcatProperties
<1>3. \A i \in 1 .. 2 : (<<a>> \o <<b>>)[i] = <<a, b>>[i] BY <1>1, ConcatProperties
<1> QED BY <1>1, <1>2, <1>3, SeqEqual

LEMMA Joined12 == ASSUME NEW a, NEW b, NEW c PROVE <<a>> \o <<b, c>> = <<a, b, c>>
<1> DEFINE S == {a, b, c}
<1>1. /\ <<a>> \in Seq(S) /\ <<b, c>> \in Seq(S) /\ <<a, b, c>> \in Seq(S)
      /\ Len(<<a>>) = 1 /\ Len(<<b, c>>) = 2 /\ Len(<<a, b, c>>) = 3
  OBVIOUS
<1>2. <<a>> \o <<b, c>> \in Seq(S) /\ Len(<<a>> \o <<b, c>>) = 3 BY <1>1, ConcatProperties
<1>3. \A i \in 1 .. 3 : (<<a>> \o <<b, c>>)[i] = <<a, b, c>>[i] BY <1>1, ConcatProperties
<1> QED BY <1>1, <1>2, <1>3, SeqEqual

LEMMA Joined21 == ASSUME NEW a, NEW b, NEW c PROVE <<a, b>> \o <<c>> = <<a, b, c>>
<1> DEFINE S == {a, b, c}
<1>1. /\ <<a, b>> \in Seq(S) /\ <<c>> \in Seq(S) /\ <<a, b, c>> \in Seq(S)
      /\ Len(<<a, b>>) = 2 /\ Len(<<c>>) = 1 /\ Len(<<a, b, c>>) = 3
  OBVIOUS
<1>2. <<a, b>> \o <<c>> \in Seq(S) /\ Len(<<a, b>> \o <<c>>) = 3 BY <1>1, ConcatProperties
<1>3. \A i \in 1 .. 3 : (<<a, b>> \o <<c>>)[i] = <<a, b, c>>[i] BY <1>1, ConcatProperties
<1> QED BY <1>1, <1>2, <1>3, SeqEqual

LEMMA Joined31 == ASSUME NEW a, NEW b, NEW c, NEW d PROVE <<a, b, c>> \o <<d>> = <<a, b, c, d>>
<1> DEFINE S == {a, b, c, d}
<1>1. /\ <<a, b, c>> \in Seq(S) /\ <<d>> \in Seq(S) /\ <<a, b, c, d>> \in Seq(S)
      /\ Len(<<a, b, c>>) = 3 /\ Len(<<d>>) = 1 /\ Len(<<a, b, c, d>>) = 4
  OBVIOUS
<1>2. <<a, b, c>> \o <<d>> \in Seq(S) /\ Len(<<a, b, c>> \o <<d>>) = 4 BY <1>1, ConcatProperties
<1>3. \A i \in 1 .. 4 : (<<a, b, c>> \o <<d>>)[i] = <<a, b, c, d>>[i] BY <1>1, ConcatProperties
<1> QED BY <1>1, <1>2, <1>3, SeqEqual

LEMMA Joined32 == ASSUME NEW a, NEW b, NEW c, NEW d, NEW e PROVE <<a, b, c>> \o <<d, e>> = <<a, b, c, d, e>>
<1> DEFINE S == {a, b, c, d, e}
<1>1. /\ <<a, b, c>> \in Seq(S) /\ <<d, e>> \in Seq(S) /\ <<a, b, c, d, e>> \in Seq(S)
      /\ Len(<<a, b, c>>) = 3 /\ Len(<<d, e>>) = 2 /\ Len(<<a, b, c, d, e>>) = 5
  OBVIOUS
<1>2. <<a, b, c>> \o <<d, e>> \in Seq(S) /\ Len(<<a, b, c>> \o <<d, e>>) = 5 BY <1>1, ConcatProperties
<1>3. \A i \in 1 .. 5 : (<<a, b, c>> \o <<d, e>>)[i] = <<a, b, c, d, e>>[i] BY <1>1, ConcatProperties
<1> QED BY <1>1, <1>2, <1>3, SeqEqual

LEMMA Prefixes4 == ASSUME NEW a, NEW b, NEW c, NEW d PROVE Prefixes(<<a, b, c, d>>) = {<<a>>, <<a, b>>, <<a, b, c>>, <<a, b, c, d>>}
  BY DEF Prefixes

LEMMA Prefixes5 == ASSUME NEW a, NEW b, NEW c, NEW d, NEW e PROVE Prefixes(<<a, b, c, d, e>>) = {<<a>>, <<a, b>>, <<a, b, c>>, <<a, b, c, d>>, <<a, b, c, d, e>>}
  BY DEF Prefixes

LEMMA KnownPath ==
  ASSUME NEW p \in AllowedPaths
  PROVE  \/ p \in {<<b>> : b \in TopBlocks}
         \/ \E k \in RequiredContractAnomaly : p \in Prefixes(<<"contract_anomaly">> \o k)
         \/ \E s \in ScorerNames :
              \/ \E k \in RequiredKeys[s] \cup KnownOptionalKeys[s] : p \in Prefixes(Section(s) \o k)
              \/ \E k \in WeightKeys(s) : p \in Prefixes((Section(s) \o <<"weights">>) \o k)
              \/ \E k \in AnchorKeys(s) : p \in Prefixes((Section(s) \o <<"fixed_anchors">>) \o k)
<1>1. \A at, keys : p \in KnownBelow(at, keys) => \E k \in keys : p \in Prefixes(at \o k)
  BY DEF KnownBelow
<1>2. CASE p \in {<<b>> : b \in TopBlocks} BY <1>2, Zenon
<1>3. CASE p \in KnownBelow(<<"contract_anomaly">>, RequiredContractAnomaly) BY <1>1, <1>3, Zenon
<1>4. ASSUME NEW s \in ScorerNames, p \in SectionPaths(s)
      PROVE  \/ \E k \in RequiredKeys[s] \cup KnownOptionalKeys[s] : p \in Prefixes(Section(s) \o k)
             \/ \E k \in WeightKeys(s) : p \in Prefixes((Section(s) \o <<"weights">>) \o k)
             \/ \E k \in AnchorKeys(s) : p \in Prefixes((Section(s) \o <<"fixed_anchors">>) \o k)
  BY <1>1, <1>4, Zenon DEF SectionPaths
<1>5. \/ p \in {<<b>> : b \in TopBlocks}
      \/ p \in KnownBelow(<<"contract_anomaly">>, RequiredContractAnomaly)
      \/ \E s \in ScorerNames : p \in SectionPaths(s)
  BY DEF AllowedPaths
<1> QED BY <1>2, <1>3, <1>4, <1>5, Zenon

\* A required key that is there has its blocks above it; a weight or an anchor is
\* asked for where its block is a mapping.
LEMMA LookupsAnswered == ConfigInv => ScorerLookupsAnswered
<1> SUFFICES ASSUME ConfigInv, outcome \in {"loaded", "running"},
                    NEW p \in DOMAIN Shipped, p \notin DOMAIN document, ~Operational(p),
                    ~ \E s \in ScorerNames : \E k \in KnownOptionalKeys[s] :
                         p \in Prefixes(Section(s) \o k),
                    ~ \E q \in Prefixes(p) \ {p} : q \in DOMAIN document /\ document[q] # Block
             PROVE  FALSE
  BY DEF ScorerLookupsAnswered
<1>0. Valid BY DEF ConfigInv, LoadedValid
<1>1. p \in AllowedPaths BY DetectionConfigAssumption
<1>2. \A q \in DOMAIN document : p \notin Prefixes(q) BY DEF ConfigInv, DocumentTree
<1>3. CASE p \in {<<b>> : b \in TopBlocks}
  BY <1>0, <1>3 DEF TopBlocks, Valid, IsMap
<1>4. CASE \E k \in RequiredContractAnomaly : p \in Prefixes(<<"contract_anomaly">> \o k)
  BY <1>0, <1>2, <1>4 DEF Valid, MissingDotted
<1>5. ASSUME NEW s \in ScorerNames, NEW k \in RequiredKeys[s], p \in Prefixes(Section(s) \o k)
      PROVE FALSE
  BY <1>0, <1>2, <1>5 DEF Valid, MissingDotted
<1>6. IsMap(<<"scorers">>) /\ \A s \in ScorerNames : IsMap(Section(s)) BY <1>0 DEF Valid
<1>7. ASSUME NEW s \in ScorerNames, NEW k \in WeightKeys(s),
             p \in Prefixes((Section(s) \o <<"weights">>) \o k)
      PROVE FALSE
  <2>0. PICK a : k = <<a>> BY DEF WeightKeys
  <2> DEFINE w == <<"scorers", s, "weights">>
             all == <<"scorers", s, "weights", a>>
  <2>1. Section(s) \o <<"weights">> = w /\ w \o k = all
    BY <2>0, Joined21, Joined31 DEF Section
  <2>2. p \in {<<"scorers">>, Section(s), w, all} /\ w \in Prefixes(all) /\ w # all
    <3>1. Prefixes(all) = {<<"scorers">>, <<"scorers", s>>, w, all} BY Prefixes4
    <3>2. Len(w) # Len(all) OBVIOUS
    <3> QED BY <1>7, <2>1, <3>1, <3>2 DEF Section
  <2>3. <<"weights">> \in RequiredKeys[s] BY DEF RequiredKeys, ScorerNames
  <2> HIDE DEF w, all
  <2>4. w \in DOMAIN document BY <1>0, <2>1, <2>3 DEF Valid, MissingDotted
  <2>5. p = all BY <1>6, <2>2, <2>4 DEF IsMap
  <2>6. CASE IsMap(w)
    <3>1. MissingScorerNames(s) = {} BY <1>0 DEF Valid
    <3>2. MissingDotted(w, WeightKeys(s)) = {} BY <2>1, <2>6, <3>1 DEF MissingScorerNames
    <3> QED BY <2>1, <2>5, <3>2 DEF MissingDotted
  <2>7. CASE ~IsMap(w) BY <2>2, <2>4, <2>5, <2>7 DEF IsMap
  <2> QED BY <2>6, <2>7
<1>8. ASSUME NEW s \in ScorerNames, NEW k \in AnchorKeys(s),
             p \in Prefixes((Section(s) \o <<"fixed_anchors">>) \o k)
      PROVE FALSE
  <2>0. PICK a \in FixedAnchorNames[s], leaf \in {"p50", "p99"} : k = <<a, leaf>> BY DEF AnchorKeys
  <2> DEFINE f == <<"scorers", s, "fixed_anchors">>
             mid == <<"scorers", s, "fixed_anchors", a>>
             all == <<"scorers", s, "fixed_anchors", a, leaf>>
  <2>1. Section(s) \o <<"fixed_anchors">> = f /\ f \o k = all
    BY <2>0, Joined21, Joined32 DEF Section
  <2>2. /\ p \in {<<"scorers">>, Section(s), f, mid, all} /\ f # mid /\ f # all
        /\ f \in Prefixes(mid) /\ f \in Prefixes(all) /\ mid \in Prefixes(all)
    <3>1. /\ Prefixes(all) = {<<"scorers">>, <<"scorers", s>>, f, mid, all}
          /\ Prefixes(mid) = {<<"scorers">>, <<"scorers", s>>, f, mid}
      BY Prefixes4, Prefixes5
    <3>2. Len(f) # Len(all) /\ Len(f) # Len(mid) OBVIOUS
    <3> QED BY <1>8, <2>1, <3>1, <3>2 DEF Section
  <2>3. <<"fixed_anchors">> \in RequiredKeys[s]
    BY <2>0 DEF RequiredKeys, ScorerNames, FixedAnchorNames
  <2> HIDE DEF f, mid, all
  <2>4. f \in DOMAIN document BY <1>0, <2>1, <2>3 DEF Valid, MissingDotted
  <2>5. p \in {mid, all} BY <1>6, <2>2, <2>4 DEF IsMap
  <2>6. CASE IsMap(f)
    <3>1. MissingScorerNames(s) = {} BY <1>0 DEF Valid
    <3>2. MissingDotted(f, AnchorKeys(s)) = {} BY <2>1, <2>6, <3>1 DEF MissingScorerNames
    <3>3. all \in DOMAIN document BY <2>1, <3>2 DEF MissingDotted
    <3> QED BY <1>2, <2>2, <2>5, <3>3
  <2>7. CASE ~IsMap(f) BY <2>2, <2>4, <2>5, <2>7 DEF IsMap
  <2> QED BY <2>6, <2>7
<1> QED BY <1>1, <1>3, <1>4, <1>5, <1>7, <1>8, KnownPath

LEMMA ScaleArith ==
  ASSUME NEW n \in Int, n < 60, NEW c \in 0 .. 100
  PROVE  c * n < 60 * 100
<1>1. c * n <= c * 59 OBVIOUS
<1> QED BY <1>1

LEMMA BandsHold == ConfigInv => BandContractsHold
<1> DEFINE limit == Section("front_running") \o <<"high_band_cap">>
           weak == Section("circular") \o <<"moderate_cap">>
           lazy == Section("multiple_sat") \o <<"lazy_validator_floor">>
           floor == <<"contract_anomaly", "verdict_floors", "malicious">>
           scale == <<"contract_anomaly", "anomaly_consensus_scale">>
<1> SUFFICES ASSUME ConfigInv, outcome = "running"
             PROVE  /\ 60 <= document[limit] /\ document[limit] < 80
                    /\ 30 < document[weak] /\ document[weak] < 60
                    /\ document[lazy] >= 60
                    /\ document[scale] # Null =>
                         \A consensus \in 0 .. 100 : consensus * document[scale] < 60 * 100
                    /\ document[floor] # Null => document[floor] >= 80
  BY DEF BandContractsHold
<1>1. Valid BY DEF ConfigInv, LoadedValid
<1>2. floor = <<"contract_anomaly">> \o <<"verdict_floors", "malicious">>
      /\ scale = <<"contract_anomaly">> \o <<"anomaly_consensus_scale">>
  BY Joined11, Joined12
<1>3. /\ <<"high_band_cap">> \in RequiredKeys["front_running"] /\ "front_running" \in ScorerNames
      /\ <<"moderate_cap">> \in RequiredKeys["circular"] /\ "circular" \in ScorerNames
      /\ <<"lazy_validator_floor">> \in RequiredKeys["multiple_sat"] /\ "multiple_sat" \in ScorerNames
  BY DEF RequiredKeys, ScorerNames
<1>4. limit \in DOMAIN document /\ weak \in DOMAIN document /\ lazy \in DOMAIN document
  BY <1>1, <1>3 DEF Valid, MissingDotted
<1>5. floor \in DOMAIN document /\ scale \in DOMAIN document
  BY <1>1, <1>2 DEF Valid, MissingDotted, RequiredContractAnomaly
<1>6. /\ Within(limit, 60, 80) /\ Within(weak, 31, 60) /\ AtLeast(lazy, 60) /\ AtLeast(floor, 80)
      /\ Within(scale, 31, 60)
  BY <1>1 DEF Valid, BandInvariants
<1>7. document[limit] # Null /\ document[weak] # Null /\ document[lazy] # Null
  BY DEF ConfigInv, LoadedValid, ReadAtImport
<1> HIDE DEF limit, weak, lazy, floor, scale
<1>8. /\ document[limit] \in Int /\ document[weak] \in Int /\ document[lazy] \in Int
      /\ document[floor] \in Int /\ document[scale] \in Int
  BY <1>4, <1>5 DEF ConfigInv, DocumentTree
<1>9. /\ 60 <= document[limit] /\ document[limit] < 80 /\ 31 <= document[weak] /\ document[weak] < 60
      /\ 60 <= document[lazy]
      /\ document[floor] # Null => 80 <= document[floor]
      /\ document[scale] # Null => document[scale] < 60
  BY <1>4, <1>5, <1>6, <1>7 DEF Within, AtLeast, HasValue
<1> QED BY <1>8, <1>9, ScaleArith

\* scorer_config._validate and the scorers' import, for any shipped document and any
\* edits of it, keys left without a value included: what is loaded holds no key that
\* the code does not know and answers every lookup of a scorer, and what runs keeps
\* the relations between the bands, except where contract_anomaly has no value to read.
THEOREM LoadedConfigIsSound == ConfigSpec => []LoadedConfigSound
<1>1. ConfigInit(TRUE) => ConfigInv BY ConfigInitInv
<1>2. ConfigInv /\ [ConfigNext]_configVars => ConfigInv' BY ConfigNextInv
<1>3. ConfigInv => LoadedConfigSound
  BY MisspeltKeysRefused, LookupsAnswered, BandsHold DEF LoadedConfigSound
<1> QED BY <1>1, <1>2, <1>3, PTL DEF ConfigSpec
=============================================================================
