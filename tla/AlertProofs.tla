---------------------------- MODULE AlertProofs ----------------------------
(***************************************************************************)
(* Proofs about what an operator is told.  Notifications, for any          *)
(* transactions, groups, deliverers and bounds: type correctness, that the *)
(* dedup ledgers prove delivery, and that no alert is dropped but for the  *)
(* losses named in Excuses.  Verdict, for any transactions and any         *)
(* configuration its assumptions and the scorers' admit: that hiding gains *)
(* nothing, and that the patterns the scorers are for surface.             *)
(***************************************************************************)
EXTENDS Notifications, Verdict, DataLemmas

-----------------------------------------------------------------------------
(* Notifications.                                                          *)

\* Only a finding that has a group gets to the group's ledger.
InGroup == \A d \in Deliverer :
    pc[d] \in {"group", "groupClaim"} => GroupOf[job[d].tx] \in Group

TypeInv == TypeOK /\ InGroup

\* Type correctness is inductive together with InGroup.
LEMMA TypeInductive == TypeInv /\ [Next]_vars => TypeInv'
<1>. SUFFICES ASSUME TypeInv, [Next]_vars PROVE TypeInv'
  OBVIOUS
<1>. USE NotificationAssumption DEF TypeInv, TypeOK, InGroup, ledgers, letters, work, history,
       Fault, Deliverer, Band, Rank, Job, Steps, Excuses
<1>1. CASE \E r \in {"ok", "gap", "none"} : EditConfig(r)
  BY <1>1 DEF EditConfig
<1>2. CASE \E g \in Group : GroupWindowOver(g)
  BY <1>2 DEF GroupWindowOver
<1>3. CASE \E t \in Tx : BackoffOver(t)
  BY <1>3 DEF BackoffOver
<1>4. CASE \E t \in Tx : PruneClaim(t)
  BY <1>4 DEF PruneClaim
<1>5. CASE \E g \in Group : PruneGroup(g)
  BY <1>5 DEF PruneGroup
<1>6. CASE \E t \in Tx : PruneAbandoned(t)
  BY <1>6 DEF PruneAbandoned
<1>7. CASE Restart
  BY <1>7 DEF Restart
<1>8. ASSUME NEW c \in Courier, NEW t \in Tx, NEW b \in Band, Raise(c, t, b) PROVE TypeInv'
  <2>1. pc' \in [Deliverer -> Steps] /\ job' \in [Deliverer -> Job] /\ InGroup'
    BY <1>8 DEF Raise, GoTo
  <2>2. raised' \in [Tx -> Rank]
    BY <1>8 DEF Raise
  <2>3. excuse' \in [Tx -> SUBSET Excuses]
    BY <1>8 DEF Raise
  <2>. QED BY <1>8, <2>1, <2>2, <2>3 DEF Raise
<1>9. CASE \E d \in Deliverer : CheckClaim(d)
  BY <1>9 DEF CheckClaim, Return, GoTo
<1>10. CASE \E d \in Deliverer : CheckGroup(d)
  BY <1>10 DEF CheckGroup, Return, GoTo, Larger
<1>11. CASE \E d \in Deliverer : SendOk(d)
  BY <1>11 DEF SendOk, GoTo, Larger
<1>12. CASE \E d \in Deliverer : SendFails(d)
  BY <1>12 DEF SendFails, GoTo
<1>13. CASE \E c \in Courier : RecordFailed(c)
  BY <1>13 DEF RecordFailed, GoTo
<1>14. CASE \E c \in Courier : RecordFails(c)
  BY <1>14 DEF RecordFails, GoTo
<1>15. ASSUME NEW d \in Deliverer, ClaimNotification(d) PROVE TypeInv'
  <2>1. pc' \in [Deliverer -> Steps]
    BY <1>15 DEF ClaimNotification, AfterClaim, Return, GoTo
  <2>2. claim' \in [Tx -> Rank] /\ faults' \in Nat
    BY <1>15 DEF ClaimNotification, Larger
  <2>3. InGroup'
    BY <1>15 DEF ClaimNotification, AfterClaim, Return, GoTo
  <2>. QED BY <1>15, <2>1, <2>2, <2>3 DEF ClaimNotification
<1>16. CASE \E d \in Deliverer : ClaimGroup(d)
  BY <1>16 DEF ClaimGroup, Return, GoTo, Larger
<1>17. CASE SweepStarts
  BY <1>17 DEF SweepStarts, GoTo, DueRows, Live
<1>18. CASE \E letter \in batch : SweepTakes(letter)
  BY <1>18 DEF SweepTakes, GoTo, Route
<1>19. CASE SweepEnds
  BY <1>19 DEF SweepEnds, GoTo
<1>20. CASE DeleteFailed
  BY <1>20 DEF DeleteFailed, GoTo
<1>21. CASE DeleteFails
  BY <1>21 DEF DeleteFails, GoTo
<1>22. CASE CountAttempt
  BY <1>22 DEF CountAttempt, GoTo
<1>23. CASE CountFails
  BY <1>23 DEF CountFails, GoTo
<1>24. CASE UNCHANGED vars
  BY <1>24 DEF vars
<1>. QED BY <1>1, <1>2, <1>3, <1>4, <1>5, <1>6, <1>7, <1>8, <1>9, <1>10, <1>11, <1>12, <1>13, <1>14, <1>15, <1>16, <1>17, <1>18, <1>19, <1>20, <1>21, <1>22, <1>23, <1>24 DEF Next

\* The types of Notifications hold in every reachable state.
THEOREM TypeCorrect == Spec => []TypeOK
<1>1. Init => TypeInv
  BY NotificationAssumption DEF Init, TypeInv, InGroup, TypeOK, None, Deliverer, Band, Rank, Job, Steps, Excuses
<1>2. TypeInv => TypeOK
  BY DEF TypeInv
<1>. QED BY <1>1, <1>2, TypeInductive, PTL DEF Spec

-----------------------------------------------------------------------------
\* What a deliverer past the send knows, and what a group's rank stands for.
Sent == \A d \in Deliverer :
    pc[d] \in {"claim", "groupClaim"} => delivered[job[d].tx] >= job[d].band

GroupPaged(g, b) == \E u \in Tx : GroupOf[u] = g /\ delivered[u] >= b

GroupsPaged == \A g \in Group : groupBand[g] # 0 => GroupPaged(g, groupBand[g])

CollapsedPaged == \A t \in Tx : collapsed[t] > 0 => GroupPaged(GroupOf[t], collapsed[t])

LedgerInv ==
    /\ \A t \in Tx : claim[t] <= delivered[t]
    /\ Sent /\ GroupsPaged /\ CollapsedPaged

\* The ledgers stay backed by deliveries: only ClaimNotification and ClaimGroup raise
\* them, and both run after a send.
LEMMA LedgersInductive == TypeOK /\ LedgerInv /\ [Next]_vars => LedgerInv'
<1>. SUFFICES ASSUME TypeOK, LedgerInv, [Next]_vars PROVE LedgerInv'
  OBVIOUS
<1>. USE NotificationAssumption DEF TypeOK, LedgerInv, Sent, GroupsPaged, CollapsedPaged, GroupPaged,
       ledgers, letters, work, history, Fault, Deliverer, Band, Rank, Job
<1>1. CASE \E r \in {"ok", "gap", "none"} : EditConfig(r)
  BY <1>1 DEF EditConfig
<1>2. CASE \E g \in Group : GroupWindowOver(g)
  BY <1>2 DEF GroupWindowOver
<1>3. CASE \E t \in Tx : BackoffOver(t)
  BY <1>3 DEF BackoffOver
<1>4. CASE \E t \in Tx : PruneClaim(t)
  BY <1>4 DEF PruneClaim
<1>5. CASE \E g \in Group : PruneGroup(g)
  BY <1>5 DEF PruneGroup
<1>6. CASE \E t \in Tx : PruneAbandoned(t)
  BY <1>6 DEF PruneAbandoned
<1>7. CASE Restart
  BY <1>7 DEF Restart
<1>8. CASE \E c \in Courier, t \in Tx, b \in Band : Raise(c, t, b)
  BY <1>8 DEF Raise, GoTo
<1>9. CASE \E d \in Deliverer : CheckClaim(d)
  BY <1>9 DEF CheckClaim, Return, GoTo
<1>10. CASE \E d \in Deliverer : CheckGroup(d)
  BY <1>10 DEF CheckGroup, GroupSuppresses, Return, GoTo, Larger
<1>11. CASE \E d \in Deliverer : SendOk(d)
  BY <1>11 DEF SendOk, GoTo, Larger
<1>12. CASE \E d \in Deliverer : SendFails(d)
  BY <1>12 DEF SendFails, GoTo
<1>13. CASE \E c \in Courier : RecordFailed(c)
  BY <1>13 DEF RecordFailed, GoTo
<1>14. CASE \E c \in Courier : RecordFails(c)
  BY <1>14 DEF RecordFails, GoTo
<1>15. CASE \E d \in Deliverer : ClaimNotification(d)
  BY <1>15 DEF ClaimNotification, AfterClaim, Return, GoTo, Larger
<1>16. CASE \E d \in Deliverer : ClaimGroup(d)
  BY <1>16 DEF ClaimGroup, Return, GoTo, Larger
<1>17. CASE SweepStarts
  BY <1>17 DEF SweepStarts, GoTo, DueRows, Live
<1>18. CASE \E letter \in batch : SweepTakes(letter)
  BY <1>18 DEF SweepTakes, GoTo, Route
<1>19. CASE SweepEnds
  BY <1>19 DEF SweepEnds, GoTo
<1>20. CASE DeleteFailed
  BY <1>20 DEF DeleteFailed, GoTo
<1>21. CASE DeleteFails
  BY <1>21 DEF DeleteFails, GoTo
<1>22. CASE CountAttempt
  BY <1>22 DEF CountAttempt, GoTo
<1>23. CASE CountFails
  BY <1>23 DEF CountFails, GoTo
<1>24. CASE UNCHANGED vars
  BY <1>24 DEF vars
<1>. QED BY <1>1, <1>2, <1>3, <1>4, <1>5, <1>6, <1>7, <1>8, <1>9, <1>10, <1>11, <1>12, <1>13, <1>14, <1>15, <1>16, <1>17, <1>18, <1>19, <1>20, <1>21, <1>22, <1>23, <1>24 DEF Next

\* A claim, and a suppression by a group window, never exceed what was delivered
\* (postgres.claim_notification and claim_notification_group run only after a channel
\* has delivered).
THEOREM LedgersSound == Spec => []LedgersProveDelivery
<1>1. Init => TypeInv /\ LedgerInv
  BY NotificationAssumption DEF Init, TypeInv, InGroup, TypeOK, None, Deliverer, Band, Rank, Job,
     Steps, Excuses, LedgerInv, Sent, GroupsPaged, CollapsedPaged
<1>2. TypeInv => TypeOK
  BY DEF TypeInv
<1>3. LedgerInv => LedgersProveDelivery
  BY DEF LedgerInv, CollapsedPaged, GroupPaged, LedgersProveDelivery
<1>. QED BY <1>1, <1>2, <1>3, TypeInductive, LedgersInductive, PTL DEF Spec

-----------------------------------------------------------------------------
\* The sweep deletes a row only when the finding it read has been dealt with.
Settled == pc[Sweep] = "delete" =>
    \/ delivered[job[Sweep].tx] >= job[Sweep].band
    \/ collapsed[job[Sweep].tx] >= job[Sweep].band

KeptInv == Settled /\ AlertKept

\* No step drops an alert: a courier that stops has delivered, collapsed or recorded
\* its finding, and the sweep deletes only what it has settled.
LEMMA KeptInductive == TypeOK /\ LedgerInv /\ KeptInv /\ [Next]_vars => KeptInv'
<1>. SUFFICES ASSUME TypeOK, LedgerInv, KeptInv, [Next]_vars PROVE KeptInv'
  OBVIOUS
<1>. USE NotificationAssumption DEF TypeOK, LedgerInv, Sent, KeptInv, Settled, AlertKept, Covered,
       ledgers, letters, work, history, Fault, Deliverer, Band, Rank, Job
<1>1. CASE \E r \in {"ok", "gap", "none"} : EditConfig(r)
  BY <1>1 DEF EditConfig
<1>2. CASE \E g \in Group : GroupWindowOver(g)
  BY <1>2 DEF GroupWindowOver
<1>3. CASE \E t \in Tx : BackoffOver(t)
  BY <1>3 DEF BackoffOver
<1>4. CASE \E t \in Tx : PruneClaim(t)
  BY <1>4 DEF PruneClaim
<1>5. CASE \E g \in Group : PruneGroup(g)
  BY <1>5 DEF PruneGroup
<1>6. ASSUME NEW t \in Tx, PruneAbandoned(t) PROVE KeptInv'
  <2>1. "pruned" \in excuse'[t]
    BY <1>6 DEF PruneAbandoned
  <2>2. ASSUME NEW u \in Tx, u # t PROVE excuse'[u] = excuse[u] /\ (Covered(u) => Covered(u)')
    BY <1>6, <2>2 DEF PruneAbandoned
  <2>3. Settled'
    BY <1>6 DEF PruneAbandoned
  <2>. QED BY <2>1, <2>2, <2>3
<1>7. CASE Restart
  BY <1>7 DEF Restart
<1>8. ASSUME NEW c \in Courier, NEW t \in Tx, NEW b \in Band, Raise(c, t, b) PROVE KeptInv'
  <2>1. Settled'
    BY <1>8 DEF Raise, GoTo
  <2>2. ASSUME NEW u \in Tx, raised'[u] = raised[u], excuse'[u] = excuse[u]
        PROVE Covered(u)' \/ excuse'[u] # {}
    BY <1>8, <2>2 DEF Raise, GoTo
  <2>3. CASE route # "none" /\ b >= raised[t]
    <3>1. ASSUME NEW u \in Tx, u # t PROVE raised'[u] = raised[u] /\ excuse'[u] = excuse[u]
      BY <1>8, <2>3, <3>1 DEF Raise
    <3>2. CASE route = "gap"
      <4>1. excuse'[t] = {"gap"}
        BY <1>8, <2>3, <3>2 DEF Raise
      <4>. QED BY <2>1, <2>2, <3>1, <4>1
    <3>3. CASE route = "ok"
      <4>1. pc'[c] = "check" /\ job'[c].tx = t /\ job'[c].band = b /\ raised'[t] = b
        BY <1>8, <2>3, <3>3 DEF Raise, GoTo
      <4>2. Covered(t)'
        BY <4>1
      <4>. QED BY <2>1, <2>2, <3>1, <4>2
    <3>. QED BY <2>3, <3>2, <3>3
  <2>4. CASE ~(route # "none" /\ b >= raised[t])
    BY <1>8, <2>1, <2>2, <2>4 DEF Raise
  <2>. QED BY <2>3, <2>4
<1>9. ASSUME NEW d \in Deliverer, CheckClaim(d) PROVE KeptInv'
  <2>1. CASE AlreadyNotified(d) /\ Return(d, "delete")
    <3>1. delivered[job[d].tx] >= job[d].band
      BY <2>1 DEF AlreadyNotified
    <3>. QED BY <1>9, <2>1, <3>1 DEF CheckClaim, Return, GoTo
  <2>2. CASE GoTo(d, IF GroupOf[job[d].tx] = NoGroup THEN "send" ELSE "group")
    BY <1>9, <2>2 DEF CheckClaim, GoTo
  <2>. QED BY <1>9, <2>1, <2>2 DEF CheckClaim
<1>10. ASSUME NEW d \in Deliverer, CheckGroup(d) PROVE KeptInv'
  <2>1. CASE GroupSuppresses(d) /\ Return(d, "delete") /\ UNCHANGED faults
             /\ collapsed' = [collapsed EXCEPT ![job[d].tx] = Larger(@, job[d].band)]
    <3>1. collapsed'[job[d].tx] >= job[d].band
      BY <2>1 DEF Larger
    <3>2. \A t \in Tx : collapsed'[t] >= collapsed[t]
      BY <2>1 DEF Larger
    <3>3. collapsed' \in [Tx -> Rank]
      BY <2>1 DEF Larger
    <3>4. Settled'
      BY <1>10, <2>1, <3>1, <3>2, <3>3 DEF CheckGroup, Return, GoTo
    <3>5. AlertKept'
      BY <1>10, <2>1, <3>1, <3>2, <3>3 DEF CheckGroup, Return, GoTo
    <3>. QED BY <3>4, <3>5
  <2>2. CASE GoTo(d, "send") /\ UNCHANGED collapsed
    BY <1>10, <2>2 DEF CheckGroup, GoTo
  <2>. QED BY <1>10, <2>1, <2>2 DEF CheckGroup
<1>11. ASSUME NEW d \in Deliverer, SendOk(d) PROVE KeptInv'
  <2>1. delivered'[job[d].tx] >= job[d].band /\ \A t \in Tx : delivered'[t] >= delivered[t]
    BY <1>11 DEF SendOk, Larger
  <2>2. delivered' \in [Tx -> Rank]
    BY <1>11 DEF SendOk, Larger
  <2>. QED BY <1>11, <2>1, <2>2 DEF SendOk, GoTo
<1>12. CASE \E d \in Deliverer : SendFails(d)
  BY <1>12 DEF SendFails, GoTo
<1>13. CASE \E c \in Courier : RecordFailed(c)
  BY <1>13 DEF RecordFailed, GoTo
<1>14. ASSUME NEW c \in Courier, RecordFails(c) PROVE KeptInv'
  <2>1. "record" \in excuse'[job[c].tx]
    BY <1>14 DEF RecordFails, GoTo
  <2>2. ASSUME NEW u \in Tx, u # job[c].tx PROVE excuse'[u] = excuse[u] /\ (Covered(u) => Covered(u)')
    BY <1>14, <2>2 DEF RecordFails, GoTo
  <2>3. Settled'
    BY <1>14 DEF RecordFails, GoTo
  <2>. QED BY <2>1, <2>2, <2>3
<1>15. ASSUME NEW d \in Deliverer, ClaimNotification(d) PROVE KeptInv'
  <2>1. pc' = [pc EXCEPT ![d] = pc'[d]] /\ pc[d] = "claim"
    BY <1>15 DEF ClaimNotification, AfterClaim, Return, GoTo
  <2>2. pc'[d] \in {"idle", "delete", "groupClaim"}
    BY <1>15 DEF ClaimNotification, AfterClaim, Return, GoTo
  <2>3. UNCHANGED <<job, deadBand, history>>
    BY <1>15 DEF ClaimNotification
  <2>4. Settled'
    BY <2>1, <2>2, <2>3
  <2>5. AlertKept'
    BY <2>1, <2>2, <2>3
  <2>. QED BY <2>4, <2>5
<1>16. CASE \E d \in Deliverer : ClaimGroup(d)
  BY <1>16 DEF ClaimGroup, Return, GoTo, Larger
<1>17. CASE SweepStarts
  BY <1>17 DEF SweepStarts, GoTo, DueRows, Live
<1>18. CASE \E letter \in batch : SweepTakes(letter)
  BY <1>18 DEF SweepTakes, GoTo, Route
<1>19. CASE SweepEnds
  BY <1>19 DEF SweepEnds, GoTo
<1>20. CASE DeleteFailed
  <2>. DEFINE t == job[Sweep].tx
  <2>0. Settled'
    BY <1>20 DEF DeleteFailed, GoTo
  <2>1. ASSUME NEW u \in Tx, u # t PROVE excuse'[u] = excuse[u] /\ (Covered(u) => Covered(u)')
    BY <1>20, <2>1 DEF DeleteFailed, GoTo
  <2>2. excuse[t] \subseteq excuse'[t]
    BY <1>20 DEF DeleteFailed
  <2>3. CASE pc[Sweep] = "withdraw"
    <3>1. "withdrawn" \in excuse'[t]
      BY <1>20, <2>3 DEF DeleteFailed
    <3>. QED BY <2>0, <2>1, <3>1
  <2>4. CASE deadBand[t] > job[Sweep].band
    <3>1. "overtaken" \in excuse'[t]
      BY <1>20, <2>4 DEF DeleteFailed
    <3>. QED BY <2>0, <2>1, <3>1
  <2>5. CASE pc[Sweep] = "delete" /\ ~(deadBand[t] > job[Sweep].band)
    <3>1. Covered(t) => Covered(t)'
      BY <1>20, <2>5 DEF DeleteFailed, GoTo
    <3>. QED BY <1>20, <2>1, <2>2, <3>1 DEF DeleteFailed, GoTo
  <2>. QED BY <1>20, <2>3, <2>4, <2>5 DEF DeleteFailed
<1>21. CASE DeleteFails
  BY <1>21 DEF DeleteFails, GoTo
<1>22. CASE CountAttempt
  BY <1>22 DEF CountAttempt, GoTo
<1>23. CASE CountFails
  BY <1>23 DEF CountFails, GoTo
<1>24. CASE UNCHANGED vars
  BY <1>24 DEF vars
<1>. QED BY <1>1, <1>2, <1>3, <1>4, <1>5, <1>6, <1>7, <1>8, <1>9, <1>10, <1>11, <1>12, <1>13, <1>14, <1>15, <1>16, <1>17, <1>18, <1>19, <1>20, <1>21, <1>22, <1>23, <1>24 DEF Next

\* The highest finding of a transaction is delivered, collapsed, in flight or
\* dead-lettered, unless one of the losses of Excuses happened to it
\* (notifications._deliver_with_dedup, tasks.notifications._retry_tick).
THEOREM NoAlertDropped == Spec => []AlertKept
<1>1. Init => TypeInv /\ LedgerInv /\ KeptInv
  BY NotificationAssumption DEF Init, TypeInv, InGroup, TypeOK, None, Deliverer, Band, Rank, Job,
     Steps, Excuses, LedgerInv, Sent, GroupsPaged, CollapsedPaged, KeptInv, Settled, AlertKept, Covered
<1>2. TypeInv => TypeOK
  BY DEF TypeInv
<1>3. KeptInv => AlertKept
  BY DEF KeptInv
<1>. QED BY <1>1, <1>2, <1>3, TypeInductive, LedgersInductive, KeptInductive, PTL DEF Spec

-----------------------------------------------------------------------------
(* Arithmetic of the scorers.                                              *)

\* Division by a positive number: quotient and remainder.
LEMMA Quotient ==
  ASSUME NEW a \in Int, NEW d \in Nat, d > 0
  PROVE  /\ a \div d \in Int
         /\ d * (a \div d) <= a
         /\ a < d * (a \div d) + d
OBVIOUS

\* What the divisor times n fits under has a quotient of at least n.
LEMMA QuotientLeast ==
  ASSUME NEW a \in Int, NEW d \in Nat, d > 0, NEW n \in Int, d * n <= a
  PROVE  n <= a \div d
<1>. DEFINE q == a \div d
<1>1. q \in Int /\ a < d * q + d BY Quotient
<1>. HIDE DEF q
<1>. SUFFICES ASSUME q + 1 <= n PROVE FALSE BY <1>1 DEF q
<1>2. d * (q + 1) <= d * n BY <1>1
<1>3. d * (q + 1) = d * q + d BY <1>1
<1>. QED BY <1>1, <1>2, <1>3

\* Division by a positive number is monotone.
LEMMA QuotientMono ==
  ASSUME NEW a \in Int, NEW b \in Int, a <= b, NEW d \in Nat, d > 0
  PROVE  a \div d <= b \div d
<1>. DEFINE q == a \div d
<1>1. q \in Int /\ d * q <= a BY Quotient
<1>. HIDE DEF q
<1>2. d * q <= b BY <1>1
<1>3. q <= b \div d BY <1>1, <1>2, QuotientLeast
<1>. QED BY <1>3 DEF q

\* Multiplication by a natural number is monotone.
LEMMA TimesMono ==
  ASSUME NEW w \in Nat, NEW x \in Int, NEW y \in Int, x <= y
  PROVE  w * x <= w * y /\ w * x \in Int /\ w * y \in Int
OBVIOUS

\* The product of two natural numbers is one.
LEMMA TimesNat == ASSUME NEW w \in Nat, NEW x \in Nat PROVE w * x \in Nat
OBVIOUS

\* The largest of a set of integers that is bounded above, and of a finite set.
LEMMA MaxOfBounded ==
  ASSUME NEW S \in SUBSET Int, S # {}, \E B \in Int : \A x \in S : x <= B
  PROVE  Max(S) \in S /\ \A x \in S : x <= Max(S)
<1>0. PICK B \in Int : \A x \in S : x <= B OBVIOUS
<1>. DEFINE T == {n \in Nat : B - n \in S}
<1>1. T # {}
  <2>1. PICK x \in S : TRUE OBVIOUS
  <2>2. B - x \in Nat /\ B - (B - x) = x BY <1>0, <2>1
  <2>3. B - x \in T BY <2>1, <2>2
  <2>. QED BY <2>3
<1>2. PICK m \in T : \A n \in T : m <= n
  <2>1. T \in SUBSET Nat OBVIOUS
  <2>. HIDE DEF T
  <2>. QED BY <1>1, <2>1, LeastNat
<1>3. ASSUME NEW x \in S PROVE x <= B - m
  <2>1. B - x \in Nat /\ B - (B - x) = x BY <1>0
  <2>2. B - x \in T BY <2>1
  <2>3. m <= B - x BY <1>2, <2>2
  <2>4. m \in Nat OBVIOUS
  <2>. QED BY <2>1, <2>3, <2>4
<1>4. \E x \in S : \A y \in S : x >= y
  <2>1. B - m \in S /\ m \in Nat OBVIOUS
  <2>2. \A y \in S : B - m >= y BY <1>3, <2>1
  <2>. QED BY <2>1, <2>2
<1>5. Max(S) \in S /\ \A y \in S : Max(S) >= y BY <1>4 DEF Max
<1>. QED BY <1>5

\* A finite set of integers has an upper bound.
LEMMA FiniteBounded ==
  ASSUME NEW S \in SUBSET Int, IsFiniteSet(S)
  PROVE  \E B \in Int : \A x \in S : x <= B
<1>0. PICK n \in Nat : ExistsBijection(1..n, S) BY FS_NatBijection
<1>1. PICK f \in Bijection(1..n, S) : TRUE BY <1>0 DEF ExistsBijection
<1>2. f \in [1..n -> S] /\ \A x \in S : \E i \in 1..n : f[i] = x
  BY <1>1 DEF Bijection, Injection, Surjection
<1>. DEFINE T == {k \in Nat : k <= n => \E B \in Int : \A i \in 1..k : f[i] <= B}
<1>3. 0 \in T
  <2>1. \A i \in 1..0 : f[i] <= 0 OBVIOUS
  <2>. QED BY <2>1
<1>4. ASSUME NEW k \in Nat, k \in T PROVE k + 1 \in T
  <2>. SUFFICES ASSUME k + 1 <= n PROVE \E B \in Int : \A i \in 1..(k + 1) : f[i] <= B
    OBVIOUS
  <2>1. PICK B \in Int : \A i \in 1..k : f[i] <= B BY <1>4
  <2>2. k + 1 \in 1..n /\ \A i \in 1..(k + 1) : i = k + 1 \/ i \in 1..k OBVIOUS
  <2>3. f[k + 1] \in S /\ f[k + 1] \in Int BY <1>2, <2>2
  <2>4. CASE f[k + 1] <= B
    <3>1. ASSUME NEW i \in 1..(k + 1) PROVE f[i] <= B BY <2>1, <2>2, <2>4
    <3>. QED BY <3>1
  <2>5. CASE B <= f[k + 1]
    <3>1. ASSUME NEW i \in 1..(k + 1) PROVE f[i] <= f[k + 1]
      <4>1. i \in 1..n OBVIOUS
      <4>2. f[i] \in Int BY <1>2, <4>1
      <4>3. i = k + 1 \/ f[i] <= B BY <2>1, <2>2
      <4>. QED BY <2>3, <2>5, <4>2, <4>3
    <3>. QED BY <2>3, <3>1
  <2>6. f[k + 1] <= B \/ B <= f[k + 1] BY <2>3
  <2>. QED BY <2>4, <2>5, <2>6
<1>5. n \in T
  <2>. HIDE DEF T
  <2>. QED BY <1>3, <1>4, NatSetInduction
<1>6. PICK B \in Int : \A i \in 1..n : f[i] <= B BY <1>5
<1>. QED BY <1>2, <1>6

\* The largest of a finite set of numbers, and of 0 and bounded scores.
LEMMA MaxOfFinite ==
  ASSUME NEW S \in SUBSET Int, S # {}, IsFiniteSet(S)
  PROVE  Max(S) \in S /\ \A x \in S : x <= Max(S)
BY FiniteBounded, MaxOfBounded

\* The smaller and the larger of two numbers, and the band cuts.
LEMMA AtMost2Is ==
  ASSUME NEW a \in Int, NEW b \in Int
  PROVE  /\ AtMost2(a, b) \in Int /\ AtMost2(a, b) <= a /\ AtMost2(a, b) <= b
         /\ AtMost2(a, b) = a \/ AtMost2(a, b) = b
BY DEF AtMost2

\* A cap is monotone in what it caps.
LEMMA AtMost2Mono ==
  ASSUME NEW a \in Int, NEW b \in Int, NEW c \in Int, a <= b
  PROVE  AtMost2(a, c) <= AtMost2(b, c)
BY DEF AtMost2

\* The larger of two integers is one of them, and no less than either.
LEMMA AtLeast2Is ==
  ASSUME NEW a \in Int, NEW b \in Int
  PROVE  /\ AtLeast2(a, b) \in Int /\ a <= AtLeast2(a, b) /\ b <= AtLeast2(a, b)
         /\ AtLeast2(a, b) = a \/ AtLeast2(a, b) = b
BY DEF AtLeast2

\* The cuts of the bands, in hundredths.
LEMMA Cuts ==
  /\ InformationalMax = 3000 /\ ModerateThreshold = 3100 /\ ModerateMax = 5900
  /\ HighThreshold = 6000 /\ CriticalThreshold = 8000
BY DEF InformationalMax, ModerateThreshold, ModerateMax, HighThreshold, CriticalThreshold

Percent == 0 .. 100

\* A finalised score is in range.
LEMMA FinaliseType == ASSUME NEW raw \in Int PROVE FinaliseScore(raw) \in Score
<1>1. FinaliseScore(raw) \in 0 .. 10000 BY SMTT(30) DEF FinaliseScore, AtLeast2, AtMost2
<1>. QED BY <1>1 DEF Score

\* Finalising a score is monotone.
LEMMA FinaliseMono ==
  ASSUME NEW a \in Int, NEW b \in Int, a <= b PROVE FinaliseScore(a) <= FinaliseScore(b)
BY DEF FinaliseScore, AtLeast2, AtMost2

\* The best of some scores is one of them, and 0 when there is none.
LEMMA ReduceType ==
  ASSUME NEW f, \A i \in DOMAIN f : f[i] \in Score
  PROVE  /\ ReduceToBest(f) \in Score
         /\ \A i \in DOMAIN f : f[i] <= ReduceToBest(f)
         /\ ReduceToBest(f) = 0 \/ \E i \in DOMAIN f : ReduceToBest(f) = f[i]
<1>. DEFINE S == {0} \cup {f[i] : i \in DOMAIN f}
<1>2. ReduceToBest(f) = Max(S) BY DEF ReduceToBest
<1>3. \A x \in S : x = 0 \/ \E i \in DOMAIN f : x = f[i] OBVIOUS
<1>4. \A i \in DOMAIN f : f[i] \in S OBVIOUS
<1>5. ASSUME NEW x \in S PROVE x \in Score
  <2>1. 0 \in Score BY DEF Score
  <2>. HIDE DEF S
  <2>. QED BY <1>3, <2>1
<1>0. S # {} OBVIOUS
<1>. HIDE DEF S
<1>1. S \in SUBSET Int /\ \E B \in Int : \A x \in S : x <= B
  <2>1. \A x \in S : x \in Score BY <1>5
  <2>2. \A x \in Score : x \in Int /\ x <= 10000 BY DEF Score
  <2>. QED BY <2>1, <2>2
<1>6. Max(S) \in S /\ \A x \in S : x <= Max(S) BY <1>0, <1>1, MaxOfBounded
<1>7. Max(S) \in Score BY <1>5, <1>6
<1>8. Max(S) = 0 \/ \E i \in DOMAIN f : Max(S) = f[i] BY <1>3, <1>6
<1>9. ASSUME NEW i \in DOMAIN f PROVE f[i] <= Max(S)
  <2>1. f[i] \in S BY <1>4
  <2>. QED BY <1>6, <2>1
<1>. QED BY <1>2, <1>7, <1>8, <1>9

-----------------------------------------------------------------------------
(* Normalisation.                                                          *)

\* A normalised value is a percentage.
LEMMA NormaliseType ==
  ASSUME NEW v \in Int, NEW pair, pair.p50 \in Int, pair.p99 \in Int
  PROVE  Normalise(v, pair) \in Percent /\ NormaliseInverted(v, pair) \in Percent
<1>1. CASE pair.p99 <= pair.p50 BY <1>1 DEF Normalise, NormaliseInverted, Percent
<1>2. CASE pair.p50 < pair.p99
  <2>. DEFINE d == pair.p99 - pair.p50
              q == (100 * (v - pair.p50)) \div d
  <2>1. d \in Nat /\ d > 0 /\ 100 * (v - pair.p50) \in Int BY <1>2
  <2>2. q \in Int BY <2>1, Quotient
  <2>3. Normalise(v, pair) = AtLeast2(0, AtMost2(100, q)) BY <1>2 DEF Normalise
  <2>. HIDE DEF q
  <2>. QED BY <1>2, <2>2, <2>3 DEF NormaliseInverted, AtLeast2, AtMost2, Percent
<1>. QED BY <1>1, <1>2

\* A larger value normalises to no less.
LEMMA NormaliseMono ==
  ASSUME NEW v \in Int, NEW u \in Int, v <= u, NEW pair, pair.p50 \in Int, pair.p99 \in Int
  PROVE  Normalise(v, pair) <= Normalise(u, pair)
<1>1. CASE pair.p99 <= pair.p50 BY <1>1 DEF Normalise
<1>2. CASE pair.p50 < pair.p99
  <2>. DEFINE d == pair.p99 - pair.p50
              q(x) == (100 * (x - pair.p50)) \div d
  <2>1. /\ d \in Nat /\ d > 0 /\ 100 * (v - pair.p50) \in Int /\ 100 * (u - pair.p50) \in Int
        /\ 100 * (v - pair.p50) <= 100 * (u - pair.p50)
    BY <1>2
  <2>2. q(v) \in Int /\ q(u) \in Int BY <2>1, Quotient
  <2>3. q(v) <= q(u) BY <2>1, QuotientMono
  <2>4. /\ Normalise(v, pair) = AtLeast2(0, AtMost2(100, q(v)))
        /\ Normalise(u, pair) = AtLeast2(0, AtMost2(100, q(u)))
    BY <1>2 DEF Normalise
  <2>. HIDE DEF q
  <2>. QED BY <2>2, <2>3, <2>4 DEF AtLeast2, AtMost2
<1>. QED BY <1>1, <1>2

\* A value that lies the n-th part of the spread above the median scores n.
LEMMA NormaliseLeast ==
  ASSUME NEW v \in Int, NEW pair, pair.p50 \in Int, pair.p99 \in Int, pair.p50 < pair.p99,
         NEW n \in Percent, (pair.p99 - pair.p50) * n <= 100 * (v - pair.p50)
  PROVE  n <= Normalise(v, pair)
<1>. DEFINE d == pair.p99 - pair.p50
            q == (100 * (v - pair.p50)) \div d
<1>1. d \in Nat /\ d > 0 /\ 100 * (v - pair.p50) \in Int /\ n \in Int BY DEF Percent
<1>2. q \in Int /\ n <= q BY <1>1, Quotient, QuotientLeast
<1>3. Normalise(v, pair) = AtLeast2(0, AtMost2(100, q)) BY DEF Normalise
<1>. HIDE DEF q
<1>. QED BY <1>2, <1>3 DEF AtLeast2, AtMost2, Percent

\* The capping of resolved_or_bootstrap keeps a usable pair usable.
LEMMA CappedUsable ==
  ASSUME NEW pair, {"p50", "p99"} \subseteq DOMAIN pair, pair.p50 \in Int, pair.p99 \in Int,
         Usable(pair), NEW anchor \in Pair, anchor.p99 > 0, NEW m \in Nat, NEW k \in Nat
  PROVE  LET c == CappedPair(pair, anchor, m, k)
         IN  /\ c.p50 \in Int /\ c.p99 \in Int /\ Usable(c)
             /\ m > 0 => c.p50 <= P50Bound(anchor, m, k) /\ c.p99 <= P99Cap(anchor, m)
<1>. DEFINE cap == P99Cap(anchor, m)
            room == (100 * cap) \div (100 + MinSpread)
            share == (k * (anchor.p99 - anchor.p50)) \div 100
            bound == P50Bound(anchor, m, k)
            c == CappedPair(pair, anchor, m, k)
<1>0. /\ anchor.p50 \in Int /\ anchor.p99 \in Int /\ 100 + MinSpread \in Nat
      /\ MinSpread \in Nat /\ MinSpread > 0 /\ 100 + MinSpread > 0
  BY ScoringAssumption DEF Pair
<1>1. CASE m = 0
  <2>1. c = pair BY <1>1 DEF CappedPair
  <2>. QED BY <1>1, <2>1
<1>2. CASE m > 0
  <2>1. cap \in Int /\ 100 * cap \in Int /\ cap > 0
    <3>1. cap = m * anchor.p99 BY DEF P99Cap
    <3>2. m * anchor.p99 >= 1 BY <1>0, <1>2
    <3>. QED BY <1>0, <3>1, <3>2
  <2>2. share \in Int
    <3>1. k * (anchor.p99 - anchor.p50) \in Int BY <1>0
    <3>. QED BY <3>1, Quotient
  <2>. HIDE DEF cap
  <2>3. room \in Int /\ (100 + MinSpread) * room <= 100 * cap BY <1>0, <2>1, Quotient
  <2>4. bound = AtMost2(anchor.p50 + share, room) BY DEF P50Bound, cap
  <2>. HIDE DEF room, share, bound
  <2>5. bound \in Int /\ bound <= room BY <1>0, <2>2, <2>3, <2>4 DEF AtMost2
  <2>6. c.p99 = AtMost2(pair.p99, cap) /\ c.p50 = AtMost2(pair.p50, bound)
    BY <1>2 DEF CappedPair, cap, bound
  <2>. HIDE DEF c
  <2>7. c.p99 \in Int /\ c.p50 \in Int /\ c.p99 <= cap /\ c.p50 <= bound /\ c.p50 <= pair.p50
    BY <2>1, <2>5, <2>6 DEF AtMost2
  <2>8. pair.p99 > 0
    <3>1. CASE pair.p50 <= 0 BY <3>1 DEF Usable
    <3>2. CASE pair.p50 > 0
      <4>1. 100 * (pair.p99 - pair.p50) >= MinSpread * pair.p50 BY <3>2 DEF Usable
      <4>2. MinSpread * pair.p50 >= 0 BY <1>0, <3>2
      <4>. QED BY <3>2, <4>1, <4>2, <1>0
    <3>. QED BY <3>1, <3>2
  <2>9. c.p99 > 0 BY <2>1, <2>6, <2>8 DEF AtMost2
  <2>10. ASSUME c.p50 > 0 PROVE 100 * (c.p99 - c.p50) >= MinSpread * c.p50
    <3>1. MinSpread * c.p50 \in Int /\ (100 + MinSpread) * c.p50 = 100 * c.p50 + MinSpread * c.p50
      BY <1>0, <2>7
    <3>2. CASE c.p99 = cap
      <4>1. (100 + MinSpread) * c.p50 <= (100 + MinSpread) * room
        BY <1>0, <2>3, <2>5, <2>7, TimesMono
      <4>2. (100 + MinSpread) * room \in Int BY <1>0, <2>3
      <4>. QED BY <2>1, <2>3, <2>7, <3>1, <3>2, <4>1, <4>2
    <3>3. CASE c.p99 = pair.p99
      <4>1. pair.p50 > 0 BY <2>7, <2>10
      <4>2. 100 * (pair.p99 - pair.p50) >= MinSpread * pair.p50 BY <4>1 DEF Usable
      <4>3. MinSpread * c.p50 <= MinSpread * pair.p50 /\ MinSpread * pair.p50 \in Int
        BY <1>0, <2>7, TimesMono
      <4>. QED BY <2>7, <3>1, <3>3, <4>2, <4>3
    <3>. QED BY <2>6, <3>2, <3>3 DEF AtMost2
  <2>11. Usable(c) BY <2>7, <2>9, <2>10 DEF Usable
  <2>. QED BY <2>7, <2>11 DEF c, cap, bound
<1>. QED BY <1>1, <1>2

\* Both percentiles of a usable pair are apart.
LEMMA UsableSpread ==
  ASSUME NEW r, r.p50 \in Int, r.p99 \in Int, Usable(r)
  PROVE  r.p50 < r.p99
<1>1. CASE r.p50 <= 0 BY <1>1 DEF Usable
<1>2. CASE r.p50 > 0
  <2>1. 100 * (r.p99 - r.p50) >= MinSpread * r.p50 BY <1>2 DEF Usable
  <2>2. MinSpread * r.p50 >= 1 BY <1>2, ScoringAssumption
  <2>. QED BY <2>1, <2>2, ScoringAssumption
<1>. QED BY <1>1, <1>2

\* The pair a scorer works with: the bootstrap anchor, or a learned pair that is apart
\* and, where the caps are on, below them.
LEMMA ResolvedIs ==
  ASSUME NEW tiers \in TierRows, NEW allowed, NEW anchor \in Pair
  PROVE  LET r == ResolvedOrBootstrap(tiers, allowed, anchor)
         IN  /\ {"p50", "p99", "source"} \subseteq DOMAIN r
             /\ r.p50 \in Int /\ r.p99 \in Int
             /\ CapMultiplier > 0 /\ anchor.p99 > 0 =>
                  \/ r.p50 = anchor.p50 /\ r.p99 = anchor.p99
                  \/ /\ r.p50 < r.p99
                     /\ r.p50 <= P50Bound(anchor, CapMultiplier, SpreadFraction)
                     /\ r.p99 <= P99Cap(anchor, CapMultiplier)
<1>. DEFINE found == ResolveBaseline(tiers, allowed)
            r == ResolvedOrBootstrap(tiers, allowed, anchor)
            c == CappedPair(found, anchor, CapMultiplier, SpreadFraction)
<1>0. /\ tiers.own \in BaselineRow /\ tiers.global \in BaselineRow
      /\ anchor.p50 \in Int /\ anchor.p99 \in Int /\ CapMultiplier \in Nat /\ SpreadFraction \in Nat
  BY ScoringAssumption DEF TierRows, Pair
<1>1. CASE found.source = "missing"
  <2>1. r = [p50 |-> anchor.p50, p99 |-> anchor.p99, source |-> "bootstrap"]
    BY <1>1 DEF ResolvedOrBootstrap
  <2>. QED BY <1>0, <2>1
<1>2. CASE found.source # "missing"
  <2>1. r = c BY <1>2 DEF ResolvedOrBootstrap
  <2>2. PICK row0 \in BaselineRow, from \in {"own", "global"} :
          Answers(row0) /\ found = [p50 |-> row0.p50, p99 |-> row0.p99, source |-> from]
    BY <1>0, <1>2 DEF ResolveBaseline
  <2>3. /\ {"p50", "p99", "source"} \subseteq DOMAIN found
        /\ found.p50 \in Int /\ found.p99 \in Int /\ Usable(found)
    BY <2>2 DEF BaselineRow, Answers, Usable
  <2>. HIDE DEF found
  <2>4. {"p50", "p99", "source"} \subseteq DOMAIN c BY <2>3 DEF CappedPair
  <2>5. CASE anchor.p99 > 0
    <3>1. /\ c.p50 \in Int /\ c.p99 \in Int /\ Usable(c)
          /\ CapMultiplier > 0 => /\ c.p50 <= P50Bound(anchor, CapMultiplier, SpreadFraction)
                                 /\ c.p99 <= P99Cap(anchor, CapMultiplier)
      BY <1>0, <2>3, <2>5, CappedUsable
    <3>. HIDE DEF c
    <3>2. c.p50 < c.p99 BY <3>1, UsableSpread
    <3>. QED BY <2>1, <2>4, <3>1, <3>2
  <2>6. CASE ~(anchor.p99 > 0)
    <3>1. c = found BY <2>6 DEF CappedPair
    <3>. QED BY <2>1, <2>3, <2>6, <3>1
  <2>. QED BY <2>5, <2>6
<1>. QED BY <1>1, <1>2

\* An axis is a percentage, whichever tier its pair is taken from.
LEMMA AxisType ==
  ASSUME NEW v \in Int, NEW tiers \in TierRows, NEW anchor \in Pair
  PROVE  Axis(v, tiers, anchor) \in Percent /\ AxisInverted(v, tiers, anchor) \in Percent
<1>. DEFINE r == ResolvedOrBootstrap(tiers, AnyTier, anchor)
<1>1. r.p50 \in Int /\ r.p99 \in Int BY ResolvedIs
<1>2. Axis(v, tiers, anchor) = Normalise(v, r) /\ AxisInverted(v, tiers, anchor) = NormaliseInverted(v, r)
  BY DEF Axis, AxisInverted
<1>. HIDE DEF r
<1>. QED BY <1>1, <1>2, NormaliseType

\* An axis is monotone in the value it measures.
LEMMA AxisMono ==
  ASSUME NEW v \in Int, NEW u \in Int, v <= u, NEW tiers \in TierRows, NEW anchor \in Pair
  PROVE  Axis(v, tiers, anchor) <= Axis(u, tiers, anchor)
<1>. DEFINE r == ResolvedOrBootstrap(tiers, AnyTier, anchor)
<1>1. r.p50 \in Int /\ r.p99 \in Int BY ResolvedIs
<1>2. Axis(v, tiers, anchor) = Normalise(v, r) /\ Axis(u, tiers, anchor) = Normalise(u, r)
  BY DEF Axis
<1>. HIDE DEF r
<1>. QED BY <1>1, <1>2, NormaliseMono

-----------------------------------------------------------------------------
(* Bands.                                                                  *)

Finding == {NoFinding} \cup Score

\* The rank of a score's band, by the cuts.
LEMMA BandRankIs ==
  ASSUME NEW s \in Int
  PROVE  BandRank(s) = IF s < 0 THEN 0 ELSE IF s <= InformationalMax THEN 1
                       ELSE IF s < HighThreshold THEN 2 ELSE IF s < CriticalThreshold THEN 3 ELSE 4
<1>. USE DEF BandRank, ScoreToBand, InformationalMax, ModerateThreshold, HighThreshold, CriticalThreshold
<1>1. CASE s < 0 BY <1>1
<1>2. CASE s >= 0 /\ s <= InformationalMax BY <1>2
<1>3. CASE s > InformationalMax /\ s < HighThreshold BY <1>3
<1>4. CASE s >= HighThreshold /\ s < CriticalThreshold BY <1>4
<1>5. CASE s >= CriticalThreshold BY <1>5
<1>. QED BY <1>1, <1>2, <1>3, <1>4, <1>5

\* A higher score has no lower band.
LEMMA BandRankMono ==
  ASSUME NEW a \in Int, NEW b \in Int, a <= b PROVE BandRank(a) <= BandRank(b)
<1>. DEFINE R(s) == IF s < 0 THEN 0 ELSE IF s <= InformationalMax THEN 1
                    ELSE IF s < HighThreshold THEN 2 ELSE IF s < CriticalThreshold THEN 3 ELSE 4
<1>1. BandRank(a) = R(a) /\ BandRank(b) = R(b) BY BandRankIs
<1>2. R(a) <= R(b) BY DEF InformationalMax, ModerateThreshold, HighThreshold, CriticalThreshold
<1>. HIDE DEF R
<1>. QED BY <1>1, <1>2

\* A result is an integer: no finding, which is negative, or a score.
LEMMA FindingInt ==
  /\ \A s \in Finding : s \in Int /\ (s = NoFinding \/ s \in Score) /\ NoFinding <= s
  /\ \A s \in Score : s \in Finding /\ s \in Int /\ 0 <= s /\ s <= 10000
  /\ NoFinding \in Finding /\ NoFinding \in Int /\ NoFinding < 0
<1>1. NoFinding \in Int /\ NoFinding < 0 BY DEF NoFinding
<1>2. \A s \in Score : s \in Int /\ 0 <= s /\ s <= 10000 BY DEF Score
<1>3. \A s : s \in Finding <=> s = NoFinding \/ s \in Score BY DEF Finding
<1>4. \A s \in Finding : s \in Int /\ NoFinding <= s
  <2>. SUFFICES ASSUME NEW s \in Finding PROVE s \in Int /\ NoFinding <= s OBVIOUS
  <2>1. CASE s = NoFinding BY <1>1, <2>1
  <2>2. CASE s \in Score BY <1>1, <1>2, <2>2
  <2>. QED BY <1>3, <2>1, <2>2
<1>. QED BY <1>1, <1>2, <1>3, <1>4

\* A result is an integer no less than no finding.
LEMMA FindingType == ASSUME NEW s \in Finding PROVE s \in Int /\ NoFinding <= s
BY FindingInt

\* A score is a result between 0 and 10000.
LEMMA ScoreType == ASSUME NEW s \in Score PROVE s \in Finding /\ s \in Int /\ 0 <= s /\ s <= 10000
<1>1. s \in Finding BY DEF Finding
<1>2. s \in Int /\ 0 <= s /\ s <= 10000 BY DEF Score
<1>. QED BY <1>1, <1>2

\* A capped score is a score.
LEMMA AtMost2Score == ASSUME NEW s \in Score, NEW c \in Nat PROVE AtMost2(s, c) \in Score
<1>1. CASE s < c BY <1>1 DEF AtMost2
<1>2. CASE ~(s < c)
  <2>1. AtMost2(s, c) = c BY <1>2 DEF AtMost2
  <2>0. s \in Int /\ s <= 10000 BY DEF Score
  <2>2. c \in 0 .. 10000 BY <1>2, <2>0, SMTT(30)
  <2>. QED BY <2>1, <2>2 DEF Score
<1>. QED BY <1>1, <1>2

-----------------------------------------------------------------------------
(* front_running.                                                          *)

FrontSum(t) ==
  LET w == FrontRunningCfg.weights
  IN  w.outcome * OutcomeScore(t.outcome)
      + w.delta * Normalise(DeltaInv(t.deltaMs), FrontRunningCfg.deltaInv)
      + w.recurrence * Axis(t.wins, t.tiers.recurrence, FrontRunningCfg.recurrence)
      + w.structure * Structure(t)

\* The cap of a front-runner with too few wins is a score of the High band.
LEMMA FrontRunningCapIs == FrontRunningCfg.highBandCap \in HighThreshold .. CriticalThreshold - 1
<1>. DEFINE c == FrontRunningCfg.highBandCap
<1>1. c \in Nat BY OrderingCfgTypes
<1>2. HighThreshold <= c /\ c < CriticalThreshold
  BY OrderingBandContracts DEF InBand
<1>. HIDE DEF c
<1>3. c \in HighThreshold .. CriticalThreshold - 1
  BY <1>1, <1>2 DEF HighThreshold, CriticalThreshold
<1>. QED BY <1>3 DEF c

\* What FrontRunningScore computes.
LEMMA FrontRunningIs ==
  ASSUME NEW t PROVE
    FrontRunningScore(t) =
      IF t.wins < FrontRunningCfg.minWins /\ FinaliseScore(FrontSum(t)) >= CriticalThreshold
      THEN FrontRunningCfg.highBandCap ELSE FinaliseScore(FrontSum(t))
BY DEF FrontRunningScore, FrontSum

\* The weighted sum of front_running and its terms are natural numbers.
LEMMA FrontSumType ==
  ASSUME NEW t, FrontRunningTx(t)
  PROVE  /\ FrontSum(t) \in Int
         /\ FrontRunningCfg.weights.outcome * OutcomeScore(t.outcome) \in Nat
         /\ FrontRunningCfg.weights.delta * Normalise(DeltaInv(t.deltaMs), FrontRunningCfg.deltaInv) \in Nat
         /\ FrontRunningCfg.weights.structure * Structure(t) \in Nat
         /\ FrontRunningCfg.weights.recurrence
              * Axis(t.wins, t.tiers.recurrence, FrontRunningCfg.recurrence) \in Nat
<1>. DEFINE w == FrontRunningCfg.weights
<1>0. w.outcome \in Nat /\ w.delta \in Nat /\ w.recurrence \in Nat /\ w.structure \in Nat
  BY OrderingCfgTypes
<1>1. OutcomeScore(t.outcome) \in Nat BY DEF OutcomeScore
<1>2. DeltaInv(t.deltaMs) \in Int
  <2>. DEFINE d == AtLeast2(t.deltaMs, 1)
  <2>1. d \in Nat /\ d > 0 BY DEF FrontRunningTx, AtLeast2
  <2>. HIDE DEF d
  <2>2. 10000 \div d \in Int BY <2>1, Quotient
  <2>. QED BY <2>2 DEF DeltaInv, d
<1>3. Normalise(DeltaInv(t.deltaMs), FrontRunningCfg.deltaInv) \in Nat
  <2>1. FrontRunningCfg.deltaInv.p50 \in Int /\ FrontRunningCfg.deltaInv.p99 \in Int
    BY OrderingCfgTypes DEF Pair
  <2>. QED BY <1>2, <2>1, NormaliseType DEF Percent
<1>4. Axis(t.wins, t.tiers.recurrence, FrontRunningCfg.recurrence) \in Nat
  <2>1. t.wins \in Int /\ t.tiers.recurrence \in TierRows /\ FrontRunningCfg.recurrence \in Pair
    BY OrderingCfgTypes DEF FrontRunningTx
  <2>. QED BY <2>1, AxisType DEF Percent
<1>5. Structure(t) \in Nat
  <2>. DEFINE f == Normalise(t.feeGap, FrontRunningCfg.feeDelta)
              g == Normalise(t.ttlGap, FrontRunningCfg.ttlDelta)
              h == IF t.sharesChange THEN 100 ELSE 0
  <2>1. /\ FrontRunningCfg.feeDelta.p50 \in Int /\ FrontRunningCfg.feeDelta.p99 \in Int
        /\ FrontRunningCfg.ttlDelta.p50 \in Int /\ FrontRunningCfg.ttlDelta.p99 \in Int
        /\ t.feeGap \in Int /\ t.ttlGap \in Int
    BY OrderingCfgTypes DEF Pair, FrontRunningTx
  <2>2. f \in Percent /\ g \in Percent BY <2>1, NormaliseType
  <2>3. h \in 0 .. 100 OBVIOUS
  <2>4. Structure(t) = ((100 - f) + (100 - g) + h) \div 3 BY DEF Structure
  <2>. HIDE DEF f, g, h
  <2>. QED BY <2>2, <2>3, <2>4 DEF Percent
<1>6. /\ w.outcome * OutcomeScore(t.outcome) \in Nat
      /\ w.delta * Normalise(DeltaInv(t.deltaMs), FrontRunningCfg.deltaInv) \in Nat
      /\ w.structure * Structure(t) \in Nat
      /\ w.recurrence * Axis(t.wins, t.tiers.recurrence, FrontRunningCfg.recurrence) \in Nat
  BY <1>0, <1>1, <1>3, <1>4, <1>5, TimesNat
<1>. QED BY <1>6 DEF FrontSum

\* front_running gives a score.
LEMMA FrontRunningType ==
  ASSUME NEW t, FrontRunningTx(t) PROVE FrontRunningScore(t) \in Score
<1>1. FinaliseScore(FrontSum(t)) \in Score BY FrontSumType, FinaliseType
<1>2. FrontRunningCfg.highBandCap \in Score
  BY FrontRunningCapIs DEF HighThreshold, CriticalThreshold, Score
<1>. QED BY <1>1, <1>2, FrontRunningIs

\* One more win never lowers the band: the cap for few wins stays above what is not
\* Critical.
LEMMA MoreWinsHeard ==
  ASSUME NEW t, FrontRunningTx(t)
  PROVE  /\ FrontRunningGate(MoreWins(t)) = FrontRunningGate(t)
         /\ FrontRunningScore(MoreWins(t)) \in Score
         /\ BandRank(FrontRunningScore(t)) <= BandRank(FrontRunningScore(MoreWins(t)))
<1>. DEFINE m == MoreWins(t)
            x == FinaliseScore(FrontSum(t))
            y == FinaliseScore(FrontSum(m))
            cap == FrontRunningCfg.highBandCap
<1>1. /\ m.wins = t.wins + 1 /\ m.tiers = t.tiers /\ m.kind = t.kind /\ m.shared = t.shared
      /\ m.outcome = t.outcome /\ m.deltaMs = t.deltaMs /\ m.feeGap = t.feeGap
      /\ m.ttlGap = t.ttlGap /\ m.sharesChange = t.sharesChange /\ DOMAIN m = DOMAIN t
  BY DEF MoreWins, FrontRunningTx
<1>2. t.wins \in Nat /\ t.tiers.recurrence \in TierRows /\ FrontRunningCfg.recurrence \in Pair
      /\ FrontRunningCfg.weights.recurrence \in Nat /\ FrontRunningCfg.minWins \in Nat
  BY OrderingCfgTypes DEF FrontRunningTx
<1>. HIDE DEF m
<1>3. FrontRunningTx(m) BY <1>1, <1>2 DEF FrontRunningTx
<1>4. FrontSum(t) <= FrontSum(m)
  <2>. DEFINE a == Axis(t.wins, t.tiers.recurrence, FrontRunningCfg.recurrence)
              b == Axis(m.wins, t.tiers.recurrence, FrontRunningCfg.recurrence)
              v == FrontRunningCfg.weights.recurrence
              p == FrontRunningCfg.weights.outcome * OutcomeScore(t.outcome)
              q == FrontRunningCfg.weights.delta * Normalise(DeltaInv(t.deltaMs), FrontRunningCfg.deltaInv)
              r == FrontRunningCfg.weights.structure * Structure(t)
  <2>1. a <= b BY <1>1, <1>2, AxisMono
  <2>2. a \in Int /\ b \in Int BY <1>1, <1>2, AxisType, SMTT(30) DEF Percent
  <2>. HIDE DEF a, b
  <2>3. v * a <= v * b /\ v * a \in Int /\ v * b \in Int BY <1>2, <2>1, <2>2, TimesMono
  <2>4. p \in Nat /\ q \in Nat /\ r \in Nat BY FrontSumType
  <2>5. Structure(m) = Structure(t) BY <1>1 DEF Structure
  <2>6. FrontSum(t) = p + q + v * a + r /\ FrontSum(m) = p + q + v * b + r
    BY <1>1, <2>5 DEF FrontSum, a, b
  <2>. HIDE DEF v, p, q, r
  <2>. QED BY <2>3, <2>4, <2>6
<1>5. x <= y /\ x \in Score /\ y \in Score
  BY <1>3, <1>4, FrontSumType, FinaliseMono, FinaliseType
<1>6. /\ FrontRunningScore(t) = IF t.wins < FrontRunningCfg.minWins /\ x >= CriticalThreshold THEN cap ELSE x
      /\ FrontRunningScore(m) = IF m.wins < FrontRunningCfg.minWins /\ y >= CriticalThreshold THEN cap ELSE y
  BY FrontRunningIs
<1>7. cap \in HighThreshold .. CriticalThreshold - 1 BY FrontRunningCapIs
<1>. HIDE DEF x, y, cap
<1>8. FrontRunningScore(t) \in Int /\ FrontRunningScore(m) \in Int
  BY <1>5, <1>6, <1>7 DEF HighThreshold, CriticalThreshold, Score
<1>9. BandRank(FrontRunningScore(t)) <= BandRank(FrontRunningScore(m))
  <2>1. CASE FrontRunningScore(t) <= FrontRunningScore(m) BY <1>8, <2>1, BandRankMono
  <2>2. CASE FrontRunningScore(m) < FrontRunningScore(t)
    <3>1. FrontRunningScore(m) = cap /\ FrontRunningScore(t) < CriticalThreshold
      BY <1>1, <1>2, <1>5, <1>6, <1>7, <2>2 DEF HighThreshold, CriticalThreshold, Score
    <3>2. BandRank(cap) = 3 BY <1>7, BandRankIs, Cuts, SMTT(30)
    <3>3. BandRank(FrontRunningScore(t)) <= 3 BY <1>8, <3>1, BandRankIs, Cuts, SMTT(30)
    <3>. QED BY <3>1, <3>2, <3>3
  <2>. QED BY <1>8, <2>1, <2>2
<1>10. FrontRunningGate(m) = FrontRunningGate(t) BY <1>1 DEF FrontRunningGate
<1>. QED BY <1>3, <1>9, <1>10, FrontRunningType DEF m

-----------------------------------------------------------------------------
(* circular.                                                               *)

RingAxes == [amount : Percent, recurrence : Percent, entropy : Percent, auxiliary : Percent,
             speed : Percent]

\* The axes of a ring are percentages.
LEMMA CircularAxesType == ASSUME NEW t, CircularTx(t) PROVE CircularAxes(t) \in RingAxes
<1>. DEFINE c == CircularCfg
<1>1. /\ c.amountSim.p50 \in Int /\ c.amountSim.p99 \in Int
      /\ c.entropyInv.p50 \in Int /\ c.entropyInv.p99 \in Int
      /\ c.temporal.p50 \in Int /\ c.temporal.p99 \in Int
      /\ c.hopInv.p50 \in Int /\ c.hopInv.p99 \in Int /\ c.recurrence \in Pair
  BY OrderingCfgTypes DEF Pair
<1>2. /\ t.tiers.recurrence \in TierRows /\ t.recurrence \in Int /\ t.amountSim \in Int
      /\ t.entropy \in Int /\ 100 - t.entropy \in Int /\ t.temporal \in Int /\ t.hopSlots \in Int
  BY DEF CircularTx
<1>. DEFINE A == Normalise(t.amountSim, c.amountSim)
            R == Axis(t.recurrence, t.tiers.recurrence, c.recurrence)
            E == Normalise(100 - t.entropy, c.entropyInv)
            T == Normalise(t.temporal, c.temporal)
            X == ((IF t.round THEN 100 ELSE 0) + T) \div 2
            h == AtLeast2(t.hopSlots, 1)
            S == Normalise(1000 \div h, c.hopInv)
<1>3. A \in Percent /\ E \in Percent /\ T \in Percent BY <1>1, <1>2, NormaliseType
<1>4. R \in Percent BY <1>1, <1>2, AxisType
<1>5. X \in Percent
  <2>. HIDE DEF T
  <2>1. T \in Int /\ 0 <= T /\ T <= 100 BY <1>3 DEF Percent
  <2>2. CASE t.round BY <2>1, <2>2 DEF Percent
  <2>3. CASE ~t.round BY <2>1, <2>3 DEF Percent
  <2>. QED BY <2>2, <2>3
<1>6. S \in Percent
  <2>1. h \in Nat /\ h > 0 BY <1>2 DEF AtLeast2
  <2>. HIDE DEF h
  <2>2. 1000 \div h \in Int BY <2>1, Quotient
  <2>. QED BY <1>1, <2>2, NormaliseType
<1>7. CircularAxes(t) = [amount |-> A, recurrence |-> R, entropy |-> E, auxiliary |-> X, speed |-> S]
  BY DEF CircularAxes
<1>. HIDE DEF A, R, E, X, S
<1>. QED BY <1>3, <1>4, <1>5, <1>6, <1>7 DEF RingAxes

\* The weights of circular are natural numbers.
LEMMA CircularWeights ==
  LET w == CircularCfg.weights
  IN  w.amount \in Nat /\ w.recurrence \in Nat /\ w.entropy \in Nat /\ w.auxiliary \in Nat /\ w.speed \in Nat
BY OrderingCfgTypes

\* The thresholds of circular are natural numbers, and its cap is a Moderate score.
LEMMA CircularThresholds ==
  /\ CircularCfg.moderateCap \in ModerateThreshold .. HighThreshold - 1
  /\ CircularCfg.corroborationFloor \in Nat /\ CircularCfg.reason \in Nat
  /\ CircularCfg.slowHopSlots \in Nat /\ CircularCfg.minLength \in Nat
<1>. DEFINE c == CircularCfg.moderateCap
<1>1. c \in Nat BY OrderingCfgTypes
<1>2. ModerateThreshold <= c /\ c < HighThreshold BY OrderingBandContracts DEF InBand
<1>. HIDE DEF c
<1>3. c \in ModerateThreshold .. HighThreshold - 1
  BY <1>1, <1>2 DEF HighThreshold, ModerateThreshold
<1>. QED BY <1>3, OrderingCfgTypes DEF c

\* The weighted sum is a score, grows with recurrence, and holds the two axes a repeated
\* ring has.
LEMMA CircularSumIs ==
  ASSUME NEW a \in RingAxes, NEW b \in RingAxes, a.recurrence <= b.recurrence,
         b.amount = a.amount, b.entropy = a.entropy, b.auxiliary = a.auxiliary, b.speed = a.speed
  PROVE  /\ CircularSum(a) \in Score /\ CircularSum(b) \in Score
         /\ CircularSum(a) <= CircularSum(b)
         /\ a.amount > CircularCfg.reason /\ a.recurrence > CircularCfg.reason =>
              CircularSum(a) > InformationalMax
<1>. DEFINE w == CircularCfg.weights
            p == w.amount * a.amount
            q == w.recurrence * a.recurrence
            r == w.recurrence * b.recurrence
            e == w.entropy * a.entropy
            x == w.auxiliary * a.auxiliary
            s == w.speed * a.speed
<1>0. /\ a.amount \in Nat /\ a.recurrence \in Nat /\ a.entropy \in Nat /\ a.auxiliary \in Nat
      /\ a.speed \in Nat /\ b.recurrence \in Nat
  BY DEF RingAxes, Percent
<1>1. p \in Nat /\ q \in Nat /\ r \in Nat /\ e \in Nat /\ x \in Nat /\ s \in Nat
  BY <1>0, CircularWeights, TimesNat
<1>2. q <= r BY <1>0, CircularWeights, TimesMono
<1>3. CircularSum(a) = FinaliseScore(p + q + e + x + s) /\ CircularSum(b) = FinaliseScore(p + r + e + x + s)
  BY DEF CircularSum
<1>4. ASSUME a.amount > CircularCfg.reason, a.recurrence > CircularCfg.reason
      PROVE  p + q > InformationalMax
  <2>. DEFINE n == CircularCfg.reason + 1
              wa == w.amount
              wr == w.recurrence
  <2>1. n \in Nat /\ n <= a.amount /\ n <= a.recurrence /\ wa \in Nat /\ wr \in Nat
    BY <1>0, <1>4, CircularThresholds, CircularWeights
  <2>2. (wa + wr) * n > InformationalMax BY RepeatedRingCounts
  <2>3. wa * n <= p /\ wr * n <= q /\ wa * n \in Int /\ wr * n \in Int
    BY <1>0, <2>1, TimesMono
  <2>. HIDE DEF n, p, q, wa, wr
  <2>4. (wa + wr) * n = wa * n + wr * n BY <2>1
  <2>5. InformationalMax \in Int BY DEF InformationalMax, ModerateThreshold
  <2>. QED BY <1>1, <2>2, <2>3, <2>4, <2>5
<1>. HIDE DEF p, q, r, e, x, s
<1>5. p + q + e + x + s \in Int /\ p + r + e + x + s \in Int
      /\ p + q + e + x + s <= p + r + e + x + s
  BY <1>1, <1>2
<1>6. ASSUME p + q > InformationalMax PROVE CircularSum(a) > InformationalMax
  <2>1. p + q + e + x + s > InformationalMax
    BY <1>1, <1>6 DEF InformationalMax, ModerateThreshold
  <2>. QED BY <1>3, <1>5, <2>1 DEF FinaliseScore, AtLeast2, AtMost2, InformationalMax, ModerateThreshold
<1>. QED BY <1>3, <1>4, <1>5, <1>6, FinaliseType, FinaliseMono

\* What RingScore computes: silence, the slow one-off's cap, or the structural cap.
LEMMA RingScoreIs ==
  ASSUME NEW t, CircularTx(t), NEW a \in RingAxes
  PROVE  LET cap == CircularCfg.moderateCap
             sum == CircularSum(a)
             over == t.netLoss > ExpectedFee(t) * CircularCfg.feeStrict
             kept == IF StructuralOnly(a) \/ over THEN AtMost2(sum, cap) ELSE sum
         IN  RingScore(t, a) =
               IF StructuralOnly(a) /\ ~RecurringLayering(t, a) THEN NoFinding
               ELSE IF SlowOneOff(t, a) THEN AtMost2(kept, InformationalMax) ELSE kept
<1>1. CircularSum(a) \in Int /\ CircularCfg.moderateCap \in Int
  <2>1. a.recurrence <= a.recurrence BY DEF RingAxes, Percent
  <2>2. CircularSum(a) \in Score BY <2>1, CircularSumIs
  <2>3. CircularCfg.moderateCap \in Nat BY OrderingCfgTypes
  <2>. QED BY <2>2, <2>3, ScoreType
<1>. QED BY <1>1 DEF RingScore, AtMost2

\* A ring's score is a finding or none; more recurrence never lowers it.
LEMMA RingScoreMono ==
  ASSUME NEW t, CircularTx(t), NEW u, CircularTx(u), NEW a \in RingAxes, NEW b \in RingAxes,
         a.recurrence <= b.recurrence, u.netLoss = t.netLoss, u.length = t.length,
         u.hopSlots = t.hopSlots,
         b.amount = a.amount, b.entropy = a.entropy, b.auxiliary = a.auxiliary, b.speed = a.speed
  PROVE  /\ RingScore(t, a) \in Finding
         /\ RingScore(t, a) <= RingScore(u, b)
<1>. DEFINE cap == CircularCfg.moderateCap
            over == t.netLoss > ExpectedFee(t) * CircularCfg.feeStrict
            K(x) == IF StructuralOnly(a) \/ over THEN AtMost2(x, cap) ELSE x
            x == CircularSum(a)
            y == CircularSum(b)
<1>1. x \in Score /\ y \in Score /\ x <= y BY CircularSumIs
<1>2. cap \in ModerateThreshold .. HighThreshold - 1 BY CircularThresholds
<1>3. StructuralOnly(b) = StructuralOnly(a) BY DEF StructuralOnly
<1>4. RecurringLayering(t, a) => RecurringLayering(u, b)
  BY CircularThresholds DEF RecurringLayering, RingAxes, Percent
<1>5. SlowOneOff(u, b) => SlowOneOff(t, a)
  <2>1. /\ a.entropy \in Int /\ a.speed \in Int /\ a.recurrence \in Int /\ b.recurrence \in Int
        /\ CircularCfg.corroborationFloor \in Int
    BY CircularThresholds DEF RingAxes, Percent
  <2>2. a.entropy + a.speed + a.recurrence <= b.entropy + b.speed + b.recurrence BY <2>1
  <2>. QED BY <2>1, <2>2 DEF SlowOneOff
<1>6. (u.netLoss > ExpectedFee(u) * CircularCfg.feeStrict) = over BY DEF ExpectedFee
<1>7. RingScore(t, a) = IF StructuralOnly(a) /\ ~RecurringLayering(t, a) THEN NoFinding
                        ELSE IF SlowOneOff(t, a) THEN AtMost2(K(x), InformationalMax) ELSE K(x)
  BY RingScoreIs
<1>8. RingScore(u, b) = IF StructuralOnly(a) /\ ~RecurringLayering(u, b) THEN NoFinding
                        ELSE IF SlowOneOff(u, b) THEN AtMost2(K(y), InformationalMax) ELSE K(y)
  BY <1>3, <1>6, RingScoreIs, SMTT(30)
<1>. HIDE DEF x, y, over, cap
<1>9. K(x) \in Score /\ K(y) \in Score /\ K(x) <= K(y)
  BY <1>1, <1>2 DEF AtMost2, Score, ModerateThreshold, HighThreshold
<1>. HIDE DEF K
<1>10. /\ AtMost2(K(x), InformationalMax) \in Score /\ AtMost2(K(y), InformationalMax) \in Score
       /\ AtMost2(K(x), InformationalMax) <= AtMost2(K(y), InformationalMax)
       /\ AtMost2(K(x), InformationalMax) <= K(y)
  <2>0. InformationalMax \in Nat /\ InformationalMax \in Int BY Cuts
  <2>1. K(x) \in Int /\ K(y) \in Int BY <1>9, ScoreType
  <2>2. AtMost2(K(x), InformationalMax) <= AtMost2(K(y), InformationalMax)
    BY <1>9, <2>0, <2>1, AtMost2Mono
  <2>3. AtMost2(K(x), InformationalMax) <= K(x) /\ AtMost2(K(x), InformationalMax) \in Int
    BY <2>0, <2>1, AtMost2Is
  <2>4. AtMost2(K(x), InformationalMax) <= K(y) BY <1>9, <2>1, <2>3
  <2>5. AtMost2(K(x), InformationalMax) \in Score /\ AtMost2(K(y), InformationalMax) \in Score
    BY <1>9, <2>0, AtMost2Score
  <2>. QED BY <2>2, <2>4, <2>5
<1>11. RingScore(t, a) \in Finding BY <1>7, <1>9, <1>10, FindingInt
<1>12. RingScore(u, b) \in Finding BY <1>8, <1>9, <1>10, FindingInt
<1>13. RingScore(t, a) <= RingScore(u, b)
  <2>1. CASE RingScore(t, a) = NoFinding BY <1>12, <2>1, FindingType
  <2>2. CASE RingScore(t, a) # NoFinding
    <3>1. ~(StructuralOnly(a) /\ ~RecurringLayering(t, a)) BY <1>7, <2>2
    <3>2. ~(StructuralOnly(a) /\ ~RecurringLayering(u, b)) BY <1>4, <3>1
    <3>3. CASE SlowOneOff(u, b) BY <1>5, <1>7, <1>8, <1>10, <3>1, <3>2, <3>3
    <3>4. CASE ~SlowOneOff(u, b) BY <1>7, <1>8, <1>9, <1>10, <3>1, <3>2, <3>4
    <3>. QED BY <3>3, <3>4
  <2>. QED BY <2>1, <2>2
<1>. QED BY <1>11, <1>13

\* circular gives no finding or a score.
LEMMA CircularType == ASSUME NEW t, CircularTx(t) PROVE CircularScore(t) \in Finding
<1>1. CircularAxes(t) \in RingAxes BY CircularAxesType
<1>2. CircularAxes(t).recurrence <= CircularAxes(t).recurrence BY <1>1 DEF RingAxes, Percent
<1>. QED BY <1>1, <1>2, RingScoreMono DEF CircularScore

\* One more repetition of the ring never lowers its score.
LEMMA MoreRepeatsHeard ==
  ASSUME NEW t, CircularTx(t)
  PROVE  /\ CircularGate(MoreRepeats(t)) = CircularGate(t)
         /\ CircularScore(MoreRepeats(t)) \in Finding
         /\ CircularScore(t) <= CircularScore(MoreRepeats(t))
<1>. DEFINE m == MoreRepeats(t)
<1>1. /\ m.recurrence = t.recurrence + 1 /\ m.tiers = t.tiers /\ m.kind = t.kind
      /\ m.length = t.length /\ m.netLoss = t.netLoss /\ m.amountSim = t.amountSim
      /\ m.entropy = t.entropy /\ m.round = t.round /\ m.temporal = t.temporal
      /\ m.hopSlots = t.hopSlots /\ DOMAIN m = DOMAIN t
  BY DEF MoreRepeats, CircularTx
<1>2. t.recurrence \in Nat /\ t.tiers.recurrence \in TierRows /\ CircularCfg.recurrence \in Pair
  BY OrderingCfgTypes DEF CircularTx
<1>. HIDE DEF m
<1>3. CircularTx(m) BY <1>1, <1>2 DEF CircularTx
<1>4. CircularAxes(t) \in RingAxes /\ CircularAxes(m) \in RingAxes BY <1>3, CircularAxesType
<1>5. /\ CircularAxes(t).recurrence = Axis(t.recurrence, t.tiers.recurrence, CircularCfg.recurrence)
      /\ CircularAxes(m).recurrence = Axis(m.recurrence, t.tiers.recurrence, CircularCfg.recurrence)
  BY <1>1 DEF CircularAxes
<1>6. CircularAxes(t).recurrence <= CircularAxes(m).recurrence BY <1>1, <1>2, <1>5, AxisMono
<1>7. /\ CircularAxes(m).amount = CircularAxes(t).amount
      /\ CircularAxes(m).entropy = CircularAxes(t).entropy
      /\ CircularAxes(m).auxiliary = CircularAxes(t).auxiliary
      /\ CircularAxes(m).speed = CircularAxes(t).speed
  BY <1>1 DEF CircularAxes
<1>8. CircularScore(t) <= CircularScore(m)
  BY <1>1, <1>3, <1>4, <1>6, <1>7, RingScoreMono DEF CircularScore
<1>9. CircularGate(m) = CircularGate(t) BY <1>1 DEF CircularGate, ExpectedFee
<1>. QED BY <1>3, <1>8, <1>9, CircularType DEF m

\* A ring that repeats at the same amount is neither dropped nor hidden.
LEMMA RepeatedRingShown ==
  ASSUME NEW t, CircularTx(t), CircularGate(t),
         CircularAxes(t).amount > CircularCfg.reason, CircularAxes(t).recurrence > CircularCfg.reason
  PROVE  BandRank(CircularScore(t)) >= 2
<1>. DEFINE a == CircularAxes(t)
            x == CircularSum(a)
            cap == CircularCfg.moderateCap
<1>1. a \in RingAxes BY CircularAxesType
<1>2. a.recurrence <= a.recurrence BY <1>1 DEF RingAxes, Percent
<1>3. x \in Score /\ x > InformationalMax BY <1>1, <1>2, CircularSumIs
<1>4. RecurringLayering(t, a)
  <2>1. t.length \in Nat /\ CircularCfg.minLength \in Nat /\ CircularCfg.maxLength \in Nat
    BY OrderingCfgTypes DEF CircularTx
  <2>. QED BY <2>1 DEF RecurringLayering, CircularGate
<1>5. ~SlowOneOff(t, a)
  <2>1. a.entropy \in Nat /\ a.speed \in Nat /\ a.recurrence \in Nat BY <1>1 DEF RingAxes, Percent
  <2>2. a.recurrence >= CircularCfg.corroborationFloor
    BY <2>1, CircularThresholds, RepeatedRingCounts
  <2>. HIDE DEF a
  <2>. QED BY <2>1, <2>2, CircularThresholds DEF SlowOneOff
<1>6. cap \in ModerateThreshold .. HighThreshold - 1 BY CircularThresholds
<1>7. CircularScore(t) = x \/ CircularScore(t) = AtMost2(x, cap)
  BY <1>1, <1>4, <1>5, RingScoreIs DEF CircularScore
<1>. HIDE DEF x, cap
<1>8. CircularScore(t) \in Int /\ CircularScore(t) > InformationalMax
  <2>1. x \in Int /\ cap \in Int /\ cap > InformationalMax BY <1>3, <1>6, Cuts DEF Score
  <2>. QED BY <1>3, <1>7, <2>1, AtMost2Is
<1>. QED BY <1>8, BandRankIs DEF InformationalMax, ModerateThreshold, HighThreshold, CriticalThreshold

-----------------------------------------------------------------------------
(* sandwich.                                                               *)

\* A finite set has an element that no other exceeds, first by one measure, then by a
\* second one.
LEMMA Extreme ==
  ASSUME NEW S, S # {}, IsFiniteSet(S), NEW f \in [S -> Int], NEW g \in [S -> Int]
  PROVE  \E n \in S : \A m \in S : ~(f[n] < f[m] \/ (f[m] = f[n] /\ g[n] < g[m]))
<1>. DEFINE F == {f[n] : n \in S}
            M == Max(F)
            T == {n \in S : f[n] = M}
            G == {g[n] : n \in T}
<1>1. F \in SUBSET Int /\ F # {} OBVIOUS
<1>2. IsFiniteSet(F) BY FiniteImage
<1>3. M \in F /\ \A x \in F : x <= M
  <2>. HIDE DEF F
  <2>. QED BY <1>1, <1>2, MaxOfFinite
<1>4. \A n \in S : f[n] <= M BY <1>3
<1>5. T # {} BY <1>3
<1>. HIDE DEF M
<1>6. G \in SUBSET Int /\ G # {} BY <1>5
<1>7. IsFiniteSet(G)
  <2>1. G \subseteq {g[n] : n \in S} OBVIOUS
  <2>. QED BY <2>1, FiniteImage
<1>8. Max(G) \in G /\ \A x \in G : x <= Max(G)
  <2>. HIDE DEF G
  <2>. QED BY <1>6, <1>7, MaxOfFinite
<1>9. PICK n \in T : g[n] = Max(G) BY <1>8
<1>10. ASSUME NEW m \in S PROVE ~(f[n] < f[m] \/ (f[m] = f[n] /\ g[n] < g[m]))
  <2>1. f[m] <= M /\ f[m] \in Int /\ f[n] = M /\ g[n] \in Int /\ g[m] \in Int BY <1>4
  <2>2. f[m] = f[n] => m \in T BY <2>1
  <2>3. m \in T => g[m] <= g[n] BY <1>8, <1>9
  <2>. QED BY <1>3, <1>4, <2>1, <2>2, <2>3
<1>. QED BY <1>10

IsLegs(S) == IsFiniteSet(S) /\ S # {} /\ \A n \in S : n.slot \in Int /\ n.idx \in Int

\* The last leg of a set of legs is one of them.
LEMMA LastLegIs == ASSUME NEW S, IsLegs(S) PROVE LastLeg(S) \in S
<1>. DEFINE f == [n \in S |-> n.slot]
            g == [n \in S |-> n.idx]
<1>1. f \in [S -> Int] /\ g \in [S -> Int] BY DEF IsLegs
<1>2. PICK n \in S : \A m \in S : ~(f[n] < f[m] \/ (f[m] = f[n] /\ g[n] < g[m]))
  <2>. HIDE DEF f, g
  <2>. QED BY <1>1, Extreme DEF IsLegs
<1>3. \A m \in S : f[m] = m.slot /\ g[m] = m.idx OBVIOUS
<1>. HIDE DEF f, g
<1>4. \A m \in S : ~Before(n, m) BY <1>2, <1>3 DEF Before
<1>. QED BY <1>4 DEF LastLeg

\* The first leg of a set of legs is one of them.
LEMMA FirstLegIs == ASSUME NEW S, IsLegs(S) PROVE FirstLeg(S) \in S
<1>. DEFINE f == [n \in S |-> 0 - n.slot]
            g == [n \in S |-> 0 - n.idx]
<1>1. f \in [S -> Int] /\ g \in [S -> Int] BY DEF IsLegs
<1>2. PICK n \in S : \A m \in S : ~(f[n] < f[m] \/ (f[m] = f[n] /\ g[n] < g[m]))
  <2>. HIDE DEF f, g
  <2>. QED BY <1>1, Extreme DEF IsLegs
<1>3. \A m \in S : f[m] = 0 - m.slot /\ g[m] = 0 - m.idx /\ m.slot \in Int /\ m.idx \in Int BY DEF IsLegs
<1>. HIDE DEF f, g
<1>4. ASSUME NEW m \in S PROVE ~Before(m, n)
  <2>1. /\ m.slot \in Int /\ m.idx \in Int /\ n.slot \in Int /\ n.idx \in Int
        /\ ~(0 - n.slot < 0 - m.slot \/ (0 - m.slot = 0 - n.slot /\ 0 - n.idx < 0 - m.idx))
    BY <1>2, <1>3
  <2>2. ~(m.slot < n.slot) /\ (m.slot = n.slot => ~(m.idx < n.idx)) BY <2>1
  <2>. QED BY <2>2 DEF Before
<1>. QED BY <1>4 DEF FirstLeg

\* The legs around the transaction are neighbours, and the two are different.
LEMMA BracketLegs ==
  ASSUME NEW t, SandwichTx(t), NEW w \in Brackets(t)
  PROVE  LET front == LastLeg(Legs(t, w).before)
             back == FirstLeg(Legs(t, w).after)
         IN  /\ front \in Neighbours(t) /\ back \in Neighbours(t) /\ front # back
             /\ {front.slot, front.net, front.hist, back.slot, back.net} \subseteq Int
<1>. DEFINE B == Legs(t, w).before
            A == Legs(t, w).after
            front == LastLeg(B)
            back == FirstLeg(A)
<1>1. B = {n \in Neighbours(t) : n.addr = w /\ Before(n, t)} BY DEF Legs
<1>2. A = {n \in Neighbours(t) : n.addr = w /\ Before(t, n)} BY DEF Legs
<1>3. B # {} /\ A # {} BY DEF Brackets
<1>. HIDE DEF B, A
<1>4. Neighbours(t) \subseteq t.neighbours BY DEF Neighbours, InSlots
<1>5. \A n \in t.neighbours : n.slot \in Int /\ n.idx \in Int /\ n.net \in Int /\ n.hist \in Int
  BY DEF SandwichTx
<1>6. IsFiniteSet(t.neighbours) BY DEF SandwichTx
<1>7. B \subseteq t.neighbours /\ A \subseteq t.neighbours BY <1>1, <1>2, <1>4
<1>8. IsFiniteSet(B) /\ IsFiniteSet(A) BY <1>6, <1>7, FS_Subset
<1>9. IsLegs(B) /\ IsLegs(A) BY <1>3, <1>5, <1>7, <1>8 DEF IsLegs
<1>10. front \in B /\ back \in A BY <1>9, LastLegIs, FirstLegIs
<1>. HIDE DEF front, back
<1>11. front # back
  <2>1. Before(front, t) /\ Before(t, back) BY <1>1, <1>2, <1>10
  <2>2. t.slot \in Int /\ t.idx \in Int BY DEF SandwichTx
  <2>3. front.slot \in Int /\ front.idx \in Int BY <1>5, <1>7, <1>10
  <2>. QED BY <2>1, <2>2, <2>3 DEF Before
<1>12. front \in Neighbours(t) /\ back \in Neighbours(t) BY <1>1, <1>2, <1>10
<1>13. {front.slot, front.net, front.hist, back.slot, back.net} \subseteq Int BY <1>5, <1>7, <1>10
<1>. QED BY <1>11, <1>12, <1>13 DEF front, back, B, A

\* What a wallet's bracket is measured by: it is linked, and has no rates or impact.
LEMMA CandidateType ==
  ASSUME NEW t, SandwichTx(t), NEW w \in Brackets(t)
  PROVE  LET c == Candidate(t, w)
         IN  /\ c.wallet = w /\ c.linked = TRUE /\ c.rateVictim = 0 /\ c.rateBaseline = 0
             /\ c.impact = 0 /\ c.profit \in Int /\ c.count \in Int /\ c.slotSpan \in Int
<1>. DEFINE front == LastLeg(Legs(t, w).before)
            back == FirstLeg(Legs(t, w).after)
<1>1. front.net + back.net \in Int /\ front.hist \in Int /\ back.slot - front.slot \in Int
  BY BracketLegs
<1>2. Candidate(t, w) =
        [wallet |-> w, linked |-> TRUE, rateVictim |-> 0, rateBaseline |-> 0, impact |-> 0,
         profit |-> front.net + back.net, count |-> front.hist,
         slotSpan |-> back.slot - front.slot]
  BY DEF Candidate
<1>. HIDE DEF front, back
<1>. QED BY <1>1, <1>2

\* A bracket scores, unless it made no material profit.
LEMMA BracketScoreType ==
  ASSUME NEW t, SandwichTx(t), NEW w \in Brackets(t)
  PROVE  LET c == Candidate(t, w)
         IN  /\ BracketScore(c, t) \in Finding
             /\ c.profit >= SandwichCfg.minProfit => BracketScore(c, t) >= 0
<1>. DEFINE c == Candidate(t, w)
            v == SandwichCfg.weights
            p == v.link * (IF c.linked THEN SandwichCfg.linked ELSE SandwichCfg.unlinked)
            q == v.rate * Normalise(RateLoss(c), SandwichCfg.rateDelta)
            r == v.impact * Axis(c.impact, t.tiers.impact, SandwichCfg.impact)
            s == v.profit * Axis(c.profit, t.tiers.profit, SandwichCfg.profit)
            u == v.recurrence * Axis(c.count, t.tiers.recurrence, SandwichCfg.recurrence)
            sum == p + q + r + s + u
<1>1. /\ c.linked = TRUE /\ c.rateVictim = 0 /\ c.rateBaseline = 0
      /\ c.impact = 0 /\ c.profit \in Int /\ c.count \in Int
  BY CandidateType
<1>. HIDE DEF c
<1>2. /\ v.link \in Nat /\ v.rate \in Nat /\ v.impact \in Nat /\ v.profit \in Nat /\ v.recurrence \in Nat
  BY OrderingCfgTypes
<1>3. /\ SandwichCfg.rateDelta.p50 \in Int /\ SandwichCfg.rateDelta.p99 \in Int
      /\ SandwichCfg.impact \in Pair /\ SandwichCfg.profit \in Pair /\ SandwichCfg.recurrence \in Pair
      /\ SandwichCfg.linked \in Nat /\ SandwichCfg.minProfit \in Nat
  BY OrderingCfgTypes DEF Pair
<1>4. t.tiers.impact \in TierRows /\ t.tiers.profit \in TierRows /\ t.tiers.recurrence \in TierRows
  BY DEF SandwichTx
<1>5. RateLoss(c) = 0 BY <1>1 DEF RateLoss
<1>6. Normalise(RateLoss(c), SandwichCfg.rateDelta) \in Nat
  <2>1. Normalise(0, SandwichCfg.rateDelta) \in Percent BY <1>3, NormaliseType
  <2>. QED BY <1>5, <2>1 DEF Percent
<1>7. /\ Axis(c.impact, t.tiers.impact, SandwichCfg.impact) \in Nat
      /\ Axis(c.profit, t.tiers.profit, SandwichCfg.profit) \in Nat
      /\ Axis(c.count, t.tiers.recurrence, SandwichCfg.recurrence) \in Nat
  <2>1. c.impact \in Int BY <1>1
  <2>2. Percent \subseteq Nat BY DEF Percent
  <2>. QED BY <1>1, <1>3, <1>4, <2>1, <2>2, AxisType
<1>8. p \in Nat /\ q \in Nat /\ r \in Nat /\ s \in Nat /\ u \in Nat
  BY <1>1, <1>2, <1>3, <1>6, <1>7, TimesNat
<1>9. BracketScore(c, t) = IF c.profit < SandwichCfg.minProfit THEN NoFinding ELSE FinaliseScore(sum)
  BY DEF BracketScore
<1>. HIDE DEF p, q, r, s, u
<1>10. FinaliseScore(sum) \in Score
  <2>1. sum \in Int BY <1>8
  <2>. HIDE DEF sum
  <2>. QED BY <2>1, FinaliseType
<1>. HIDE DEF sum
<1>11. FinaliseScore(sum) \in Finding /\ FinaliseScore(sum) >= 0 BY <1>10, ScoreType
<1>12. BracketScore(c, t) \in Finding BY <1>9, <1>11, FindingInt
<1>13. c.profit >= SandwichCfg.minProfit => BracketScore(c, t) >= 0 BY <1>1, <1>3, <1>9, <1>11
<1>. QED BY <1>12, <1>13 DEF c

\* sandwich gives no finding or a score.
LEMMA SandwichType ==
  ASSUME NEW t, SandwichTx(t), SandwichGate(t) PROVE SandwichScore(t) \in Finding
<1>. DEFINE c == CHOOSE x \in Chosen(t) : TRUE
<1>1. c \in Chosen(t) BY DEF SandwichGate
<1>2. PICK w \in Brackets(t) : c = Candidate(t, w) BY <1>1 DEF Chosen, Candidates
<1>. HIDE DEF c
<1>3. BracketScore(c, t) \in Finding BY <1>2, BracketScoreType
<1>. QED BY <1>3 DEF SandwichScore, c

\* The most profitable bracket is the one that is judged.
LEMMA BracketShown ==
  ASSUME NEW t, SandwichTx(t), t.kind = "sandwich", t.slot > 0, t.paysScript,
         NEW w \in Brackets(t), Candidate(t, w).profit >= SandwichCfg.minProfit,
         Candidate(t, w).slotSpan <= SandwichCfg.windowSlots,
         \A v \in Brackets(t) \ {w} : Candidate(t, v).profit < Candidate(t, w).profit
  PROVE  SandwichGate(t) /\ SandwichScore(t) >= 0
<1>. DEFINE c == Candidate(t, w)
<1>0. IsFiniteSet(Neighbours(t)) /\ Cardinality(Neighbours(t)) \in Nat
  <2>1. Neighbours(t) \subseteq t.neighbours BY DEF Neighbours, InSlots
  <2>2. IsFiniteSet(t.neighbours) BY DEF SandwichTx
  <2>3. IsFiniteSet(Neighbours(t)) BY <2>1, <2>2, FS_Subset
  <2>. QED BY <2>3, FS_CardinalityType
<1>1. ~(Cardinality(Neighbours(t)) < 2)
  <2>1. PICK x \in Neighbours(t), y \in Neighbours(t) : x # y BY BracketLegs
  <2>2. IsFiniteSet({x}) /\ Cardinality({x}) = 1 BY FS_Singleton
  <2>3. y \notin {x} BY <2>1
  <2>4. Cardinality({x} \cup {y}) = Cardinality({x}) + 1 BY <2>2, <2>3, FS_AddElement
  <2>5. {x} \cup {y} \subseteq Neighbours(t) OBVIOUS
  <2>6. Cardinality({x} \cup {y}) <= Cardinality(Neighbours(t)) BY <1>0, <2>5, FS_Subset
  <2>. QED BY <1>0, <2>2, <2>4, <2>6
<1>2. Chosen(t) = {d \in Candidates(t) : \A e \in Candidates(t) : e.profit <= d.profit}
  <2>1. t.slot # 0 BY DEF SandwichTx
  <2>. QED BY <1>1, <2>1 DEF Chosen
<1>3. c.profit \in Int /\ \A v \in Brackets(t) : Candidate(t, v).profit \in Int BY CandidateType
<1>4. c \in Candidates(t) BY DEF Candidates
<1>5. \A e \in Candidates(t) : e = c \/ (e.profit \in Int /\ e.profit < c.profit)
  BY <1>3 DEF Candidates
<1>. HIDE DEF c
<1>6. c \in Chosen(t) BY <1>2, <1>3, <1>4, <1>5
<1>7. \A d \in Chosen(t) : d = c BY <1>2, <1>3, <1>4, <1>5
<1>8. (CHOOSE x \in Chosen(t) : TRUE) = c BY <1>6, <1>7
<1>9. SandwichScore(t) = BracketScore(c, t) BY <1>8 DEF SandwichScore
<1>10. BracketScore(c, t) >= 0 BY BracketScoreType DEF c
<1>11. SandwichGate(t) BY <1>6 DEF SandwichGate, c
<1>. QED BY <1>9, <1>10, <1>11

-----------------------------------------------------------------------------
(* The scorers of single outputs.                                          *)

\* More candidates, each at least as high, reduce to at least as high a score.
LEMMA ReduceMono ==
  ASSUME NEW f, NEW g, \A i \in DOMAIN f : f[i] \in Score, \A i \in DOMAIN g : g[i] \in Score,
         \A i \in DOMAIN f : i \in DOMAIN g /\ f[i] <= g[i]
  PROVE  ReduceToBest(f) <= ReduceToBest(g)
<1>1. /\ ReduceToBest(f) \in Score
      /\ ReduceToBest(f) = 0 \/ \E i \in DOMAIN f : ReduceToBest(f) = f[i]
  BY ReduceType
<1>2. ReduceToBest(g) \in Score /\ \A i \in DOMAIN g : g[i] <= ReduceToBest(g) BY ReduceType
<1>3. CASE ReduceToBest(f) = 0 BY <1>2, <1>3, ScoreType
<1>4. CASE \E i \in DOMAIN f : ReduceToBest(f) = f[i]
  <2>1. PICK i \in DOMAIN f : ReduceToBest(f) = f[i] BY <1>4
  <2>2. i \in DOMAIN g /\ f[i] <= g[i] /\ g[i] <= ReduceToBest(g) BY <1>2
  <2>3. f[i] \in Int /\ g[i] \in Int /\ ReduceToBest(g) \in Int BY <1>2, <2>2, ScoreType
  <2>. QED BY <2>1, <2>2, <2>3
<1>. QED BY <1>1, <1>3, <1>4

\* Every output of a transaction is one.
LEMMA OutputIs ==
  ASSUME NEW t, OutputsTx(t), NEW i \in DOMAIN t.outputs
  PROVE  IsOutput(t.outputs[i]) /\ ValueTiers(t.tiers)
BY DEF OutputsTx

\* The tiers of a transaction hold baseline rows.
LEMMA TiersAre ==
  ASSUME NEW tiers, ValueTiers(tiers)
  PROVE  /\ tiers.digits \in TierRows /\ tiers.bytes \in TierRows /\ tiers.ada \in TierRows
         /\ tiers.tokens \in TierRows /\ tiers.datum \in TierRows /\ tiers.value \in TierRows
BY DEF ValueTiers

\* The tokens of an output are a natural number.
LEMMA TokenCountType == ASSUME NEW o, IsOutput(o) PROVE TokenCount(o) \in Nat
<1>1. LiveAssets(o) \subseteq DOMAIN o.assets BY DEF LiveAssets
<1>2. IsFiniteSet(DOMAIN o.assets) BY DEF IsOutput
<1>3. IsFiniteSet(LiveAssets(o)) BY <1>1, <1>2, FS_Subset
<1>. QED BY <1>3, FS_CardinalityType DEF TokenCount

-----------------------------------------------------------------------------
(* large_value.                                                            *)

\* The most digits of an output's quantities, 0 without assets.
LEMMA MaxDigitsIs ==
  ASSUME NEW o, IsOutput(o)
  PROVE  /\ MaxDigits(o) \in Nat
         /\ \A a \in DOMAIN o.assets : o.assets[a] <= MaxDigits(o)
         /\ MaxDigits(o) = 0 \/ \E a \in DOMAIN o.assets : MaxDigits(o) = o.assets[a]
<1>. DEFINE D == {o.assets[a] : a \in DOMAIN o.assets}
            S == {0} \cup D
<1>1. IsFiniteSet(DOMAIN o.assets) /\ \A a \in DOMAIN o.assets : o.assets[a] \in Nat BY DEF IsOutput
<1>2. IsFiniteSet(D) BY <1>1, FiniteImage
<1>3. IsFiniteSet(S)
  <2>1. IsFiniteSet({0}) BY FS_Singleton
  <2>. HIDE DEF D
  <2>. QED BY <1>2, <2>1, FS_Union
<1>4. \A x \in S : x \in Nat BY <1>1
<1>5. S \in SUBSET Int /\ S # {}
  <2>1. 0 \in S OBVIOUS
  <2>. HIDE DEF S
  <2>. QED BY <1>4, <2>1
<1>6. \A x \in S : x = 0 \/ \E a \in DOMAIN o.assets : x = o.assets[a] OBVIOUS
<1>7. \A a \in DOMAIN o.assets : o.assets[a] \in S OBVIOUS
<1>8. MaxDigits(o) = Max(S) BY DEF MaxDigits
<1>. HIDE DEF S
<1>9. Max(S) \in S /\ \A x \in S : x <= Max(S) BY <1>3, <1>5, MaxOfFinite
<1>. QED BY <1>4, <1>6, <1>7, <1>8, <1>9

\* large_value is monotone in an output's digits.
LEMMA LargeValueMono ==
  ASSUME NEW tiers, ValueTiers(tiers), NEW o, IsOutput(o), NEW p, IsOutput(p),
         MaxDigits(o) <= MaxDigits(p), p.cbor = o.cbor, p.ada = o.ada
  PROVE  /\ LargeValueUtxo(o, tiers) \in Score
         /\ LargeValueUtxo(o, tiers) <= LargeValueUtxo(p, tiers)
<1>. DEFINE w == LargeValueCfg.weights
            a == Axis(MaxDigits(o), tiers.digits, LargeValueCfg.digits)
            b == Axis(MaxDigits(p), tiers.digits, LargeValueCfg.digits)
            q == w.bytes * Axis(o.cbor, tiers.bytes, LargeValueCfg.bytes)
            r == w.adaInv * AxisInverted(o.ada, tiers.ada, LargeValueCfg.ada)
            x == FinaliseScore(w.digits * a + q + r)
            y == FinaliseScore(w.digits * b + q + r)
<1>0. /\ w.digits \in Nat /\ w.bytes \in Nat /\ w.adaInv \in Nat
      /\ LargeValueCfg.digits \in Pair /\ LargeValueCfg.bytes \in Pair /\ LargeValueCfg.ada \in Pair
      /\ LargeValueCfg.minDigits \in Nat
  BY ValueCfgTypes
<1>1. MaxDigits(o) \in Int /\ MaxDigits(p) \in Int /\ o.cbor \in Int /\ o.ada \in Int
  BY MaxDigitsIs DEF IsOutput
<1>2. tiers.digits \in TierRows /\ tiers.bytes \in TierRows /\ tiers.ada \in TierRows BY TiersAre
<1>3. a \in Percent /\ b \in Percent BY <1>0, <1>1, <1>2, AxisType
<1>4. a <= b BY <1>0, <1>1, <1>2, AxisMono
<1>5. /\ Axis(o.cbor, tiers.bytes, LargeValueCfg.bytes) \in Nat
      /\ AxisInverted(o.ada, tiers.ada, LargeValueCfg.ada) \in Nat
  <2>1. Percent \subseteq Nat BY DEF Percent
  <2>. QED BY <1>0, <1>1, <1>2, <2>1, AxisType
<1>6. q \in Nat /\ r \in Nat BY <1>0, <1>5, TimesNat
<1>7. LargeValueUtxo(o, tiers) = IF a < LargeValueCfg.minDigits THEN AtMost2(x, InformationalMax) ELSE x
  BY DEF LargeValueUtxo
<1>8. LargeValueUtxo(p, tiers) = IF b < LargeValueCfg.minDigits THEN AtMost2(y, InformationalMax) ELSE y
  BY DEF LargeValueUtxo
<1>. HIDE DEF a, b, q, r
<1>9. a \in Int /\ b \in Int BY <1>3 DEF Percent
<1>10. w.digits * a <= w.digits * b /\ w.digits * a \in Int /\ w.digits * b \in Int
  BY <1>0, <1>4, <1>9, TimesMono
<1>11. /\ w.digits * a + q + r <= w.digits * b + q + r
       /\ w.digits * a + q + r \in Int /\ w.digits * b + q + r \in Int
  BY <1>6, <1>10
<1>12. x \in Score /\ y \in Score /\ x <= y BY <1>11, FinaliseType, FinaliseMono
<1>. HIDE DEF x, y
<1>13. InformationalMax \in Nat /\ InformationalMax \in Int BY Cuts
<1>14. x \in Int /\ y \in Int BY <1>12, ScoreType
<1>15. /\ AtMost2(x, InformationalMax) \in Score /\ AtMost2(x, InformationalMax) \in Int
       /\ AtMost2(x, InformationalMax) <= x
       /\ AtMost2(x, InformationalMax) <= AtMost2(y, InformationalMax)
  BY <1>12, <1>13, <1>14, AtMost2Is, AtMost2Mono, AtMost2Score
<1>16. LargeValueUtxo(o, tiers) \in Score BY <1>7, <1>12, <1>15
<1>17. CASE b < LargeValueCfg.minDigits
  <2>1. a < LargeValueCfg.minDigits BY <1>0, <1>4, <1>9, <1>17
  <2>. QED BY <1>7, <1>8, <1>15, <1>16, <1>17, <2>1
<1>18. CASE ~(b < LargeValueCfg.minDigits)
  <2>1. AtMost2(x, InformationalMax) <= y BY <1>12, <1>14, <1>15
  <2>. QED BY <1>7, <1>8, <1>12, <1>16, <1>18, <2>1
<1>. QED BY <1>17, <1>18

\* large_value gives a score.
LEMMA LargeValueType ==
  ASSUME NEW t, OutputsTx(t) PROVE LargeValueScore(t) \in Score
<1>. DEFINE D == {j \in ScriptOutputs(t) : FewAssets(t.outputs[j])}
            f == [i \in D |-> LargeValueUtxo(t.outputs[i], t.tiers)]
<1>1. ASSUME NEW i \in D PROVE LargeValueUtxo(t.outputs[i], t.tiers) \in Score
  <2>1. i \in DOMAIN t.outputs BY DEF ScriptOutputs
  <2>2. IsOutput(t.outputs[i]) /\ ValueTiers(t.tiers) BY <2>1, OutputIs
  <2>3. MaxDigits(t.outputs[i]) <= MaxDigits(t.outputs[i]) BY <2>2, MaxDigitsIs
  <2>. QED BY <2>2, <2>3, LargeValueMono
<1>2. DOMAIN f = D /\ \A i \in D : f[i] \in Score BY <1>1
<1>3. LargeValueScore(t) = ReduceToBest(f) BY DEF LargeValueScore
<1>. HIDE DEF f
<1>. QED BY <1>2, <1>3, ReduceType

\* One more digit at every live quantity never lowers the score.
LEMMA MoreDigitsHeard ==
  ASSUME NEW t, OutputsTx(t)
  PROVE  /\ LargeValueGate(MoreDigits(t)) = LargeValueGate(t)
         /\ LargeValueScore(MoreDigits(t)) \in Score
         /\ LargeValueScore(t) <= LargeValueScore(MoreDigits(t))
<1>. DEFINE m == MoreDigits(t)
            More(o) == [o EXCEPT !.assets = [a \in DOMAIN o.assets |->
                            IF o.assets[a] = 0 THEN 0 ELSE o.assets[a] + 1]]
<1>1. /\ m.outputs = [i \in DOMAIN t.outputs |-> More(t.outputs[i])]
      /\ m.tiers = t.tiers /\ m.kind = t.kind /\ DOMAIN m = DOMAIN t
  BY DEF MoreDigits, OutputsTx
<1>. HIDE DEF m
<1>2. ASSUME NEW o, IsOutput(o)
      PROVE  /\ IsOutput(More(o)) /\ LiveAssets(More(o)) = LiveAssets(o)
             /\ More(o).script = o.script /\ More(o).cbor = o.cbor /\ More(o).ada = o.ada
             /\ MaxDigits(o) <= MaxDigits(More(o))
  <2>. DEFINE p == More(o)
  <2>1. /\ p.assets = [a \in DOMAIN o.assets |-> IF o.assets[a] = 0 THEN 0 ELSE o.assets[a] + 1]
        /\ p.script = o.script /\ p.cbor = o.cbor /\ p.ada = o.ada /\ p.cred = o.cred
        /\ p.datum = o.datum /\ DOMAIN p = DOMAIN o
    BY <1>2 DEF IsOutput
  <2>. HIDE DEF More
  <2>2. \A a \in DOMAIN o.assets : o.assets[a] \in Nat BY <1>2 DEF IsOutput
  <2>3. DOMAIN p.assets = DOMAIN o.assets BY <2>1
  <2>4. \A a \in DOMAIN o.assets : p.assets[a] = IF o.assets[a] = 0 THEN 0 ELSE o.assets[a] + 1 BY <2>1
  <2>. HIDE DEF p
  <2>5. \A a \in DOMAIN o.assets : /\ p.assets[a] \in Nat /\ o.assets[a] <= p.assets[a]
                                   /\ p.assets[a] = 0 <=> o.assets[a] = 0
    BY <2>2, <2>4
  <2>6. IsOutput(p) BY <1>2, <2>1, <2>3, <2>5 DEF IsOutput
  <2>7. LiveAssets(p) = LiveAssets(o) BY <2>3, <2>5 DEF LiveAssets
  <2>8. MaxDigits(o) <= MaxDigits(p)
    <3>1. MaxDigits(o) \in Nat /\ MaxDigits(p) \in Nat BY <1>2, <2>6, MaxDigitsIs
    <3>2. CASE MaxDigits(o) = 0 BY <3>1, <3>2
    <3>3. CASE \E a \in DOMAIN o.assets : MaxDigits(o) = o.assets[a]
      <4>1. PICK a \in DOMAIN o.assets : MaxDigits(o) = o.assets[a] BY <3>3
      <4>2. p.assets[a] <= MaxDigits(p) BY <2>3, <2>6, MaxDigitsIs
      <4>3. o.assets[a] <= p.assets[a] /\ p.assets[a] \in Nat BY <2>5
      <4>. QED BY <3>1, <4>1, <4>2, <4>3
    <3>. QED BY <1>2, <3>2, <3>3, MaxDigitsIs
  <2>. QED BY <2>1, <2>6, <2>7, <2>8 DEF p
<1>. HIDE DEF More
<1>3. DOMAIN m.outputs = DOMAIN t.outputs /\ \A i \in DOMAIN t.outputs : m.outputs[i] = More(t.outputs[i])
  BY <1>1
<1>4. \A i \in DOMAIN t.outputs : IsOutput(t.outputs[i]) BY OutputIs
<1>5. OutputsTx(m) BY <1>1, <1>2, <1>3, <1>4 DEF OutputsTx
<1>6. ScriptOutputs(m) = ScriptOutputs(t) BY <1>2, <1>3, <1>4 DEF ScriptOutputs
<1>7. \A i \in DOMAIN t.outputs : FewAssets(m.outputs[i]) = FewAssets(t.outputs[i])
  BY <1>2, <1>3, <1>4 DEF FewAssets, TokenCount
<1>8. ScriptOutputs(t) \subseteq DOMAIN t.outputs BY DEF ScriptOutputs
<1>9. LargeValueGate(m) = LargeValueGate(t) BY <1>1, <1>6, <1>7, <1>8 DEF LargeValueGate, HasOutputs
<1>. DEFINE D == {j \in ScriptOutputs(t) : FewAssets(t.outputs[j])}
            f == [i \in D |-> LargeValueUtxo(t.outputs[i], t.tiers)]
            g == [i \in D |-> LargeValueUtxo(m.outputs[i], t.tiers)]
<1>10. {j \in ScriptOutputs(m) : FewAssets(m.outputs[j])} = D BY <1>6, <1>7, <1>8
<1>11. LargeValueScore(t) = ReduceToBest(f) /\ LargeValueScore(m) = ReduceToBest(g)
  BY <1>1, <1>10 DEF LargeValueScore
<1>12. ASSUME NEW i \in D
       PROVE  /\ LargeValueUtxo(t.outputs[i], t.tiers) \in Score
              /\ LargeValueUtxo(m.outputs[i], t.tiers) \in Score
              /\ LargeValueUtxo(t.outputs[i], t.tiers) <= LargeValueUtxo(m.outputs[i], t.tiers)
  <2>. DEFINE o == t.outputs[i]
              p == m.outputs[i]
  <2>1. i \in DOMAIN t.outputs BY <1>8
  <2>2. IsOutput(o) /\ p = More(o) BY <1>3, <1>4, <2>1
  <2>. HIDE DEF o, p
  <2>3. IsOutput(p) /\ p.cbor = o.cbor /\ p.ada = o.ada /\ MaxDigits(o) <= MaxDigits(p)
    BY <1>2, <2>2
  <2>4. MaxDigits(p) <= MaxDigits(p) BY <2>3, MaxDigitsIs
  <2>5. ValueTiers(t.tiers) BY DEF OutputsTx
  <2>6. LargeValueUtxo(o, t.tiers) \in Score /\ LargeValueUtxo(o, t.tiers) <= LargeValueUtxo(p, t.tiers)
    BY <2>2, <2>3, <2>5, LargeValueMono
  <2>7. LargeValueUtxo(p, t.tiers) \in Score BY <2>3, <2>4, <2>5, LargeValueMono
  <2>. QED BY <2>6, <2>7 DEF o, p
<1>13. /\ DOMAIN f = D /\ DOMAIN g = D
       /\ \A i \in D : f[i] \in Score /\ g[i] \in Score /\ f[i] <= g[i]
  BY <1>12
<1>. HIDE DEF f, g, D
<1>14. ReduceToBest(f) <= ReduceToBest(g) BY <1>13, ReduceMono
<1>. QED BY <1>5, <1>9, <1>11, <1>14, LargeValueType DEF m

-----------------------------------------------------------------------------
(* token_dust.                                                             *)

\* The top of the Moderate band is a natural number.
LEMMA ModerateMaxType == ModerateMax \in Nat /\ ModerateMax \in Int
BY Cuts

\* An output's score, with the cap for few assets or an established collection.
LEMMA TokenDustUtxoIs ==
  ASSUME NEW t, OutputsTx(t), NEW o, IsOutput(o)
  PROVE  /\ TokenDustUtxo(o, t) \in Score
         /\ \A u : u.tiers = t.tiers =>
              /\ ~Established(o, t) => TokenDustUtxo(o, u) <= TokenDustUtxo(o, t)
<1>. DEFINE w == TokenDustCfg.weights
            p == w.bytes * Axis(o.cbor, t.tiers.bytes, TokenDustCfg.bytes)
            q == w.assets * Axis(TokenCount(o), t.tiers.tokens, TokenDustCfg.tokens)
            r == w.adaInv * AxisInverted(o.ada, t.tiers.ada, TokenDustCfg.ada)
            x == FinaliseScore(p + q + r)
            few == TokenCount(o) < TokenDustCfg.dosAssets
<1>0. /\ w.bytes \in Nat /\ w.assets \in Nat /\ w.adaInv \in Nat
      /\ TokenDustCfg.bytes \in Pair /\ TokenDustCfg.tokens \in Pair /\ TokenDustCfg.ada \in Pair
  BY ValueCfgTypes
<1>1. TokenCount(o) \in Int /\ o.cbor \in Int /\ o.ada \in Int
  <2>1. TokenCount(o) \in Nat BY TokenCountType
  <2>. QED BY <2>1 DEF IsOutput
<1>2. t.tiers.bytes \in TierRows /\ t.tiers.tokens \in TierRows /\ t.tiers.ada \in TierRows
  BY TiersAre DEF OutputsTx
<1>3. /\ Axis(o.cbor, t.tiers.bytes, TokenDustCfg.bytes) \in Nat
      /\ Axis(TokenCount(o), t.tiers.tokens, TokenDustCfg.tokens) \in Nat
      /\ AxisInverted(o.ada, t.tiers.ada, TokenDustCfg.ada) \in Nat
  <2>1. Percent \subseteq Nat BY DEF Percent
  <2>. QED BY <1>0, <1>1, <1>2, <2>1, AxisType
<1>4. p \in Nat /\ q \in Nat /\ r \in Nat BY <1>0, <1>3, TimesNat
<1>5. \A u : u.tiers = t.tiers =>
        TokenDustUtxo(o, u) = IF few \/ Established(o, u) THEN AtMost2(x, ModerateMax) ELSE x
  BY DEF TokenDustUtxo
<1>. HIDE DEF p, q, r
<1>6. x \in Score
  <2>1. p + q + r \in Int BY <1>4
  <2>. QED BY <2>1, FinaliseType
<1>. HIDE DEF x, few
<1>7. x \in Int BY <1>6, ScoreType
<1>8. AtMost2(x, ModerateMax) \in Score /\ AtMost2(x, ModerateMax) \in Int /\ AtMost2(x, ModerateMax) <= x
  BY <1>6, <1>7, ModerateMaxType, AtMost2Is, AtMost2Score
<1>9. TokenDustUtxo(o, t) \in Score BY <1>5, <1>6, <1>8
<1>10. ASSUME NEW u, u.tiers = t.tiers, ~Established(o, t)
       PROVE  TokenDustUtxo(o, u) <= TokenDustUtxo(o, t)
  <2>1. TokenDustUtxo(o, t) = IF few THEN AtMost2(x, ModerateMax) ELSE x BY <1>5, <1>10
  <2>2. TokenDustUtxo(o, u) = AtMost2(x, ModerateMax) \/ (~few /\ TokenDustUtxo(o, u) = x) BY <1>5, <1>10
  <2>3. CASE few
    <3>1. TokenDustUtxo(o, u) = AtMost2(x, ModerateMax) BY <2>2, <2>3
    <3>. QED BY <1>8, <2>1, <2>3, <3>1
  <2>4. CASE ~few
    <3>1. TokenDustUtxo(o, t) = x BY <2>1, <2>4
    <3>. QED BY <1>7, <1>8, <2>2, <3>1
  <2>. QED BY <2>3, <2>4
<1>. QED BY <1>9, <1>10

\* token_dust gives a score.
LEMMA TokenDustType ==
  ASSUME NEW t, OutputsTx(t) PROVE TokenDustScore(t) \in Score
<1>. DEFINE D == {j \in ScriptOutputs(t) : Bundle(t.outputs[j]) /\ ~AllowlistedUtxo(t.outputs[j])}
            f == [i \in D |-> TokenDustUtxo(t.outputs[i], t)]
<1>1. ASSUME NEW i \in D PROVE TokenDustUtxo(t.outputs[i], t) \in Score
  <2>1. i \in DOMAIN t.outputs BY DEF ScriptOutputs
  <2>2. IsOutput(t.outputs[i]) BY <2>1, OutputIs
  <2>. QED BY <2>2, TokenDustUtxoIs
<1>2. DOMAIN f = D /\ \A i \in D : f[i] \in Score BY <1>1
<1>3. TokenDustScore(t) = ReduceToBest(f) BY DEF TokenDustScore
<1>. HIDE DEF f
<1>. QED BY <1>2, <1>3, ReduceType

\* A failed policy-age lookup establishes nothing, so it scores at least what the answer
\* would.
LEMMA LostAgesFailOpen ==
  ASSUME NEW t, OutputsTx(t), t.lookupFails
  PROVE  /\ TokenDustGate(Answered(t)) = TokenDustGate(t)
         /\ TokenDustScore(Answered(t)) \in Score
         /\ TokenDustScore(Answered(t)) <= TokenDustScore(t)
<1>. DEFINE m == Answered(t)
<1>1. /\ m.outputs = t.outputs /\ m.tiers = t.tiers /\ m.kind = t.kind /\ DOMAIN m = DOMAIN t
  BY DEF Answered, OutputsTx
<1>. HIDE DEF m
<1>2. OutputsTx(m) BY <1>1 DEF OutputsTx
<1>3. TokenDustGate(m) = TokenDustGate(t)
  BY <1>1 DEF TokenDustGate, HasOutputs, ScriptOutputs
<1>4. ScriptOutputs(m) = ScriptOutputs(t) /\ ScriptOutputs(t) \subseteq DOMAIN t.outputs
  BY <1>1 DEF ScriptOutputs
<1>5. \A o : ~Established(o, t)
  <2>1. FirstSeen(t) = << >> BY DEF FirstSeen
  <2>2. DOMAIN << >> = {} OBVIOUS
  <2>3. \A S : S # {} => ~(S \subseteq {}) OBVIOUS
  <2>4. DOMAIN FirstSeen(t) = {} BY <2>1, <2>2
  <2>. QED BY <2>3, <2>4 DEF Established
<1>. DEFINE D == {j \in ScriptOutputs(t) : Bundle(t.outputs[j]) /\ ~AllowlistedUtxo(t.outputs[j])}
            f == [i \in D |-> TokenDustUtxo(t.outputs[i], m)]
            g == [i \in D |-> TokenDustUtxo(t.outputs[i], t)]
<1>6. TokenDustScore(m) = ReduceToBest(f) /\ TokenDustScore(t) = ReduceToBest(g)
  BY <1>1, <1>4 DEF TokenDustScore
<1>7. ASSUME NEW i \in D
      PROVE  /\ TokenDustUtxo(t.outputs[i], m) \in Score /\ TokenDustUtxo(t.outputs[i], t) \in Score
             /\ TokenDustUtxo(t.outputs[i], m) <= TokenDustUtxo(t.outputs[i], t)
  <2>1. i \in DOMAIN t.outputs BY <1>4
  <2>2. IsOutput(t.outputs[i]) BY <2>1, OutputIs
  <2>. QED BY <1>1, <1>2, <1>5, <2>2, TokenDustUtxoIs
<1>8. /\ DOMAIN f = D /\ DOMAIN g = D
      /\ \A i \in D : f[i] \in Score /\ g[i] \in Score /\ f[i] <= g[i]
  BY <1>7
<1>. HIDE DEF f, g, D
<1>9. ReduceToBest(f) <= ReduceToBest(g) BY <1>8, ReduceMono
<1>. QED BY <1>2, <1>3, <1>6, <1>9, TokenDustType DEF m

-----------------------------------------------------------------------------
(* large_datum.                                                            *)

\* The bytes of a datum are a natural number.
LEMMA DatumBytesType == ASSUME NEW o, IsOutput(o) PROVE DatumBytes(o.datum) \in Nat
BY DEF DatumBytes, IsOutput

\* The bound on a median is an integer.
LEMMA P50BoundType ==
  ASSUME NEW anchor \in Pair, NEW m \in Nat, NEW k \in Nat
  PROVE  P50Bound(anchor, m, k) \in Int /\ P99Cap(anchor, m) \in Int
<1>1. /\ anchor.p50 \in Int /\ anchor.p99 \in Int /\ 100 + MinSpread \in Nat /\ 100 + MinSpread > 0
  BY ScoringAssumption DEF Pair
<1>2. P99Cap(anchor, m) \in Int /\ 100 * P99Cap(anchor, m) \in Int BY <1>1 DEF P99Cap
<1>3. (100 * P99Cap(anchor, m)) \div (100 + MinSpread) \in Int BY <1>1, <1>2, Quotient
<1>4. k * (anchor.p99 - anchor.p50) \in Int BY <1>1
<1>5. (k * (anchor.p99 - anchor.p50)) \div 100 \in Int BY <1>4, Quotient
<1>6. anchor.p50 + (k * (anchor.p99 - anchor.p50)) \div 100 \in Int BY <1>1, <1>5
<1>. QED BY <1>2, <1>3, <1>6, AtMost2Is DEF P50Bound

\* The share of the datum in its output grows with the datum.
LEMMA RatioMono ==
  ASSUME NEW b \in Nat, NEW d \in Nat, b <= d, NEW c \in Nat
  PROVE  /\ (100 * b) \div (b + c + 100) \in Int /\ (100 * d) \div (d + c + 100) \in Int
         /\ (100 * b) \div (b + c + 100) <= (100 * d) \div (d + c + 100)
<1>. DEFINE n == b + c + 100
            k == d + c + 100
            q == (100 * b) \div n
<1>1. n \in Nat /\ n > 0 /\ k \in Nat /\ k > 0 /\ 100 * b \in Int /\ 100 * d \in Int OBVIOUS
<1>2. q \in Int /\ n * q <= 100 * b BY <1>1, Quotient
<1>3. (100 * d) \div k \in Int BY <1>1, Quotient
<1>. HIDE DEF q
<1>4. q <= 100
  <2>. SUFFICES ASSUME q > 100 PROVE FALSE BY <1>2
  <2>1. n * 101 <= n * q BY <1>1, <1>2, TimesMono
  <2>2. n * 101 > 100 * b OBVIOUS
  <2>. QED BY <1>1, <1>2, <2>1, <2>2
<1>5. k * q <= 100 * d
  <2>1. (d - b) * q <= (d - b) * 100
    <3>1. d - b \in Nat OBVIOUS
    <3>. QED BY <1>2, <1>4, <3>1, TimesMono
  <2>2. k * q = n * q + (d - b) * q /\ (d - b) * q \in Int /\ n * q \in Int BY <1>2
  <2>3. (d - b) * 100 = 100 * d - 100 * b OBVIOUS
  <2>. QED BY <1>2, <2>1, <2>2, <2>3
<1>6. q <= (100 * d) \div k BY <1>1, <1>2, <1>5, QuotientLeast
<1>. QED BY <1>2, <1>3, <1>6 DEF q

\* The thresholds of large_datum are natural numbers.
LEMMA DatumThresholds ==
  /\ LargeDatumCfg.minBytes \in Nat /\ LargeDatumCfg.entropyMax \in Nat
  /\ LargeDatumCfg.leafMax \in Nat /\ LargeDatumCfg.backstop \in Nat
BY ValueCfgTypes

\* Which gate admits a datum, as facts.
ContentGate(d) ==
  /\ DatumBytes(d) >= LargeDatumCfg.minBytes
  /\ Entropy(d) <= LargeDatumCfg.entropyMax \/ LeafConcentration(d) >= LargeDatumCfg.leafMax

\* Which of the triggers a datum fires.
LEMMA BloatTriggerIs ==
  ASSUME NEW d
  PROVE  /\ ContentGate(d) => BloatTrigger(d) = "content"
         /\ ~ContentGate(d) /\ DatumBytes(d) >= LargeDatumCfg.backstop =>
              BloatTrigger(d) = IF ContentAssessable(d) THEN "size_backstop" ELSE "size_backstop_unassessed"
         /\ ~ContentGate(d) /\ ~(DatumBytes(d) >= LargeDatumCfg.backstop) => BloatTrigger(d) = "none"
<1>1. CASE ContentGate(d) BY <1>1 DEF BloatTrigger, ContentGate
<1>2. CASE ~ContentGate(d) /\ DatumBytes(d) >= LargeDatumCfg.backstop
  BY <1>2 DEF BloatTrigger, ContentGate
<1>3. CASE ~ContentGate(d) /\ ~(DatumBytes(d) >= LargeDatumCfg.backstop)
  BY <1>3 DEF BloatTrigger, ContentGate
<1>. QED BY <1>1, <1>2, <1>3

DatumCapped(o) == BloatTrigger(o.datum) = "size_backstop" /\ o.cred \in LargeDatumCfg.largeState

\* An output with a larger datum, capped no more often, scores no less in large_datum.
LEMMA LargeDatumMono ==
  ASSUME NEW tiers, ValueTiers(tiers), NEW o, IsOutput(o), NEW p, IsOutput(p),
         DatumBytes(o.datum) <= DatumBytes(p.datum), p.cbor = o.cbor,
         DatumCapped(p) => DatumCapped(o)
  PROVE  /\ LargeDatumUtxo(o, tiers) \in Score
         /\ LargeDatumUtxo(o, tiers) <= LargeDatumUtxo(p, tiers)
<1>. DEFINE w == LargeDatumCfg.weights
            b == DatumBytes(o.datum)
            d == DatumBytes(p.datum)
            a1 == Axis(b, tiers.datum, LargeDatumCfg.bytes)
            a2 == Axis(d, tiers.datum, LargeDatumCfg.bytes)
            q1 == (100 * b) \div (b + o.cbor + 100)
            q2 == (100 * d) \div (d + o.cbor + 100)
            n1 == Normalise(q1, LargeDatumCfg.ratio)
            n2 == Normalise(q2, LargeDatumCfg.ratio)
            r == w.valueInv * AxisInverted(o.cbor, tiers.value, LargeDatumCfg.value)
            x == FinaliseScore(w.datumBytes * a1 + w.ratio * n1 + r)
            y == FinaliseScore(w.datumBytes * a2 + w.ratio * n2 + r)
<1>0. /\ w.datumBytes \in Nat /\ w.ratio \in Nat /\ w.valueInv \in Nat
      /\ LargeDatumCfg.bytes \in Pair /\ LargeDatumCfg.value \in Pair
      /\ LargeDatumCfg.ratio.p50 \in Int /\ LargeDatumCfg.ratio.p99 \in Int
  BY ValueCfgTypes DEF Pair
<1>1. b \in Nat /\ d \in Nat /\ o.cbor \in Nat /\ b <= d BY DatumBytesType DEF IsOutput
<1>2. tiers.datum \in TierRows /\ tiers.value \in TierRows BY TiersAre
<1>3. LargeDatumUtxo(o, tiers) = IF DatumCapped(o) THEN AtMost2(x, ModerateMax) ELSE x
  BY DEF LargeDatumUtxo, DatumCapped
<1>4. LargeDatumUtxo(p, tiers) = IF DatumCapped(p) THEN AtMost2(y, ModerateMax) ELSE y
  BY DEF LargeDatumUtxo, DatumCapped
<1>. HIDE DEF b, d
<1>5. a1 \in Percent /\ a2 \in Percent /\ a1 <= a2 BY <1>0, <1>1, <1>2, AxisType, AxisMono
<1>6. q1 \in Int /\ q2 \in Int /\ q1 <= q2 BY <1>1, RatioMono
<1>. HIDE DEF q1, q2
<1>7. n1 \in Percent /\ n2 \in Percent /\ n1 <= n2 BY <1>0, <1>6, NormaliseType, NormaliseMono
<1>8. r \in Nat
  <2>1. AxisInverted(o.cbor, tiers.value, LargeDatumCfg.value) \in Percent BY <1>0, <1>1, <1>2, AxisType
  <2>2. AxisInverted(o.cbor, tiers.value, LargeDatumCfg.value) \in Nat BY <2>1 DEF Percent
  <2>. QED BY <1>0, <2>2, TimesNat
<1>. HIDE DEF a1, a2, n1, n2, r
<1>9. a1 \in Int /\ a2 \in Int /\ n1 \in Int /\ n2 \in Int BY <1>5, <1>7 DEF Percent
<1>10. /\ w.datumBytes * a1 <= w.datumBytes * a2 /\ w.datumBytes * a1 \in Int /\ w.datumBytes * a2 \in Int
       /\ w.ratio * n1 <= w.ratio * n2 /\ w.ratio * n1 \in Int /\ w.ratio * n2 \in Int
  BY <1>0, <1>5, <1>7, <1>9, TimesMono
<1>11. /\ w.datumBytes * a1 + w.ratio * n1 + r <= w.datumBytes * a2 + w.ratio * n2 + r
       /\ w.datumBytes * a1 + w.ratio * n1 + r \in Int /\ w.datumBytes * a2 + w.ratio * n2 + r \in Int
  BY <1>8, <1>10
<1>12. x \in Score /\ y \in Score /\ x <= y BY <1>11, FinaliseType, FinaliseMono
<1>. HIDE DEF x, y
<1>13. x \in Int /\ y \in Int BY <1>12, ScoreType
<1>14. /\ AtMost2(x, ModerateMax) \in Score /\ AtMost2(x, ModerateMax) \in Int
       /\ AtMost2(x, ModerateMax) <= x
       /\ AtMost2(x, ModerateMax) <= AtMost2(y, ModerateMax)
  BY <1>12, <1>13, ModerateMaxType, AtMost2Is, AtMost2Mono, AtMost2Score
<1>15. LargeDatumUtxo(o, tiers) \in Score BY <1>3, <1>12, <1>14
<1>16. CASE DatumCapped(p) BY <1>3, <1>4, <1>14, <1>15, <1>16
<1>17. CASE ~DatumCapped(p)
  <2>1. AtMost2(x, ModerateMax) <= y BY <1>12, <1>13, <1>14
  <2>. QED BY <1>3, <1>4, <1>12, <1>15, <1>17, <2>1
<1>. QED BY <1>16, <1>17

\* The score of one output is a score.
LEMMA LargeDatumOne ==
  ASSUME NEW t, OutputsTx(t), NEW i \in ScriptOutputs(t)
  PROVE  LargeDatumUtxo(t.outputs[i], t.tiers) \in Score
<1>1. IsOutput(t.outputs[i]) /\ ValueTiers(t.tiers) BY OutputIs DEF ScriptOutputs
<1>2. DatumBytes(t.outputs[i].datum) <= DatumBytes(t.outputs[i].datum) BY <1>1, DatumBytesType
<1>. QED BY <1>1, <1>2, LargeDatumMono

Triggered(t) == {j \in ScriptOutputs(t) : BloatTrigger(t.outputs[j].datum) # "none"}
BestDatum(t) == ReduceToBest([i \in Triggered(t) |-> LargeDatumUtxo(t.outputs[i], t.tiers)])

\* large_datum gives the best score of the outputs it looks at.
LEMMA BestDatumIs ==
  ASSUME NEW t, OutputsTx(t)
  PROVE  /\ BestDatum(t) \in Score
         /\ LargeDatumScore(t) = IF BestDatum(t) > 0 THEN BestDatum(t) ELSE NoFinding
         /\ LargeDatumScore(t) \in Finding
         /\ BestDatum(t) > 0 => Triggered(t) # {}
         /\ \A i \in Triggered(t) : LargeDatumUtxo(t.outputs[i], t.tiers) <= BestDatum(t)
<1>. DEFINE f == [i \in Triggered(t) |-> LargeDatumUtxo(t.outputs[i], t.tiers)]
<1>1. \A i \in Triggered(t) : LargeDatumUtxo(t.outputs[i], t.tiers) \in Score
  BY LargeDatumOne DEF Triggered
<1>2. DOMAIN f = Triggered(t)
      /\ \A i \in Triggered(t) : f[i] \in Score /\ f[i] = LargeDatumUtxo(t.outputs[i], t.tiers)
  BY <1>1
<1>3. BestDatum(t) = ReduceToBest(f) BY DEF BestDatum
<1>4. LargeDatumScore(t) = IF BestDatum(t) > 0 THEN BestDatum(t) ELSE NoFinding
  BY DEF LargeDatumScore, BestDatum, Triggered
<1>. HIDE DEF f
<1>5. /\ ReduceToBest(f) \in Score /\ \A i \in DOMAIN f : f[i] <= ReduceToBest(f)
      /\ ReduceToBest(f) = 0 \/ \E i \in DOMAIN f : ReduceToBest(f) = f[i]
  BY <1>2, ReduceType
<1>6. LargeDatumScore(t) \in Finding BY <1>3, <1>4, <1>5, FindingInt
<1>. QED BY <1>2, <1>3, <1>4, <1>5, <1>6

\* A larger datum never lowers the score: it is admitted as before, and the cap for a
\* readable datum over the backstop does not appear with size.
LEMMA MoreDatumHeard ==
  ASSUME NEW t, OutputsTx(t), t.kind = "outputs", LargeDatumScore(t) # NoFinding
  PROVE  /\ LargeDatumGate(MoreDatum(t))
         /\ LargeDatumScore(MoreDatum(t)) \in Finding
         /\ LargeDatumScore(t) <= LargeDatumScore(MoreDatum(t))
<1>. DEFINE m == MoreDatum(t)
            More(o) == [o EXCEPT !.datum.size = o.datum.size + 1000]
<1>1. /\ m.outputs = [i \in DOMAIN t.outputs |-> More(t.outputs[i])]
      /\ m.tiers = t.tiers /\ m.kind = t.kind /\ DOMAIN m = DOMAIN t
  BY DEF MoreDatum, OutputsTx
<1>. HIDE DEF m
<1>2. ASSUME NEW o, IsOutput(o)
      PROVE  /\ IsOutput(More(o)) /\ More(o).script = o.script /\ More(o).cbor = o.cbor
             /\ DatumBytes(o.datum) <= DatumBytes(More(o).datum)
             /\ BloatTrigger(o.datum) # "none" =>
                  /\ BloatTrigger(More(o).datum) # "none"
                  /\ DatumCapped(More(o)) => DatumCapped(o)
  <2>. DEFINE p == More(o)
  <2>1. /\ p.assets = o.assets /\ p.script = o.script /\ p.cbor = o.cbor /\ p.ada = o.ada
        /\ p.cred = o.cred /\ DOMAIN p = DOMAIN o
        /\ p.datum = [o.datum EXCEPT !.size = o.datum.size + 1000]
    BY <1>2 DEF IsOutput
  <2>2. /\ p.datum.size = o.datum.size + 1000 /\ p.datum.delivery = o.datum.delivery
        /\ p.datum.carried = o.datum.carried /\ p.datum.form = o.datum.form
        /\ p.datum.entropy = o.datum.entropy /\ p.datum.leaf = o.datum.leaf
        /\ DOMAIN p.datum = DOMAIN o.datum
    BY <1>2, <2>1 DEF IsOutput
  <2>. HIDE DEF p
  <2>3. o.datum.size \in Nat BY <1>2 DEF IsOutput
  <2>4. IsOutput(p) BY <1>2, <2>1, <2>2, <2>3 DEF IsOutput
  <2>5. DatumBytes(o.datum) <= DatumBytes(p.datum) BY <2>2, <2>3 DEF DatumBytes
  <2>6. DatumBytes(o.datum) \in Nat /\ DatumBytes(p.datum) \in Nat BY <1>2, <2>4, DatumBytesType
  <2>7. /\ ContentAssessable(p.datum) = ContentAssessable(o.datum)
        /\ Entropy(p.datum) = Entropy(o.datum)
        /\ LeafConcentration(p.datum) = LeafConcentration(o.datum)
    BY <2>2 DEF ContentAssessable, Entropy, LeafConcentration, RawBytes, Reachable
  <2>8. ContentGate(o.datum) => ContentGate(p.datum)
    BY <2>5, <2>6, <2>7, DatumThresholds DEF ContentGate
  <2>9. DatumBytes(o.datum) >= LargeDatumCfg.backstop => DatumBytes(p.datum) >= LargeDatumCfg.backstop
    BY <2>5, <2>6, DatumThresholds
  <2>10. ASSUME BloatTrigger(o.datum) # "none"
         PROVE  /\ BloatTrigger(p.datum) # "none"
                /\ DatumCapped(p) => DatumCapped(o)
    <3>1. CASE ContentGate(o.datum)
      <4>1. BloatTrigger(p.datum) = "content" BY <2>8, <3>1, BloatTriggerIs
      <4>. QED BY <4>1 DEF DatumCapped
    <3>2. CASE ~ContentGate(o.datum)
      <4>1. DatumBytes(o.datum) >= LargeDatumCfg.backstop BY <2>10, <3>2, BloatTriggerIs
      <4>2. BloatTrigger(o.datum) = IF ContentAssessable(o.datum) THEN "size_backstop" ELSE "size_backstop_unassessed"
        BY <3>2, <4>1, BloatTriggerIs
      <4>3. \/ BloatTrigger(p.datum) = "content"
            \/ BloatTrigger(p.datum) = IF ContentAssessable(o.datum) THEN "size_backstop" ELSE "size_backstop_unassessed"
        BY <2>7, <2>9, <4>1, BloatTriggerIs
      <4>. QED BY <2>1, <4>2, <4>3 DEF DatumCapped
    <3>. QED BY <3>1, <3>2
  <2>. QED BY <2>1, <2>4, <2>5, <2>10 DEF p
<1>. HIDE DEF More
<1>3. DOMAIN m.outputs = DOMAIN t.outputs /\ \A i \in DOMAIN t.outputs : m.outputs[i] = More(t.outputs[i])
  BY <1>1
<1>4. \A i \in DOMAIN t.outputs : IsOutput(t.outputs[i]) BY OutputIs
<1>5. OutputsTx(m) BY <1>1, <1>2, <1>3, <1>4 DEF OutputsTx
<1>6. ScriptOutputs(m) = ScriptOutputs(t) BY <1>2, <1>3, <1>4 DEF ScriptOutputs
<1>7. ScriptOutputs(t) \subseteq DOMAIN t.outputs BY DEF ScriptOutputs
<1>8. Triggered(t) \subseteq Triggered(m)
  BY <1>2, <1>3, <1>4, <1>6, <1>7 DEF Triggered
<1>. DEFINE f == [i \in Triggered(t) |-> LargeDatumUtxo(t.outputs[i], t.tiers)]
            g == [i \in Triggered(m) |-> LargeDatumUtxo(m.outputs[i], m.tiers)]
<1>9. BestDatum(t) = ReduceToBest(f) /\ BestDatum(m) = ReduceToBest(g) BY DEF BestDatum
<1>10. ASSUME NEW i \in Triggered(t)
       PROVE  LargeDatumUtxo(t.outputs[i], t.tiers) <= LargeDatumUtxo(m.outputs[i], m.tiers)
  <2>. DEFINE o == t.outputs[i]
              p == m.outputs[i]
  <2>1. i \in DOMAIN t.outputs /\ BloatTrigger(o.datum) # "none" BY <1>7 DEF Triggered
  <2>2. IsOutput(o) /\ p = More(o) BY <1>3, <1>4, <2>1
  <2>. HIDE DEF o, p
  <2>3. /\ IsOutput(p) /\ p.cbor = o.cbor /\ DatumBytes(o.datum) <= DatumBytes(p.datum)
        /\ DatumCapped(p) => DatumCapped(o)
    BY <1>2, <2>1, <2>2
  <2>4. ValueTiers(t.tiers) BY DEF OutputsTx
  <2>5. LargeDatumUtxo(o, t.tiers) <= LargeDatumUtxo(p, t.tiers) BY <2>2, <2>3, <2>4, LargeDatumMono
  <2>. QED BY <1>1, <2>5 DEF o, p
<1>11. /\ \A i \in Triggered(t) : LargeDatumUtxo(t.outputs[i], t.tiers) \in Score
       /\ \A i \in Triggered(m) : LargeDatumUtxo(m.outputs[i], m.tiers) \in Score
  BY <1>5, LargeDatumOne DEF Triggered
<1>12. /\ DOMAIN f = Triggered(t) /\ DOMAIN g = Triggered(m)
       /\ \A i \in DOMAIN f : f[i] \in Score /\ i \in DOMAIN g /\ f[i] <= g[i]
       /\ \A i \in DOMAIN g : g[i] \in Score
  BY <1>8, <1>10, <1>11
<1>. HIDE DEF f, g
<1>13. BestDatum(t) <= BestDatum(m) BY <1>9, <1>12, ReduceMono
<1>14. /\ BestDatum(t) \in Score /\ BestDatum(m) \in Score
       /\ LargeDatumScore(t) = BestDatum(t) /\ BestDatum(t) > 0 /\ Triggered(t) # {}
       /\ LargeDatumScore(m) = IF BestDatum(m) > 0 THEN BestDatum(m) ELSE NoFinding
       /\ LargeDatumScore(m) \in Finding
  BY <1>5, BestDatumIs
<1>15. LargeDatumScore(t) <= LargeDatumScore(m)
  <2>1. BestDatum(t) \in Int /\ BestDatum(m) \in Int BY <1>14, ScoreType
  <2>2. BestDatum(m) > 0 BY <1>13, <1>14, <2>1
  <2>. QED BY <1>13, <1>14, <2>2
<1>16. LargeDatumGate(m)
  <2>1. PICK i \in Triggered(m) : TRUE BY <1>8, <1>14
  <2>. QED BY <1>1, <2>1 DEF LargeDatumGate, HasOutputs, Triggered
<1>. QED BY <1>14, <1>15, <1>16 DEF m

\* A datum over the backstop stands out against every pair the capping leaves.
LEMMA BackstopStandsOut ==
  ASSUME NEW tiers \in TierRows, NEW v \in Nat, v >= LargeDatumCfg.backstop
  PROVE  Axis(v, tiers, LargeDatumCfg.bytes) >= 1
<1>. DEFINE an == LargeDatumCfg.bytes
            r == ResolvedOrBootstrap(tiers, AnyTier, an)
            P == P50Bound(an, CapMultiplier, SpreadFraction)
            C == P99Cap(an, CapMultiplier)
            back == LargeDatumCfg.backstop
<1>0. an \in Pair /\ back \in Nat BY ValueCfgTypes
<1>1. an.p50 \in Int /\ an.p99 \in Int BY <1>0 DEF Pair
<1>2. CapMultiplier \in Nat /\ SpreadFraction \in Nat BY ScoringAssumption
<1>3. /\ CapMultiplier > 0 /\ an.p99 > 0 /\ an.p99 > an.p50
      /\ 100 * back >= 99 * an.p50 + an.p99 /\ 100 * back >= 99 * P + C
  BY BackstopCounts
<1>4. P \in Int /\ C \in Int BY <1>0, <1>2, P50BoundType
<1>5. /\ r.p50 \in Int /\ r.p99 \in Int
      /\ \/ r.p50 = an.p50 /\ r.p99 = an.p99
         \/ r.p50 < r.p99 /\ r.p50 <= P /\ r.p99 <= C
  BY <1>0, <1>3, ResolvedIs
<1>6. Axis(v, tiers, an) = Normalise(v, r) BY DEF Axis
<1>. HIDE DEF an, r, P, C, back
<1>7. r.p50 < r.p99 /\ 99 * r.p50 + r.p99 <= 100 * back BY <1>0, <1>1, <1>3, <1>4, <1>5
<1>8. back <= v BY <1>0 DEF back
<1>9. (r.p99 - r.p50) * 1 <= 100 * (v - r.p50) BY <1>0, <1>5, <1>7, <1>8
<1>10. 1 \in Percent BY DEF Percent
<1>11. 1 <= Normalise(v, r) BY <1>5, <1>7, <1>9, <1>10, NormaliseLeast
<1>12. Normalise(v, r) \in Percent BY <1>5, NormaliseType
<1>13. Normalise(v, r) >= 1 BY <1>11, <1>12 DEF Percent
<1>. QED BY <1>6, <1>13 DEF an

\* A datum at the backstop whose content cannot be assessed scores no less than the same
\* datum at an unlisted script.
LEMMA OpaqueDatumShown ==
  ASSUME NEW t, OutputsTx(t), t.kind = "outputs", NEW i \in ScriptOutputs(t),
         DatumBytes(t.outputs[i].datum) >= LargeDatumCfg.backstop,
         ~ContentAssessable(t.outputs[i].datum)
  PROVE  LET bare == LargeDatumUtxo([t.outputs[i] EXCEPT !.cred = "unlisted"], t.tiers)
         IN  /\ LargeDatumGate(t) /\ bare \in Score
             /\ LargeDatumScore(t) \in Score /\ bare <= LargeDatumScore(t)
<1>. DEFINE o == t.outputs[i]
            p == [o EXCEPT !.cred = "unlisted"]
            x == LargeDatumUtxo(o, t.tiers)
<1>1. IsOutput(o) /\ ValueTiers(t.tiers) BY OutputIs DEF ScriptOutputs
<1>2. p.datum = o.datum /\ p.cbor = o.cbor /\ p.ada = o.ada /\ p.assets = o.assets /\ DOMAIN p = DOMAIN o
  BY <1>1 DEF IsOutput
<1>3. BloatTrigger(o.datum) # "none" /\ BloatTrigger(o.datum) # "size_backstop"
  BY BloatTriggerIs
<1>4. i \in Triggered(t) BY <1>3 DEF Triggered
<1>5. LargeDatumGate(t) BY <1>3 DEF LargeDatumGate, HasOutputs
<1>6. x <= BestDatum(t) /\ BestDatum(t) \in Score BY <1>4, BestDatumIs
<1>. HIDE DEF o, p
<1>7. LargeDatumUtxo(p, t.tiers) = x
  BY <1>2, <1>3 DEF LargeDatumUtxo
<1>8. x \in Score BY LargeDatumOne DEF o
<1>9. x >= 1
  <2>. DEFINE w == LargeDatumCfg.weights
              b == DatumBytes(o.datum)
              a == Axis(b, t.tiers.datum, LargeDatumCfg.bytes)
              q == (100 * b) \div (b + o.cbor + 100)
              n == Normalise(q, LargeDatumCfg.ratio)
              e == AxisInverted(o.cbor, t.tiers.value, LargeDatumCfg.value)
  <2>0. /\ w.datumBytes \in Nat /\ w.ratio \in Nat /\ w.valueInv \in Nat
        /\ LargeDatumCfg.bytes \in Pair /\ LargeDatumCfg.value \in Pair
        /\ LargeDatumCfg.ratio.p50 \in Int /\ LargeDatumCfg.ratio.p99 \in Int
    BY ValueCfgTypes DEF Pair
  <2>1. b \in Nat /\ o.cbor \in Nat BY <1>1, DatumBytesType DEF IsOutput
  <2>2. t.tiers.datum \in TierRows /\ t.tiers.value \in TierRows BY <1>1, TiersAre
  <2>3. a \in Percent /\ e \in Percent BY <2>0, <2>1, <2>2, AxisType
  <2>4. a >= 1 BY <2>1, <2>2, BackstopStandsOut DEF o
  <2>5. b <= b /\ q \in Int BY <2>1, RatioMono
  <2>6. n \in Percent BY <2>0, <2>5, NormaliseType
  <2>7. x = FinaliseScore(w.datumBytes * a + w.ratio * n + w.valueInv * e)
    BY <1>3 DEF LargeDatumUtxo
  <2>8. w.datumBytes >= 1 BY <2>0, BackstopCounts
  <2>. HIDE DEF a, n, e
  <2>9. a \in Nat /\ n \in Nat /\ e \in Nat BY <2>3, <2>6 DEF Percent
  <2>10. w.datumBytes * a >= 1 /\ w.datumBytes * a \in Nat BY <2>0, <2>4, <2>8, <2>9
  <2>11. w.ratio * n \in Nat /\ w.valueInv * e \in Nat BY <2>0, <2>9, TimesNat
  <2>12. w.datumBytes * a + w.ratio * n + w.valueInv * e >= 1
         /\ w.datumBytes * a + w.ratio * n + w.valueInv * e \in Int BY <2>10, <2>11
  <2>. QED BY <2>7, <2>12 DEF FinaliseScore, AtLeast2, AtMost2
<1>. HIDE DEF x
<1>10. x \in Int /\ BestDatum(t) \in Int BY <1>6, <1>8, ScoreType
<1>11. BestDatum(t) > 0 BY <1>6, <1>9, <1>10
<1>12. LargeDatumScore(t) = BestDatum(t) BY <1>11, BestDatumIs
<1>. QED BY <1>5, <1>6, <1>7, <1>8, <1>12 DEF o, p

-----------------------------------------------------------------------------
(* multiple_sat.                                                           *)

\* A list is finite and holds its own elements.
LEMMA ListIs ==
  ASSUME NEW s, IsList(s)
  PROVE  /\ Len(s) \in Nat /\ DOMAIN s = 1 .. Len(s) /\ IsFiniteSet(DOMAIN s)
         /\ \A i \in DOMAIN s : s[i] \in Range(s)
<1>1. s \in Seq(Range(s)) BY DEF IsList
<1>2. Len(s) \in Nat /\ DOMAIN s = 1 .. Len(s) BY <1>1, LenProperties
<1>3. IsFiniteSet(1 .. Len(s)) BY <1>2, FS_Interval
<1>4. \A i \in DOMAIN s : s[i] \in Range(s) BY DEF Range
<1>. QED BY <1>2, <1>3, <1>4

\* The lovelace a group moves is an integer.
LEMMA LovelaceType ==
  ASSUME NEW xs, IsList(xs), \A i \in DOMAIN xs : xs[i].ada \in Nat, NEW c
  PROVE  Lovelace(xs, c) \in Nat
<1>. DEFINE g == [i \in DOMAIN xs |-> IF i \in At(xs, c) THEN xs[i].ada ELSE 0]
<1>1. Len(xs) \in Nat /\ DOMAIN xs = 1 .. Len(xs) BY ListIs
<1>2. g \in [1 .. Len(xs) -> Nat] BY <1>1
<1>. HIDE DEF g
<1>3. g \in Seq(Nat) BY <1>1, <1>2, SeqDef
<1>4. SumOf(g) \in Nat BY <1>3, SumStepwise
<1>. QED BY <1>4 DEF Lovelace, g

\* The asset classes taken out of a script are a natural number.
LEMMA AssetsOutType ==
  ASSUME NEW t, MultipleSatTx(t), NEW c PROVE AssetsOut(t, c) \in Nat
<1>. DEFINE A == At(t.inputs, c)
            f == [i \in A |-> DOMAIN t.inputs[i].assets]
            D == {f[i] : i \in A}
            held == UNION {DOMAIN t.inputs[i].assets : i \in A}
            out == {a \in held : Flow(t.inputs, c, a) > Flow(t.outputs, c, a)}
<1>1. IsFiniteSet(DOMAIN t.inputs) /\ \A i \in DOMAIN t.inputs : t.inputs[i] \in Range(t.inputs)
  BY ListIs DEF MultipleSatTx
<1>2. A \subseteq DOMAIN t.inputs BY DEF At
<1>3. IsFiniteSet(A) BY <1>1, <1>2, FS_Subset
<1>4. \A i \in A : IsFiniteSet(DOMAIN t.inputs[i].assets) BY <1>1, <1>2 DEF MultipleSatTx
<1>. HIDE DEF A
<1>5. DOMAIN f = A /\ \A i \in A : IsFiniteSet(f[i]) BY <1>4
<1>6. held = UNION D OBVIOUS
<1>. HIDE DEF f, held
<1>7. IsFiniteSet(D) BY <1>3, <1>5, FiniteImage
<1>8. \A T \in D : IsFiniteSet(T) BY <1>5
<1>. HIDE DEF D
<1>9. IsFiniteSet(held) BY <1>6, <1>7, <1>8, FS_UNION
<1>10. out \subseteq held OBVIOUS
<1>. HIDE DEF out
<1>11. IsFiniteSet(out) BY <1>9, <1>10, FS_Subset
<1>12. Cardinality(out) \in Nat BY <1>11, FS_CardinalityType
<1>. QED BY <1>12 DEF AssetsOut, out, held, A

\* The pair the extraction axis is normalised by is one of integers.
LEMMA ExtractionPairIs ==
  ASSUME NEW t, MultipleSatTx(t), NEW f \in {"netValue", "assetsOut"}
  PROVE  LET r == ExtractionPair(t, f)
         IN  /\ {"p50", "p99", "source"} \subseteq DOMAIN r
             /\ r.p50 \in Int /\ r.p99 \in Int /\ Widened(r).p50 \in Int /\ Widened(r).p99 \in Int
<1>. DEFINE r == ExtractionPair(t, f)
<1>1. t.tiers[f] \in TierRows
  <2>1. t.tiers.netValue \in TierRows /\ t.tiers.assetsOut \in TierRows BY DEF MultipleSatTx
  <2>. QED BY <2>1
<1>2. MultipleSatCfg[f] \in Pair
  <2>1. MultipleSatCfg.netValue \in Pair /\ MultipleSatCfg.assetsOut \in Pair BY MultipleSatCfgTypes
  <2>. QED BY <2>1
<1>3. {"p50", "p99", "source"} \subseteq DOMAIN r /\ r.p50 \in Int /\ r.p99 \in Int
  BY <1>1, <1>2, ResolvedIs DEF ExtractionPair
<1>4. MultipleSatCfg.headroom \in Nat BY MultipleSatCfgTypes
<1>. HIDE DEF r
<1>5. (r.p99 - r.p50) * MultipleSatCfg.headroom \in Int BY <1>3, <1>4
<1>6. Widened(r).p50 \in Int /\ Widened(r).p99 \in Int BY <1>3, <1>5 DEF Widened
<1>. QED BY <1>3, <1>6 DEF r

SatAxes == [extraction : Percent, floor : Percent, exunitsInv : Percent, inputs : Percent,
            recurrence : Percent, returned : Nat]

\* The inputs of a group are a natural number.
LEMMA GroupSize ==
  ASSUME NEW t, MultipleSatTx(t), NEW c \in ManyInputs(t)
  PROVE  Cardinality(GroupInputs(t, c)) \in Nat /\ Cardinality(GroupInputs(t, c)) >= 2
<1>1. IsFiniteSet(DOMAIN t.inputs) BY ListIs DEF MultipleSatTx
<1>2. GroupInputs(t, c) \subseteq DOMAIN t.inputs BY DEF GroupInputs
<1>3. IsFiniteSet(GroupInputs(t, c)) BY <1>1, <1>2, FS_Subset
<1>. QED BY <1>3, FS_CardinalityType DEF ManyInputs

\* The axes of multiple_sat are percentages.
LEMMA SatAxesType ==
  ASSUME NEW t, MultipleSatTx(t), NEW c \in ManyInputs(t)
  PROVE  /\ MultipleSatAxes(t, c) \in SatAxes
         /\ Normalise(AssetsOut(t, c), ExtractionPair(t, "assetsOut")) <= MultipleSatAxes(t, c).floor
<1>. DEFINE n == Cardinality(GroupInputs(t, c))
            in == Lovelace(t.inputs, c)
            back == Lovelace(t.outputs, c)
            net == AtLeast2(0, in - back)
            value == ExtractionPair(t, "netValue")
            assets == ExtractionPair(t, "assetsOut")
            k == AssetsOut(t, c)
            x1 == Normalise(net, Widened(value))
            x2 == Normalise(k, Widened(assets))
            y1 == Normalise(net, value)
            y2 == Normalise(k, assets)
            e == AxisInverted(t.cpu \div n, t.tiers.exunits, MultipleSatCfg.exunits)
            i == Axis(n, t.tiers.inputs, MultipleSatCfg.inputs)
            r == Axis(t.recurrence, t.tiers.recurrence, MultipleSatCfg.recurrence)
<1>1. n \in Nat /\ n > 0
  <2>1. n \in Nat /\ n >= 2 BY GroupSize
  <2>. HIDE DEF n
  <2>. QED BY <2>1
<1>2. in \in Nat /\ back \in Nat
  <2>1. IsList(t.inputs) /\ IsList(t.outputs) BY DEF MultipleSatTx
  <2>2. /\ \A j \in DOMAIN t.inputs : t.inputs[j].ada \in Nat
        /\ \A j \in DOMAIN t.outputs : t.outputs[j].ada \in Nat
    BY <2>1, ListIs DEF MultipleSatTx
  <2>. QED BY <2>1, <2>2, LovelaceType
<1>3. k \in Nat BY AssetsOutType
<1>4. /\ value.p50 \in Int /\ value.p99 \in Int /\ Widened(value).p50 \in Int /\ Widened(value).p99 \in Int
      /\ assets.p50 \in Int /\ assets.p99 \in Int /\ Widened(assets).p50 \in Int /\ Widened(assets).p99 \in Int
  BY ExtractionPairIs
<1>5. /\ t.tiers.exunits \in TierRows /\ t.tiers.inputs \in TierRows /\ t.tiers.recurrence \in TierRows
      /\ t.cpu \in Int /\ t.recurrence \in Int
  BY DEF MultipleSatTx
<1>6. MultipleSatCfg.exunits \in Pair /\ MultipleSatCfg.inputs \in Pair /\ MultipleSatCfg.recurrence \in Pair
  BY MultipleSatCfgTypes
<1>7. MultipleSatAxes(t, c) =
        [extraction |-> AtLeast2(x1, x2), floor |-> AtLeast2(y1, y2), exunitsInv |-> e,
         inputs |-> i, recurrence |-> r, returned |-> back]
  BY DEF MultipleSatAxes
<1>. HIDE DEF n, in, back, value, assets, k
<1>8. net \in Int
  <2>1. in - back \in Int BY <1>2
  <2>. QED BY <2>1, AtLeast2Is
<1>. HIDE DEF net
<1>9. x1 \in Percent /\ x2 \in Percent /\ y1 \in Percent /\ y2 \in Percent
  <2>1. k \in Int BY <1>3
  <2>. QED BY <1>4, <1>8, <2>1, NormaliseType
<1>10. e \in Percent /\ i \in Percent /\ r \in Percent
  <2>1. t.cpu \div n \in Int /\ n \in Int BY <1>1, <1>5, Quotient
  <2>. QED BY <1>5, <1>6, <2>1, AxisType
<1>. HIDE DEF x1, x2, y1, y2, e, i, r
<1>11. AtLeast2(x1, x2) \in Percent /\ AtLeast2(y1, y2) \in Percent BY <1>9 DEF AtLeast2
<1>12. y2 <= AtLeast2(y1, y2)
  <2>1. y1 \in Int /\ y2 \in Int BY <1>9 DEF Percent
  <2>. QED BY <2>1, AtLeast2Is
<1>. QED BY <1>2, <1>7, <1>10, <1>11, <1>12 DEF SatAxes, y2, k, assets

\* The weights of multiple_sat are natural numbers, redistributed or not.
LEMMA SatWeightsType ==
  ASSUME NEW allowed
  PROVE  LET w == Weights(allowed)
         IN  w.extraction \in Nat /\ w.exunitsInv \in Nat /\ w.inputs \in Nat /\ w.recurrence \in Nat
<1>. DEFINE w == MultipleSatCfg.weights
            left == w.inputs + w.recurrence
            a == (w.extraction * w.inputs) \div left
            b == (w.extraction * w.recurrence) \div left
<1>1. /\ w \in [extraction : Nat, exunitsInv : Nat, inputs : Nat, recurrence : Nat]
      /\ left \in Nat /\ left > 0
  BY MultipleSatCfgTypes
<1>. HIDE DEF w
<1>2. w.extraction \in Nat /\ w.exunitsInv \in Nat /\ w.inputs \in Nat /\ w.recurrence \in Nat BY <1>1
<1>3. w.extraction * w.inputs \in Nat /\ w.extraction * w.recurrence \in Nat BY <1>2, TimesNat
<1>. HIDE DEF left
<1>4. a \in Nat /\ b \in Nat
  <2>1. a \in Int /\ b \in Int BY <1>1, <1>3, Quotient
  <2>2. left * 0 <= w.extraction * w.inputs /\ left * 0 <= w.extraction * w.recurrence BY <1>1, <1>3
  <2>3. 0 <= a /\ 0 <= b BY <1>1, <1>3, <2>2, QuotientLeast
  <2>. HIDE DEF a, b
  <2>. QED BY <2>1, <2>3
<1>. HIDE DEF a, b
<1>5. Weights(allowed) = IF allowed
                         THEN [w EXCEPT !.extraction = 0, !.inputs = w.inputs + a,
                                        !.recurrence = w.recurrence + b]
                         ELSE w
  BY DEF Weights, w, left, a, b
<1>6. w.inputs + a \in Nat /\ w.recurrence + b \in Nat BY <1>2, <1>4
<1>. QED BY <1>1, <1>2, <1>5, <1>6

\* A natural number below the top is a score.
LEMMA BelowTop == ASSUME NEW n \in Nat, n < 10001 PROVE n \in Score
<1>1. n \in 0 .. 10000 BY SMTT(30)
<1>. QED BY <1>1 DEF Score

\* The floors of multiple_sat are scores.
LEMMA SatFloors == MultipleSatCfg.lazyFloor \in Score /\ MultipleSatCfg.saturationFloor \in Score
<1>1. MultipleSatCfg.lazyFloor \in Nat /\ MultipleSatCfg.saturationFloor \in Nat
  BY MultipleSatCfgTypes
<1>2. MultipleSatCfg.lazyFloor < 10001 /\ MultipleSatCfg.saturationFloor < 10001
  BY MultipleSatBandContracts DEF InBand
<1>. QED BY <1>1, <1>2, BelowTop

\* The score of a group is a finding or none, and one that escapes is a finding.
LEMMA ScriptScoreType ==
  ASSUME NEW a \in SatAxes, NEW allowed, NEW sweep
  PROVE  /\ ScriptScore(a, allowed, sweep) \in Finding
         /\ Escapes(a, allowed) => ScriptScore(a, allowed, sweep) \in Score
<1>. DEFINE w == Weights(allowed)
            sum == FinaliseScore(w.extraction * a.extraction + w.exunitsInv * a.exunitsInv
                                 + w.inputs * a.inputs + w.recurrence * a.recurrence)
            may == ~allowed /\ ~sweep
            floors == (IF may /\ LazyFloor(a) THEN {MultipleSatCfg.lazyFloor} ELSE {})
                      \cup (IF may /\ SaturationFloor(a) THEN {MultipleSatCfg.saturationFloor} ELSE {})
            S == {sum} \cup floors
            floored == Max(S)
            capped == IF sweep THEN AtMost2(floored, ModerateMax) ELSE floored
            lifted == AtMost2(AtLeast2(capped, ModerateThreshold), ModerateMax)
            benign == floors = {} /\ (sweep \/ a.returned > 0)
<1>1. sum \in Score
  <2>1. w.extraction \in Nat /\ w.exunitsInv \in Nat /\ w.inputs \in Nat /\ w.recurrence \in Nat
    BY SatWeightsType
  <2>2. a.extraction \in Nat /\ a.exunitsInv \in Nat /\ a.inputs \in Nat /\ a.recurrence \in Nat
    BY DEF SatAxes, Percent
  <2>. HIDE DEF w
  <2>3. /\ w.extraction * a.extraction \in Nat /\ w.exunitsInv * a.exunitsInv \in Nat
        /\ w.inputs * a.inputs \in Nat /\ w.recurrence * a.recurrence \in Nat
    BY <2>1, <2>2, TimesNat
  <2>4. w.extraction * a.extraction + w.exunitsInv * a.exunitsInv
        + w.inputs * a.inputs + w.recurrence * a.recurrence \in Int
    BY <2>3
  <2>. QED BY <2>4, FinaliseType
<1>2. MultipleSatCfg.lazyFloor \in Score /\ MultipleSatCfg.saturationFloor \in Score BY SatFloors
<1>3. ScriptScore(a, allowed, sweep) =
        IF ~benign THEN capped ELSE IF Escapes(a, allowed) THEN lifted ELSE NoFinding
  BY DEF ScriptScore
<1>4. \A x \in floors : x \in Score BY <1>2
<1>. HIDE DEF sum, floors
<1>5. \A x \in S : x \in Score BY <1>1, <1>4
<1>6. S # {} OBVIOUS
<1>. HIDE DEF S
<1>7. floored \in Score
  <2>1. \A x \in Score : x \in Int /\ x <= 10000 BY ScoreType
  <2>2. S \in SUBSET Int /\ \E B \in Int : \A x \in S : x <= B BY <1>5, <2>1
  <2>3. Max(S) \in S BY <1>6, <2>2, MaxOfBounded
  <2>. QED BY <1>5, <2>3
<1>. HIDE DEF floored
<1>8. capped \in Score
  <2>1. AtMost2(floored, ModerateMax) \in Score BY <1>7, ModerateMaxType, AtMost2Score
  <2>. QED BY <1>7, <2>1
<1>. HIDE DEF capped, benign
<1>9. lifted \in Score
  <2>1. ModerateThreshold \in Score /\ ModerateThreshold \in Nat BY Cuts DEF Score
  <2>2. AtLeast2(capped, ModerateThreshold) \in Score BY <1>8, <2>1 DEF AtLeast2
  <2>. QED BY <2>2, ModerateMaxType, AtMost2Score
<1>. HIDE DEF lifted
<1>. QED BY <1>3, <1>8, <1>9, ScoreType, FindingInt

\* multiple_sat gives no finding or a score, and no less than any of its groups.
LEMMA MultipleSatIs ==
  ASSUME NEW t, MultipleSatTx(t)
  PROVE  /\ MultipleSatScore(t) \in Finding
         /\ \A c \in ManyInputs(t) : /\ MultipleSatGroup(t, c) \in Finding
                                     /\ MultipleSatGroup(t, c) <= MultipleSatScore(t)
<1>. DEFINE S == {NoFinding} \cup {MultipleSatGroup(t, c) : c \in ManyInputs(t)}
<1>1. ASSUME NEW c \in ManyInputs(t) PROVE MultipleSatGroup(t, c) \in Finding
  BY SatAxesType, ScriptScoreType DEF MultipleSatGroup
<1>2. \A x \in S : x \in Finding BY <1>1, FindingInt
<1>3. S # {} OBVIOUS
<1>4. \A c \in ManyInputs(t) : MultipleSatGroup(t, c) \in S OBVIOUS
<1>5. MultipleSatScore(t) = Max(S) BY DEF MultipleSatScore
<1>. HIDE DEF S
<1>6. Max(S) \in S /\ \A x \in S : x <= Max(S)
  <2>1. \A x \in Finding : x \in Int /\ x <= 10000
    <3>. SUFFICES ASSUME NEW x \in Finding PROVE x \in Int /\ x <= 10000 OBVIOUS
    <3>1. CASE x = NoFinding BY <3>1 DEF NoFinding
    <3>2. CASE x \in Score BY <3>2, ScoreType
    <3>. QED BY <3>1, <3>2, FindingInt
  <2>2. S \in SUBSET Int /\ \E B \in Int : \A x \in S : x <= B BY <1>2, <2>1
  <2>. QED BY <1>3, <2>2, MaxOfBounded
<1>. QED BY <1>1, <1>2, <1>4, <1>5, <1>6

\* Two asset classes reach the escape against every pair the capping leaves.
LEMMA DrainStandsOut ==
  ASSUME NEW t, MultipleSatTx(t), NEW k \in Nat, k >= 2
  PROVE  MultipleSatCfg.escape <= Normalise(k, ExtractionPair(t, "assetsOut"))
<1>. DEFINE an == MultipleSatCfg.assetsOut
            r == ExtractionPair(t, "assetsOut")
            P == P50Bound(an, CapMultiplier, SpreadFraction)
            C == P99Cap(an, CapMultiplier)
            e == MultipleSatCfg.escape
            u == 100 - e
<1>0. an \in Pair /\ e \in Nat BY MultipleSatCfgTypes
<1>1. an.p50 \in Int /\ an.p99 \in Int BY <1>0 DEF Pair
<1>2. CapMultiplier \in Nat /\ SpreadFraction \in Nat BY ScoringAssumption
<1>3. /\ CapMultiplier > 0 /\ an.p99 > 0 /\ an.p99 > an.p50 /\ e <= 100
      /\ u * an.p50 + e * an.p99 <= 200 /\ u * P + e * C <= 200
  BY DrainCounts
<1>4. P \in Int /\ C \in Int BY <1>0, <1>2, P50BoundType
<1>5. t.tiers.assetsOut \in TierRows BY DEF MultipleSatTx
<1>6. r = ResolvedOrBootstrap(t.tiers.assetsOut, {"own"}, an) BY DEF ExtractionPair
<1>7. /\ r.p50 \in Int /\ r.p99 \in Int
      /\ \/ r.p50 = an.p50 /\ r.p99 = an.p99
         \/ r.p50 < r.p99 /\ r.p50 <= P /\ r.p99 <= C
  BY <1>0, <1>3, <1>5, <1>6, ResolvedIs
<1>. HIDE DEF an, r, P, C, e
<1>8. u \in Nat BY <1>0, <1>3
<1>9. r.p50 < r.p99 /\ u * r.p50 + e * r.p99 <= 200
  <2>1. CASE r.p50 = an.p50 /\ r.p99 = an.p99 BY <1>3, <2>1
  <2>2. CASE r.p50 < r.p99 /\ r.p50 <= P /\ r.p99 <= C
    <3>1. u * r.p50 <= u * P /\ u * r.p50 \in Int /\ u * P \in Int BY <1>4, <1>7, <1>8, <2>2, TimesMono
    <3>2. e * r.p99 <= e * C /\ e * r.p99 \in Int /\ e * C \in Int BY <1>0, <1>4, <1>7, <2>2, TimesMono
    <3>. HIDE DEF u
    <3>. QED BY <1>3, <2>2, <3>1, <3>2
  <2>. QED BY <1>7, <2>1, <2>2
<1>10. (r.p99 - r.p50) * e <= 100 * (k - r.p50)
  <2>1. u * r.p50 = 100 * r.p50 - e * r.p50 /\ e * r.p50 \in Int /\ e * r.p99 \in Int BY <1>0, <1>7
  <2>2. (r.p99 - r.p50) * e = e * r.p99 - e * r.p50 BY <1>0, <1>7
  <2>. HIDE DEF u
  <2>3. e * r.p99 - e * r.p50 <= 200 - 100 * r.p50 BY <1>7, <1>9, <2>1
  <2>. QED BY <1>7, <2>1, <2>2, <2>3
<1>11. e \in Percent BY <1>0, <1>3 DEF Percent
<1>12. e <= Normalise(k, r) BY <1>7, <1>9, <1>10, <1>11, NormaliseLeast
<1>. QED BY <1>12 DEF e, r

\* A group that loses two asset classes and is not allowlisted is a finding.
LEMMA DrainShown ==
  ASSUME NEW t, MultipleSatTx(t), NEW c \in ManyInputs(t), AssetsOut(t, c) >= 2,
         ~GroupAllowlisted(t, c)
  PROVE  MultipleSatScore(t) >= 0
<1>. DEFINE a == MultipleSatAxes(t, c)
            n == Normalise(AssetsOut(t, c), ExtractionPair(t, "assetsOut"))
            e == MultipleSatCfg.escape
<1>1. a \in SatAxes /\ n <= a.floor BY SatAxesType
<1>2. e <= n BY AssetsOutType, DrainStandsOut
<1>3. e \in Int /\ n \in Int /\ a.floor \in Int
  <2>1. e \in Nat BY MultipleSatCfgTypes
  <2>2. AssetsOut(t, c) \in Int BY AssetsOutType
  <2>3. ExtractionPair(t, "assetsOut").p50 \in Int /\ ExtractionPair(t, "assetsOut").p99 \in Int
    BY ExtractionPairIs
  <2>4. n \in Percent BY <2>2, <2>3, NormaliseType
  <2>. QED BY <1>1, <2>1, <2>4 DEF Percent, SatAxes
<1>. HIDE DEF a, n, e
<1>4. a.floor >= e BY <1>1, <1>2, <1>3
<1>5. Escapes(a, GroupAllowlisted(t, c)) BY <1>4, DrainCounts DEF Escapes, e
<1>6. MultipleSatGroup(t, c) \in Score BY <1>1, <1>5, ScriptScoreType DEF MultipleSatGroup, a
<1>7. MultipleSatGroup(t, c) <= MultipleSatScore(t) /\ MultipleSatScore(t) \in Finding BY MultipleSatIs
<1>. QED BY <1>6, <1>7, ScoreType, FindingType

-----------------------------------------------------------------------------
(* phishing.                                                               *)

\* A union of finitely many finite sets is finite.
LEMMA FiniteUnion ==
  ASSUME NEW S, IsFiniteSet(S), NEW f, DOMAIN f = S, \A x \in S : IsFiniteSet(f[x])
  PROVE  IsFiniteSet(UNION {f[x] : x \in S})
<1>. DEFINE D == {f[x] : x \in S}
<1>1. IsFiniteSet(D) BY FiniteImage
<1>2. \A T \in D : IsFiniteSet(T) OBVIOUS
<1>. HIDE DEF D
<1>3. IsFiniteSet(UNION D) BY <1>1, <1>2, FS_UNION
<1>. QED BY <1>3 DEF D

\* The best of some percentages is one, and nothing is no percent.
LEMMA BestType == ASSUME NEW S \in SUBSET (0 .. 100) PROVE Best(S) \in Nat
<1>. DEFINE T == {0} \cup S
<1>1. T \in SUBSET Int /\ T # {} /\ \A x \in T : x \in Nat /\ x <= 100 BY SMTT(30)
<1>. HIDE DEF T
<1>2. \E B \in Int : \A x \in T : x <= B BY <1>1, SMTT(30)
<1>3. Max(T) \in T BY <1>1, <1>2, MaxOfBounded
<1>. QED BY <1>1, <1>3 DEF Best, T

\* The social-engineering axis is a percentage.
LEMMA SocialType == ASSUME NEW t, PhishingTx(t) PROVE Social(t) \in Percent
<1>. DEFINE heard == {s \in t.spans : Readable(s)}
            fu == [s \in heard |-> s.urgency]
            fb == [s \in heard |-> s.brands]
            u == Cardinality(UNION {s.urgency : s \in heard})
            b == Cardinality(UNION {s.brands : s \in heard})
            score == AtMost2(PhishingCfg.urgencyCap, u * PhishingCfg.urgencyStep)
                     + AtMost2(PhishingCfg.brandCap, b * PhishingCfg.brandStep)
<1>0. /\ PhishingCfg.urgencyCap \in Nat /\ PhishingCfg.urgencyStep \in Nat
      /\ PhishingCfg.brandCap \in Nat /\ PhishingCfg.brandStep \in Nat
      /\ PhishingCfg.socialScore.p50 \in Int /\ PhishingCfg.socialScore.p99 \in Int
  BY TokenCfgTypes DEF Pair
<1>1. IsFiniteSet(heard)
  <2>1. IsFiniteSet(t.spans) BY DEF PhishingTx
  <2>2. heard \subseteq t.spans OBVIOUS
  <2>. QED BY <2>1, <2>2, FS_Subset
<1>2. \A s \in heard : IsFiniteSet(s.urgency) /\ IsFiniteSet(s.brands) BY DEF PhishingTx
<1>3. Social(t) = IF \E s \in heard : s.tier1 THEN 100 ELSE Normalise(score, PhishingCfg.socialScore)
  BY DEF Social
<1>. HIDE DEF heard
<1>4. u \in Nat
  <2>1. DOMAIN fu = heard /\ \A s \in heard : IsFiniteSet(fu[s]) BY <1>2
  <2>0. \A s \in heard : fu[s] = s.urgency OBVIOUS
  <2>. HIDE DEF fu
  <2>2. {s.urgency : s \in heard} = {fu[s] : s \in heard} BY <2>0
  <2>4. IsFiniteSet(UNION {fu[s] : s \in heard}) BY <1>1, <2>1, FiniteUnion
  <2>3. IsFiniteSet(UNION {s.urgency : s \in heard}) BY <2>2, <2>4
  <2>. QED BY <2>3, FS_CardinalityType
<1>5. b \in Nat
  <2>1. DOMAIN fb = heard /\ \A s \in heard : IsFiniteSet(fb[s]) BY <1>2
  <2>0. \A s \in heard : fb[s] = s.brands OBVIOUS
  <2>. HIDE DEF fb
  <2>2. {s.brands : s \in heard} = {fb[s] : s \in heard} BY <2>0
  <2>4. IsFiniteSet(UNION {fb[s] : s \in heard}) BY <1>1, <2>1, FiniteUnion
  <2>3. IsFiniteSet(UNION {s.brands : s \in heard}) BY <2>2, <2>4
  <2>. QED BY <2>3, FS_CardinalityType
<1>. HIDE DEF u, b
<1>6. score \in Int
  <2>1. /\ u * PhishingCfg.urgencyStep \in Int /\ b * PhishingCfg.brandStep \in Int
        /\ PhishingCfg.urgencyCap \in Int /\ PhishingCfg.brandCap \in Int
    BY <1>0, <1>4, <1>5
  <2>2. /\ AtMost2(PhishingCfg.urgencyCap, u * PhishingCfg.urgencyStep) \in Int
        /\ AtMost2(PhishingCfg.brandCap, b * PhishingCfg.brandStep) \in Int
    BY <2>1, AtMost2Is
  <2>. QED BY <2>2
<1>. HIDE DEF score
<1>7. Normalise(score, PhishingCfg.socialScore) \in Percent BY <1>0, <1>6, NormaliseType
<1>. QED BY <1>3, <1>7 DEF Percent

\* The two axes of the domains are percentages.
LEMMA DomainType == ASSUME NEW urls PROVE DomainSuspicion(urls) \in Percent /\ Blacklist(urls) \in Percent
<1>. DEFINE S == {u.sim : u \in {v \in urls : ~v.own /\ v.sim \in 51 .. 99}}
<1>1. S \in SUBSET (0 .. 100) OBVIOUS
<1>. HIDE DEF S
<1>2. Best(S) \in Int BY <1>1, BestType
<1>3. PhishingCfg.brandSim.p50 \in Int /\ PhishingCfg.brandSim.p99 \in Int BY TokenCfgTypes DEF Pair
<1>4. Normalise(Best(S), PhishingCfg.brandSim) \in Percent BY <1>2, <1>3, NormaliseType
<1>5. DomainSuspicion(urls) \in Percent BY <1>4 DEF DomainSuspicion, S
<1>6. Blacklist(urls) \in Percent BY DEF Blacklist, Percent
<1>. QED BY <1>5, <1>6

\* A transaction delivers finitely many assets to finitely many addresses.
LEMMA PairsFinite ==
  ASSUME NEW t, PhishingTx(t)
  PROVE  /\ IsFiniteSet(Pairs(t)) /\ Cardinality(Pairs(t)) \in Nat
         /\ Cardinality({t.outputs[i].addr : i \in DOMAIN t.outputs}) \in Nat
<1>. DEFINE O == DOMAIN t.outputs
            U == UrlAssets(t)
            f == [i \in O |-> {<<a, t.outputs[i].addr>> : a \in t.outputs[i].assets \cap U}]
            g == [i \in O |-> t.outputs[i].addr]
<1>1. IsFiniteSet(O) BY ListIs DEF PhishingTx
<1>2. ASSUME NEW i \in O PROVE IsFiniteSet({<<a, t.outputs[i].addr>> : a \in t.outputs[i].assets \cap U})
  <2>. DEFINE X == t.outputs[i].assets \cap U
              h == [a \in X |-> <<a, t.outputs[i].addr>>]
  <2>1. IsFiniteSet(t.outputs[i].assets) BY DEF PhishingTx
  <2>2. X \subseteq t.outputs[i].assets OBVIOUS
  <2>3. IsFiniteSet(X) BY <2>1, <2>2, FS_Subset
  <2>. HIDE DEF X
  <2>4. DOMAIN h = X /\ {<<a, t.outputs[i].addr>> : a \in X} = {h[a] : a \in X} OBVIOUS
  <2>. HIDE DEF h
  <2>5. IsFiniteSet({<<a, t.outputs[i].addr>> : a \in X}) BY <2>3, <2>4, FiniteImage
  <2>. QED BY <2>5 DEF X
<1>3. Pairs(t) = UNION {f[i] : i \in O} BY DEF Pairs
<1>4. DOMAIN f = O /\ \A i \in O : IsFiniteSet(f[i]) BY <1>2
<1>5. DOMAIN g = O /\ {t.outputs[i].addr : i \in O} = {g[i] : i \in O} OBVIOUS
<1>. HIDE DEF f, g, O
<1>6. IsFiniteSet(Pairs(t)) BY <1>1, <1>3, <1>4, FiniteUnion
<1>7. IsFiniteSet({t.outputs[i].addr : i \in O}) BY <1>1, <1>5, FiniteImage
<1>. QED BY <1>6, <1>7, FS_CardinalityType DEF O

\* The parts of the score.
PhishContent(t) ==
  PhishingCfg.content.blacklist * Blacklist(Urls(t, UrlCarriers))
  + PhishingCfg.content.domain * DomainSuspicion(Urls(t, UrlCarriers))
  + PhishingCfg.content.social * Social(t)
PhishReach(t) ==
  PhishingCfg.delivery.recipients
    * Axis(Cardinality({t.outputs[i].addr : i \in DOMAIN t.outputs}), t.tiers.recipients,
           PhishingCfg.recipients)
Targeting(t) ==
  IF Pairs(t) = {} THEN 0 ELSE (100 * Cardinality(NetNew(t))) \div Cardinality(Pairs(t))
PhishBold(t) == ~SuppressBonuses(t) /\ Social(t) >= PhishingCfg.boldSocial
PhishBonus(t) ==
  (IF PhishBold(t) /\ Urls(t, UrlCarriers) # {} THEN PhishingCfg.comboBonus ELSE 0)
  + (IF PhishBold(t) /\ \E u \in Urls(t, UrlCarriers) : u.prone THEN PhishingCfg.tldBonus ELSE 0)
PhishWeighted(t) ==
  PhishingCfg.overall.content * PhishContent(t)
  + PhishingCfg.overall.delivery * (PhishReach(t) + PhishingCfg.delivery.targeting * Targeting(t))

\* The parts of a phishing score are natural numbers.
LEMMA PhishPartsType ==
  ASSUME NEW t, PhishingTx(t)
  PROVE  /\ PhishContent(t) \in Nat /\ PhishReach(t) \in Nat /\ Targeting(t) \in Nat
         /\ PhishBonus(t) \in Nat /\ PhishWeighted(t) \in Nat
<1>. DEFINE urls == Urls(t, UrlCarriers)
            R == Cardinality({t.outputs[i].addr : i \in DOMAIN t.outputs})
<1>0. /\ PhishingCfg.content.blacklist \in Nat /\ PhishingCfg.content.domain \in Nat
      /\ PhishingCfg.content.social \in Nat /\ PhishingCfg.delivery.recipients \in Nat
      /\ PhishingCfg.delivery.targeting \in Nat /\ PhishingCfg.overall.content \in Nat
      /\ PhishingCfg.overall.delivery \in Nat /\ PhishingCfg.recipients \in Pair
      /\ PhishingCfg.comboBonus \in Nat /\ PhishingCfg.tldBonus \in Nat
  BY TokenCfgTypes
<1>1. PhishContent(t) \in Nat
  <2>1. Social(t) \in Nat /\ Blacklist(urls) \in Nat /\ DomainSuspicion(urls) \in Nat
    BY SocialType, DomainType DEF Percent
  <2>2. /\ PhishingCfg.content.blacklist * Blacklist(urls) \in Nat
        /\ PhishingCfg.content.domain * DomainSuspicion(urls) \in Nat
        /\ PhishingCfg.content.social * Social(t) \in Nat
    BY <1>0, <2>1, TimesNat
  <2>. QED BY <2>2 DEF PhishContent
<1>2. PhishReach(t) \in Nat
  <2>1. R \in Int BY PairsFinite
  <2>2. t.tiers.recipients \in TierRows BY DEF PhishingTx
  <2>. HIDE DEF R
  <2>3. Axis(R, t.tiers.recipients, PhishingCfg.recipients) \in Percent BY <1>0, <2>1, <2>2, AxisType
  <2>4. Axis(R, t.tiers.recipients, PhishingCfg.recipients) \in Nat BY <2>3 DEF Percent
  <2>. QED BY <1>0, <2>4, TimesNat DEF PhishReach, R
<1>3. Targeting(t) \in Nat
  <2>1. CASE Pairs(t) = {} BY <2>1 DEF Targeting
  <2>2. CASE Pairs(t) # {}
    <3>. DEFINE n == Cardinality(NetNew(t))
                d == Cardinality(Pairs(t))
    <3>1. NetNew(t) \subseteq Pairs(t) BY DEF NetNew
    <3>2. n \in Nat
      <4>1. IsFiniteSet(NetNew(t)) BY <3>1, PairsFinite, FS_Subset
      <4>. QED BY <4>1, FS_CardinalityType
    <3>3. d \in Nat /\ d > 0
      <4>1. d \in Nat /\ IsFiniteSet(Pairs(t)) BY PairsFinite
      <4>2. d # 0 BY <2>2, <4>1, FS_EmptySet
      <4>. HIDE DEF d
      <4>. QED BY <4>1, <4>2
    <3>. HIDE DEF n, d
    <3>4. 100 * n \in Int /\ d * 0 <= 100 * n BY <3>2, <3>3
    <3>5. (100 * n) \div d \in Int /\ 0 <= (100 * n) \div d BY <3>3, <3>4, Quotient, QuotientLeast
    <3>6. Targeting(t) = (100 * n) \div d BY <2>2 DEF Targeting, n, d
    <3>. QED BY <3>5, <3>6
  <2>. QED BY <2>1, <2>2
<1>4. PhishBonus(t) \in Nat
  <2>. DEFINE b1 == PhishBold(t) /\ Urls(t, UrlCarriers) # {}
              b2 == PhishBold(t) /\ \E u \in Urls(t, UrlCarriers) : u.prone
              x == IF b1 THEN PhishingCfg.comboBonus ELSE 0
              y == IF b2 THEN PhishingCfg.tldBonus ELSE 0
  <2>1. x \in Nat /\ y \in Nat BY <1>0
  <2>2. PhishBonus(t) = x + y BY DEF PhishBonus
  <2>. HIDE DEF x, y
  <2>. QED BY <2>1, <2>2
<1>5. PhishingCfg.delivery.targeting * Targeting(t) \in Nat BY <1>0, <1>3, TimesNat
<1>6. PhishReach(t) + PhishingCfg.delivery.targeting * Targeting(t) \in Nat BY <1>2, <1>5
<1>7. /\ PhishingCfg.overall.content * PhishContent(t) \in Nat
      /\ PhishingCfg.overall.delivery * (PhishReach(t) + PhishingCfg.delivery.targeting * Targeting(t)) \in Nat
  BY <1>0, <1>1, <1>6, TimesNat
<1>8. PhishWeighted(t) \in Nat BY <1>7 DEF PhishWeighted
<1>. QED BY <1>1, <1>2, <1>3, <1>4, <1>8

\* What PhishingScore computes.
LEMMA PhishingIs ==
  ASSUME NEW t, PhishingTx(t)
  PROVE  /\ PhishWeighted(t) \div 100 + PhishBonus(t) \in Int
         /\ PhishingScore(t) = IF Urls(t, UrlCarriers) = {} /\ Social(t) = 0 THEN 0
                               ELSE FinaliseScore(PhishWeighted(t) \div 100 + PhishBonus(t))
         /\ PhishingScore(t) \in Score
<1>. DEFINE a == IF PhishBold(t) /\ Urls(t, UrlCarriers) # {} THEN PhishingCfg.comboBonus ELSE 0
            b == IF PhishBold(t) /\ \E u \in Urls(t, UrlCarriers) : u.prone THEN PhishingCfg.tldBonus ELSE 0
            q == PhishWeighted(t) \div 100
<1>0. PhishingCfg.comboBonus \in Nat /\ PhishingCfg.tldBonus \in Nat BY TokenCfgTypes
<1>1. a \in Nat /\ b \in Nat BY <1>0
<1>2. PhishWeighted(t) \in Int BY PhishPartsType
<1>3. q \in Int BY <1>2, Quotient
<1>4. PhishBonus(t) = a + b BY DEF PhishBonus
<1>5. PhishingScore(t) = IF Urls(t, UrlCarriers) = {} /\ Social(t) = 0 THEN 0
                         ELSE FinaliseScore(q + a + b)
  BY DEF PhishingScore, PhishWeighted, PhishContent, PhishReach, Targeting, PhishBold
<1>. HIDE DEF a, b, q
<1>6. q + a + b = q + PhishBonus(t) /\ q + a + b \in Int BY <1>1, <1>3, <1>4
<1>7. FinaliseScore(q + PhishBonus(t)) \in Score BY <1>6, FinaliseType
<1>8. 0 \in Score BY DEF Score
<1>. QED BY <1>5, <1>6, <1>7, <1>8 DEF q

\* An input whose value could not be read holds nothing before: more pairs look new and
\* the bonuses are not withheld.
LEMMA LostValuesFailOpen ==
  ASSUME NEW t, PhishingTx(t)
  PROVE  /\ PhishingGate(Valued(t)) = PhishingGate(t)
         /\ PhishingScore(Valued(t)) \in Score
         /\ PhishingScore(Valued(t)) <= PhishingScore(t)
<1>. DEFINE m == Valued(t)
<1>1. /\ m.spans = t.spans /\ m.outputs = t.outputs /\ m.minted = t.minted /\ m.tiers = t.tiers
      /\ m.kind = t.kind /\ DOMAIN m = DOMAIN t
      /\ m.inputs = [i \in DOMAIN t.inputs |-> [t.inputs[i] EXCEPT !.valued = TRUE]]
  BY DEF Valued, PhishingTx
<1>. HIDE DEF m
<1>2. /\ DOMAIN m.inputs = DOMAIN t.inputs
      /\ \A i \in DOMAIN t.inputs :
           /\ m.inputs[i].addr = t.inputs[i].addr /\ m.inputs[i].resolved = t.inputs[i].resolved
           /\ m.inputs[i].assets = t.inputs[i].assets /\ m.inputs[i].valued = TRUE
           /\ DOMAIN m.inputs[i] = DOMAIN t.inputs[i]
  BY <1>1 DEF PhishingTx
<1>3. PhishingTx(m)
  <2>1. IsList(t.inputs) BY DEF PhishingTx
  <2>2. Len(t.inputs) \in Nat /\ DOMAIN t.inputs = 1 .. Len(t.inputs) BY <2>1, ListIs
  <2>3. m.inputs \in [1 .. Len(t.inputs) -> Range(m.inputs)] BY <1>1, <2>2 DEF Range
  <2>4. IsList(m.inputs) BY <2>2, <2>3, SeqDef DEF IsList
  <2>. QED BY <1>1, <1>2, <2>4 DEF PhishingTx
<1>4. \A S : Urls(m, S) = Urls(t, S) BY <1>1 DEF Urls
<1>5. Social(m) = Social(t) BY <1>1 DEF Social
<1>6. SenderAllowlisted(m) = SenderAllowlisted(t) BY <1>2 DEF SenderAllowlisted
<1>7. PhishingGate(m) = PhishingGate(t) BY <1>1, <1>4, <1>5, <1>6 DEF PhishingGate
<1>8. UrlAssets(m) = UrlAssets(t) /\ Pairs(m) = Pairs(t) BY <1>1 DEF UrlAssets, Pairs
<1>9. \A p : HeldBefore(t, p) => HeldBefore(m, p) BY <1>2 DEF HeldBefore
<1>10. NetNew(m) \subseteq NetNew(t) BY <1>1, <1>8, <1>9 DEF NetNew
<1>11. SuppressBonuses(t) => SuppressBonuses(m)
  <2>1. NetNew(t) = {} => NetNew(m) = {} BY <1>10
  <2>. QED BY <1>4, <1>8, <2>1 DEF SuppressBonuses
<1>12. PhishBold(m) => PhishBold(t) BY <1>5, <1>11 DEF PhishBold
<1>13. PhishContent(m) = PhishContent(t) BY <1>4, <1>5 DEF PhishContent
<1>14. PhishReach(m) = PhishReach(t) BY <1>1 DEF PhishReach
<1>15. Targeting(m) <= Targeting(t)
  <2>1. CASE Pairs(t) = {} BY <1>8, <2>1 DEF Targeting
  <2>2. CASE Pairs(t) # {}
    <3>. DEFINE a == Cardinality(NetNew(m))
                b == Cardinality(NetNew(t))
                d == Cardinality(Pairs(t))
    <3>1. IsFiniteSet(Pairs(t)) /\ d \in Nat BY PairsFinite
    <3>2. NetNew(t) \subseteq Pairs(t) BY DEF NetNew
    <3>3. IsFiniteSet(NetNew(t)) BY <3>1, <3>2, FS_Subset
    <3>4. IsFiniteSet(NetNew(m)) /\ a <= b BY <1>10, <3>3, FS_Subset
    <3>5. a \in Nat /\ b \in Nat BY <3>3, <3>4, FS_CardinalityType
    <3>6. d # 0 BY <2>2, <3>1, FS_EmptySet
    <3>7. Targeting(m) = (100 * a) \div d /\ Targeting(t) = (100 * b) \div d
      BY <1>8, <2>2 DEF Targeting
    <3>. HIDE DEF a, b, d
    <3>8. 100 * a \in Int /\ 100 * b \in Int /\ 100 * a <= 100 * b /\ d > 0 BY <3>1, <3>4, <3>5, <3>6
    <3>. QED BY <3>1, <3>7, <3>8, QuotientMono
  <2>. QED BY <2>1, <2>2
<1>16. PhishWeighted(m) <= PhishWeighted(t)
  <2>. DEFINE k == PhishingCfg.delivery.targeting
              v == PhishingCfg.overall.delivery
              r == PhishReach(t)
              c == PhishingCfg.overall.content * PhishContent(t)
              x == k * Targeting(m)
              y == k * Targeting(t)
  <2>0. k \in Nat /\ v \in Nat /\ PhishingCfg.overall.content \in Nat BY TokenCfgTypes
  <2>1. /\ Targeting(m) \in Int /\ Targeting(t) \in Int /\ r \in Nat /\ PhishContent(t) \in Nat
    BY <1>3, PhishPartsType
  <2>2. c \in Nat BY <2>0, <2>1, TimesNat
  <2>3. x <= y /\ x \in Int /\ y \in Int BY <1>15, <2>0, <2>1, TimesMono
  <2>4. PhishWeighted(m) = c + v * (r + x) /\ PhishWeighted(t) = c + v * (r + y)
    BY <1>13, <1>14 DEF PhishWeighted
  <2>. HIDE DEF k, v, r, c, x, y
  <2>5. r + x \in Int /\ r + y \in Int /\ r + x <= r + y BY <2>1, <2>3
  <2>6. v * (r + x) <= v * (r + y) /\ v * (r + x) \in Int /\ v * (r + y) \in Int
    BY <2>0, <2>5, TimesMono
  <2>. QED BY <2>2, <2>4, <2>6
<1>17. PhishBonus(m) <= PhishBonus(t)
  <2>. DEFINE X(u) == IF PhishBold(u) /\ Urls(t, UrlCarriers) # {} THEN PhishingCfg.comboBonus ELSE 0
              Y(u) == IF PhishBold(u) /\ \E z \in Urls(t, UrlCarriers) : z.prone THEN PhishingCfg.tldBonus ELSE 0
  <2>0. PhishingCfg.comboBonus \in Nat /\ PhishingCfg.tldBonus \in Nat BY TokenCfgTypes
  <2>1. PhishBonus(m) = X(m) + Y(m) /\ PhishBonus(t) = X(t) + Y(t) BY <1>4 DEF PhishBonus
  <2>2. X(m) <= X(t) /\ X(m) \in Nat /\ X(t) \in Nat BY <1>12, <2>0
  <2>3. Y(m) <= Y(t) /\ Y(m) \in Nat /\ Y(t) \in Nat BY <1>12, <2>0
  <2>. HIDE DEF X, Y
  <2>. QED BY <2>1, <2>2, <2>3
<1>18. PhishingScore(m) <= PhishingScore(t)
  <2>1. PhishWeighted(m) \in Int /\ PhishWeighted(t) \in Int /\ PhishBonus(m) \in Int /\ PhishBonus(t) \in Int
    BY <1>3, PhishPartsType
  <2>. DEFINE qm == PhishWeighted(m) \div 100
              qt == PhishWeighted(t) \div 100
  <2>2. qm \in Int /\ qt \in Int /\ qm <= qt BY <1>16, <2>1, Quotient, QuotientMono
  <2>. HIDE DEF qm, qt
  <2>3. qm + PhishBonus(m) \in Int /\ qt + PhishBonus(t) \in Int /\ qm + PhishBonus(m) <= qt + PhishBonus(t)
    BY <1>17, <2>1, <2>2
  <2>4. FinaliseScore(qm + PhishBonus(m)) <= FinaliseScore(qt + PhishBonus(t)) BY <2>3, FinaliseMono
  <2>5. /\ PhishingScore(m) = IF Urls(t, UrlCarriers) = {} /\ Social(t) = 0 THEN 0
                              ELSE FinaliseScore(qm + PhishBonus(m))
        /\ PhishingScore(t) = IF Urls(t, UrlCarriers) = {} /\ Social(t) = 0 THEN 0
                              ELSE FinaliseScore(qt + PhishBonus(t))
    BY <1>3, <1>4, <1>5, PhishingIs DEF qm, qt
  <2>. QED BY <2>4, <2>5
<1>. QED BY <1>3, <1>7, <1>18, PhishingIs DEF m

\* A signal of the content is worth a point.
LEMMA SignalCounts ==
  ASSUME NEW t, PhishingTx(t), PhishingGate(t),
         Social(t) > 0 \/ Blacklist(Urls(t, UrlCarriers)) > 0 \/ DomainSuspicion(Urls(t, UrlCarriers)) > 0
  PROVE  PhishingScore(t) > 0
<1>. DEFINE urls == Urls(t, UrlCarriers)
            v == PhishingCfg.overall.content
            wb == PhishingCfg.content.blacklist
            wd == PhishingCfg.content.domain
            ws == PhishingCfg.content.social
            B == Blacklist(urls)
            D == DomainSuspicion(urls)
            S == Social(t)
<1>0. /\ v \in Nat /\ wb \in Nat /\ wd \in Nat /\ ws \in Nat /\ PhishingCfg.overall.delivery \in Nat
      /\ PhishingCfg.delivery.targeting \in Nat
  BY TokenCfgTypes
<1>1. v * wb >= 100 /\ v * wd >= 100 /\ v * ws >= 100 BY TokenSignalsCount
<1>2. B \in Nat /\ D \in Nat /\ S \in Nat BY SocialType, DomainType DEF Percent
<1>3. PhishContent(t) = wb * B + wd * D + ws * S BY DEF PhishContent
<1>4. B > 0 \/ D > 0 \/ S > 0 OBVIOUS
<1>. HIDE DEF v, wb, wd, ws, B, D, S
<1>5. wb * B \in Nat /\ wd * D \in Nat /\ ws * S \in Nat BY <1>0, <1>2, TimesNat
<1>6. \/ wb * B >= wb \/ wd * D >= wd \/ ws * S >= ws
  <2>1. CASE B > 0
    <3>1. wb * 1 <= wb * B BY <1>0, <1>2, <2>1, TimesMono
    <3>. QED BY <1>0, <1>5, <3>1
  <2>2. CASE D > 0
    <3>1. wd * 1 <= wd * D BY <1>0, <1>2, <2>2, TimesMono
    <3>. QED BY <1>0, <1>5, <3>1
  <2>3. CASE S > 0
    <3>1. ws * 1 <= ws * S BY <1>0, <1>2, <2>3, TimesMono
    <3>. QED BY <1>0, <1>5, <3>1
  <2>. QED BY <1>4, <2>1, <2>2, <2>3
<1>7. PhishContent(t) \in Nat /\ (PhishContent(t) >= wb \/ PhishContent(t) >= wd \/ PhishContent(t) >= ws)
  BY <1>0, <1>3, <1>5, <1>6
<1>8. v * PhishContent(t) >= 100
  <2>1. CASE PhishContent(t) >= wb
    <3>1. v * wb <= v * PhishContent(t) /\ v * wb \in Int /\ v * PhishContent(t) \in Int
      BY <1>0, <1>7, <2>1, TimesMono
    <3>. QED BY <1>1, <3>1
  <2>2. CASE PhishContent(t) >= wd
    <3>1. v * wd <= v * PhishContent(t) /\ v * wd \in Int /\ v * PhishContent(t) \in Int
      BY <1>0, <1>7, <2>2, TimesMono
    <3>. QED BY <1>1, <3>1
  <2>3. CASE PhishContent(t) >= ws
    <3>1. v * ws <= v * PhishContent(t) /\ v * ws \in Int /\ v * PhishContent(t) \in Int
      BY <1>0, <1>7, <2>3, TimesMono
    <3>. QED BY <1>1, <3>1
  <2>. QED BY <1>7, <2>1, <2>2, <2>3
<1>9. PhishWeighted(t) >= 100 /\ PhishWeighted(t) \in Int
  <2>. DEFINE e == PhishingCfg.overall.delivery * (PhishReach(t) + PhishingCfg.delivery.targeting * Targeting(t))
  <2>1. PhishReach(t) \in Nat /\ Targeting(t) \in Nat BY PhishPartsType
  <2>2. PhishingCfg.delivery.targeting * Targeting(t) \in Nat BY <1>0, <2>1, TimesNat
  <2>3. PhishReach(t) + PhishingCfg.delivery.targeting * Targeting(t) \in Nat BY <2>1, <2>2
  <2>4. e \in Nat BY <1>0, <2>3, TimesNat
  <2>5. PhishWeighted(t) = v * PhishContent(t) + e BY DEF PhishWeighted, v
  <2>6. v * PhishContent(t) \in Nat BY <1>0, <1>7, TimesNat
  <2>. HIDE DEF e
  <2>. QED BY <1>8, <2>4, <2>5, <2>6
<1>10. PhishWeighted(t) \div 100 >= 1 /\ PhishWeighted(t) \div 100 \in Int
  <2>1. 100 * 1 <= PhishWeighted(t) BY <1>9
  <2>2. 1 <= PhishWeighted(t) \div 100 BY <1>9, <2>1, QuotientLeast
  <2>3. PhishWeighted(t) \div 100 \in Int BY <1>9, Quotient
  <2>. QED BY <2>2, <2>3
<1>. DEFINE q == PhishWeighted(t) \div 100
<1>11. ~(urls = {} /\ Social(t) = 0) BY <1>2 DEF PhishingGate, S
<1>12. PhishBonus(t) \in Nat BY PhishPartsType
<1>13. PhishingScore(t) = FinaliseScore(q + PhishBonus(t)) BY <1>11, PhishingIs
<1>. HIDE DEF q
<1>14. q + PhishBonus(t) >= 1 /\ q + PhishBonus(t) \in Int
  <2>1. q \in Int /\ q >= 1 BY <1>10, SMTT(30) DEF q
  <2>. QED BY <1>12, <2>1, SMTT(30)
<1>. QED BY <1>13, <1>14 DEF FinaliseScore, AtLeast2, AtMost2

-----------------------------------------------------------------------------
(* fake_token.                                                             *)

\* A lookalike is a minted name and a legitimate token it resembles.
LEMMA LookalikeIs ==
  ASSUME NEW t, FakeTokenTx(t), NEW p \in Lookalikes(t)
  PROVE  /\ p[1] \in Nat /\ p[1] \in DOMAIN t.mint /\ p[2] \in DOMAIN LegitimateTokens(t.network)
         /\ Similarity(t.mint[p[1]], p[2]) \in 0 .. 100
<1>1. p[1] \in MintedAssets(t) /\ p[2] \in DOMAIN LegitimateTokens(t.network) BY DEF Lookalikes
<1>2. p[1] \in DOMAIN t.mint BY <1>1 DEF MintedAssets
<1>3. p[1] \in Nat
  <2>1. Len(t.mint) \in Nat /\ DOMAIN t.mint = 1 .. Len(t.mint) BY ListIs DEF FakeTokenTx
  <2>. QED BY <1>2, <2>1
<1>. QED BY <1>1, <1>2, <1>3 DEF FakeTokenTx

\* The candidate exists: the most similar pair that was minted first.
LEMMA BestLookalikeIs ==
  ASSUME NEW t, FakeTokenTx(t), Lookalikes(t) # {}
  PROVE  LET p == CHOOSE q \in BestLookalikes(t) : \A r \in BestLookalikes(t) : q[1] <= r[1]
         IN  p \in Lookalikes(t)
<1>. DEFINE V == {Similarity(t.mint[q[1]], q[2]) : q \in Lookalikes(t)}
            B == BestLookalikes(t)
            N == {q[1] : q \in B}
<1>1. V \in SUBSET Int /\ V # {} /\ \A x \in V : x \in Int /\ x <= 100 BY LookalikeIs
<1>2. Max(V) \in V /\ \A x \in V : x <= Max(V)
  <2>. HIDE DEF V
  <2>0. 100 \in Int /\ \A x \in V : x <= 100 BY <1>1
  <2>1. \E U \in Int : \A x \in V : x <= U BY <2>0
  <2>. QED BY <1>1, <2>1, MaxOfBounded
<1>3. PICK q \in Lookalikes(t) : Similarity(t.mint[q[1]], q[2]) = Max(V) BY <1>2
<1>4. \A r \in Lookalikes(t) : Similarity(t.mint[r[1]], r[2]) <= Similarity(t.mint[q[1]], q[2])
  BY <1>2, <1>3
<1>5. q \in B BY <1>4 DEF BestLookalikes
<1>6. B \subseteq Lookalikes(t) BY DEF BestLookalikes
<1>. HIDE DEF B
<1>7. N \in SUBSET Nat /\ N # {} BY <1>5, <1>6, LookalikeIs
<1>8. PICK n \in N : \A k \in N : n <= k
  <2>. HIDE DEF N
  <2>. QED BY <1>7, LeastNat
<1>9. PICK p \in B : p[1] = n OBVIOUS
<1>10. \A r \in B : p[1] <= r[1] BY <1>8, <1>9
<1>11. (CHOOSE s \in B : \A r \in B : s[1] <= r[1]) \in B BY <1>9, <1>10
<1>. QED BY <1>6, <1>11 DEF B

\* The identity part of fake_token is a natural number.
LEMMA IdentityType ==
  ASSUME NEW t, FakeTokenTx(t), NEW p \in Lookalikes(t) PROVE Identity(t, p) \in Nat
<1>. DEFINE m == t.mint[p[1]]
            w == FakeTokenCfg.identity
            u == FakeTokenCfg.unicode
            a == IF "zero_width" \in m.hex.marks THEN u.zeroWidth ELSE 0
            b == IF "mixed" \in m.hex.marks THEN u.mixed ELSE 0
            c == IF "homoglyph" \in m.hex.marks THEN u.homoglyphs ELSE 0
            d == IF m.hex.folded[p[2]] > m.hex.plain[p[2]] THEN u.homoglyphs ELSE 0
            x == Normalise(Similarity(m, p[2]), FakeTokenCfg.nameSim)
            y == Normalise(UnicodeSuspicion(m, p[2]), FakeTokenCfg.unicodeAnchor)
            z == Normalise(t.cip25Text[p[2]], FakeTokenCfg.cip25)
            plain == w.name * x + w.unicode * y + w.cip25 * z
<1>0. /\ w.name \in Nat /\ w.unicode \in Nat /\ w.cip25 \in Nat /\ u.zeroWidth \in Nat
      /\ u.mixed \in Nat /\ u.homoglyphs \in Nat /\ FakeTokenCfg.multiplier \in Nat
      /\ FakeTokenCfg.nameSim.p50 \in Int /\ FakeTokenCfg.nameSim.p99 \in Int
      /\ FakeTokenCfg.unicodeAnchor.p50 \in Int /\ FakeTokenCfg.unicodeAnchor.p99 \in Int
      /\ FakeTokenCfg.cip25.p50 \in Int /\ FakeTokenCfg.cip25.p99 \in Int
  BY TokenCfgTypes DEF Pair
<1>1. Similarity(m, p[2]) \in Int BY LookalikeIs
<1>2. t.cip25Text[p[2]] \in Int
  <2>1. p[2] \in DOMAIN LegitimateTokens(t.network) BY LookalikeIs, SMTT(30)
  <2>2. t.cip25Text[p[2]] \in 0 .. 100 BY <2>1 DEF FakeTokenTx
  <2>. QED BY <2>2
<1>3. UnicodeSuspicion(m, p[2]) = AtMost2(100, a + b + c + d) BY DEF UnicodeSuspicion
<1>4. a \in Nat /\ b \in Nat /\ c \in Nat /\ d \in Nat BY <1>0
<1>. HIDE DEF a, b, c, d
<1>5. UnicodeSuspicion(m, p[2]) \in Int
  <2>1. a + b + c + d \in Int /\ 100 \in Int BY <1>4
  <2>2. AtMost2(100, a + b + c + d) \in Int BY <2>1, AtMost2Is
  <2>. QED BY <1>3, <2>2
<1>6. x \in Nat /\ y \in Nat /\ z \in Nat
  <2>1. x \in Percent /\ y \in Percent /\ z \in Percent BY <1>0, <1>1, <1>2, <1>5, NormaliseType
  <2>. QED BY <2>1 DEF Percent
<1>7. Identity(t, p) = IF p[2] \in FakeTokenCfg.critical
                       THEN AtMost2(10000, (plain * FakeTokenCfg.multiplier) \div 100) ELSE plain
  BY DEF Identity
<1>. HIDE DEF x, y, z
<1>8. plain \in Nat
  <2>1. w.name * x \in Nat /\ w.unicode * y \in Nat /\ w.cip25 * z \in Nat BY <1>0, <1>6, TimesNat
  <2>. QED BY <2>1
<1>. HIDE DEF plain
<1>9. plain * FakeTokenCfg.multiplier \in Nat BY <1>0, <1>8, TimesNat
<1>. DEFINE q == (plain * FakeTokenCfg.multiplier) \div 100
<1>10. q \in Int /\ 0 <= q
  <2>1. 100 * 0 <= plain * FakeTokenCfg.multiplier BY <1>9
  <2>. QED BY <1>9, <2>1, Quotient, QuotientLeast
<1>. HIDE DEF q
<1>11. AtMost2(10000, q) \in Nat BY <1>10 DEF AtMost2
<1>. QED BY <1>7, <1>8, <1>11 DEF q

\* The distribution part of fake_token is a natural number, and the policy's age counts
\* in full.
LEMMA DistributionIs ==
  ASSUME NEW t, FakeTokenTx(t), NEW p \in Lookalikes(t)
  PROVE  Distribution(t, p) \in Nat /\ Distribution(t, p) >= FakeTokenCfg.distribution.policyAge * 100
<1>. DEFINE w == FakeTokenCfg.distribution
            d == AtLeast2(1, t.recipients)
            k == t.mint[p[1]].qty
            a == w.recipients * Axis(t.recipients, t.tiers.recipients, FakeTokenCfg.recipients)
            b == w.ratio * AxisInverted(k \div d, t.tiers.ratio, FakeTokenCfg.mintRatio)
<1>0. /\ w.recipients \in Nat /\ w.ratio \in Nat /\ w.policyAge \in Nat
      /\ FakeTokenCfg.recipients \in Pair /\ FakeTokenCfg.mintRatio \in Pair
  BY TokenCfgTypes, SMTT(30)
<1>1. /\ t.recipients \in Nat /\ t.tiers.recipients \in TierRows /\ t.tiers.ratio \in TierRows
  BY SMTT(30) DEF FakeTokenTx
<1>2. k \in Int BY LookalikeIs, Zenon DEF FakeTokenTx
<1>3. d \in Nat /\ d > 0 BY <1>1, SMTT(30) DEF AtLeast2
<1>4. Distribution(t, p) = a + b + w.policyAge * 100 BY DEF Distribution
<1>. HIDE DEF d, k
<1>5. k \div d \in Int BY <1>2, <1>3, Quotient
<1>6. /\ Axis(t.recipients, t.tiers.recipients, FakeTokenCfg.recipients) \in Nat
      /\ AxisInverted(k \div d, t.tiers.ratio, FakeTokenCfg.mintRatio) \in Nat
  <2>1. Percent \subseteq Nat /\ t.recipients \in Int BY <1>1 DEF Percent
  <2>2. Axis(t.recipients, t.tiers.recipients, FakeTokenCfg.recipients) \in Percent
    BY <1>0, <1>1, <2>1, AxisType
  <2>3. AxisInverted(k \div d, t.tiers.ratio, FakeTokenCfg.mintRatio) \in Percent
    BY <1>0, <1>1, <1>5, AxisType
  <2>. QED BY <2>1, <2>2, <2>3
<1>7. a \in Nat /\ b \in Nat BY <1>0, <1>6, TimesNat
<1>. HIDE DEF a, b
<1>. QED BY <1>0, <1>4, <1>7

\* fake_token gives a score, above 0 where there is a lookalike.
LEMMA FakeTokenIs ==
  ASSUME NEW t, FakeTokenTx(t)
  PROVE  /\ FakeTokenScore(t) \in Score
         /\ Lookalikes(t) # {} => FakeTokenScore(t) > 0
<1>1. CASE Lookalikes(t) = {} BY <1>1 DEF FakeTokenScore, Score
<1>2. CASE Lookalikes(t) # {}
  <2>. DEFINE p == CHOOSE q \in BestLookalikes(t) : \A r \in BestLookalikes(t) : q[1] <= r[1]
              vi == FakeTokenCfg.overall.identity
              vd == FakeTokenCfg.overall.distribution
              wp == FakeTokenCfg.distribution.policyAge
              i == Identity(t, p)
              d == Distribution(t, p)
  <2>0. vi \in Nat /\ vd \in Nat /\ wp \in Nat BY TokenCfgTypes
  <2>1. vd * wp >= 1 BY TokenSignalsCount
  <2>2. p \in Lookalikes(t) BY <1>2, BestLookalikeIs
  <2>3. i \in Nat /\ d \in Nat /\ d >= wp * 100 BY <2>2, IdentityType, DistributionIs
  <2>4. FakeTokenScore(t) = FinaliseScore((vi * i + vd * d) \div 100) BY <1>2 DEF FakeTokenScore
  <2>. HIDE DEF p, vi, vd, wp, i, d
  <2>5. vi * i \in Nat /\ vd * d \in Nat BY <2>0, <2>3, TimesNat
  <2>6. vd * d >= 100
    <3>1. wp * 100 \in Int BY <2>0
    <3>2. vd * (wp * 100) <= vd * d BY <2>0, <2>3, <3>1, TimesMono
    <3>3. vd * (wp * 100) = (vd * wp) * 100 BY <2>0
    <3>4. vd * wp \in Nat BY <2>0, TimesNat
    <3>5. (vd * wp) * 100 >= 100 BY <2>1, <3>4
    <3>. QED BY <2>5, <3>2, <3>3, <3>4, <3>5
  <2>7. vi * i + vd * d \in Int /\ 100 * 1 <= vi * i + vd * d BY <2>5, <2>6
  <2>. DEFINE q == (vi * i + vd * d) \div 100
  <2>8. q \in Int /\ 1 <= q BY <2>7, Quotient, QuotientLeast
  <2>. HIDE DEF q
  <2>9. FinaliseScore(q) \in Score BY <2>8, FinaliseType
  <2>10. FinaliseScore(q) > 0 BY <2>8 DEF FinaliseScore, AtLeast2, AtMost2
  <2>. QED BY <2>4, <2>9, <2>10 DEF q
<1>. QED BY <1>1, <1>2

-----------------------------------------------------------------------------
(* The verdict.                                                            *)

\* The rank of a band.
LEMMA BandRankType == ASSUME NEW s PROVE BandRank(s) \in 0 .. 4
BY DEF BandRank

\* No finding is below every band.
LEMMA NoFindingRank == BandRank(NoFinding) = 0
BY FindingInt, BandRankIs

\* What Scores gives each class.
LEMMA ScoresAre ==
  ASSUME NEW t
  PROVE  /\ Scores(t)["token_dust"] = ClassScore("token_dust", TokenDustGate(t), TokenDustScore(t))
         /\ Scores(t)["large_value"] = ClassScore("large_value", LargeValueGate(t), LargeValueScore(t))
         /\ Scores(t)["large_datum"] = ClassScore("large_datum", LargeDatumGate(t), LargeDatumScore(t))
         /\ Scores(t)["multiple_sat"] = ClassScore("multiple_sat", MultipleSatGate(t), MultipleSatScore(t))
         /\ Scores(t)["front_running"] = ClassScore("front_running", FrontRunningGate(t), FrontRunningScore(t))
         /\ Scores(t)["sandwich"] = ClassScore("sandwich", SandwichGate(t), SandwichScore(t))
         /\ Scores(t)["circular"] = ClassScore("circular", CircularGate(t), CircularScore(t))
         /\ Scores(t)["fake_token"] = ClassScore("fake_token", FakeTokenGate(t), FakeTokenScore(t))
         /\ Scores(t)["phishing"] = ClassScore("phishing", PhishingGate(t), PhishingScore(t))
<1>1. \A c \in Classes : Scores(t)[c] = ClassScore(c, GateOf(c, t), ScoreOf(c, t)) BY DEF Scores
<1>2. {"token_dust", "large_value", "large_datum", "multiple_sat", "front_running",
       "sandwich", "circular", "fake_token", "phishing"} \subseteq Classes BY DEF Classes
<1>3. GateOf("token_dust", t) = TokenDustGate(t) /\ ScoreOf("token_dust", t) = TokenDustScore(t)
  BY DEF GateOf, ScoreOf
<1>4. GateOf("large_value", t) = LargeValueGate(t) /\ ScoreOf("large_value", t) = LargeValueScore(t)
  BY DEF GateOf, ScoreOf
<1>5. GateOf("large_datum", t) = LargeDatumGate(t) /\ ScoreOf("large_datum", t) = LargeDatumScore(t)
  BY DEF GateOf, ScoreOf
<1>6. GateOf("multiple_sat", t) = MultipleSatGate(t) /\ ScoreOf("multiple_sat", t) = MultipleSatScore(t)
  BY DEF GateOf, ScoreOf
<1>7. GateOf("front_running", t) = FrontRunningGate(t) /\ ScoreOf("front_running", t) = FrontRunningScore(t)
  BY DEF GateOf, ScoreOf
<1>8. GateOf("sandwich", t) = SandwichGate(t) /\ ScoreOf("sandwich", t) = SandwichScore(t)
  BY DEF GateOf, ScoreOf
<1>9. GateOf("circular", t) = CircularGate(t) /\ ScoreOf("circular", t) = CircularScore(t)
  BY DEF GateOf, ScoreOf
<1>10. GateOf("fake_token", t) = FakeTokenGate(t) /\ ScoreOf("fake_token", t) = FakeTokenScore(t)
  BY DEF GateOf, ScoreOf
<1>11. GateOf("phishing", t) = PhishingGate(t) /\ ScoreOf("phishing", t) = PhishingScore(t)
  BY DEF GateOf, ScoreOf
<1>. QED BY <1>1, <1>2, <1>3, <1>4, <1>5, <1>6, <1>7, <1>8, <1>9, <1>10, <1>11

\* The result of a class is that of its scorer, or no finding.
LEMMA ClassScoreType ==
  ASSUME NEW c, NEW g, NEW s, g => s \in Finding
  PROVE  ClassScore(c, g, s) \in Finding
BY FindingInt DEF ClassScore

\* A transaction has what the scorers of its kind read.
LEMMA KindsAre ==
  ASSUME NEW t \in Transactions
  PROVE  /\ t.kind = "front_running" => FrontRunningTx(t)
         /\ t.kind = "sandwich" => SandwichTx(t)
         /\ t.kind = "circular" => CircularTx(t)
         /\ t.kind = "outputs" => OutputsTx(t)
         /\ t.kind = "multiple_sat" => MultipleSatTx(t)
         /\ t.kind = "phishing" => PhishingTx(t)
         /\ t.kind = "fake_token" => FakeTokenTx(t)
BY VerdictAssumption

\* Every class gets a result in range.
LEMMA ScoresType ==
  ASSUME NEW t \in Transactions PROVE \A c \in Classes : Scores(t)[c] \in Finding
<1>. DEFINE s == Scores(t)
<1>1. s["token_dust"] \in Finding
  <2>1. TokenDustGate(t) => TokenDustScore(t) \in Finding
    BY KindsAre, TokenDustType, ScoreType DEF TokenDustGate, HasOutputs
  <2>. QED BY <2>1, ScoresAre, ClassScoreType
<1>2. s["large_value"] \in Finding
  <2>1. LargeValueGate(t) => LargeValueScore(t) \in Finding
    BY KindsAre, LargeValueType, ScoreType DEF LargeValueGate, HasOutputs
  <2>. QED BY <2>1, ScoresAre, ClassScoreType
<1>3. s["large_datum"] \in Finding
  <2>1. LargeDatumGate(t) => LargeDatumScore(t) \in Finding
    BY KindsAre, BestDatumIs DEF LargeDatumGate, HasOutputs
  <2>. QED BY <2>1, ScoresAre, ClassScoreType
<1>4. s["multiple_sat"] \in Finding
  <2>1. MultipleSatGate(t) => MultipleSatScore(t) \in Finding
    BY KindsAre, MultipleSatIs DEF MultipleSatGate
  <2>. QED BY <2>1, ScoresAre, ClassScoreType
<1>5. s["front_running"] \in Finding
  <2>1. FrontRunningGate(t) => FrontRunningScore(t) \in Finding
    BY KindsAre, FrontRunningType, ScoreType DEF FrontRunningGate
  <2>. QED BY <2>1, ScoresAre, ClassScoreType
<1>6. s["sandwich"] \in Finding
  <2>1. SandwichGate(t) => SandwichTx(t) BY KindsAre DEF SandwichGate
  <2>2. SandwichGate(t) => SandwichScore(t) \in Finding BY <2>1, SandwichType
  <2>. QED BY <2>2, ScoresAre, ClassScoreType
<1>7. s["circular"] \in Finding
  <2>1. CircularGate(t) => CircularScore(t) \in Finding BY KindsAre, CircularType DEF CircularGate
  <2>. QED BY <2>1, ScoresAre, ClassScoreType
<1>8. s["fake_token"] \in Finding
  <2>1. FakeTokenGate(t) => FakeTokenScore(t) \in Finding
    BY KindsAre, FakeTokenIs, ScoreType DEF FakeTokenGate
  <2>. QED BY <2>1, ScoresAre, ClassScoreType
<1>9. s["phishing"] \in Finding
  <2>1. PhishingGate(t) => PhishingScore(t) \in Finding
    BY KindsAre, PhishingIs, ScoreType DEF PhishingGate
  <2>. QED BY <2>1, ScoresAre, ClassScoreType
<1>. HIDE DEF s
<1>10. \A c \in Classes : s[c] \in Finding
  BY <1>1, <1>2, <1>3, <1>4, <1>5, <1>6, <1>7, <1>8, <1>9 DEF Classes
<1>. QED BY <1>10 DEF s

\* The row of any scores: the best class is there when one applies.
LEMMA RowIs ==
  ASSUME NEW s, \A c \in Classes : s[c] \in Finding
  PROVE  LET r == RowOf(s)
         IN  /\ r.scores = s
             /\ r.band \in {"Informational", "Moderate", "High", "Critical"}
             /\ (r.maxClass = {} <=> \A c \in Classes : s[c] < 0)
             /\ \A c \in r.corroborating : c \in Classes /\ BandRank(s[c]) >= 2
<1>. DEFINE app == {c \in Classes : s[c] >= 0}
            best == {c \in app : \A d \in app : s[d] <= s[c]}
            top == IF best = {} THEN 0 ELSE s[CHOOSE c \in best : TRUE]
            cor == {c \in app : s[c] >= Corroborates}
            V == {s[c] : c \in app}
<1>1. RowOf(s) = [scores |-> s, maxClass |-> best, maxScore |-> top, band |-> ScoreToBand(top),
                  corroborating |-> cor]
  BY DEF RowOf
<1>2. ScoreToBand(top) \in {"Informational", "Moderate", "High", "Critical"}
  <2>. HIDE DEF top
  <2>. QED BY DEF ScoreToBand
<1>3. \A c \in Classes : s[c] \in Int /\ s[c] <= 10000
  <2>. SUFFICES ASSUME NEW c \in Classes PROVE s[c] \in Int /\ s[c] <= 10000 OBVIOUS
  <2>. DEFINE x == s[c]
  <2>1. x \in Finding OBVIOUS
  <2>. HIDE DEF x
  <2>2. x \in Int /\ (x = NoFinding \/ x \in Score) BY <2>1, FindingInt
  <2>3. x = NoFinding => x <= 10000 BY DEF NoFinding
  <2>4. x \in Score => x <= 10000 BY ScoreType
  <2>. QED BY <2>2, <2>3, <2>4 DEF x
<1>4. ASSUME NEW c \in cor PROVE c \in Classes /\ BandRank(s[c]) >= 2
  <2>1. c \in Classes /\ s[c] >= 4000 BY DEF Corroborates
  <2>2. s[c] \in Int BY <1>3, <2>1
  <2>. DEFINE x == s[c]
  <2>3. x \in Int /\ x >= 4000 BY <2>1, <2>2
  <2>. HIDE DEF x
  <2>4. BandRank(x) >= 2 BY <2>3, BandRankIs, Cuts
  <2>. QED BY <2>1, <2>4 DEF x
<1>5. ASSUME app # {} PROVE best # {}
  <2>1. V \in SUBSET Int /\ V # {} BY <1>3, <1>5
  <2>2. \A x \in V : x <= 10000 BY <1>3
  <2>3. \E B \in Int : \A x \in V : x <= B
    <3>. HIDE DEF V
    <3>. QED BY <2>2
  <2>4. Max(V) \in V /\ \A x \in V : x <= Max(V)
    <3>. HIDE DEF V
    <3>. QED BY <2>1, <2>3, MaxOfBounded
  <2>5. PICK c \in app : s[c] = Max(V) BY <2>4
  <2>6. \A d \in app : s[d] <= s[c] BY <2>4, <2>5
  <2>7. c \in best BY <2>6
  <2>. QED BY <2>7
<1>6. best = {} <=> app = {} BY <1>5
<1>7. app = {} <=> \A c \in Classes : s[c] < 0 BY <1>3
<1>. HIDE DEF app, best, top, cor
<1>. QED BY <1>1, <1>2, <1>4, <1>6, <1>7

\* A class whose evidence grows is not lowered.
LEMMA ClassNotLowered ==
  ASSUME NEW c, NEW g, NEW x, NEW h, NEW y,
         g => BandRank(x) = 0 \/ (h /\ BandRank(x) <= BandRank(y))
  PROVE  BandRank(ClassScore(c, g, x)) <= BandRank(ClassScore(c, h, y))
<1>1. CASE c \in Enabled /\ g
  <2>1. ClassScore(c, g, x) = x BY <1>1 DEF ClassScore
  <2>2. CASE BandRank(x) = 0
    <3>1. BandRank(ClassScore(c, h, y)) \in 0 .. 4 BY BandRankType
    <3>. QED BY <2>1, <2>2, <3>1
  <2>3. CASE h /\ BandRank(x) <= BandRank(y)
    <3>1. ClassScore(c, h, y) = y BY <1>1, <2>3 DEF ClassScore
    <3>. QED BY <2>1, <2>3, <3>1
  <2>. QED BY <1>1, <2>2, <2>3
<1>2. CASE ~(c \in Enabled /\ g)
  <2>1. ClassScore(c, g, x) = NoFinding BY <1>2 DEF ClassScore
  <2>2. BandRank(ClassScore(c, h, y)) \in 0 .. 4 BY BandRankType
  <2>. QED BY <2>1, <2>2, NoFindingRank
<1>. QED BY <1>1, <1>2

\* What the row of a scored transaction is.
VerdictInv ==
  /\ tx \in Transactions
  /\ scored => row = RowOf(Scores(tx))

\* The row of a scored transaction is that of its scores.
THEOREM VerdictInvariant == VerdictSpec => []VerdictInv
<1>1. VerdictInit(TRUE) => VerdictInv BY DEF VerdictInit, VerdictInv
<1>2. VerdictInv /\ [VerdictNext]_verdictVars => VerdictInv'
  BY DEF VerdictInv, VerdictNext, ScoreTransaction, verdictVars
<1>. QED BY <1>1, <1>2, PTL DEF VerdictSpec

\* What the row of a scored transaction holds.
LEMMA ScoredRow ==
  ASSUME VerdictInv, scored
  PROVE  /\ tx \in Transactions /\ row.scores = Scores(tx)
         /\ \A c \in Classes : row.scores[c] \in Finding
         /\ VerdictTypeOK
<1>. DEFINE sc == Scores(tx)
<1>1. tx \in Transactions /\ row = RowOf(sc) BY DEF VerdictInv
<1>2. \A c \in Classes : sc[c] \in Finding BY <1>1, ScoresType, SMTT(30)
<1>. HIDE DEF sc
<1>3. \A c \in Classes : sc[c] = NoFinding \/ sc[c] \in Score BY <1>2 DEF Finding
<1>. DEFINE r == RowOf(sc)
<1>4. /\ r.scores = sc
      /\ r.band \in {"Informational", "Moderate", "High", "Critical"}
      /\ (r.maxClass = {} <=> \A c \in Classes : sc[c] < 0)
      /\ \A c \in r.corroborating : c \in Classes /\ BandRank(sc[c]) >= 2
  BY <1>2, RowIs
<1>. HIDE DEF r
<1>5. VerdictTypeOK
  <2>1. row = r BY <1>1 DEF r
  <2>2. r.corroborating \subseteq {c \in Classes : BandRank(r.scores[c]) >= 2} BY <1>4
  <2>. QED BY <1>3, <1>4, <2>1, <2>2, Zenon DEF VerdictTypeOK
<1>6. row.scores = Scores(tx) BY <1>1, <1>4 DEF r, sc
<1>7. \A c \in Classes : row.scores[c] \in Finding BY <1>2, <1>6 DEF sc
<1>. QED BY <1>1, <1>5, <1>6, <1>7

\* More evidence never lowers a band.
LEMMA EvidenceHeard == ASSUME VerdictInv PROVE EvidenceNeverLowersBand
<1>. SUFFICES ASSUME scored PROVE EvidenceNeverLowersBand BY DEF EvidenceNeverLowersBand
<1>0. tx \in Transactions /\ row.scores = Scores(tx) BY ScoredRow
<1>1. ASSUME tx.kind = "front_running"
      PROVE  NotLowered("front_running", FrontRunningGate(MoreWins(tx)), FrontRunningScore(MoreWins(tx)))
  <2>1. FrontRunningTx(tx) BY <1>0, <1>1, KindsAre
  <2>2. FrontRunningGate(tx) => /\ FrontRunningGate(MoreWins(tx))
                                /\ BandRank(FrontRunningScore(tx)) <= BandRank(FrontRunningScore(MoreWins(tx)))
    BY <2>1, MoreWinsHeard
  <2>3. BandRank(ClassScore("front_running", FrontRunningGate(tx), FrontRunningScore(tx)))
          <= BandRank(ClassScore("front_running", FrontRunningGate(MoreWins(tx)), FrontRunningScore(MoreWins(tx))))
    BY <2>2, ClassNotLowered
  <2>. QED BY <1>0, <2>3, ScoresAre DEF NotLowered
<1>2. ASSUME tx.kind = "circular"
      PROVE  NotLowered("circular", CircularGate(MoreRepeats(tx)), CircularScore(MoreRepeats(tx)))
  <2>1. CircularTx(tx) BY <1>0, <1>2, KindsAre
  <2>2. /\ CircularGate(MoreRepeats(tx)) = CircularGate(tx)
        /\ CircularScore(tx) \in Int /\ CircularScore(MoreRepeats(tx)) \in Int
        /\ CircularScore(tx) <= CircularScore(MoreRepeats(tx))
    BY <2>1, MoreRepeatsHeard, CircularType, FindingType
  <2>3. BandRank(CircularScore(tx)) <= BandRank(CircularScore(MoreRepeats(tx))) BY <2>2, BandRankMono
  <2>4. BandRank(ClassScore("circular", CircularGate(tx), CircularScore(tx)))
          <= BandRank(ClassScore("circular", CircularGate(MoreRepeats(tx)), CircularScore(MoreRepeats(tx))))
    BY <2>2, <2>3, ClassNotLowered
  <2>. QED BY <1>0, <2>4, ScoresAre DEF NotLowered
<1>3. ASSUME tx.kind = "outputs"
      PROVE  NotLowered("large_value", LargeValueGate(MoreDigits(tx)), LargeValueScore(MoreDigits(tx)))
  <2>1. OutputsTx(tx) BY <1>0, <1>3, KindsAre
  <2>2. /\ LargeValueGate(MoreDigits(tx)) = LargeValueGate(tx)
        /\ LargeValueScore(tx) \in Int /\ LargeValueScore(MoreDigits(tx)) \in Int
        /\ LargeValueScore(tx) <= LargeValueScore(MoreDigits(tx))
    BY <2>1, MoreDigitsHeard, LargeValueType, ScoreType
  <2>3. BandRank(LargeValueScore(tx)) <= BandRank(LargeValueScore(MoreDigits(tx))) BY <2>2, BandRankMono
  <2>4. BandRank(ClassScore("large_value", LargeValueGate(tx), LargeValueScore(tx)))
          <= BandRank(ClassScore("large_value", LargeValueGate(MoreDigits(tx)), LargeValueScore(MoreDigits(tx))))
    BY <2>2, <2>3, ClassNotLowered
  <2>. QED BY <1>0, <2>4, ScoresAre DEF NotLowered
<1>4. ASSUME tx.kind = "outputs"
      PROVE  NotLowered("large_datum", LargeDatumGate(MoreDatum(tx)), LargeDatumScore(MoreDatum(tx)))
  <2>1. OutputsTx(tx) BY <1>0, <1>4, KindsAre
  <2>2. \/ BandRank(LargeDatumScore(tx)) = 0
        \/ /\ LargeDatumGate(MoreDatum(tx))
           /\ BandRank(LargeDatumScore(tx)) <= BandRank(LargeDatumScore(MoreDatum(tx)))
    <3>1. CASE LargeDatumScore(tx) = NoFinding BY <3>1, NoFindingRank
    <3>2. CASE LargeDatumScore(tx) # NoFinding
      <4>1. /\ LargeDatumGate(MoreDatum(tx))
            /\ LargeDatumScore(tx) \in Int /\ LargeDatumScore(MoreDatum(tx)) \in Int
            /\ LargeDatumScore(tx) <= LargeDatumScore(MoreDatum(tx))
        BY <1>4, <2>1, <3>2, MoreDatumHeard, BestDatumIs, FindingType
      <4>. QED BY <4>1, BandRankMono
    <3>. QED BY <3>1, <3>2
  <2>3. BandRank(ClassScore("large_datum", LargeDatumGate(tx), LargeDatumScore(tx)))
          <= BandRank(ClassScore("large_datum", LargeDatumGate(MoreDatum(tx)), LargeDatumScore(MoreDatum(tx))))
    BY <2>2, ClassNotLowered
  <2>. QED BY <1>0, <2>3, ScoresAre DEF NotLowered
<1>. QED BY <1>1, <1>2, <1>3, <1>4 DEF EvidenceNeverLowersBand

\* Losing data never buys a lower score.
LEMMA LostDataHeard == ASSUME VerdictInv PROVE LosingDataFailsOpen
<1>. SUFFICES ASSUME scored PROVE LosingDataFailsOpen BY DEF LosingDataFailsOpen
<1>0. tx \in Transactions /\ row.scores = Scores(tx) BY ScoredRow
<1>1. ASSUME NEW c, NEW g, NEW x, NEW h, NEW y, h = g,
             g => x \in Score /\ y \in Score /\ y <= x
      PROVE  ClassScore(c, g, x) >= ClassScore(c, h, y)
  <2>1. CASE c \in Enabled /\ g
    <3>1. ClassScore(c, g, x) = x /\ ClassScore(c, h, y) = y BY <1>1, <2>1 DEF ClassScore
    <3>2. x \in Int /\ y \in Int BY <1>1, <2>1, ScoreType
    <3>. QED BY <1>1, <2>1, <3>1, <3>2
  <2>2. CASE ~(c \in Enabled /\ g)
    <3>1. ClassScore(c, g, x) = NoFinding /\ ClassScore(c, h, y) = NoFinding
      BY <1>1, <2>2 DEF ClassScore
    <3>. QED BY <3>1, FindingInt
  <2>. QED BY <2>1, <2>2
<1>2. ASSUME tx.kind = "outputs", tx.lookupFails
      PROVE  row.scores["token_dust"]
               >= ClassScore("token_dust", TokenDustGate(Answered(tx)), TokenDustScore(Answered(tx)))
  <2>1. OutputsTx(tx) BY <1>0, <1>2, KindsAre
  <2>2. /\ TokenDustGate(Answered(tx)) = TokenDustGate(tx) /\ TokenDustScore(tx) \in Score
        /\ TokenDustScore(Answered(tx)) \in Score /\ TokenDustScore(Answered(tx)) <= TokenDustScore(tx)
    BY <1>2, <2>1, LostAgesFailOpen, TokenDustType
  <2>3. ClassScore("token_dust", TokenDustGate(tx), TokenDustScore(tx))
          >= ClassScore("token_dust", TokenDustGate(Answered(tx)), TokenDustScore(Answered(tx)))
    BY <1>1, <2>2
  <2>. QED BY <1>0, <2>3, ScoresAre
<1>3. ASSUME tx.kind = "phishing"
      PROVE  row.scores["phishing"]
               >= ClassScore("phishing", PhishingGate(Valued(tx)), PhishingScore(Valued(tx)))
  <2>1. PhishingTx(tx) BY <1>0, <1>3, KindsAre
  <2>2. /\ PhishingGate(Valued(tx)) = PhishingGate(tx) /\ PhishingScore(tx) \in Score
        /\ PhishingScore(Valued(tx)) \in Score /\ PhishingScore(Valued(tx)) <= PhishingScore(tx)
    BY <2>1, LostValuesFailOpen, PhishingIs
  <2>3. ClassScore("phishing", PhishingGate(tx), PhishingScore(tx))
          >= ClassScore("phishing", PhishingGate(Valued(tx)), PhishingScore(Valued(tx)))
    BY <1>1, <2>2
  <2>. QED BY <1>0, <2>3, ScoresAre
<1>. QED BY <1>2, <1>3 DEF LosingDataFailsOpen

\* Unreadable content is no cheaper than the same content where nothing is expected.
LEMMA OpaqueHeard == ASSUME VerdictInv PROVE OpaqueDatumNotCheaper
<1>. SUFFICES ASSUME scored, "large_datum" \in Enabled, tx.kind = "outputs",
                     NEW i \in ScriptOutputs(tx),
                     DatumBytes(tx.outputs[i].datum) >= LargeDatumCfg.backstop,
                     ~ContentAssessable(tx.outputs[i].datum)
              PROVE  BandRank(row.scores["large_datum"])
                       >= BandRank(LargeDatumUtxo([tx.outputs[i] EXCEPT !.cred = "unlisted"], tx.tiers))
  BY DEF OpaqueDatumNotCheaper
<1>. DEFINE bare == LargeDatumUtxo([tx.outputs[i] EXCEPT !.cred = "unlisted"], tx.tiers)
<1>0. tx \in Transactions /\ row.scores = Scores(tx) BY ScoredRow
<1>1. OutputsTx(tx) BY <1>0, KindsAre
<1>2. LargeDatumGate(tx) /\ bare \in Score /\ LargeDatumScore(tx) \in Score /\ bare <= LargeDatumScore(tx)
  BY <1>1, OpaqueDatumShown
<1>3. row.scores["large_datum"] = LargeDatumScore(tx) BY <1>0, <1>2, ScoresAre DEF ClassScore
<1>. HIDE DEF bare
<1>4. bare \in Int /\ LargeDatumScore(tx) \in Int BY <1>2, ScoreType
<1>5. BandRank(bare) <= BandRank(LargeDatumScore(tx)) BY <1>2, <1>4, BandRankMono
<1>6. BandRank(bare) \in 0 .. 4 /\ BandRank(LargeDatumScore(tx)) \in 0 .. 4 BY BandRankType
<1>7. BandRank(row.scores["large_datum"]) >= BandRank(bare) BY <1>3, <1>5, <1>6
<1>. QED BY <1>7 DEF bare

\* Nothing is gained by hiding, for every transaction and every configuration whose
\* backstop counts: more evidence never lowers a band, and neither lost data nor
\* unreadable content is cheaper than the readable.
THEOREM HidingGainsNothing == VerdictSpec => []ScoresMonotone
<1>1. VerdictInv => ScoresMonotone
  <2>. SUFFICES ASSUME VerdictInv PROVE ScoresMonotone OBVIOUS
  <2>1. VerdictTypeOK
    <3>1. CASE scored BY <3>1, ScoredRow, Zenon
    <3>2. CASE ~scored BY <3>2 DEF VerdictTypeOK
    <3>. QED BY <3>1, <3>2
  <2>. QED BY <2>1, EvidenceHeard, LostDataHeard, OpaqueHeard DEF ScoresMonotone
<1>. QED BY <1>1, VerdictInvariant, PTL

\* A capped pair is usable.
LEMMA PairsUsable == ASSUME VerdictInv PROVE CappedPairUsable
<1>. USE DEF CappedPairUsable
<1>. HAVE scored
<1>. TAKE f \in DOMAIN tx.tiers, m \in {1, 5}, k \in {25, 100, 1000}
<1>. TAKE r \in {tx.tiers[f].own, tx.tiers[f].global}
<1>. HAVE Answers(r) /\ tx.anchors[f].p99 > 0
<1>. HIDE DEF CappedPairUsable
<1>. DEFINE pair == [p50 |-> r.p50, p99 |-> r.p99]
<1>0. tx \in Transactions BY DEF VerdictInv
<1>1. tx.tiers[f] \in TierRows /\ tx.anchors[f] \in Pair BY <1>0, VerdictAssumption
<1>2. r \in BaselineRow BY <1>1 DEF TierRows
<1>3. {"p50", "p99"} \subseteq DOMAIN pair /\ pair.p50 = r.p50 /\ pair.p99 = r.p99 OBVIOUS
<1>4. r.p50 \in Int /\ r.p99 \in Int BY <1>2 DEF BaselineRow
<1>. HIDE DEF pair
<1>5. Usable(pair) BY <1>3 DEF Answers, Usable
<1>6. m \in Nat /\ k \in Nat OBVIOUS
<1>7. Usable(CappedPair(pair, tx.anchors[f], m, k)) BY <1>1, <1>3, <1>4, <1>5, <1>6, CappedUsable
<1>. QED BY <1>7 DEF pair

\* The patterns the scorers are for surface, for every transaction and every configuration
\* with the four relations assumed of it.
THEOREM PatternsSurface == VerdictSpec => []AttacksSurface
<1>1. VerdictInv => AttacksSurface
  <2>. SUFFICES ASSUME VerdictInv PROVE AttacksSurface OBVIOUS
  <2>1. DrainNeverSilenced
    <3>. SUFFICES ASSUME scored, "multiple_sat" \in Enabled, MultipleSatGate(tx),
                         NEW c \in ManyInputs(tx), AssetsOut(tx, c) >= 2, ~GroupAllowlisted(tx, c)
                  PROVE  row.scores["multiple_sat"] >= 0
      BY DEF DrainNeverSilenced
    <3>1. tx \in Transactions /\ row.scores = Scores(tx) BY ScoredRow
    <3>2. MultipleSatTx(tx) BY <3>1, KindsAre DEF MultipleSatGate
    <3>3. MultipleSatScore(tx) >= 0 BY <3>2, DrainShown
    <3>4. row.scores["multiple_sat"] = MultipleSatScore(tx) BY <3>1, ScoresAre DEF ClassScore
    <3>. QED BY <3>3, <3>4
  <2>2. RepeatedRingSurfaces
    <3>. SUFFICES ASSUME scored, "circular" \in Enabled, CircularGate(tx),
                         CircularAxes(tx).amount > CircularCfg.reason,
                         CircularAxes(tx).recurrence > CircularCfg.reason
                  PROVE  BandRank(row.scores["circular"]) >= 2
      BY DEF RepeatedRingSurfaces
    <3>1. tx \in Transactions /\ row.scores = Scores(tx) BY ScoredRow
    <3>2. CircularTx(tx) BY <3>1, KindsAre DEF CircularGate
    <3>3. BandRank(CircularScore(tx)) >= 2 BY <3>2, RepeatedRingShown
    <3>4. row.scores["circular"] = CircularScore(tx) BY <3>1, ScoresAre DEF ClassScore
    <3>. QED BY <3>3, <3>4
  <2>3. ProfitableBracketSeen
    <3>. SUFFICES ASSUME scored, "sandwich" \in Enabled, tx.kind = "sandwich", tx.slot > 0, tx.paysScript,
                         NEW w \in Brackets(tx),
                         Candidate(tx, w).profit >= SandwichCfg.minProfit,
                         Candidate(tx, w).slotSpan <= SandwichCfg.windowSlots,
                         \A v \in Brackets(tx) \ {w} : Candidate(tx, v).profit < Candidate(tx, w).profit
                  PROVE  row.scores["sandwich"] >= 0
      BY DEF ProfitableBracketSeen
    <3>1. tx \in Transactions /\ row.scores = Scores(tx) BY ScoredRow
    <3>2. SandwichTx(tx) BY <3>1, KindsAre
    <3>3. SandwichGate(tx) /\ SandwichScore(tx) >= 0 BY <3>2, BracketShown
    <3>4. row.scores["sandwich"] = SandwichScore(tx) BY <3>1, <3>3, ScoresAre DEF ClassScore
    <3>. QED BY <3>3, <3>4
  <2>4. GateAgreesWithScore
    <3>. SUFFICES ASSUME scored PROVE GateAgreesWithScore BY DEF GateAgreesWithScore
    <3>1. tx \in Transactions /\ row.scores = Scores(tx) BY ScoredRow
    <3>2. ASSUME "fake_token" \in Enabled, FakeTokenGate(tx) PROVE row.scores["fake_token"] > 0
      <4>1. FakeTokenTx(tx) BY <3>1, <3>2, KindsAre DEF FakeTokenGate
      <4>2. FakeTokenScore(tx) > 0 BY <3>2, <4>1, FakeTokenIs DEF FakeTokenGate
      <4>3. row.scores["fake_token"] = FakeTokenScore(tx) BY <3>1, <3>2, ScoresAre DEF ClassScore
      <4>. QED BY <4>2, <4>3
    <3>3. ASSUME "phishing" \in Enabled, PhishingGate(tx),
                 \/ Social(tx) > 0 \/ Blacklist(Urls(tx, UrlCarriers)) > 0
                 \/ DomainSuspicion(Urls(tx, UrlCarriers)) > 0
          PROVE  row.scores["phishing"] > 0
      <4>1. PhishingTx(tx) BY <3>1, <3>3, KindsAre DEF PhishingGate
      <4>2. PhishingScore(tx) > 0 BY <3>3, <4>1, SignalCounts
      <4>3. row.scores["phishing"] = PhishingScore(tx) BY <3>1, <3>3, ScoresAre DEF ClassScore
      <4>. QED BY <4>2, <4>3
    <3>. QED BY <3>2, <3>3 DEF GateAgreesWithScore
  <2>. QED BY <2>1, <2>2, <2>3, <2>4, PairsUsable DEF AttacksSurface
<1>. QED BY <1>1, VerdictInvariant, PTL
=============================================================================
