-------------------------- MODULE MCNotifications --------------------------
(* Small instances of Notifications for TLC.                               *)
EXTENDS Notifications, TLC

CONSTANTS t1, t2, c1, c2, g1

\* Every transaction's finding belongs to g1, or none belongs to a group.
Grouped == [t \in Tx |-> g1]
Ungrouped == [t \in Tx |-> NoGroup]

\* Couriers are interchangeable.
Symmetric == Permutations(Courier)
=============================================================================
