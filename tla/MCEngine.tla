------------------------------ MODULE MCEngine ------------------------------
(* Small instances of Engine for TLC.                                      *)
EXTENDS Engine, TLC

CONSTANTS t1, t2, w1, w2

\* Workers are interchangeable.
Symmetric == Permutations(Worker)
=============================================================================
