----------------------------- MODULE SeqFilter -----------------------------
(***************************************************************************)
(* A sequence without some of its elements, as list comprehensions and the *)
(* node's mempool leave it.  It is what SelectSeq computes, written as a   *)
(* recursive function of a set so that it can be reasoned about.  And the  *)
(* sum of a sequence, for the same reason.                                 *)
(***************************************************************************)
EXTENDS Naturals, Sequences

\* The elements of s that are in K, in their order: the first i of them.
KeptUpTo(s, K) ==
  LET f[i \in 0..Len(s)] ==
        IF i = 0 THEN <<>>
        ELSE IF s[i] \in K THEN Append(f[i - 1], s[i]) ELSE f[i - 1]
  IN  f

Keep(s, K) == KeptUpTo(s, K)[Len(s)]

\* The sum of a sequence of numbers, as a loop adds them up.
SumUpTo(s) ==
  LET f[i \in 0..Len(s)] == IF i = 0 THEN 0 ELSE f[i - 1] + s[i]
  IN  f

SumOf(s) == SumUpTo(s)[Len(s)]
=============================================================================
