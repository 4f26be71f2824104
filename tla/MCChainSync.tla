---------------------------- MODULE MCChainSync ----------------------------
(***************************************************************************)
(* ChainSync on a tree of five or six blocks:                              *)
(*                                                                         *)
(*     o -- g -- a1 -- a2                                                  *)
(*           \-- b1                                                        *)
(*                                                                         *)
(* t1 is in a1 and again in b1 (re-confirmed on the other fork), t2 in a2. *)
(***************************************************************************)
EXTENDS ChainSync, TLC

CONSTANTS o, g, a1, a2, b1, none, t1, t2

ForkBlocks == {o, g, a1, a2, b1}
ForkChain == o :> {o} @@ g :> {o, g} @@ a1 :> {o, g, a1}
             @@ a2 :> {o, g, a1, a2} @@ b1 :> {o, g, b1}
ForkSlot == o :> 0 @@ g :> 1 @@ a1 :> 2 @@ b1 :> 3 @@ a2 :> 4
ForkTxs == o :> {} @@ g :> {} @@ a1 :> {t1} @@ a2 :> {t2} @@ b1 :> {t1}
NothingSalvaged == [b \in ForkBlocks |-> {}]

\* Block contents for the frames that cannot be handled normally: a1 is
\* undecodable and loses t1 but not t2; b1 is a boundary block; a2 is plain.
OddTxs == o :> {} @@ g :> {} @@ a1 :> {t1, t2} @@ a2 :> {} @@ b1 :> {}
OddSalvaged == [b \in ForkBlocks |-> IF b = a1 THEN {t2} ELSE {}]
=============================================================================
