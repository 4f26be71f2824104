----------------------------- MODULE MCMempool -----------------------------
(* Two transactions that want the same output, one of which fails and then *)
(* consumes another output the first one wants; and one that the monitor    *)
(* cannot decode.                                                          *)
EXTENDS Mempool, TLC

CONSTANTS a, c, u, r1, r2, r3

MCSpends == (a :> {r1, r2}) @@ (c :> {r2}) @@ (u :> {r3})
MCCollateral == (a :> {}) @@ (c :> {r1}) @@ (u :> {})
=============================================================================
