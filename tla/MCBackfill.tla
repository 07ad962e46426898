----------------------------- MODULE MCBackfill -----------------------------
(***************************************************************************)
(* Model checking of Backfill: two starts of up to two tasks together, of  *)
(* one item each; and, for liveness, one task of two items with a fault.   *)
(***************************************************************************)
EXTENDS Backfill, TLC
CONSTANTS r1, r2, kline, money_flow

TwoStarts == {r1, r2}
OneStart  == {r1}
TwoTypes  == {kline, money_flow}
OneType   == {kline}
Symmetry  == Permutations(TwoTypes) \cup Permutations(TwoStarts)
=============================================================================
