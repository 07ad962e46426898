-------------------------- MODULE MCTushareImport --------------------------
(***************************************************************************)
(* Model checking of TushareImport: the contention of two tasks of one     *)
(* interface, and the whole life of a single task.                         *)
(***************************************************************************)
EXTENDS TushareImport, TLC
CONSTANTS t1, t2

Pair     == {t1, t2}
Alone    == {t1}
Batched  == {"batched"}
OneCall  == {"single"}
Both     == {"batched", "single"}
Symmetry == Permutations(Pair)

\* What the contention depends on: the progress record and the histories of the
\* batches are written by many steps and read by none of them.
Contention == <<lock, stopKey, log, caller, stopper, revoked, strategy, worker,
                left, result, lostCount, breach, fault>>
=============================================================================
