--------------------------- MODULE MCLocalImport ---------------------------
(***************************************************************************)
(* Model checking of LocalImport.                                          *)
(***************************************************************************)
EXTENDS LocalImport, TLC
CONSTANTS r1, r2

TwoRuns  == {r1, r2}

\* The first block is corrected by a newer version, the second one is new in it.
FirstBlock == {1}

Symmetry == Permutations(TwoRuns)

\* MarkedMeansWritten reads no history but swapped, and no action is enabled by one.
MarkView == <<record, stopKey, cached, version, stored, requestVars, runVars, swapped>>
=============================================================================
