------------------------- MODULE MCDateBatchImport -------------------------
(***************************************************************************)
(* Model checking of DateBatchImport.                                      *)
(***************************************************************************)
EXTENDS DateBatchImport, TLC

\* Steps that leave a short last chunk, steps that are cut anew, a step that
\* needs the whole depth, and an interface asked day by day.
Registry ==
    {[step |-> 2, loop |-> FALSE], [step |-> 3, loop |-> FALSE],
     [step |-> 6, loop |-> FALSE], [step |-> 1, loop |-> TRUE]}
\* index_weekly and index_monthly with a ts_code: asked by trade_date, but in the
\* default steps of by_date_fallback.
FallbackLoop == {[step |-> 2, loop |-> TRUE]}

\* The numbered chunks are the chunks of the source's loop.
ASSUME SplitIsLoop ==
    \A start, end \in 1 .. 9, chunkDays \in 1 .. 10 :
        start <= end => Split(start, end, chunkDays) = SplitLoop(start, end, chunkDays)
=============================================================================
