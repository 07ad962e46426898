------------------------- MODULE DateBatchSplitter -------------------------
(***************************************************************************)
(* DateBatchSplitter.split: a range of days cut into consecutive chunks of *)
(* chunk_days days, the last one shorter when the range does not divide.   *)
(* Days are numbered; a chunk is a record with its first and last day.     *)
(***************************************************************************)
EXTENDS Integers, Sequences

Chunk(first, last) == [from |-> first, to |-> last]
Earlier(d, e) == IF d <= e THEN d ELSE e

\* The chunks by their number, which is the form to reason about.
Split(start, end, chunkDays) ==
    [i \in 1 .. ((end - start) \div chunkDays + 1) |->
        Chunk(start + (i - 1) * chunkDays, Earlier(start + i * chunkDays - 1, end))]

\* The loop of the source: a cursor that jumps behind each chunk.
SplitLoop(start, end, chunkDays) ==
    LET from[cursor \in start .. end + 1] ==
            IF cursor > end
            THEN <<>>
            ELSE LET last == Earlier(cursor + chunkDays - 1, end)
                 IN  <<Chunk(cursor, last)>> \o from[last + 1]
    IN  from[start]
=============================================================================
