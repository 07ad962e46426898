-------------------------- MODULE DateBatchImport --------------------------
(***************************************************************************)
(* _process_batched_by_date with _process_chunk_with_retry: the import of  *)
(* a range of days, chunk by chunk, from an API that returns at most       *)
(* MaxRows rows per call.  A call that comes back full is thrown away and  *)
(* its days are asked for again in halves, down to MaxDepth levels; when   *)
(* Threshold chunks in a row stay truncated, the rest of the range is cut  *)
(* again into chunks of half the size.                                     *)
(*                                                                         *)
(* The recursion over the halves is a work list: an item is a chunk with   *)
(* its depth, and before every item the stop key is polled, in the loop    *)
(* over the chunks as in the loop over the halves.                         *)
(***************************************************************************)
EXTENDS DateBatchSplitter, FiniteSets, FiniteSetsExt

CONSTANTS
    LastDay,      \* the import is asked for the days 1 .. LastDay
    Configs,      \* registry entries: step (date_chunk_days) and loop
                  \* (use_trade_date_loop: a call asks for the first day only)
    MaxRows,      \* max_rows of the interface
    RowCounts,    \* bound: how many rows a day may have
    MaxDepth,     \* _MAX_TRUNCATION_RETRY_DEPTH
    Threshold,    \* _CONSECUTIVE_TRUNCATION_THRESHOLD
    MaxFailures   \* bound: calls or writes that raise

ASSUME RangeAssumption == LastDay \in Nat \ {0}
ASSUME ConfigsAssumption == Configs \subseteq [step : Nat \ {0}, loop : BOOLEAN]
ASSUME LimitsAssumption ==
    /\ MaxRows \in Nat \ {0} /\ RowCounts \subseteq Nat
    /\ MaxDepth \in Nat /\ Threshold \in Nat \ {0} /\ MaxFailures \in Nat

Days == 1 .. LastDay

VARIABLES
    rows,         \* what the API has for each day
    config,       \* the interface that is imported
    pc,           \* "poll", "call", "account", "finish" or "done"
    stopKey,      \* the stop key of the task exists
    chunks,       \* remaining_chunks
    index,        \* chunk_index, counted from 1
    work,         \* what is left to fetch of the chunk, with its depth
    raised,       \* an item of the chunk raised: the chunk is given up
    truncated,    \* still_truncated of the chunk
    records,      \* records of the chunk so far
    step,         \* chunk_days
    streak,       \* consecutive_truncation_count
    shrunk,       \* needs_smaller_chunk
    warned,       \* truncation_warnings: the chunks reported as truncated
    failedChunks, \* failed_chunks
    totalRecords, \* total_records
    result,       \* status returned by the strategy
    progress,     \* Redis progress record: status, total and completed
    failures,     \* exceptions so far
    stored,       \* history: how many writes contained all rows of the day
    clipped       \* history: ranges written although the call came back full

planVars   == <<chunks, index, step>>
chunkVars  == <<work, raised, truncated, records>>
reportVars == <<streak, shrunk, warned, failedChunks, totalRecords>>
dataVars   == <<stored, clipped>>
vars == <<rows, config, pc, stopKey, chunks, index, work, raised, truncated,
          records, step, streak, shrunk, warned, failedChunks, totalRecords,
          result, progress, failures, stored, clipped>>

Later(n, m) == IF n >= m THEN n ELSE m
Item(chunk, depth) == [from |-> chunk.from, to |-> chunk.to, depth |-> depth]
DaysOf(r) == r.from .. r.to

\* Every variable keeps to its values (_process_batched_by_date).
TypeOK ==
    /\ rows \in [Days -> RowCounts] /\ config \in Configs
    /\ pc \in {"poll", "call", "account", "finish", "done"}
    /\ stopKey \in BOOLEAN
    /\ chunks \in Seq([from : Days, to : Days]) /\ index \in 1 .. Len(chunks)
    /\ work \in Seq([from : Days, to : Days, depth : 0 .. MaxDepth])
    /\ raised \in BOOLEAN /\ truncated \in BOOLEAN /\ records \in Nat
    /\ step \in Nat \ {0} /\ streak \in Nat /\ shrunk \in BOOLEAN
    /\ warned \subseteq [from : Days, to : Days]
    /\ failedChunks \subseteq [from : Days, to : Days]
    /\ totalRecords \in Nat
    /\ result \in {"none", "completed", "failed", "stopped"}
    /\ progress \in [status : {"running", "completed", "failed", "stopped"},
                     total : Nat, completed : Nat]
    /\ failures \in 0 .. MaxFailures
    /\ stored \in [Days -> Nat]
    /\ clipped \subseteq [from : Days, to : Days]

Init ==
    /\ rows \in [Days -> RowCounts] /\ config \in Configs
    /\ pc = "poll" /\ stopKey = FALSE
    /\ chunks = Split(1, LastDay, config.step) /\ index = 1
    /\ work = <<Item(chunks[1], 0)>>
    /\ raised = FALSE /\ truncated = FALSE /\ records = 0
    /\ step = config.step /\ streak = 0 /\ shrunk = FALSE
    /\ warned = {} /\ failedChunks = {} /\ totalRecords = 0
    /\ result = "none"
    /\ progress = [status |-> "running", total |-> Len(chunks), completed |-> 0]
    /\ failures = 0
    /\ stored = [d \in Days |-> 0] /\ clipped = {}

(***************************************************************************)
(* What a call for an item asks for, and how many rows come back.          *)
(***************************************************************************)
Asked(item) == IF config.loop THEN {item.from} ELSE DaysOf(item)
Available(item) == MapThenSumSet(LAMBDA d : rows[d], Asked(item))
Full(item) == Available(item) >= MaxRows

CanSplit(item) == item.depth < MaxDepth /\ item.from < item.to
Halves(item) ==
    LET days == item.to - item.from + 1
        subs == Split(item.from, item.to, Later(days \div 2, 1))
    IN  [i \in DOMAIN subs |-> Item(subs[i], item.depth + 1)]

\* The item is done with: what is left of the chunk goes on, or the chunk is
\* accounted for.
Continue(rest) ==
    /\ work' = rest
    /\ pc' = IF rest = <<>> THEN "account" ELSE "poll"
-----------------------------------------------------------------------------
\* stop_import in another process.
RequestStop ==
    /\ ~ stopKey /\ pc # "done"
    /\ stopKey' = TRUE
    /\ UNCHANGED <<rows, config, pc, planVars, chunkVars, reportVars, result,
                   progress, failures, dataVars>>

\* The records of the halves that were already written are counted.
PollStops ==
    /\ pc = "poll" /\ stopKey
    /\ pc' = "finish"
    /\ result' = "stopped"
    /\ totalRecords' = totalRecords + records
    /\ UNCHANGED <<rows, config, stopKey, planVars, chunkVars, streak, shrunk,
                   warned, failedChunks, progress, failures, dataVars>>

PollContinues ==
    /\ pc = "poll" /\ ~ stopKey
    /\ pc' = "call"
    /\ UNCHANGED <<rows, config, stopKey, planVars, chunkVars, reportVars,
                   result, progress, failures, dataVars>>

FetchNothing ==
    /\ pc = "call" /\ Available(Head(work)) = 0
    /\ Continue(Tail(work))
    /\ UNCHANGED <<rows, config, stopKey, planVars, raised, truncated, records,
                   reportVars, result, progress, failures, dataVars>>

\* The rows of a full call are dropped and the item is cut into halves (three
\* parts when its length is odd and greater than 1).
FetchAndSplit ==
    /\ pc = "call" /\ Full(Head(work)) /\ CanSplit(Head(work))
    /\ Continue(Halves(Head(work)) \o Tail(work))
    /\ UNCHANGED <<rows, config, stopKey, planVars, raised, truncated, records,
                   reportVars, result, progress, failures, dataVars>>

\* Slip: the half does not tell its caller that it is truncated.
FetchClippedUntold ==
    LET item == Head(work) IN
    /\ pc = "call" /\ Full(item) /\ ~ CanSplit(item)
    /\ clipped' = clipped \cup {Chunk(item.from, item.to)}
    /\ records' = records + MaxRows
    /\ Continue(Tail(work))
    /\ UNCHANGED <<rows, config, stopKey, planVars, raised, truncated,
                   reportVars, result, progress, failures, stored>>

\* One day, or the depth is reached: the rows that came are written, though
\* there may be more.
FetchClipped ==
    LET item == Head(work) IN
    /\ pc = "call" /\ Full(item) /\ ~ CanSplit(item)
    /\ clipped' = clipped \cup {Chunk(item.from, item.to)}
    /\ records' = records + MaxRows
    /\ truncated' = TRUE
    /\ Continue(Tail(work))
    /\ UNCHANGED <<rows, config, stopKey, planVars, raised, reportVars, result,
                   progress, failures, stored>>

FetchAll ==
    LET item == Head(work) IN
    /\ pc = "call" /\ Available(item) > 0 /\ ~ Full(item)
    /\ stored' = [d \in Days |-> stored[d] + IF d \in Asked(item) THEN 1 ELSE 0]
    /\ records' = records + Available(item)
    /\ Continue(Tail(work))
    /\ UNCHANGED <<rows, config, stopKey, planVars, raised, truncated,
                   reportVars, result, progress, failures, clipped>>

\* An exception inside the recursion - the call fails for good, the write
\* fails, or the stop key cannot be read before a half - leaves it at any depth:
\* the rest of the chunk is not asked for.
ChunkRaises ==
    /\ pc = "call" \/ (pc = "poll" /\ Head(work).depth > 0)
    /\ failures < MaxFailures
    /\ failures' = failures + 1
    /\ raised' = TRUE
    /\ Continue(<<>>)
    /\ UNCHANGED <<rows, config, stopKey, planVars, truncated, records,
                   reportVars, result, progress, dataVars>>

\* An exception that ends the import: code -2001 (invalid token), or Redis fails
\* in the loop over the chunks.  The except branch of _process_import knows of
\* no records.  (Slip: it does not set the status.)
ImportRaisesUnnamed ==
    /\ pc \in {"call", "account"} \/ (pc = "poll" /\ Head(work).depth = 0)
    /\ failures < MaxFailures
    /\ failures' = failures + 1
    /\ pc' = "finish"
    /\ totalRecords' = 0
    /\ UNCHANGED <<rows, config, stopKey, planVars, chunkVars, streak, shrunk,
                   warned, failedChunks, result, progress, dataVars>>

ImportRaises ==
    /\ pc \in {"call", "account"} \/ (pc = "poll" /\ Head(work).depth = 0)
    /\ failures < MaxFailures
    /\ failures' = failures + 1
    /\ pc' = "finish"
    /\ result' = "failed"
    /\ totalRecords' = 0
    /\ UNCHANGED <<rows, config, stopKey, planVars, chunkVars, streak, shrunk,
                   warned, failedChunks, progress, dataVars>>
-----------------------------------------------------------------------------
(***************************************************************************)
(* The end of a chunk.  A chunk whose halves all came through is not       *)
(* truncated; a chunk that raised leaves the streak as it is.              *)
(***************************************************************************)
Shrinks == ~ raised /\ truncated /\ streak + 1 >= Threshold /\ ~ shrunk
HalfStep == Later(step \div 2, 1)

\* Slips: the rest starts at the end of the next chunk; it includes the chunk
\* that was just done.
RestFromEnd == chunks[index + 1].to

RestFrom == chunks[index + 1].from

NewChunksTooMany ==
    IF Shrinks /\ index < Len(chunks)
    THEN SubSeq(chunks, 1, index)
             \o Split(chunks[index].from, chunks[Len(chunks)].to, HalfStep)
    ELSE chunks

NewChunks ==
    IF Shrinks /\ index < Len(chunks)
    THEN SubSeq(chunks, 1, index)
             \o Split(RestFrom, chunks[Len(chunks)].to, HalfStep)
    ELSE chunks

ReportChunk == progress' = [progress EXCEPT !.total = Len(NewChunks),
                                            !.completed = Later(@, index)]

NextChunk ==
    IF index < Len(NewChunks)
    THEN /\ index' = index + 1
         /\ work' = <<Item(NewChunks[index + 1], 0)>>
         /\ pc' = "poll"
         /\ UNCHANGED result
    ELSE /\ pc' = "finish"
         /\ result' = "completed"
         /\ UNCHANGED <<index, work>>

AccountChunk ==
    /\ pc = "account"
    /\ IF raised
       THEN /\ failedChunks' = failedChunks \cup {chunks[index]}
            /\ UNCHANGED <<totalRecords, streak, warned>>
       ELSE /\ totalRecords' = totalRecords + records
            /\ streak' = IF truncated THEN streak + 1 ELSE 0
            /\ warned' = IF truncated THEN warned \cup {chunks[index]} ELSE warned
            /\ UNCHANGED failedChunks
    /\ shrunk' = (shrunk \/ Shrinks)
    /\ step' = IF Shrinks THEN HalfStep ELSE step
    /\ chunks' = NewChunks
    /\ ReportChunk
    /\ NextChunk
    /\ raised' = FALSE /\ truncated' = FALSE /\ records' = 0
    /\ UNCHANGED <<rows, config, stopKey, failures, dataVars>>

\* The last report of _process_import counts records where the loop counted
\* chunks; an import that raised reports its status only.
Finish ==
    /\ pc = "finish"
    /\ progress' =
           IF result = "failed"
           THEN [progress EXCEPT !.status = "failed"]
           ELSE [status |-> result, total |-> totalRecords,
                 completed |-> Later(progress.completed, totalRecords)]
    /\ pc' = "done"
    /\ UNCHANGED <<rows, config, stopKey, planVars, chunkVars, reportVars,
                   result, failures, dataVars>>

Fetch == \/ FetchNothing \/ FetchAndSplit \/ FetchClipped \/ FetchAll

Work == PollStops \/ PollContinues \/ Fetch \/ ChunkRaises \/ ImportRaises
        \/ AccountChunk \/ Finish

Next == RequestStop \/ Work

Spec == Init /\ [][Next]_vars
-----------------------------------------------------------------------------
(***************************************************************************)
(* Properties.                                                             *)
(***************************************************************************)
\* A sequence of ranges without a gap and without an overlap.
Tiles(seq) == /\ \A i \in DOMAIN seq : seq[i].from <= seq[i].to
              /\ \A i \in 1 .. Len(seq) - 1 : seq[i].to + 1 = seq[i + 1].from

\* The chunks done and to be done always cover the whole range once, also after
\* it was cut anew; and in the middle of a recursion what is left of the chunk
\* runs without a gap to the chunk's end.
PlanCoversRange ==
    /\ Tiles(chunks) /\ chunks[1].from = 1 /\ chunks[Len(chunks)].to = LastDay
    /\ pc \in {"poll", "call"} =>
           /\ Tiles(work) /\ chunks[index].from <= work[1].from
           /\ work[Len(work)].to = chunks[index].to

\* No row is written by two calls: halves and re-cut chunks never fetch what
\* was kept before.
WrittenOnce ==
    /\ \A d \in Days : stored[d] <= 1
    /\ \A r \in clipped : \A d \in DaysOf(r) : stored[d] = 0

\* An import that ends "completed" says which data it does not have: a day with
\* rows is stored, or its chunk is in truncation_warnings or in failed_chunks.
NothingSilentlyLost ==
    progress.status = "completed" =>
        \A d \in Days : rows[d] = 0 \/ stored[d] = 1
                            \/ \E r \in warned \cup failedChunks : d \in DaysOf(r)
=============================================================================
