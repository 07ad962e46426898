---------------------------- MODULE LocalImport ----------------------------
(***************************************************************************)
(* The two imports of local ZIP archives, which follow one protocol: K     *)
(* lines (LocalKlineImportService.execute) and adjustment factors          *)
(* (execute_adj_factors, Adj = TRUE), their Celery tasks, and the start,   *)
(* stop, reset and status requests of api/v1/data.py.                      *)
(*                                                                         *)
(* Nothing but a progress record in Redis keeps two imports apart: it has  *)
(* a status and a heartbeat, and whoever finds the heartbeat old takes the *)
(* import for dead.  update_progress merges its arguments into the record  *)
(* and refreshes the heartbeat: it writes a status only when it is given   *)
(* one.  Its read and its write, milliseconds apart, are one step here;    *)
(* what a request concludes from the record, and what it does about it,    *)
(* are two.  An archive holds Parts blocks of rows (a CSV file; for        *)
(* factors fifty of them).  A newer version brings rows of its own, and in *)
(* some blocks others in the place of rows of the versions before it.      *)
(***************************************************************************)
EXTENDS Naturals

CONSTANTS
    Runs,        \* start requests, each with the task it may send
    Files,       \* bound: archives of the directory, imported from 1 to Files
    Parts,       \* bound: blocks of rows of an archive
    MaxVersions, \* bound: versions of each archive, one replacing the other
    Revised,     \* blocks that have the same keys in every version of an archive;
                 \* those of the other blocks are new in each
    Adj          \* TRUE for adjustment factors, FALSE for K lines

ASSUME LocalImportAssumption ==
    /\ Files \in Nat \ {0} /\ Parts \in Nat \ {0} /\ MaxVersions \in Nat \ {0}
    /\ Revised \subseteq 1 .. Parts /\ Adj \in BOOLEAN

VARIABLES
    record,      \* progress record: its status, and how old its heartbeat is
    stopKey,     \* the stop key exists
    cached,      \* incremental cache: version (mtime) each archive is marked with
    version,     \* version of each archive on disk
    stored,      \* rows in the database: <<archive, version, block>> they come from
    starter,     \* where the start request of each run is
    asker,       \* where the stop, reset and status requests are
    run,         \* where the task of each run is
    file,        \* archive it is at
    held,        \* version of the archive it has read into memory, or 0
    part,        \* block of it that comes next
    misjudged,   \* history: an import not over was taken for dead
    crossed,     \* history: two requests acted on what they had found before
    overlapped,  \* history: two imports were at work together
    wiped,       \* history: a reset deleted record or stop key of one at work
    swapped,     \* history: <<archive, version>> put in place while a run read it
    after        \* history: blocks each run wrote since a stop was accepted; 0 before

requestVars == <<starter, asker>>
runVars     == <<run, file, held, part>>
history     == <<misjudged, crossed, overlapped, wiped, swapped, after>>
vars == <<record, stopKey, cached, version, stored, starter, asker, run, file, held,
          part, misjudged, crossed, overlapped, wiped, swapped, after>>

\* Ages of the heartbeat: up to 120 seconds, up to 600, more.
Ages     == 0 .. 2
Statuses == {"idle", "pending", "running", "stopped", "completed", "failed"}
Absent   == [status |-> "idle", age |-> 0]

AtWork  == {"announced", "top", "checking", "opening", "polling", "writing", "marking",
            "stopping"}
Over    == {"ended", "killed"}
Acting  == {"condemning", "admitted", "reserved"}

Init ==
    /\ record = Absent
    /\ stopKey = FALSE
    /\ cached = [f \in 1 .. Files |-> 0]
    /\ version = [f \in 1 .. Files |-> 1]
    /\ stored = {}
    /\ starter = [r \in Runs |-> "idle"]
    /\ asker = [q \in {"stop", "reset", "status"} |-> "idle"]
    /\ run = [r \in Runs |-> "absent"]
    /\ file = [r \in Runs |-> 1]
    /\ held = [r \in Runs |-> 0]
    /\ part = [r \in Runs |-> 1]
    /\ misjudged = FALSE /\ crossed = FALSE /\ overlapped = FALSE /\ wiped = FALSE
    /\ swapped = {}
    /\ after = [r \in Runs |-> 0]
-----------------------------------------------------------------------------
(***************************************************************************)
(* What a request makes of the record.  The start of a K-line import takes *)
(* a pending record for a running import, the start of a factor import     *)
(* does not, and never writes one.                                         *)
(***************************************************************************)
Claimed == record.status \in (IF Adj THEN {"running"} ELSE {"running", "pending"})

\* Age of the heartbeat at which the request q takes the import for dead.
Patience(q) == IF q = "status" \/ (Adj /\ q # "reset") THEN 2 ELSE 1

Dead(q)  == Claimed /\ record.age >= Patience(q)
Alive(q) == Claimed /\ record.age < Patience(q)

Pending(r) == starter[r] = "reserved" \/ run[r] \in {"queued"} \cup AtWork

Judge(q) == misjudged' = (misjudged \/ (Dead(q) /\ \E r \in Runs : Pending(r)))

\* It writes its copy of the record back, with the status failed.
Condemned == record' = [record EXCEPT !.status = "failed"]

\* A start is about to act on what it found, and so is another request.
Crossing ==
    \E r \in Runs : /\ starter[r] \in Acting
                    /\ \/ \E s \in Runs \ {r} : starter[s] \in Acting
                       \/ asker["reset"] # "idle"
                       \/ "condemning" \in {asker["stop"], asker["status"]}

Request(r, from, to) ==
    /\ starter[r] = from
    /\ starter' = [starter EXCEPT ![r] = to]
    /\ crossed' = (crossed \/ Crossing)

CheckStart(r) ==
    /\ \/ Alive("start") /\ Request(r, "idle", "refused")
       \/ Dead("start") /\ Request(r, "idle", "condemning")
       \/ ~Claimed /\ Request(r, "idle", "admitted")
    /\ Judge("start")
    /\ UNCHANGED <<record, stopKey, cached, version, stored, asker, runVars, overlapped,
                   wiped, swapped, after>>

CondemnAtStart(r) ==
    /\ Request(r, "condemning", "admitted")
    /\ Condemned
    /\ UNCHANGED <<stopKey, cached, version, stored, asker, runVars, misjudged,
                   overlapped, wiped, swapped, after>>

\* Slip: the task writes the record, the request does not.
ReserveNothing(r) ==
    /\ Request(r, "admitted", "reserved")
    /\ UNCHANGED <<record, stopKey, cached, version, stored, asker, runVars, misjudged,
                   overlapped, wiped, swapped, after>>

\* The record of a K-line import is replaced before its task is sent.
Reserve(r) ==
    /\ Request(r, "admitted", "reserved")
    /\ record' = IF Adj THEN record ELSE [status |-> "pending", age |-> 0]
    /\ UNCHANGED <<stopKey, cached, version, stored, asker, runVars, misjudged,
                   overlapped, wiped, swapped, after>>

Send(r) ==
    /\ Request(r, "reserved", "sent")
    /\ run' = [run EXCEPT ![r] = "queued"]
    /\ UNCHANGED <<record, stopKey, cached, version, stored, asker, file, held, part,
                   misjudged, overlapped, wiped, swapped, after>>
-----------------------------------------------------------------------------
(***************************************************************************)
(* Stop, reset and status: a request each at a time.  A stop and a reset   *)
(* look at the record first; a status only condemns what it finds dead.    *)
(***************************************************************************)
Ask(q, from, to) ==
    /\ asker[q] = from
    /\ asker' = [asker EXCEPT ![q] = to]
    /\ crossed' = (crossed \/ Crossing)

CheckAsked(q) ==
    /\ \/ Dead(q) /\ ~(Adj /\ q = "reset") /\ Ask(q, "idle", "condemning")
       \/ Alive(q) /\ q = "stop" /\ Ask(q, "idle", "acting")
       \/ ~Alive(q) /\ (Adj \/ ~Dead(q)) /\ q = "reset" /\ Ask(q, "idle", "acting")
    /\ Judge(q)
    /\ UNCHANGED <<record, stopKey, cached, version, stored, starter, runVars,
                   overlapped, wiped, swapped, after>>

\* A K-line reset goes on after it, a stop and a status do not.
CondemnAsked(q) ==
    /\ Ask(q, "condemning", IF q = "reset" THEN "acting" ELSE "idle")
    /\ Condemned
    /\ UNCHANGED <<stopKey, cached, version, stored, starter, runVars, misjudged,
                   overlapped, wiped, swapped, after>>

RequestStop ==
    /\ Ask("stop", "acting", "idle")
    /\ stopKey' = TRUE
    /\ after' = [r \in Runs |-> IF run[r] \in AtWork \ {"announced"} /\ after[r] = 0
                                THEN 1 ELSE after[r]]
    /\ UNCHANGED <<record, cached, version, stored, starter, runVars, misjudged,
                   overlapped, wiped, swapped>>

Reset ==
    /\ Ask("reset", "acting", "idle")
    /\ record' = Absent
    /\ stopKey' = FALSE
    /\ wiped' = (wiped \/ \E r \in Runs : run[r] \in AtWork)
    /\ UNCHANGED <<cached, version, stored, starter, runVars, misjudged,
                   overlapped, swapped, after>>
-----------------------------------------------------------------------------
(***************************************************************************)
(* The task.  It announces itself, drops whatever stop key it finds, and   *)
(* goes through the archives; an exception in one ends that one alone.     *)
(***************************************************************************)
Beat == record' = [record EXCEPT !.age = 0]
Report(status) == record' = [status |-> status, age |-> 0]

Go(r, from, to) ==
    /\ run[r] = from
    /\ run' = [run EXCEPT ![r] = to]

NextFile(r) ==
    /\ file' = [file EXCEPT ![r] = @ + 1]
    /\ held' = [held EXCEPT ![r] = 0]
    /\ part' = [part EXCEPT ![r] = 1]

Announce(r) ==
    /\ Go(r, "queued", "announced")
    /\ Report("running")
    /\ overlapped' = (overlapped \/ \E s \in Runs \ {r} : run[s] \in AtWork)
    /\ UNCHANGED <<stopKey, cached, version, stored, requestVars, file, held, part,
                   misjudged, crossed, wiped, swapped, after>>

ClearStop(r) ==
    /\ Go(r, "announced", "top")
    /\ stopKey' = FALSE
    /\ UNCHANGED <<record, cached, version, stored, requestVars, file, held, part,
                   history>>

PollTop(r) ==
    /\ file[r] <= Files
    /\ Go(r, "top", IF stopKey THEN "stopping" ELSE "checking")
    /\ stopKey' = FALSE
    /\ UNCHANGED <<record, cached, version, stored, requestVars, file, held, part,
                   history>>

\* A marked archive is skipped, unless the run is forced or the cache fails.
CheckIncremental(r) ==
    /\ \/ /\ Go(r, "checking", "top")
          /\ cached[file[r]] = version[file[r]]
          /\ NextFile(r)
       \/ /\ Go(r, "checking", "opening")
          /\ UNCHANGED <<file, held, part>>
    /\ Beat
    /\ UNCHANGED <<stopKey, cached, version, stored, requestVars, history>>

\* The whole archive is read into memory.
Open(r) ==
    /\ Go(r, "opening", IF Adj THEN "writing" ELSE "polling")
    /\ held' = [held EXCEPT ![r] = version[file[r]]]
    /\ UNCHANGED <<record, stopKey, cached, version, stored, requestVars, file, part,
                   history>>

\* Slip: the stop key is looked at between archives only.
PollPartNot(r) ==
    /\ Go(r, "polling", IF part[r] <= Parts THEN "writing" ELSE "marking")
    /\ UNCHANGED <<record, stopKey, cached, version, stored, requestVars, file, held,
                   part, history>>

\* K lines are polled for before each block, factors after each full one (what a
\* stopped factor import still has in its buffer goes with the block before).
PollPart(r) ==
    /\ Go(r, "polling", IF stopKey THEN "stopping"
                        ELSE IF part[r] <= Parts THEN "writing" ELSE "marking")
    /\ stopKey' = FALSE
    /\ UNCHANGED <<record, cached, version, stored, requestVars, file, held, part,
                   history>>

\* The rows in the database that have the keys of block p of version v.
Standing(f, v, p) ==
    stored \cap {<<f, w, p>> : w \in IF p \in Revised THEN 1 .. MaxVersions ELSE {v}}

\* K lines replace the rows of the same keys (ON CONFLICT DO UPDATE), factors leave
\* them as they are (ON CONFLICT DO NOTHING).
Inserted(f, v, p) ==
    IF Adj /\ Standing(f, v, p) # {} THEN stored
    ELSE (stored \ Standing(f, v, p)) \cup {<<f, v, p>>}

WritePart(r) ==
    /\ \/ (part[r] < Parts \/ Adj) /\ Go(r, "writing", "polling")
       \/ part[r] = Parts /\ Go(r, "writing", "marking")
    /\ stored' = Inserted(file[r], held[r], part[r])
    /\ part' = [part EXCEPT ![r] = @ + 1]
    /\ after' = [after EXCEPT ![r] = IF @ \in {0, 3} THEN @ ELSE @ + 1]
    /\ Beat
    /\ UNCHANGED <<stopKey, cached, version, requestVars, file, held, misjudged,
                   crossed, overlapped, wiped, swapped>>

\* Slip: the archive after a damaged one is passed over.
FailFilePassing(r) ==
    /\ Go(r, "opening", "top") \/ Go(r, "writing", "top")
    /\ file' = [file EXCEPT ![r] = @ + 2]
    /\ held' = [held EXCEPT ![r] = 0]
    /\ part' = [part EXCEPT ![r] = 1]
    /\ Beat
    /\ UNCHANGED <<stopKey, cached, version, stored, requestVars, history>>

\* Slip: an archive that was gone through is marked, rows refused or not.
FailFileMarked(r) ==
    /\ Go(r, "opening", "top") \/ Go(r, "writing", "top")
    /\ NextFile(r)
    /\ cached' = [cached EXCEPT ![file[r]] = version[file[r]]]
    /\ Beat
    /\ UNCHANGED <<stopKey, version, stored, requestVars, history>>

\* The archive is damaged, or the database refuses a block of it.
FailFile(r) ==
    /\ Go(r, "opening", "top") \/ Go(r, "writing", "top")
    /\ NextFile(r)
    /\ Beat
    /\ UNCHANGED <<stopKey, cached, version, stored, requestVars, history>>

\* With the version that is on disk by now; a mark that cannot be written is left.
Mark(r) ==
    /\ Go(r, "marking", "top")
    /\ NextFile(r)
    /\ cached' \in {cached, [cached EXCEPT ![file[r]] = version[file[r]]]}
    /\ Beat
    /\ UNCHANGED <<stopKey, version, stored, requestVars, history>>

ReportStopped(r) ==
    /\ Go(r, "stopping", "ended")
    /\ Report("stopped")
    /\ held' = [held EXCEPT ![r] = 0]
    /\ UNCHANGED <<stopKey, cached, version, stored, requestVars, file, part, history>>

ReportCompleted(r) ==
    /\ file[r] > Files
    /\ Go(r, "top", "ended")
    /\ Report("completed")
    /\ UNCHANGED <<stopKey, cached, version, stored, requestVars, file, held, part,
                   history>>

\* The message was acknowledged before the task began: nobody runs it again.
Kill(r) ==
    /\ run[r] \in AtWork
    /\ run' = [run EXCEPT ![r] = "killed"]
    /\ held' = [held EXCEPT ![r] = 0]
    /\ UNCHANGED <<record, stopKey, cached, version, stored, requestVars, file, part,
                   history>>
-----------------------------------------------------------------------------
\* No heartbeat for 120 seconds, and for 600.
Silence ==
    /\ Claimed /\ record.age < 2
    /\ record' = [record EXCEPT !.age = @ + 1]
    /\ UNCHANGED <<stopKey, cached, version, stored, requestVars, runVars, history>>

\* An archive is replaced on disk by a newer one.
ReplaceFile(f) ==
    /\ version[f] < MaxVersions
    /\ version' = [version EXCEPT ![f] = @ + 1]
    /\ swapped' = IF \E r \in Runs : file[r] = f /\ held[r] # 0
                  THEN swapped \cup {<<f, version[f] + 1>>} ELSE swapped
    /\ UNCHANGED <<record, stopKey, cached, stored, requestVars, runVars, misjudged,
                   crossed, overlapped, wiped, after>>

Start(r) == CheckStart(r) \/ CondemnAtStart(r) \/ Reserve(r) \/ Send(r)

Work(r) ==
    \/ Announce(r) \/ ClearStop(r) \/ PollTop(r) \/ CheckIncremental(r) \/ Open(r)
    \/ PollPart(r) \/ WritePart(r) \/ FailFile(r) \/ Mark(r)
    \/ ReportStopped(r) \/ ReportCompleted(r)

Next ==
    \/ \E r \in Runs : Start(r) \/ Work(r) \/ Kill(r)
    \/ \E q \in {"stop", "reset", "status"} : CheckAsked(q) \/ CondemnAsked(q)
    \/ RequestStop \/ Reset
    \/ Silence
    \/ \E f \in 1 .. Files : ReplaceFile(f)

Spec == Init /\ [][Next]_vars
-----------------------------------------------------------------------------
\* Every variable keeps to its values; in particular a task goes past the last archive
\* by one at most, and past the last block of one (LocalKlineImportService.execute).
TypeOK ==
    /\ record \in [status : Statuses, age : Ages]
    /\ stopKey \in BOOLEAN
    /\ cached \in [1 .. Files -> 0 .. MaxVersions]
    /\ version \in [1 .. Files -> 1 .. MaxVersions]
    /\ stored \subseteq (1 .. Files) \X (1 .. MaxVersions) \X (1 .. Parts)
    /\ starter \in [Runs -> {"idle", "refused", "sent"} \cup Acting]
    /\ asker \in [{"stop", "reset", "status"} -> {"idle", "condemning", "acting"}]
    /\ run \in [Runs -> {"absent", "queued"} \cup AtWork \cup Over]
    /\ file \in [Runs -> 1 .. Files + 1]
    /\ held \in [Runs -> 0 .. MaxVersions]
    /\ part \in [Runs -> 1 .. Parts + 1]
    /\ misjudged \in BOOLEAN /\ crossed \in BOOLEAN
    /\ overlapped \in BOOLEAN /\ wiped \in BOOLEAN
    /\ swapped \subseteq (1 .. Files) \X (1 .. MaxVersions)
    /\ after \in [Runs -> 0 .. 3]

\* After version v was imported, of its block p there are rows: its own, or in their
\* place those of a newer version; of factors also those of an older one.
Hold(rows, f, v, p) ==
    \/ <<f, v, p>> \in rows
    \/ /\ p \in Revised
       /\ \E w \in 1 .. MaxVersions : <<f, w, p>> \in rows /\ (Adj \/ w > v)

\* An archive marked in the incremental cache, which the next imports skip, has all its
\* rows in the database, unless it was replaced while a run had the version before in
\* memory: the mark takes the modification time the file has at the end (mark_imported,
\* check_incremental).  K lines are those of the marked version or a newer one; of the
\* factors only that there is a row under each key (AdjFactorRepository.bulk_insert
\* keeps the first: a corrected factor is marked as imported and not written).
MarkedMeansWritten ==
    \A f \in 1 .. Files :
        \/ cached[f] = 0 \/ <<f, cached[f]>> \in swapped
        \/ \A p \in 1 .. Parts : Hold(stored, f, cached[f], p)

\* Two K-line imports are at work together, or one loses its record and stop key to a
\* reset, only if an import was taken for dead that was not, or two requests acted on
\* a record that had changed since (is_running, start_local_kline_import, reset).
OverlapNeedsSilence == overlapped \/ wiped => misjudged \/ crossed

\* An import at work writes at most one more block after a stop is accepted, unless
\* another import or a reset took the stop key away (request_stop, _check_stop_signal).
StopObeyed == overlapped \/ wiped \/ \A r \in Runs : after[r] <= 2
=============================================================================
