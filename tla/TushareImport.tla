--------------------------- MODULE TushareImport ---------------------------
(***************************************************************************)
(* The life of the import tasks of ONE Tushare interface (api_name), from  *)
(* TushareImportService.start_import / stop_import in the API process to   *)
(* the Celery worker that runs _process_import.                            *)
(*                                                                         *)
(* The parties share Redis (the lock of the interface, one stop key and    *)
(* one progress record per task), the table tushare_import_log and the     *)
(* Celery queue data_sync.  Every access to one of them is a step of its   *)
(* own, because each is awaited and the other parties run in between.      *)
(* Interfaces do not share any of these keys, so one interface is enough.  *)
(***************************************************************************)
EXTENDS Naturals, FiniteSets

CONSTANTS
    Tasks,        \* the task ids start_import draws with uuid4
    Strategies,   \* the strategies requests may lead to, see determine_batch_strategy
    None,         \* "the lock key does not exist"
    MaxBatches,   \* bound: batches of one import
    MaxStops,     \* bound: calls of stop_import
    MaxLost       \* bound: worker processes lost and their message redelivered

ASSUME TasksAssumption == None \notin Tasks
ASSUME StrategiesAssumption == Strategies \subseteq {"batched", "single"}
ASSUME BoundsAssumption ==
    MaxBatches \in Nat \ {0} /\ MaxStops \in Nat /\ MaxLost \in Nat

VARIABLES
    lock,         \* Redis tushare:import:lock:{api_name}
    stopKey,      \* Redis tushare:import:stop:{task_id} exists
    progress,     \* Redis tushare:import:{task_id}, its "status" field
    log,          \* tushare_import_log.status of the task's row
    caller,       \* where the start_import call of the task is
    stopper,      \* where the stop_import call of the task is
    strategy,     \* follows from the parameters of the request: "single" is one
                  \* call of the API without a poll of the stop key, every other
                  \* strategy goes batch by batch
    revoked,      \* a worker received the revoke of the task
    worker,       \* where the task's message and its execution are
    left,         \* batches the execution still has to attempt
    result,       \* status the execution will finalize with
    lostCount,    \* messages redelivered so far
    breach,       \* history: a live task lost its lock, or became live without it
    late,         \* history: batches the execution attempted while the stop key was
                  \* set, counted up to 2
    swept,        \* history: some execution attempted every batch
    fault         \* history: a write of the outcome or the delete of the lock was
                  \* lost, or the message or process that would have done them

redisVars == <<lock, stopKey, progress>>
taskVars  == <<strategy, worker, left, result, lostCount>>
history   == <<breach, late, swept, fault>>
vars == <<lock, stopKey, progress, log, caller, stopper, revoked,
          strategy, worker, left, result, lostCount, breach, late, swept, fault>>

Outcome     == {"completed", "failed", "stopped"}
LogStatus   == {"absent", "running"} \cup Outcome
Progress    == {"absent", "pending", "running"} \cup Outcome
CallerState == {"idle", "checked", "logged", "locked", "ready", "sent", "aborted"}
StopState   == {"idle", "signalled", "marked", "revoking", "open", "closing",
                "done", "gave_up"}
Executing   == {"starting", "polling", "writing", "finalizing", "reporting",
                "releasing"}
WorkerState == {"absent", "queued", "returned", "done", "gone"} \cup Executing

\* Every variable keeps to its values; in particular a message is not consumed more
\* often than it was sent and run again (start_import, run_import).
TypeOK ==
    /\ lock \in Tasks \cup {None}
    /\ stopKey \in [Tasks -> BOOLEAN]
    /\ progress \in [Tasks -> Progress]
    /\ log \in [Tasks -> LogStatus]
    /\ caller \in [Tasks -> CallerState]
    /\ stopper \in [Tasks -> StopState]
    /\ revoked \in [Tasks -> BOOLEAN]
    /\ strategy \in [Tasks -> Strategies]
    /\ worker \in [Tasks -> WorkerState]
    /\ left \in [Tasks -> 0 .. MaxBatches]
    /\ result \in [Tasks -> {"none"} \cup Outcome]
    /\ lostCount \in 0 .. MaxLost
    /\ breach \in BOOLEAN
    /\ late \in [Tasks -> 0 .. 2]
    /\ swept \in [Tasks -> BOOLEAN]
    /\ fault \in [Tasks -> BOOLEAN]

Init ==
    /\ lock = None
    /\ stopKey = [t \in Tasks |-> FALSE]
    /\ progress = [t \in Tasks |-> "absent"]
    /\ log = [t \in Tasks |-> "absent"]
    /\ caller = [t \in Tasks |-> "idle"]
    /\ stopper = [t \in Tasks |-> "idle"]
    /\ revoked = [t \in Tasks |-> FALSE]
    /\ strategy \in [Tasks -> Strategies]
    /\ worker = [t \in Tasks |-> "absent"]
    /\ left = [t \in Tasks |-> 0]
    /\ result = [t \in Tasks |-> "none"]
    /\ lostCount = 0
    /\ breach = FALSE
    /\ late = [t \in Tasks |-> 0]
    /\ swept = [t \in Tasks |-> FALSE]
    /\ fault = [t \in Tasks |-> FALSE]

(***************************************************************************)
(* A task is live from the write of its lock until its execution released  *)
(* it, or until its message or its process is gone for good.  Between the  *)
(* release and the acknowledgement it is not live, but may become so again *)
(* when its message is redelivered.                                        *)
(***************************************************************************)
Running(t) == worker[t] \in Executing
Live(t) == caller[t] \in {"locked", "ready"} \/ worker[t] = "queued" \/ Running(t)

\* The live task the lock names is about to lose it: to a start that overwrites
\* it, to a stop_import that drops it, or to its expiry.
Breach == breach' = (breach \/ (lock # None /\ Live(lock)))
-----------------------------------------------------------------------------
(***************************************************************************)
(* start_import.  The lock is looked at, then the row is inserted, and     *)
(* only then is the lock written, with a plain SET that replaces whatever  *)
(* another call wrote in between.                                          *)
(***************************************************************************)
CheckLock(t) ==
    /\ caller[t] = "idle"
    /\ lock = None                      \* otherwise RuntimeError, nothing changes
    /\ caller' = [caller EXCEPT ![t] = "checked"]
    /\ UNCHANGED <<redisVars, log, stopper, revoked, taskVars, history>>

CreateLog(t) ==
    /\ caller[t] = "checked"
    /\ log' = [log EXCEPT ![t] = "running"]
    /\ caller' = [caller EXCEPT ![t] = "logged"]
    /\ UNCHANGED <<redisVars, stopper, revoked, taskVars, history>>

SetLock(t) ==
    /\ caller[t] = "logged"
    /\ Breach
    /\ lock' = t
    /\ caller' = [caller EXCEPT ![t] = "locked"]
    /\ UNCHANGED <<stopKey, progress, log, stopper, revoked, taskVars, late,
                   swept, fault>>

InitProgress(t) ==
    /\ caller[t] = "locked"
    /\ progress' = [progress EXCEPT ![t] = "pending"]
    /\ caller' = [caller EXCEPT ![t] = "ready"]
    /\ UNCHANGED <<lock, stopKey, log, stopper, revoked, taskVars, history>>

SendTask(t) ==
    /\ caller[t] = "ready"
    /\ worker' = [worker EXCEPT ![t] = "queued"]
    /\ caller' = [caller EXCEPT ![t] = "sent"]
    /\ UNCHANGED <<strategy, redisVars, log, stopper, revoked, left, result,
                   lostCount, history>>

\* Redis, the broker or the API process fails between two steps: nothing
\* that was written is undone.
StartAborts(t) ==
    /\ caller[t] \in {"logged", "locked", "ready"}
    /\ caller' = [caller EXCEPT ![t] = "aborted"]
    /\ fault' = [fault EXCEPT ![t] = TRUE]
    /\ UNCHANGED <<redisVars, log, stopper, revoked, taskVars, breach, late,
                   swept>>

(***************************************************************************)
(* stop_import, for a task whose row the client sees (get_import_history,  *)
(* get_running_tasks).  It asks nothing about the state the task is in.    *)
(***************************************************************************)
SetStopKey(t) ==
    /\ stopper[t] = "idle"
    /\ log[t] # "absent"
    /\ Cardinality({u \in Tasks : stopper[u] # "idle"}) < MaxStops
    /\ stopKey' = [stopKey EXCEPT ![t] = TRUE]
    /\ stopper' = [stopper EXCEPT ![t] = "signalled"]
    /\ UNCHANGED <<lock, progress, log, caller, revoked, taskVars, history>>

\* The read and the write of the progress record are one step: the status that
\* is written does not depend on the status that was read, only a missing
\* record stays missing.
MarkProgressStopped(t) ==
    /\ stopper[t] = "signalled"
    /\ progress' = [progress EXCEPT ![t] = IF @ = "absent" THEN @ ELSE "stopped"]
    /\ stopper' = [stopper EXCEPT ![t] = "marked"]
    /\ UNCHANGED <<lock, stopKey, log, caller, revoked, taskVars, history>>

\* control.revoke is a broadcast: a worker gets it, or none is listening
\* (a failure to send it is only logged).
Revoke(t) ==
    /\ stopper[t] = "marked"
    /\ \E heard \in BOOLEAN : revoked' = [revoked EXCEPT ![t] = heard]
    /\ stopper' = [stopper EXCEPT ![t] = "revoking"]
    /\ UNCHANGED <<redisVars, log, caller, taskVars, history>>

\* Slip: the statuses that may still be closed do not include "running".
ReadLogSkips(t) ==
    /\ stopper[t] = "revoking"
    /\ stopper' = [stopper EXCEPT ![t] = "closing"]
    /\ UNCHANGED <<redisVars, log, caller, revoked, taskVars, history>>

ReadLog(t) ==
    /\ stopper[t] = "revoking"
    /\ stopper' = [stopper EXCEPT ![t] =
                       IF log[t] = "running" THEN "open" ELSE "closing"]
    /\ UNCHANGED <<redisVars, log, caller, revoked, taskVars, history>>

\* Slip: the UPDATE is not committed.
CloseLogUncommitted(t) ==
    /\ stopper[t] = "open"
    /\ stopper' = [stopper EXCEPT ![t] = "closing"]
    /\ UNCHANGED <<redisVars, log, caller, revoked, taskVars, history>>

CloseLog(t) ==
    /\ stopper[t] = "open"
    /\ log' = [log EXCEPT ![t] = "stopped"]
    /\ stopper' = [stopper EXCEPT ![t] = "closing"]
    /\ UNCHANGED <<redisVars, caller, revoked, taskVars, history>>

\* cache_delete of the interface's lock, whoever holds it.
DropLock(t) ==
    /\ stopper[t] = "closing"
    /\ Breach
    /\ lock' = None
    /\ stopper' = [stopper EXCEPT ![t] = "done"]
    /\ UNCHANGED <<stopKey, progress, log, caller, revoked, taskVars, late,
                   swept, fault>>

\* Redis or the database fails: the rest of stop_import is skipped.
StopGivesUp(t) ==
    /\ stopper[t] \in {"signalled", "marked", "revoking", "open", "closing"}
    /\ stopper' = [stopper EXCEPT ![t] = "gave_up"]
    /\ UNCHANGED <<redisVars, log, caller, revoked, taskVars, history>>
-----------------------------------------------------------------------------
(***************************************************************************)
(* run_import / _process_import in the worker.                             *)
(***************************************************************************)
\* The execution starts from the beginning, also after a redelivery.
PickUp(t) ==
    /\ worker[t] = "queued"
    /\ ~ revoked[t]
    /\ worker' = [worker EXCEPT ![t] = "starting"]
    /\ \E n \in IF strategy[t] = "single" THEN {1} ELSE 0 .. MaxBatches :
           left' = [left EXCEPT ![t] = n]
    /\ result' = [result EXCEPT ![t] = "none"]
    /\ late' = [late EXCEPT ![t] = 0]
    /\ UNCHANGED <<strategy, redisVars, log, caller, stopper, revoked,
                   lostCount, breach, swept, fault>>

\* A worker that heard the revoke drops the message.
Discard(t) ==
    /\ worker[t] = "queued"
    /\ revoked[t]
    /\ worker' = [worker EXCEPT ![t] = "gone"]
    /\ fault' = [fault EXCEPT ![t] = TRUE]
    /\ UNCHANGED <<strategy, redisVars, log, caller, stopper, revoked, left,
                   result, lostCount, breach, late, swept>>

\* _update_progress(status="running"), then the strategy is entered.
Begin(t) ==
    /\ worker[t] = "starting"
    /\ progress' = [progress EXCEPT ![t] = "running"]
    /\ worker' = [worker EXCEPT ![t] =
                      IF strategy[t] = "single" THEN "writing" ELSE "polling"]
    /\ UNCHANGED <<strategy, lock, stopKey, log, caller, stopper, revoked, left,
                   result, lostCount, history>>

\* Slip: the strategy leaves its loop without naming the status "stopped".
PollStopsUnnamed(t) ==
    /\ worker[t] = "polling"
    /\ left[t] > 0
    /\ stopKey[t]
    /\ result' = [result EXCEPT ![t] = "completed"]
    /\ worker' = [worker EXCEPT ![t] = "finalizing"]
    /\ UNCHANGED <<strategy, redisVars, log, caller, stopper, revoked, left,
                   lostCount, history>>

\* The loop's head: the stop key first, then a batch.
PollStops(t) ==
    /\ worker[t] = "polling"
    /\ left[t] > 0
    /\ stopKey[t]
    /\ result' = [result EXCEPT ![t] = "stopped"]
    /\ worker' = [worker EXCEPT ![t] = "finalizing"]
    /\ UNCHANGED <<strategy, redisVars, log, caller, stopper, revoked, left,
                   lostCount, history>>

\* Slip: a loop that does not look at the stop key before each batch.
PollContinuesBlindly(t) ==
    /\ worker[t] = "polling"
    /\ left[t] > 0
    /\ worker' = [worker EXCEPT ![t] = "writing"]
    /\ UNCHANGED <<strategy, redisVars, log, caller, stopper, revoked, left,
                   result, lostCount, history>>

PollContinues(t) ==
    /\ worker[t] = "polling"
    /\ left[t] > 0
    /\ ~ stopKey[t]
    /\ worker' = [worker EXCEPT ![t] = "writing"]
    /\ UNCHANGED <<strategy, redisVars, log, caller, stopper, revoked, left,
                   result, lostCount, history>>

\* The API call and the upsert of one batch, with the progress update that
\* follows.  A failure other than an invalid token is recorded and passed over.
WriteBatch(t) ==
    /\ worker[t] = "writing"
    /\ left' = [left EXCEPT ![t] = @ - 1]
    /\ progress' = [progress EXCEPT ![t] = "running"]
    /\ worker' = [worker EXCEPT ![t] = "polling"]
    /\ late' = [late EXCEPT ![t] = IF stopKey[t] /\ @ < 2 THEN @ + 1 ELSE @]
    /\ UNCHANGED <<strategy, lock, stopKey, log, caller, stopper, revoked,
                   result, lostCount, breach, swept, fault>>

\* No batch left: the strategy returns "completed"; the coverage check of the
\* sector quotes may turn that into "failed".
Exhausted(t) ==
    /\ worker[t] = "polling"
    /\ left[t] = 0
    /\ \E r \in {"completed", "failed"} : result' = [result EXCEPT ![t] = r]
    /\ worker' = [worker EXCEPT ![t] = "finalizing"]
    /\ swept' = [swept EXCEPT ![t] = TRUE]
    /\ UNCHANGED <<strategy, redisVars, log, caller, stopper, revoked, left,
                   lostCount, breach, late, fault>>

\* Slips: the except branch does not set the status; Celery retries the task
\* (autoretry_for is not empty and max_retries is None).
RaiseUnnamed(t) ==
    /\ worker[t] \in {"starting", "polling", "writing"}
    /\ worker' = [worker EXCEPT ![t] = "finalizing"]
    /\ UNCHANGED <<strategy, redisVars, log, caller, stopper, revoked, left,
                   result, lostCount, history>>

RaiseRetries(t) ==
    /\ worker[t] \in {"starting", "polling", "writing"}
    /\ result' = [result EXCEPT ![t] = "failed"]
    /\ worker' = [worker EXCEPT ![t] = "queued"]
    /\ UNCHANGED <<strategy, redisVars, log, caller, stopper, revoked, left,
                   lostCount, history>>

\* Any await inside the try raises: the except branch finalizes "failed".
Raise(t) ==
    /\ worker[t] \in {"starting", "polling", "writing"}
    /\ result' = [result EXCEPT ![t] = "failed"]
    /\ worker' = [worker EXCEPT ![t] = "finalizing"]
    /\ UNCHANGED <<strategy, redisVars, log, caller, stopper, revoked, left,
                   lostCount, history>>

\* _finalize_log: UPDATE by id, whatever the row says; an exception of the
\* database is logged and swallowed.
FinalizeLog(t) ==
    /\ worker[t] = "finalizing"
    /\ \/ log' = [log EXCEPT ![t] = result[t]] /\ UNCHANGED fault
       \/ fault' = [fault EXCEPT ![t] = TRUE] /\ UNCHANGED log
    /\ worker' = [worker EXCEPT ![t] = "reporting"]
    /\ UNCHANGED <<strategy, redisVars, caller, stopper, revoked, left, result,
                   lostCount, breach, late, swept>>

\* Slips: the last report says "completed" whatever happened; the lock is
\* given up before the report instead of after it.
ReportProgressCompleted(t) ==
    /\ worker[t] = "reporting"
    /\ progress' = [progress EXCEPT ![t] = "completed"]
    /\ worker' = [worker EXCEPT ![t] = "releasing"]
    /\ UNCHANGED <<strategy, lock, stopKey, log, caller, stopper, revoked, left,
                   result, lostCount, history>>

ReportProgressUnlocked(t) ==
    /\ worker[t] = "reporting"
    /\ progress' = [progress EXCEPT ![t] = result[t]]
    /\ lock' = None
    /\ worker' = [worker EXCEPT ![t] = "releasing"]
    /\ UNCHANGED <<strategy, stopKey, log, caller, stopper, revoked, left,
                   result, lostCount, history>>

ReportProgress(t) ==
    /\ worker[t] = "reporting"
    /\ progress' = [progress EXCEPT ![t] = result[t]]
    /\ worker' = [worker EXCEPT ![t] = "releasing"]
    /\ UNCHANGED <<strategy, lock, stopKey, log, caller, stopper, revoked, left,
                   result, lostCount, history>>

\* Redis fails on that last report.  Inside the try this enters the except
\* branch, which finalizes the row once more, as "failed"; inside the except
\* branch it leaves the report unwritten.
ReportRaises(t) ==
    /\ worker[t] = "reporting"
    /\ IF result[t] = "failed"
       THEN /\ worker' = [worker EXCEPT ![t] = "releasing"]
            /\ fault' = [fault EXCEPT ![t] = TRUE]
            /\ UNCHANGED result
       ELSE /\ worker' = [worker EXCEPT ![t] = "finalizing"]
            /\ result' = [result EXCEPT ![t] = "failed"]
            /\ UNCHANGED fault
    /\ UNCHANGED <<strategy, redisVars, log, caller, stopper, revoked, left,
                   lostCount, breach, late, swept>>

\* Slip: the task is sent again from the finally block, after the lock went.
ReleaseLockRetries(t) ==
    /\ worker[t] = "releasing"
    /\ lock' \in {None, lock}
    /\ worker' = [worker EXCEPT ![t] = "queued"]
    /\ UNCHANGED <<strategy, stopKey, progress, log, caller, stopper, revoked,
                   left, result, lostCount, history>>

\* Slip: the lock is deleted on the way out of a completed import only.
ReleaseLockCompleted(t) ==
    /\ worker[t] = "releasing"
    /\ lock' = IF result[t] = "completed" THEN None ELSE lock
    /\ worker' = [worker EXCEPT ![t] = "returned"]
    /\ UNCHANGED <<strategy, stopKey, progress, log, caller, stopper, revoked,
                   left, result, lostCount, history>>

\* finally: the lock key is deleted, whoever holds it; or Redis fails and it stays.
\* The message is not acknowledged yet.
ReleaseLock(t) ==
    /\ worker[t] = "releasing"
    /\ \/ lock' = None /\ UNCHANGED fault
       \/ fault' = [fault EXCEPT ![t] = TRUE] /\ UNCHANGED lock
    /\ worker' = [worker EXCEPT ![t] = "returned"]
    /\ UNCHANGED <<strategy, stopKey, progress, log, caller, stopper, revoked,
                   left, result, lostCount, breach, late, swept>>
-----------------------------------------------------------------------------
(***************************************************************************)
(* Celery and Redis.                                                       *)
(***************************************************************************)
\* task_acks_late: the message goes only after run_import has returned.
Ack(t) ==
    /\ worker[t] = "returned"
    /\ worker' = [worker EXCEPT ![t] = "done"]
    /\ UNCHANGED <<strategy, redisVars, log, caller, stopper, revoked, left,
                   result, lostCount, history>>

\* The process dies without its finally, or after it: the SIGTERM of the
\* revoke, or the hard time limit (the message is acknowledged then).
Killed(t) ==
    /\ Running(t) \/ worker[t] = "returned"
    /\ worker' = [worker EXCEPT ![t] = "gone"]
    /\ fault' = [fault EXCEPT ![t] = TRUE]
    /\ UNCHANGED <<strategy, redisVars, log, caller, stopper, revoked, left,
                   result, lostCount, breach, late, swept>>

\* The process is lost (out of memory, host restart): acks_late together with
\* reject_on_worker_lost puts the message back on the queue.  Nobody writes the
\* lock again: an execution whose predecessor had got past its finally runs
\* without one.
WorkerLost(t) ==
    /\ Running(t) \/ worker[t] = "returned"
    /\ lostCount < MaxLost
    /\ lostCount' = lostCount + 1
    /\ worker' = [worker EXCEPT ![t] = "queued"]
    /\ breach' = (breach \/ lock # t)
    /\ UNCHANGED <<strategy, redisVars, log, caller, stopper, revoked, left,
                   result, late, swept, fault>>

\* _LOCK_TTL (2 h) is shorter than the time limit of a task (8 h).
ExpireLock ==
    /\ lock # None
    /\ Breach
    /\ lock' = None
    /\ UNCHANGED <<stopKey, progress, log, caller, stopper, revoked, taskVars,
                   late, swept, fault>>

\* _STOP_SIGNAL_TTL (1 h): longer than any batch, so a running loop meets the
\* key first; a message may wait longer than that in the queue.
ExpireStopKey(t) ==
    /\ stopKey[t]
    /\ ~ Running(t)
    /\ stopKey' = [stopKey EXCEPT ![t] = FALSE]
    /\ UNCHANGED <<lock, progress, log, caller, stopper, revoked, taskVars,
                   history>>

StartStep(t) == CheckLock(t) \/ CreateLog(t) \/ SetLock(t) \/ InitProgress(t)
                \/ SendTask(t)
StopStep(t)  == MarkProgressStopped(t) \/ Revoke(t) \/ ReadLog(t) \/ CloseLog(t)
                \/ DropLock(t)
WorkStep(t)  == PickUp(t) \/ Discard(t) \/ Begin(t) \/ PollStops(t)
                \/ PollContinues(t) \/ WriteBatch(t) \/ Exhausted(t)
                \/ FinalizeLog(t) \/ ReportProgress(t) \/ ReleaseLock(t)
                \/ Ack(t)
Failure(t)   == StartAborts(t) \/ StopGivesUp(t) \/ Raise(t) \/ ReportRaises(t)
                \/ Killed(t) \/ WorkerLost(t) \/ ExpireStopKey(t)

Next == \/ \E t \in Tasks : StartStep(t) \/ SetStopKey(t) \/ StopStep(t)
                            \/ WorkStep(t) \/ Failure(t)
        \/ ExpireLock

Spec == Init /\ [][Next]_vars

(***************************************************************************)
(* A handler that was entered goes on (or fails), and a worker is          *)
(* listening on data_sync, executes what it took and acknowledges it.  The *)
(* user is under no obligation, and nothing has to fail or to expire.      *)
(***************************************************************************)
Fairness ==
    \A t \in Tasks : WF_vars(caller[t] # "idle" /\ StartStep(t))
                     /\ WF_vars(StopStep(t)) /\ WF_vars(WorkStep(t))

FairSpec == Spec /\ Fairness
-----------------------------------------------------------------------------
(***************************************************************************)
(* Properties.                                                             *)
(***************************************************************************)
\* The docstring of start_import: at most one import of the interface runs at any
\* time.  The code alone does not provide it, hence the condition that follows.
OneImportPerApi == \A t, u \in Tasks : Running(t) /\ Running(u) => t = u

\* What the lock does provide: as long as no start overwrote the lock of a
\* live task, no stop_import dropped it, it did not expire under one, and no
\* message came again after its lock was gone, the live task is the one the
\* lock names, so two imports never run together.  Within the import service
\* these four are the only ways to an overlap: finishing, failing, dying, being
\* redelivered before the finally or aborting half-way do not open the door to
\* a second one.  (The smart-screening workflow adds a way of its own, see
\* SmartWorkflow.)
OverlapNeedsBreach ==
    ~ breach => /\ OneImportPerApi
                /\ \A t \in Tasks : Live(t) => lock = t

\* The lock of the interface implements an exclusive lease on "being live",
\* until one of these four steps breaks it.
ApiLease == INSTANCE Lease WITH
                Owners  <- Tasks,
                holders <- IF breach THEN {} ELSE {t \in Tasks : Live(t)},
                broken  <- breach
LockIsLease == ApiLease!Spec

\* Cooperative stop: from the moment the stop key is set an execution attempts
\* at most one more batch - the one whose poll came before, or the only batch
\* of a "single" import - whatever the revoke does.
AtMostOneBatchAfterStop == \A t \in Tasks : late[t] <= 1

\* A row says "completed" only if an execution went through all its batches:
\* the next incremental import starts after the end date of that row
\* (_get_last_successful_end_date), so a stopped, killed or lost execution
\* must never leave one.
CompletedMeansSwept == \A t \in Tasks : log[t] = "completed" => swept[t]

\* stop_import that ran to its end closed the row, whichever of the two - the
\* stop or the worker - wrote it last: the task is out of get_running_tasks.
StopClosesLog == \A t \in Tasks : stopper[t] = "done" => log[t] \in Outcome

\* Without a stop request and without a lost write, the row and the progress
\* record of an execution tell the same outcome, the one it ended with, from its
\* last report on: while it gives up the lock, returns, and after that.
OutcomesAgree ==
    \A t \in Tasks :
        worker[t] \in {"releasing", "returned", "done"} /\ stopper[t] = "idle"
            /\ ~ fault[t]
            => log[t] = result[t] /\ progress[t] = result[t]

\* The lock does not outlive its import: it names a task that is still live, or
\* one that was cut off - its start, its process, its message or the very delete.
\* A start is refused for a task that has ended only in the second case, and
\* then the TTL is all that frees the interface.  Holds through overlaps and
\* redeliveries too: an import that ended never leaves its lock to a later one.
LockOutlivesOnlyFaults == lock # None => Live(lock) \/ fault[lock]

\* A task that was sent does not stay live: it is executed to its end,
\* discarded or gone, stops and crashes included.
SentTaskSettles ==
    \A t \in Tasks : (worker[t] = "queued") ~> (worker[t] \in {"done", "gone"})

\* A stop request settles: the task is no longer live, and unless the request
\* itself broke off the row is closed for good.
StopSettles ==
    \A t \in Tasks :
        (stopper[t] = "signalled")
            ~> (~ Live(t) /\ (log[t] \in Outcome \/ stopper[t] = "gave_up"))
=============================================================================
