------------------------------ MODULE Backfill ------------------------------
(***************************************************************************)
(* The historical backfill: BackfillService.start_backfill, stop_backfill  *)
(* and get_progress in the API process, and the three Celery tasks of      *)
(* tasks/data_sync.py, one per data type, which have the same control.     *)
(*                                                                         *)
(* All of them share ONE progress record and ONE stop signal in Redis.     *)
(* The record is a JSON document that each party reads, changes in its own *)
(* copy and writes back whole; a task reads it once, when it starts, and   *)
(* writes that copy back, with its own counters, for hours.  Every access  *)
(* to Redis is a step of its own.  The keys live for 24 hours, longer than *)
(* a task; their expiry is left out.                                       *)
(***************************************************************************)
EXTENDS Naturals, FiniteSets

CONSTANTS
    Starts,      \* calls of start_backfill
    Types,       \* the data types: kline, fundamentals, money_flow
    Items,       \* bound: symbols (for money_flow: symbols times days) of a task
    MaxTasks,    \* bound: data types of all requests together
    MaxStops,    \* bound: calls of stop_backfill
    MaxFaults,   \* bound: executions run again, failed or killed by the time limit
    NoRecord     \* the progress key does not exist

ASSUME BackfillAssumption ==
    /\ IsFiniteSet(Starts) /\ IsFiniteSet(Types)
    /\ Items \in Nat \ {0}
    /\ MaxTasks \in Nat /\ MaxStops \in Nat /\ MaxFaults \in Nat

Tasks == Starts \X Types

VARIABLES
    record,      \* Redis backfill:progress
    signal,      \* Redis backfill:stop_signal exists
    caller,      \* where each start_backfill is
    wanted,      \* the data types of its request
    sent,        \* the tasks it has sent
    stopper,     \* where the stop_backfill in flight is
    stopCopy,    \* the record as it read it
    stops,       \* calls of stop_backfill so far
    viewer,      \* where the get_progress in flight is
    viewCopy,    \* the record as it read it
    revoked,     \* tasks a worker was told to revoke with terminate
    worker,      \* where the execution of each task is
    copy,        \* the record as the task keeps it
    left,        \* items the execution still has to go through
    faults,      \* executions run again, failed or killed, all tasks together
    processed,   \* history: items gone through, all tasks together
    aimed,       \* history: tasks a stop_backfill found under way, not over yet
    late,        \* history: items each of them went through since, up to 2
    erased,      \* history: the signal was deleted before the stop had its effect
    broken       \* history: a task ended without its last write to the record

startVars == <<caller, wanted, sent>>
stopVars  == <<stopper, stopCopy, stops>>
viewVars  == <<viewer, viewCopy>>
workVars  == <<worker, copy, left, faults>>
history   == <<processed, aimed, late, erased, broken>>
vars == <<record, signal, caller, wanted, sent, stopper, stopCopy, stops, viewer,
          viewCopy, revoked, worker, copy, left, faults, processed, aimed, late,
          erased, broken>>

Status == {"pending", "running", "stopping", "stopped", "completed"}
Record == [status : Status, count : Nat, ids : SUBSET Tasks]

Executing == {"checking", "reading", "announcing", "polling", "marking", "fetching",
              "stopping", "finishing"}
Over      == {"completed", "stopped", "killed"}

Init ==
    /\ record = NoRecord
    /\ signal = FALSE
    /\ caller = [r \in Starts |-> "idle"]
    /\ wanted = [r \in Starts |-> {}]
    /\ sent = [r \in Starts |-> {}]
    /\ stopper = "idle" /\ stopCopy = NoRecord /\ stops = 0
    /\ viewer = "idle" /\ viewCopy = NoRecord
    /\ revoked = {}
    /\ worker = [t \in Tasks |-> "absent"]
    /\ copy = [t \in Tasks |-> NoRecord]
    /\ left = [t \in Tasks |-> 0]
    /\ faults = 0
    /\ processed = 0
    /\ aimed = {}
    /\ late = [t \in Tasks |-> 0]
    /\ erased = FALSE
    /\ broken = FALSE

Alive(t) == worker[t] = "queued" \/ worker[t] \in Executing

Says(status) == record # NoRecord /\ record.status = status

\* Too early if a stop is on its way, tasks it found are, or the record awaits it.
DeleteSignal ==
    /\ signal' = FALSE
    /\ erased' = (erased \/ (signal /\ (\/ stopper # "idle" \/ aimed # {}
                                        \/ Says("stopping"))))
    /\ UNCHANGED <<processed, aimed, late, broken>>
-----------------------------------------------------------------------------
(***************************************************************************)
(* start_backfill.  It refuses while the record says "running"; it revokes *)
(* the tasks another record names, and deletes record and signal.  Then    *)
(* it announces itself, sends one task per data type, and writes its own   *)
(* copy of the record a second time to add the task ids: whatever a task   *)
(* has reported by then is overwritten.  A call that raises on its way     *)
(* takes no further step.                                                  *)
(***************************************************************************)
CallerStep(r, from, to) ==
    /\ caller[r] = from
    /\ caller' = [caller EXCEPT ![r] = to]

Requested == UNION {{r} \X wanted[r] : r \in Starts}

\* A request for the data types D.
ReadBeforeStart(r, D) ==
    /\ Cardinality(Requested) + Cardinality(D) <= MaxTasks
    /\ wanted' = [wanted EXCEPT ![r] = D]
    /\ CallerStep(r, "idle", IF record = NoRecord THEN "resolving"
                             ELSE IF record.status = "running" THEN "refused"
                             ELSE "clearing")
    /\ revoked' = IF record = NoRecord \/ record.status = "running" THEN revoked
                  ELSE revoked \cup record.ids
    /\ UNCHANGED <<record, signal, sent, stopVars, viewVars, workVars, history>>

ClearRecord(r) ==
    /\ CallerStep(r, "clearing", "cleared")
    /\ record' = NoRecord
    /\ UNCHANGED <<signal, wanted, sent, stopVars, viewVars, revoked, workVars, history>>

\* The second time after the list of symbols is resolved.
ClearSignal(r) ==
    /\ \/ CallerStep(r, "cleared", "resolving")
       \/ CallerStep(r, "resolving", "prepared")
    /\ DeleteSignal
    /\ UNCHANGED <<record, wanted, sent, stopVars, viewVars, revoked, workVars>>

Announce(r) ==
    /\ CallerStep(r, "prepared", "sending")
    /\ record' = [status |-> "pending", count |-> 0, ids |-> {}]
    /\ UNCHANGED <<signal, wanted, sent, stopVars, viewVars, revoked, workVars, history>>

Send(r, d) ==
    /\ caller[r] = "sending" /\ d \in wanted[r] /\ <<r, d>> \notin sent[r]
    /\ sent' = [sent EXCEPT ![r] = @ \cup {<<r, d>>}]
    /\ worker' = [worker EXCEPT ![<<r, d>>] = "queued"]
    /\ left' = [left EXCEPT ![<<r, d>>] = Items]
    /\ UNCHANGED <<record, signal, caller, wanted, stopVars, viewVars, revoked, copy,
                   faults, history>>

WriteIds(r) ==
    /\ Cardinality(sent[r]) = Cardinality(wanted[r])
    /\ CallerStep(r, "sending", "started")
    /\ record' = [status |-> "pending", count |-> 0, ids |-> sent[r]]
    /\ UNCHANGED <<signal, wanted, sent, stopVars, viewVars, revoked, workVars, history>>
-----------------------------------------------------------------------------
(***************************************************************************)
(* stop_backfill: the signal first, then "stopping" into the record as it  *)
(* was read, then the revocation of the tasks that record names.           *)
(***************************************************************************)
RaiseSignal ==
    /\ stopper = "idle" /\ stops < MaxStops
    /\ stopper' = "signalled"
    /\ stops' = stops + 1
    /\ signal' = TRUE
    /\ aimed' = aimed \cup {t \in Tasks : Alive(t)}
    /\ UNCHANGED <<record, startVars, stopCopy, viewVars, revoked, workVars, processed,
                   late, erased, broken>>

ReadForStop ==
    /\ stopper = "signalled"
    /\ IF record # NoRecord /\ record.status \in {"running", "pending", "stopping"}
       THEN stopper' = "read" /\ stopCopy' = record
       ELSE stopper' = "idle" /\ UNCHANGED stopCopy
    /\ UNCHANGED <<record, signal, startVars, stops, viewVars, revoked, workVars, history>>

WriteStopping ==
    /\ stopper = "read"
    /\ stopper' = "marked"
    /\ record' = [stopCopy EXCEPT !.status = "stopping"]
    /\ UNCHANGED <<signal, startVars, stopCopy, stops, viewVars, revoked, workVars, history>>

RevokeNamed ==
    /\ stopper = "marked"
    /\ stopper' = "idle"
    /\ revoked' = revoked \cup stopCopy.ids
    /\ stopCopy' = NoRecord
    /\ UNCHANGED <<record, signal, startVars, stops, viewVars, workVars, history>>

(***************************************************************************)
(* get_progress, which the page polls every three seconds.  It settles a   *)
(* record that says "stopping" while the signal is there, and deletes the  *)
(* signal; it deletes it too when there is no record.  Its two reads, of   *)
(* the record and of the signal, are one step.                             *)
(***************************************************************************)
\* Slip: settles only when the signal is gone.
ReadForViewUnsignalled ==
    /\ viewer = "idle"
    /\ \/ record = NoRecord /\ viewer' = "sweeping" /\ UNCHANGED viewCopy
       \/ record # NoRecord /\ record.status = "stopping" /\ ~signal
          /\ viewer' = "settling" /\ viewCopy' = record
    /\ UNCHANGED <<record, signal, startVars, stopVars, revoked, workVars, history>>

ReadForView ==
    /\ viewer = "idle"
    /\ \/ record = NoRecord /\ viewer' = "sweeping" /\ UNCHANGED viewCopy
       \/ record # NoRecord /\ record.status = "stopping" /\ signal
          /\ viewer' = "settling" /\ viewCopy' = record
    /\ UNCHANGED <<record, signal, startVars, stopVars, revoked, workVars, history>>

SettleStopped ==
    /\ viewer = "settling"
    /\ viewer' = "sweeping"
    /\ record' = [viewCopy EXCEPT !.status = "stopped"]
    /\ viewCopy' = NoRecord
    /\ UNCHANGED <<signal, startVars, stopVars, revoked, workVars, history>>

SweepSignal ==
    /\ viewer = "sweeping"
    /\ viewer' = "idle"
    /\ DeleteSignal
    /\ UNCHANGED <<record, startVars, stopVars, viewCopy, revoked, workVars>>
-----------------------------------------------------------------------------
(***************************************************************************)
(* The tasks sync_historical_kline, _fundamentals and _money_flow.         *)
(***************************************************************************)
WorkerStep(t, from, to) ==
    /\ worker[t] = from
    /\ worker' = [worker EXCEPT ![t] = to]

others == <<startVars, stopVars, viewVars, revoked>>

\* The task is over: nothing of it is left but how it ended.
End(t, how, newFaults) ==
    /\ worker' = [worker EXCEPT ![t] = how]
    /\ copy' = [copy EXCEPT ![t] = NoRecord]
    /\ left' = [left EXCEPT ![t] = 0]
    /\ aimed' = aimed \ {t}
    /\ late' = [late EXCEPT ![t] = 0]
    /\ faults' = newFaults
    /\ UNCHANGED <<signal, others, processed, erased>>

Deliver(t) ==
    /\ t \notin revoked
    /\ WorkerStep(t, "queued", "checking")
    /\ UNCHANGED <<record, signal, others, copy, left, faults, history>>

Drop(t) ==
    /\ worker[t] = "queued" /\ t \in revoked
    /\ End(t, "killed", faults)
    /\ broken' = TRUE
    /\ UNCHANGED record

\* An execution that finds the signal at its start leaves the record as it is: when it is
\* run again that may be the "running" the previous execution wrote.
QuitAtStart(t) ==
    /\ worker[t] = "checking" /\ signal
    /\ End(t, "stopped", faults)
    /\ broken' = (broken \/ faults > 0)
    /\ UNCHANGED record

PassStart(t) ==
    /\ ~signal
    /\ WorkerStep(t, "checking", "reading")
    /\ UNCHANGED <<record, signal, others, copy, left, faults, history>>

\* A missing record is an empty document; "stopping" is left as it is.
ReadRecord(t) ==
    LET seen == IF record = NoRecord THEN [status |-> "pending", count |-> 0, ids |-> {}]
                ELSE record
    IN  /\ WorkerStep(t, "reading",
              IF seen.status = "stopping" THEN "polling" ELSE "announcing")
        /\ copy' = [copy EXCEPT ![t] =
              IF seen.status = "stopping" THEN seen ELSE [seen EXCEPT !.status = "running"]]
        /\ UNCHANGED <<record, signal, others, left, faults, history>>

AnnounceRunning(t) ==
    /\ WorkerStep(t, "announcing", "polling")
    /\ record' = copy[t]
    /\ UNCHANGED <<signal, others, copy, left, faults, history>>

\* Slip: the signal is looked at before the first item only.
PollOnce(t) ==
    /\ WorkerStep(t, "polling", IF left[t] = 0 THEN "finishing"
                                ELSE IF signal /\ left[t] = Items THEN "stopping"
                                ELSE "marking")
    /\ UNCHANGED <<record, signal, others, copy, left, faults, history>>

\* Slip: one item more than there are.
PollPast(t) ==
    /\ WorkerStep(t, "polling", IF signal THEN "stopping" ELSE "marking")
    /\ UNCHANGED <<record, signal, others, copy, left, faults, history>>

Poll(t) ==
    /\ WorkerStep(t, "polling", IF left[t] = 0 THEN "finishing"
                                ELSE IF signal THEN "stopping" ELSE "marking")
    /\ UNCHANGED <<record, signal, others, copy, left, faults, history>>

\* Slip: the item is counted when it is begun.
MarkCounted(t) ==
    /\ WorkerStep(t, "marking", "fetching")
    /\ record' = [copy[t] EXCEPT !.count = @ + 1]
    /\ UNCHANGED <<signal, others, copy, left, faults, history>>

MarkCurrent(t) ==
    /\ WorkerStep(t, "marking", "fetching")
    /\ record' = copy[t]
    /\ UNCHANGED <<signal, others, copy, left, faults, history>>

\* Slip: a failed item is tried again, without end.
ProcessInPlace(t) ==
    /\ WorkerStep(t, "fetching", "polling")
    /\ record' = copy[t]
    /\ UNCHANGED <<signal, others, copy, left, faults, history>>

\* One item fetched and stored, or counted as failed; then the counters are written.
Process(t) ==
    /\ WorkerStep(t, "fetching", "polling")
    /\ copy' = [copy EXCEPT ![t].count = @ + 1]
    /\ record' = copy'[t]
    /\ left' = [left EXCEPT ![t] = @ - 1]
    /\ processed' = processed + 1
    /\ late' = IF t \in aimed /\ late[t] < 2 THEN [late EXCEPT ![t] = @ + 1] ELSE late
    /\ UNCHANGED <<signal, others, faults, aimed, erased, broken>>

\* Slip: the last write leaves the status alone.
WriteLastUnchanged(t, from, status) ==
    /\ worker[t] = from
    /\ record' = copy[t]
    /\ End(t, status, faults)
    /\ UNCHANGED broken

\* The last write of an execution.
WriteLast(t, from, status) ==
    /\ worker[t] = from
    /\ record' = [copy[t] EXCEPT !.status = status]
    /\ End(t, status, faults)
    /\ UNCHANGED broken

StopTask(t)   == WriteLast(t, "stopping", "stopped")
FinishTask(t) == WriteLast(t, "finishing", "completed")

\* The worker process is lost; the message, which is acknowledged at the end, comes
\* again and the task starts over.
Redeliver(t) ==
    /\ worker[t] \in Executing /\ faults < MaxFaults
    /\ worker' = [worker EXCEPT ![t] = "queued"]
    /\ copy' = [copy EXCEPT ![t] = NoRecord]
    /\ left' = [left EXCEPT ![t] = Items]
    /\ faults' = faults + 1
    /\ UNCHANGED <<record, signal, others, history>>

\* The revoke terminates the process.
Terminate(t) ==
    /\ worker[t] \in Executing /\ t \in revoked
    /\ End(t, "killed", faults)
    /\ broken' = TRUE
    /\ UNCHANGED record

\* An access to Redis raises, which nothing catches or repeats, or the hard time
\* limit kills the process.
Kill(t) ==
    /\ worker[t] \in Executing /\ faults < MaxFaults
    /\ End(t, "killed", faults + 1)
    /\ broken' = TRUE
    /\ UNCHANGED record

Start(r) == \/ \E D \in SUBSET Types \ {{}} : ReadBeforeStart(r, D)
            \/ ClearRecord(r) \/ ClearSignal(r)
            \/ Announce(r) \/ WriteIds(r)
            \/ \E d \in Types : Send(r, d)
Stop     == RaiseSignal \/ ReadForStop \/ WriteStopping \/ RevokeNamed
View     == ReadForView \/ SettleStopped \/ SweepSignal
Work(t)  == \/ Deliver(t) \/ Drop(t) \/ QuitAtStart(t) \/ PassStart(t) \/ ReadRecord(t)
            \/ AnnounceRunning(t) \/ Poll(t) \/ MarkCurrent(t) \/ Process(t)
            \/ StopTask(t) \/ FinishTask(t)
Fault(t) == Redeliver(t) \/ Terminate(t) \/ Kill(t)

Next == \/ \E r \in Starts : Start(r)
        \/ Stop \/ View
        \/ \E t \in Tasks : Work(t) \/ Fault(t)

Spec == Init /\ [][Next]_vars

\* The workers take and run the messages they are sent, and the page goes on polling;
\* requests may never come, and may stop half way.
FairSpec == Spec /\ WF_vars(View) /\ \A t \in Tasks : WF_vars(Work(t))
-----------------------------------------------------------------------------
\* Every variable keeps to its values; in particular a task never goes through more
\* items than its request has (the loops of tasks/data_sync.py).
TypeOK ==
    /\ record \in Record \cup {NoRecord}
    /\ signal \in BOOLEAN
    /\ caller \in [Starts -> {"idle", "refused", "clearing", "cleared", "resolving",
                              "prepared", "sending", "started"}]
    /\ wanted \in [Starts -> SUBSET Types]
    /\ sent \in [Starts -> SUBSET Tasks]
    /\ stopper \in {"idle", "signalled", "read", "marked"}
    /\ stopCopy \in Record \cup {NoRecord}
    /\ stops \in 0 .. MaxStops
    /\ viewer \in {"idle", "settling", "sweeping"}
    /\ viewCopy \in Record \cup {NoRecord}
    /\ revoked \subseteq Tasks
    /\ worker \in [Tasks -> {"absent", "queued"} \cup Executing \cup Over]
    /\ copy \in [Tasks -> Record \cup {NoRecord}]
    /\ left \in [Tasks -> 0 .. Items]
    /\ faults \in 0 .. MaxFaults
    /\ processed \in Nat
    /\ aimed \subseteq Tasks
    /\ late \in [Tasks -> 0 .. 2]
    /\ erased \in BOOLEAN /\ broken \in BOOLEAN

\* While nobody deletes the stop signal, a task that was sent before the stop goes
\* through one more item at most, the one it was at, also when it is run again.
SignalHonoured == erased \/ \A t \in Tasks : late[t] <= 1

\* The progress shown never counts more items than the tasks have gone through,
\* however often copies of the record overwrite each other.
ProgressNotAhead == record # NoRecord => record.count <= processed

\* A record that says "running", and so keeps every new backfill out, has a task
\* that will write to it again, unless a task ended without its last write: it was
\* killed, dropped, failed, or run again into a stop.
RunningHasRunner == Says("running") /\ ~broken => \E t \in Tasks : Alive(t)

\* A record that says "running" is settled by the tasks in the end.
RunningSettles == Says("running") ~> (~Says("running") \/ broken)

\* A record that says "stopping" is settled too, by a task or by the page, unless the
\* stop signal was deleted before the stop had its effect.
StoppingSettles == Says("stopping") ~> (~Says("stopping") \/ erased)
=============================================================================
