--------------------------- MODULE SmartWorkflow ---------------------------
(***************************************************************************)
(* The smart-screening import workflow: TushareSmartImportWorkflowService, *)
(* called by API processes (start, resume, pause, stop, get_running) and   *)
(* by the Celery task that executes run_workflow.                          *)
(*                                                                         *)
(* A workflow is a list of steps, each the import of one interface done in *)
(* the worker itself.  Its whole state is one JSON document in Redis that  *)
(* API calls and worker read, change and write back as a whole; one key    *)
(* names the running workflow, two flags ask for a pause or a stop, and    *)
(* every step takes the lock of its interface (see TushareImport).  Calls  *)
(* and runs are numbered in the order they come.                           *)
(***************************************************************************)
EXTENDS Naturals, Sequences, FiniteSetsExt

CONSTANTS
    Workflows,    \* the ids start_workflow draws with uuid4
    NumSteps,     \* steps of the definition, all stages
    Optional,     \* steps with continue_on_failure
    Contended,    \* steps whose interface is also imported through start_import
    None,         \* "the key does not exist"
    Rival,        \* the task of such an import
    MaxCalls,     \* bound: calls of the service that have an effect
    MaxRuns,      \* bound: messages, one per start or resume
    MaxLost,      \* bound: worker processes lost and their message redelivered
    MaxDrops      \* bound: keys that expire, and locks that stop_import deletes

Steps == 1 .. NumSteps
Calls == 1 .. MaxCalls
Runs  == 1 .. MaxRuns
Ids   == Runs \X Steps \X (0 .. MaxLost)    \* child_task_id

ASSUME StepsAssumption ==
    /\ NumSteps \in Nat \ {0}
    /\ Optional \subseteq Steps /\ Contended \subseteq Steps
ASSUME KeysAssumption ==
    None # Rival /\ {None, Rival} \cap Runs = {} /\ {None, Rival} \cap Ids = {}
ASSUME BoundsAssumption ==
    /\ MaxCalls \in Nat /\ MaxRuns \in Nat
    /\ MaxLost \in Nat /\ MaxDrops \in Nat

VARIABLES
    runningKey,   \* WORKFLOW_RUNNING_KEY; the run stands for its workflow's id
    state,        \* tushare:workflow:{id}: status and child_tasks
    pauseFlag,    \* tushare:workflow:pause:{id}
    stopFlag,     \* tushare:workflow:stop:{id}
    importStop,   \* the children with a key tushare:import:stop:{child_task_id}
    lock,         \* tushare:import:lock:{api_name} of each step
    rival,        \* the other import of the interface
    call,         \* the calls of the service in API processes
    run,          \* the messages and their executions
    lostCount,    \* messages redelivered
    drops,        \* keys that expired or were deleted by stop_import
    breach,       \* history: the running key was taken from a live run, or a run
                  \* that had given it up came back
    evicted,      \* history: a live import was left without its lock: released as
                  \* stale or for a failed run, expired, deleted by stop_import,
                  \* overwritten by start_import, or gone when it was redelivered
    imported      \* history: steps some import of which came through

flagVars == <<pauseFlag, stopFlag, importStop>>
keys     == <<runningKey, state, flagVars, lock>>
counters == <<lostCount, drops>>
history  == <<breach, evicted, imported>>
vars == <<runningKey, state, pauseFlag, stopFlag, importStop, lock, rival, call,
          run, lostCount, drops, breach, evicted, imported>>

ChildStatus == {"running", "completed", "failed", "stopped", "stale_failed"}
Child       == [id : Ids, status : ChildStatus]
Status      == {"absent", "pending", "running", "completed", "failed", "stopped",
                "paused"}
CallState   == {"idle", "saving", "sending", "claiming", "unpausing", "unstopping",
                "flagged", "signalling", "marking", "found", "dropping", "done"}
InTry       == {"pause?", "stop?", "enter", "lock", "holder", "inspect", "compare",
                "drop", "relock", "refuse", "add", "import", "record", "stopped",
                "close"}
Executing   == InTry \cup {"mark", "release", "again", "reread", "remark", "last"}
RunState    == {"absent", "claimed", "queued", "done", "gone"} \cup Executing
RivalState  == {"absent", "checked", "queued", "active", "returned", "gone"}

\* What a call holds; what a message and its execution hold: its own copy of the
\* children, the step with child_task_id and the holder of its lock, the status
\* it will end with, and the history "late": steps begun though a flag was set.
NoCall == [op |-> "none", at |-> "idle", wf |-> None, run |-> 0, children |-> <<>>]
NoRun  == [at |-> "absent", wf |-> None, resume |-> FALSE, children |-> <<>>,
           step |-> 0, id |-> None, holder |-> None, result |-> "none", late |-> 0]

\* Every variable keeps to its values; in particular a run never goes past its steps
\* (execute_workflow).
TypeOK ==
    /\ runningKey \in Runs \cup {None}
    /\ state \in [Workflows -> [status : Status, children : Seq(Child)]]
    /\ pauseFlag \in [Workflows -> BOOLEAN]
    /\ stopFlag \in [Workflows -> BOOLEAN]
    /\ importStop \subseteq Ids
    /\ lock \in [Steps -> Ids \cup {None, Rival}]
    /\ rival \in [Steps -> RivalState]
    /\ call \in [Calls -> [op : {"none", "resume", "paused", "stopped", "get_running"},
                           at : CallState, wf : Workflows \cup {None},
                           run : 0 .. MaxRuns, children : Seq(Child)]]
    /\ run \in [Runs -> [at : RunState, wf : Workflows \cup {None}, resume : BOOLEAN,
                         children : Seq(Child), step : 0 .. NumSteps,
                         id : Ids \cup {None}, holder : Ids \cup {None, Rival},
                         result : Status \cup {"none", "raised"}, late : 0 .. 2]]
    /\ lostCount \in 0 .. MaxLost /\ drops \in 0 .. MaxDrops
    /\ breach \in BOOLEAN /\ evicted \in BOOLEAN
    /\ imported \subseteq Workflows \X Steps

Init ==
    /\ runningKey = None
    /\ state = [w \in Workflows |-> [status |-> "absent", children |-> <<>>]]
    /\ pauseFlag = [w \in Workflows |-> FALSE]
    /\ stopFlag = [w \in Workflows |-> FALSE]
    /\ importStop = {}
    /\ lock = [s \in Steps |-> None] /\ rival = [s \in Steps |-> "absent"]
    /\ call = [c \in Calls |-> NoCall] /\ run = [r \in Runs |-> NoRun]
    /\ lostCount = 0 /\ drops = 0
    /\ breach = FALSE /\ evicted = FALSE /\ imported = {}

StepOf(child) == child.id[2]
\* Slip: whatever did not fail counts as completed.
CompletedUnlessFailed(children) ==
    {StepOf(children[i]) : i \in {j \in DOMAIN children :
                                      children[j].status # "failed"}}

Completed(children) == {StepOf(children[i]) :
                            i \in {j \in DOMAIN children :
                                       children[j].status = "completed"}}
\* The last child that is running, by its index; 0 if none is.
LastRunning(children) ==
    LET running == {i \in DOMAIN children : children[i].status = "running"}
    IN  IF running = {} THEN 0 ELSE Max(running)

\* A run is live from the moment its call acquires the running key until it
\* gives the key up for the first time, or its message or process is gone.
Live(r) == run[r].at \in {"claimed", "queued", "mark", "release"} \cup InTry

\* The import under this lock goes on or is still to come.
ImportLives(holder, s) ==
    IF holder = Rival THEN rival[s] \in {"queued", "active"}
    ELSE \E r \in Runs : run[r].at \in {"add", "import"} /\ run[r].id = holder

\* The key is deleted by run or call `who`, or expires.
TakeKey(who) ==
    /\ runningKey' = None
    /\ breach' = (breach \/ (runningKey \notin {None, who} /\ Live(runningKey)))

Save(w, status, children) ==
    state' = [state EXCEPT ![w] = [status |-> status, children |-> children]]
-----------------------------------------------------------------------------
(***************************************************************************)
(* The calls.                                                              *)
(***************************************************************************)
At(c, at) == call[c].at = at
Goto(c, at) == call' = [call EXCEPT ![c].at = at]
\* What a call or a run knew and does not use any more is forgotten.
Return(c) ==
    call' = [call EXCEPT ![c] = [NoCall EXCEPT !.at = "done", !.wf = call[c].wf]]
Over(r, at) == [NoRun EXCEPT !.at = at, !.wf = run[r].wf, !.resume = run[r].resume]

\* Calls and runs are taken in order.
Arrives(c) == At(c, "idle") /\ \A b \in 1 .. c - 1 : ~ At(b, "idle")
Unsent(r)  == run[r].at = "absent" /\ \A q \in 1 .. r - 1 : run[q].at # "absent"

Begin(c, op, at, w) ==
    call' = [call EXCEPT ![c] = [NoCall EXCEPT !.op = op, !.at = at, !.wf = w]]

\* SET NX of the running key, for the message that will follow.
Claim(c, w, at, resumed) ==
    \E r \in Runs :
        /\ Unsent(r)
        /\ runningKey' = r
        /\ run' = [run EXCEPT ![r] = [NoRun EXCEPT !.at = "claimed", !.wf = w,
                                                   !.resume = resumed]]
        /\ call' = [call EXCEPT ![c] = [@ EXCEPT !.at = at, !.wf = w, !.run = r]]

\* start_workflow.  A key that is held makes the call fail without an effect.
Start(c, w) ==
    /\ Arrives(c)
    /\ state[w].status = "absent" /\ \A b \in Calls : call[b].wf # w
    /\ runningKey = None
    /\ Claim(c, w, "saving", FALSE)
    /\ UNCHANGED <<state, flagVars, lock, rival, counters, history>>

\* resume_workflow reads the state before it acquires the key.
Resume(c, w) ==
    /\ Arrives(c)
    /\ state[w].status \in {"failed", "paused"}
    /\ call' = [call EXCEPT ![c] =
                    [NoCall EXCEPT !.op = "resume", !.at = "claiming", !.wf = w,
                                   !.children = state[w].children]]
    /\ UNCHANGED <<keys, rival, run, counters, history>>

\* Slip: SET without NX.
ClaimForResumeAnyway(c) ==
    /\ At(c, "claiming")
    /\ Claim(c, call[c].wf, "unpausing", TRUE)
    /\ UNCHANGED <<state, flagVars, lock, rival, counters, history>>

ClaimForResume(c) ==
    /\ At(c, "claiming")
    /\ runningKey = None
    /\ Claim(c, call[c].wf, "unpausing", TRUE)
    /\ UNCHANGED <<state, flagVars, lock, rival, counters, history>>

ResumeRefused(c) ==
    /\ At(c, "claiming")
    /\ runningKey # None
    /\ Return(c)
    /\ UNCHANGED <<keys, rival, run, counters, history>>

DeletePauseFlag(c) ==
    /\ At(c, "unpausing")
    /\ pauseFlag' = [pauseFlag EXCEPT ![call[c].wf] = FALSE]
    /\ Goto(c, "unstopping")
    /\ UNCHANGED <<runningKey, state, stopFlag, importStop, lock, rival, run,
                   counters, history>>

DeleteStopFlag(c) ==
    /\ At(c, "unstopping")
    /\ stopFlag' = [stopFlag EXCEPT ![call[c].wf] = FALSE]
    /\ Goto(c, "saving")
    /\ UNCHANGED <<runningKey, state, pauseFlag, importStop, lock, rival, run,
                   counters, history>>

\* A start writes the initial state, a resume what it read in the beginning.
SavePending(c) ==
    /\ At(c, "saving")
    /\ Save(call[c].wf, "pending", call[c].children)
    /\ Goto(c, "sending")
    /\ UNCHANGED <<runningKey, flagVars, lock, rival, run, counters, history>>

Send(c) ==
    /\ At(c, "sending")
    /\ run' = [run EXCEPT ![call[c].run].at = "queued"]
    /\ Return(c)
    /\ UNCHANGED <<keys, rival, counters, history>>

\* pause_workflow and stop_workflow, which ask nothing about the status.
Interrupt(c, w) ==
    /\ Arrives(c)
    /\ state[w].status # "absent"
    /\ \/ /\ pauseFlag' = [pauseFlag EXCEPT ![w] = TRUE]
          /\ Begin(c, "paused", "flagged", w)
          /\ UNCHANGED stopFlag
       \/ /\ stopFlag' = [stopFlag EXCEPT ![w] = TRUE]
          /\ Begin(c, "stopped", "flagged", w)
          /\ UNCHANGED pauseFlag
    /\ UNCHANGED <<runningKey, state, importStop, lock, rival, run, counters,
                   history>>

ReadToInterrupt(c) ==
    /\ At(c, "flagged")
    /\ LET children == state[call[c].wf].children IN
           call' = [call EXCEPT ![c].children = children,
                                ![c].at = IF LastRunning(children) = 0
                                          THEN "marking" ELSE "signalling"]
    /\ UNCHANGED <<keys, rival, run, counters, history>>

SignalChild(c) ==
    /\ At(c, "signalling")
    /\ LET children == call[c].children IN
           importStop' = importStop \cup {children[LastRunning(children)].id}
    /\ Goto(c, "marking")
    /\ UNCHANGED <<runningKey, state, pauseFlag, stopFlag, lock, rival, run,
                   counters, history>>

\* The whole document goes back as it was read, with the new status.
MarkInterrupted(c) ==
    /\ At(c, "marking")
    /\ Save(call[c].wf, call[c].op, call[c].children)
    /\ Return(c)
    /\ UNCHANGED <<runningKey, flagVars, lock, rival, run, counters, history>>

\* get_running_workflow: a key whose workflow has no state is deleted.
GetRunning(c) ==
    /\ Arrives(c)
    /\ runningKey # None
    /\ Begin(c, "get_running", "found", run[runningKey].wf)
    /\ UNCHANGED <<keys, rival, run, counters, history>>

LookUpState(c) ==
    /\ At(c, "found")
    /\ IF state[call[c].wf].status = "absent"
       THEN Goto(c, "dropping") ELSE Return(c)
    /\ UNCHANGED <<keys, rival, run, counters, history>>

DropRunningKey(c) ==
    /\ At(c, "dropping")
    /\ TakeKey(None)
    /\ Return(c)
    /\ UNCHANGED <<state, flagVars, lock, rival, run, counters, evicted,
                   imported>>

\* Redis, the broker or the API process fails in the middle of a call: what was
\* written stays, and a message that was claimed never comes.
CallFails(c) ==
    /\ call[c].at \notin {"idle", "done"}
    /\ Return(c)
    /\ run' = [r \in Runs |-> IF r = call[c].run
                              THEN Over(r, "gone") ELSE run[r]]
    /\ UNCHANGED <<keys, rival, counters, history>>
-----------------------------------------------------------------------------
(***************************************************************************)
(* run_workflow in the worker.  A run keeps its own copy of the children,  *)
(* and what it writes is that copy, whatever the calls wrote meanwhile.    *)
(***************************************************************************)
In(r, at) == run[r].at = at
Move(r, at) == run' = [run EXCEPT ![r].at = at]
End(r, at) == run' = [run EXCEPT ![r] = Over(r, at)]
Wf(r) == run[r].wf
Flagged(w) == pauseFlag[w] \/ stopFlag[w]

\* Slip: the loop runs over the end.
ToDoTooFar(s, children) == {u \in s .. NumSteps + 1 : u \notin Completed(children)}

\* The first step from s on that the children do not show as completed.
ToDo(s, children) == {u \in s .. NumSteps : u \notin Completed(children)}

Conclude(r, result, children) ==
    run' = [run EXCEPT ![r] = [Over(r, "close") EXCEPT !.children = children,
                                                       !.result = result]]

\* The head of the loop over the steps: the next one to do, or the end.
Proceed(r, s, children) ==
    IF ToDo(s, children) = {}
    THEN Conclude(r, "completed", children)
    ELSE run' = [run EXCEPT ![r] =
                     [Over(r, "pause?") EXCEPT !.children = children,
                                               !.step = Min(ToDo(s, children)),
                                               !.late = run[r].late]]

\* The children of that status, in their order.
CompletedOnly(children) ==
    LET kept[n \in 0 .. Len(children)] ==
            IF n = 0 THEN <<>>
            ELSE IF children[n].status = "completed"
                 THEN Append(kept[n - 1], children[n]) ELSE kept[n - 1]
    IN  kept[Len(children)]

\* What a resumed run takes over from the state.
Kept(r) == IF run[r].resume THEN CompletedOnly(state[Wf(r)].children)
                            ELSE state[Wf(r)].children

\* The state is read, and written back as running; a call in between would
\* write no other children than the ones that were read.
Load(r) ==
    /\ In(r, "queued")
    /\ Save(Wf(r), "running", Kept(r))
    /\ Proceed(r, 1, Kept(r))
    /\ UNCHANGED <<runningKey, flagVars, lock, rival, call, counters, history>>

\* Slip: only the stop flag is polled.
PollPauseNot(r) ==
    /\ In(r, "pause?")
    /\ Move(r, "stop?")
    /\ UNCHANGED <<keys, rival, call, counters, history>>

PollPause(r) ==
    /\ In(r, "pause?")
    /\ IF pauseFlag[Wf(r)]
       THEN Conclude(r, "paused", run[r].children) ELSE Move(r, "stop?")
    /\ UNCHANGED <<keys, rival, call, counters, history>>

PollStop(r) ==
    /\ In(r, "stop?")
    /\ IF stopFlag[Wf(r)]
       THEN Conclude(r, "stopped", run[r].children) ELSE Move(r, "enter")
    /\ UNCHANGED <<keys, rival, call, counters, history>>

\* current_api_name is written, with the status "running" of the copy.
EnterStep(r) ==
    /\ In(r, "enter")
    /\ Save(Wf(r), "running", run[r].children)
    /\ Move(r, "lock")
    /\ UNCHANGED <<runningKey, flagVars, lock, rival, call, counters, history>>

\* Slip: SET without NX.
GetLockAnyway(r, otherwise) ==
    LET id == <<r, run[r].step, lostCount>> IN
    /\ lock' = [lock EXCEPT ![run[r].step] = id]
    /\ run' = [run EXCEPT ![r].at = "add", ![r].id = id]

\* SET NX of the interface's lock, tried once, and once more when the holder was
\* found stale.
GetLock(r, otherwise) ==
    LET s == run[r].step
        id == <<r, s, lostCount>>
    IN  IF lock[s] = None
        THEN /\ lock' = [lock EXCEPT ![s] = id]
             /\ run' = [run EXCEPT ![r].at = "add", ![r].id = id]
        ELSE /\ Move(r, otherwise)
             /\ UNCHANGED lock

TakeLock(r) ==
    /\ \/ In(r, "lock") /\ GetLock(r, "holder")
       \/ In(r, "relock") /\ GetLock(r, "refuse")
    /\ UNCHANGED <<runningKey, state, flagVars, rival, call, counters, history>>

\* A lock that went away since then makes the step fail as well.
ReadHolder(r) ==
    LET holder == lock[run[r].step] IN
    /\ In(r, "holder")
    /\ run' = [run EXCEPT ![r].holder = holder,
                          ![r].at = IF holder = None THEN "refuse" ELSE "inspect"]
    /\ UNCHANGED <<keys, rival, call, counters, history>>

(***************************************************************************)
(* _is_import_task_active.  Celery is asked for the tasks that workers     *)
(* execute or have reserved.  A message that no worker has fetched is in   *)
(* none of the lists.  A child is looked up in the running workflow and    *)
(* asked for under the workflow's id, which is the Celery id of the        *)
(* started run only: a resumed one has another.                            *)
(***************************************************************************)
ChildOfRunning(id) ==
    /\ runningKey # None
    /\ LET children == state[run[runningKey].wf].children IN
           \E i \in DOMAIN children :
               children[i].id = id /\ children[i].status = "running"

Listed(at) == IF at = "queued" THEN BOOLEAN ELSE {at \in Executing \cup {"active"}}

Verdicts(r) ==
    IF run[r].holder = Rival THEN Listed(rival[run[r].step])
    ELSE IF ~ ChildOfRunning(run[r].holder) THEN {FALSE}
    ELSE UNION {Listed(run[q].at) :
                    q \in {p \in Runs : Wf(p) = Wf(runningKey) /\ ~ run[p].resume}}

Inspect(r) ==
    /\ In(r, "inspect")
    /\ \E active \in Verdicts(r) : Move(r, IF active THEN "refuse" ELSE "compare")
    /\ UNCHANGED <<keys, rival, call, counters, history>>

\* _delete_import_lock_if_matches: a GET, then a DELETE.
CompareLock(r) ==
    /\ In(r, "compare")
    /\ Move(r, IF lock[run[r].step] = run[r].holder THEN "drop" ELSE "relock")
    /\ UNCHANGED <<keys, rival, call, counters, history>>

DropStaleLock(r) ==
    /\ In(r, "drop")
    /\ lock' = [lock EXCEPT ![run[r].step] = None]
    /\ evicted' = (evicted \/ ImportLives(lock[run[r].step], run[r].step))
    /\ Move(r, "relock")
    /\ UNCHANGED <<runningKey, state, flagVars, rival, call, counters, breach,
                   imported>>

\* The step failed: the workflow goes on or ends with it.
StepFailed(r, children) ==
    IF run[r].step \in Optional
    THEN Proceed(r, run[r].step + 1, children)
    ELSE Conclude(r, "failed", children)

\* The lock was not to be had: _record_child_result.
RefuseStep(r) ==
    LET child == [id |-> <<r, run[r].step, lostCount>>, status |-> "failed"]
        children == Append(run[r].children, child)
    IN
    /\ In(r, "refuse")
    /\ Save(Wf(r), "running", children)
    /\ StepFailed(r, children)
    /\ UNCHANGED <<runningKey, flagVars, lock, rival, call, counters, history>>

AddChild(r) ==
    LET child == [id |-> run[r].id, status |-> "running"]
        children == Append(run[r].children, child)
    IN
    /\ In(r, "add")
    /\ Save(Wf(r), "running", children)
    /\ run' = [run EXCEPT ![r].at = "import", ![r].children = children,
                          ![r].late = IF Flagged(Wf(r)) /\ @ < 2 THEN @ + 1 ELSE @]
    /\ UNCHANGED <<runningKey, flagVars, lock, rival, call, counters, history>>

\* _process_import, whose last act is to delete the lock whoever holds it; it
\* ends as stopped only if it met its stop key.
Import(r) ==
    LET i == Len(run[r].children) IN
    /\ In(r, "import")
    /\ \E status \in {"completed", "failed"}
                         \cup {x \in {"stopped"} : run[r].id \in importStop} :
           /\ run' = [run EXCEPT ![r].at = "record", ![r].children[i].status = status]
           /\ imported' = imported \cup
                  {x \in {<<Wf(r), run[r].step>>} : status = "completed"}
    /\ lock' = [lock EXCEPT ![run[r].step] = None]
    /\ UNCHANGED <<runningKey, state, flagVars, rival, call, counters, breach,
                   evicted>>

RecordChild(r) ==
    LET children == run[r].children
        status == children[Len(children)].status
    IN
    /\ In(r, "record")
    /\ Save(Wf(r), "running", children)
    /\ CASE status = "completed" -> Proceed(r, run[r].step + 1, children)
         [] status = "failed"    -> StepFailed(r, children)
         [] status = "stopped"   -> Move(r, "stopped")
    /\ UNCHANGED <<runningKey, flagVars, lock, rival, call, counters, history>>

\* A stopped child means a pause if there is a pause flag, a stop otherwise.
PauseOrStop(r) ==
    /\ In(r, "stopped")
    /\ Conclude(r, IF pauseFlag[Wf(r)] THEN "paused" ELSE "stopped", run[r].children)
    /\ UNCHANGED <<keys, rival, call, counters, history>>

Close(r) ==
    /\ In(r, "close")
    /\ Save(Wf(r), run[r].result, run[r].children)
    /\ Move(r, "release")
    /\ UNCHANGED <<runningKey, flagVars, lock, rival, call, counters, history>>

\* The running key is deleted by _finalize_paused, _finalize_stopped or
\* _mark_state_failed, or in the finally of run_workflow.
Release(r) ==
    /\ In(r, "release")
    /\ TakeKey(r)
    /\ IF run[r].result \in {"stopped", "raised"} THEN Move(r, "again")
                                                 ELSE End(r, "done")
    /\ UNCHANGED <<state, flagVars, lock, rival, call, counters, evicted,
                   imported>>

\* After a stop or an exception the finally deletes it again.
ReleaseAgain(r) ==
    /\ In(r, "again")
    /\ TakeKey(r)
    /\ IF run[r].result = "raised" THEN Move(r, "reread") ELSE End(r, "done")
    /\ UNCHANGED <<state, flagVars, lock, rival, call, counters, evicted,
                   imported>>

(***************************************************************************)
(* Exceptions, the soft time limit among them.  Inside the try of          *)
(* run_workflow they lead to _mark_state_failed and then to the finally;   *)
(* from there, and from before the try, to the Celery task, which marks    *)
(* the failure once more, on the state it reads then - even if what failed *)
(* was no more than the last delete of a completed run.                    *)
(***************************************************************************)
\* Slip: the Celery task is retried (max_retries is not 0).
RaisesToRetry(r) ==
    CASE run[r].at \in InTry -> "mark"
      [] In(r, "mark") -> "again"
      [] OTHER -> "queued"

RaisesTo(r) ==
    CASE run[r].at \in InTry -> "mark"
      [] In(r, "release") /\ run[r].result \in {"paused", "stopped"} -> "mark"
      [] In(r, "release") /\ run[r].result = "raised" -> "again"
      [] In(r, "mark") -> "again"
      [] OTHER -> "reread"

Raise(r) ==
    /\ run[r].at \in {"queued", "mark", "release", "again"} \cup InTry
    /\ run' = [run EXCEPT ![r] = [Over(r, RaisesTo(r)) EXCEPT
                                      !.children = run[r].children,
                                      !.result = "raised"]]
    /\ UNCHANGED <<keys, rival, call, counters, history>>

\* _mark_state_failed: the last running child fails, its lock is deleted if it
\* holds it, the state is saved.  Nobody acts on the order of these writes.
MarkFailed(r, childStatus, at) ==
    LET children == run[r].children
        i == LastRunning(children)
        marked == IF i = 0 THEN children
                  ELSE [children EXCEPT ![i].status = childStatus]
        left == {s \in Steps : i # 0 /\ lock[s] = children[i].id}
    IN
    /\ lock' = [s \in Steps |-> IF s \in left THEN None ELSE lock[s]]
    /\ evicted' = (evicted \/ \E s \in left : ImportLives(lock[s], s))
    /\ Save(Wf(r), "failed", marked)
    /\ run' = [run EXCEPT ![r].children = marked, ![r].at = at]
    /\ UNCHANGED <<runningKey, flagVars, rival, call, counters, breach, imported>>

MarkStateFailed(r) == In(r, "mark") /\ MarkFailed(r, "failed", "release")

\* mark_workflow_failed.
ReadAgain(r) ==
    /\ In(r, "reread")
    /\ run' = [run EXCEPT ![r].children = state[Wf(r)].children, ![r].at = "remark"]
    /\ UNCHANGED <<keys, rival, call, counters, history>>

MarkAgain(r) == In(r, "remark") /\ MarkFailed(r, "stale_failed", "last")

ReleaseLast(r) ==
    /\ In(r, "last")
    /\ TakeKey(r)
    /\ End(r, "done")
    /\ UNCHANGED <<state, flagVars, lock, rival, call, counters, evicted,
                   imported>>
-----------------------------------------------------------------------------
(***************************************************************************)
(* Celery, Redis, and imports of the same interfaces through start_import. *)
(***************************************************************************)
\* The hard time limit kills the process; its message was acknowledged.
Killed(r) ==
    /\ run[r].at \in Executing
    /\ End(r, "gone")
    /\ UNCHANGED <<keys, rival, call, counters, history>>

\* The process is lost before the acknowledgement, which comes when the task has
\* returned: the same message comes again, also when the run had given the running
\* key up.
WorkerLost(r) ==
    /\ run[r].at \in Executing \cup {"done"}
    /\ lostCount < MaxLost
    /\ lostCount' = lostCount + 1
    /\ End(r, "queued")
    /\ breach' = (breach \/ runningKey # r)
    /\ UNCHANGED <<keys, rival, call, drops, evicted, imported>>

ExpireRunningKey ==
    /\ runningKey # None /\ drops < MaxDrops
    /\ drops' = drops + 1
    /\ TakeKey(None)
    /\ UNCHANGED <<state, flagVars, lock, rival, call, run, lostCount, evicted,
                   imported>>

\* The lock of s goes, whoever holds it.
DropLock(s) ==
    /\ drops < MaxDrops
    /\ drops' = drops + 1
    /\ lock' = [lock EXCEPT ![s] = None]
    /\ evicted' = (evicted \/ ImportLives(lock[s], s))

\* start_import finds no lock; later it sets its own, whoever has taken it meanwhile.
RivalChecks(s) ==
    /\ s \in Contended /\ rival[s] = "absent" /\ lock[s] = None
    /\ rival' = [rival EXCEPT ![s] = "checked"]
    /\ UNCHANGED <<keys, call, run, counters, history>>

RivalStarts(s) ==
    /\ rival[s] = "checked"
    /\ lock' = [lock EXCEPT ![s] = Rival]
    /\ rival' = [rival EXCEPT ![s] = "queued"]
    /\ evicted' = (evicted \/ ImportLives(lock[s], s))
    /\ UNCHANGED <<runningKey, state, flagVars, call, run, counters, breach, imported>>

\* A worker fetches the message; or it is never sent, or revoked, or the import is
\* killed at the time limit.
RivalMoves(s) ==
    /\ \/ rival[s] = "queued" /\ rival' = [rival EXCEPT ![s] = "active"]
       \/ /\ rival[s] \in {"queued", "active"}
          /\ rival' = [rival EXCEPT ![s] = "gone"]
    /\ UNCHANGED <<keys, call, run, counters, history>>

\* Its worker is lost before the acknowledgement, in the import or after its end: the
\* message comes again.
RivalReturns(s) ==
    /\ rival[s] \in {"active", "returned"}
    /\ lostCount < MaxLost
    /\ lostCount' = lostCount + 1
    /\ rival' = [rival EXCEPT ![s] = "queued"]
    /\ evicted' = (evicted \/ lock[s] # Rival)
    /\ UNCHANGED <<keys, call, run, drops, breach, imported>>

\* Its finally deletes the lock whoever holds it.
RivalEnds(s) ==
    /\ rival[s] = "active"
    /\ lock' = [lock EXCEPT ![s] = None]
    /\ rival' = [rival EXCEPT ![s] = "returned"]
    /\ UNCHANGED <<runningKey, state, flagVars, call, run, counters, history>>

\* Two hours, which may pass in the queue or in the import; nine for a step's lock,
\* as long as its process may live.
LockExpires(s) ==
    /\ lock[s] # None
    /\ lock[s] = Rival \/ ~ ImportLives(lock[s], s)
    /\ DropLock(s)
    /\ UNCHANGED <<runningKey, state, flagVars, rival, call, run, lostCount, breach,
                   imported>>

\* stop_import, of the other import or of a step's: it signals the one it names and
\* deletes the lock of the interface, if there is one.
StopImport(s) ==
    /\ \/ /\ rival[s] \notin {"absent", "checked"} /\ lock[s] # None
          /\ UNCHANGED importStop
       \/ \E w \in Workflows : \E i \in DOMAIN state[w].children :
              LET child == state[w].children[i] IN
              /\ child.status = "running" /\ StepOf(child) = s
              /\ importStop' = importStop \cup {child.id}
    /\ DropLock(s)
    /\ UNCHANGED <<runningKey, state, pauseFlag, stopFlag, rival, call, run, lostCount,
                   breach, imported>>

CallStep(c) ==
    \/ ClaimForResume(c) \/ ResumeRefused(c) \/ DeletePauseFlag(c)
    \/ DeleteStopFlag(c) \/ SavePending(c) \/ Send(c) \/ ReadToInterrupt(c)
    \/ SignalChild(c) \/ MarkInterrupted(c) \/ LookUpState(c) \/ DropRunningKey(c)

RunStep(r) ==
    \/ Load(r) \/ PollPause(r) \/ PollStop(r) \/ EnterStep(r) \/ TakeLock(r)
    \/ ReadHolder(r) \/ Inspect(r) \/ CompareLock(r) \/ DropStaleLock(r)
    \/ RefuseStep(r) \/ AddChild(r) \/ Import(r) \/ RecordChild(r)
    \/ PauseOrStop(r) \/ Close(r) \/ Release(r) \/ ReleaseAgain(r)
    \/ MarkStateFailed(r) \/ ReadAgain(r) \/ MarkAgain(r) \/ ReleaseLast(r)

OtherStep(s) ==
    \/ RivalChecks(s) \/ RivalStarts(s) \/ RivalMoves(s) \/ RivalReturns(s)
    \/ RivalEnds(s) \/ LockExpires(s) \/ StopImport(s)

Next ==
    \/ \E c \in Calls, w \in Workflows :
           Start(c, w) \/ Resume(c, w) \/ Interrupt(c, w)
    \/ \E c \in Calls : GetRunning(c) \/ CallStep(c) \/ CallFails(c)
    \/ \E r \in Runs : RunStep(r) \/ Raise(r) \/ Killed(r) \/ WorkerLost(r)
    \/ \E s \in Steps : OtherStep(s)
    \/ ExpireRunningKey

Spec == Init /\ [][Next]_vars
-----------------------------------------------------------------------------
(***************************************************************************)
(* Properties.                                                             *)
(***************************************************************************)
\* What the running key provides: until it is taken from a live run - by the
\* second or third delete of a run that had already given it up, by a
\* get_running that came between the two writes of a start, or by its expiry -
\* or a message comes again whose run had given the key up, there is one live run
\* and the key names it.
LiveRunHoldsKey == ~ breach => \A r \in Runs : Live(r) => runningKey = r

\* The running key implements an exclusive lease on "being live", until one of
\* these steps breaks it.
WorkflowLease == INSTANCE Lease WITH
                     Owners  <- Runs,
                     holders <- IF breach THEN {} ELSE {r \in Runs : Live(r)},
                     broken  <- breach
RunningKeyIsLease == WorkflowLease!Spec

\* A workflow says "completed" only if an import of every step that may not
\* fail came through, over pauses, resumes, redeliveries and rewritten states.
CompletedMeansImported ==
    \A w \in Workflows : state[w].status = "completed" =>
        \A s \in Steps \ Optional : <<w, s>> \in imported

\* From the moment a flag is set a run begins at most one more step, the one
\* whose polls came before - unless the lease was broken and a second run of the
\* workflow sent, whose resume_workflow takes the flags away from under the first.
TwoRunsAbout(r) ==
    breach /\ \E q \in Runs \ {r} : run[q].at # "absent" /\ Wf(q) = Wf(r)
AtMostOneStepAfterFlag == \A r \in Runs : run[r].late <= 1 \/ TwoRunsAbout(r)

\* A step imports under the lock of its interface, unless an import of it - a step's or
\* another - was left without its lock in one of the ways "evicted" names.  Nothing else
\* takes a lock away: not two runs of a workflow, not messages that come again, not
\* _process_import's delete "whoever holds it", which could hit the lock of the next.
ImportHoldsLock ==
    ~ evicted => \A r \in Runs : In(r, "add") \/ In(r, "import")
                                     => lock[run[r].step] = run[r].id
=============================================================================
