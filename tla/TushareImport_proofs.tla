------------------------ MODULE TushareImport_proofs ------------------------
(***************************************************************************)
(* Theorems about TushareImport, for any set of tasks and any bounds.      *)
(*                                                                         *)
(* The inductive invariant IInv is the type invariant with what relates    *)
(* the parties' program counters to the row, the lock and the stop key.    *)
(***************************************************************************)
EXTENDS TushareImport, TLAPS

\* Only a task that was sent is on the queue or in a worker.
SentBeforeWork == \A t \in Tasks : worker[t] # "absent" => caller[t] = "sent"

\* A batch that is being written is one of the batches that are left.
BatchLeft ==
    \A t \in Tasks :
        /\ worker[t] = "starting" /\ strategy[t] = "single" => left[t] > 0
        /\ worker[t] = "writing" => left[t] > 0

\* The execution that finalizes has an outcome.
OutcomeKnown ==
    \A t \in Tasks : worker[t] \in {"finalizing", "reporting"}
       => result[t] \in Outcome

\* The row exists from CreateLog on, and a stop that is past the row's UPDATE
\* leaves it closed.
RowClosed ==
    \A t \in Tasks :
        /\ caller[t] \in {"idle", "checked"} => log[t] = "absent"
        /\ stopper[t] # "idle" => log[t] # "absent"
        /\ stopper[t] \in {"closing", "done"} => log[t] \in Outcome

\* Until a live task loses its lock, or is made live again without it, the lock
\* names every live task.
LockHeld == ~ breach => \A t \in Tasks : Live(t) => lock = t

\* After a late batch the execution stands before the poll that ends it, and
\* the key is still there.
LateThenPoll ==
    \A t \in Tasks :
        /\ late[t] <= 1
        /\ late[t] = 1 /\ worker[t] \in {"starting", "polling", "writing"}
               => worker[t] = "polling" /\ stopKey[t]

\* "completed" is only ever said by an execution that swept its batches.
SweptFirst ==
    \A t \in Tasks : result[t] = "completed" \/ log[t] = "completed" => swept[t]

\* While nobody asks for a stop and no write is lost, the row tells the outcome from its
\* UPDATE on, and the progress record from the last report on.
OutcomeTold ==
    \A t \in Tasks :
        stopper[t] = "idle" /\ ~ fault[t] =>
            /\ worker[t] \in {"reporting", "releasing", "returned", "done"}
                   => log[t] = result[t]
            /\ worker[t] \in {"releasing", "returned", "done"}
                   => progress[t] = result[t]

Shape == TypeOK /\ SentBeforeWork /\ BatchLeft /\ OutcomeKnown
IInv  == /\ Shape /\ RowClosed /\ LockHeld /\ LockOutlivesOnlyFaults
         /\ LateThenPoll /\ SweptFirst /\ OutcomeTold
-----------------------------------------------------------------------------
\* Every step preserves the types and the shape of the program counters.
LEMMA ShapeStep ==
    ASSUME Shape, [Next]_vars
    PROVE  Shape'
<1> USE BoundsAssumption, TasksAssumption DEF Shape, TypeOK, SentBeforeWork,
    BatchLeft, OutcomeKnown, Outcome, LogStatus, Progress, CallerState,
    StopState, Executing, WorkerState, Running, redisVars, taskVars, history
<1>1. ASSUME NEW t \in Tasks, StartStep(t) \/ SetStopKey(t)
    \/ StopStep(t) \/ WorkStep(t) \/ Failure(t)
      PROVE  Shape'
  <2>1. CASE CheckLock(t)
    BY <2>1 DEF CheckLock
  <2>2. CASE CreateLog(t)
    BY <2>2 DEF CreateLog
  <2>3. CASE SetLock(t)
    BY <2>3 DEF SetLock, Breach
  <2>4. CASE InitProgress(t)
    BY <2>4 DEF InitProgress
  <2>5. CASE SendTask(t)
    BY <2>5 DEF SendTask
  <2>6. CASE StartAborts(t)
    BY <2>6 DEF StartAborts
  <2>7. CASE SetStopKey(t)
    BY <2>7 DEF SetStopKey
  <2>8. CASE MarkProgressStopped(t)
    BY <2>8 DEF MarkProgressStopped
  <2>9. CASE Revoke(t)
    BY <2>9 DEF Revoke
  <2>10. CASE ReadLog(t)
    BY <2>10 DEF ReadLog
  <2>11. CASE CloseLog(t)
    BY <2>11 DEF CloseLog
  <2>12. CASE DropLock(t)
    BY <2>12 DEF DropLock, Breach
  <2>13. CASE StopGivesUp(t)
    BY <2>13 DEF StopGivesUp
  <2>14. CASE PickUp(t)
    BY <2>14 DEF PickUp
  <2>15. CASE Discard(t)
    BY <2>15 DEF Discard
  <2>16. CASE Begin(t)
    BY <2>16 DEF Begin
  <2>17. CASE PollStops(t)
    BY <2>17 DEF PollStops
  <2>18. CASE PollContinues(t)
    BY <2>18 DEF PollContinues
  <2>19. CASE WriteBatch(t)
    BY <2>19 DEF WriteBatch
  <2>20. CASE Exhausted(t)
    BY <2>20 DEF Exhausted
  <2>21. CASE Raise(t)
    BY <2>21 DEF Raise
  <2>22. CASE FinalizeLog(t)
    <3>1. CASE log' = [log EXCEPT ![t] = result[t]] /\ UNCHANGED fault
      BY <2>22, <3>1 DEF FinalizeLog
    <3>2. CASE fault' = [fault EXCEPT ![t] = TRUE] /\ UNCHANGED log
      BY <2>22, <3>2 DEF FinalizeLog
    <3> QED
      BY <2>22, <3>1, <3>2 DEF FinalizeLog
  <2>23. CASE ReportProgress(t)
    BY <2>23 DEF ReportProgress
  <2>24. CASE ReportRaises(t)
    <3>1. CASE result[t] = "failed"
      <4>1. /\ worker' = [worker EXCEPT ![t] = "releasing"]
            /\ fault' = [fault EXCEPT ![t] = TRUE]
            /\ UNCHANGED <<strategy, redisVars, log, caller, stopper, revoked,
               left,
                           result, lostCount, breach, late, swept>>
        BY <2>24, <3>1 DEF ReportRaises
      <4> QED
        BY <2>24, <4>1 DEF ReportRaises
    <3>2. CASE result[t] # "failed"
      <4>1. /\ worker' = [worker EXCEPT ![t] = "finalizing"]
            /\ result' = [result EXCEPT ![t] = "failed"]
            /\ UNCHANGED <<strategy, redisVars, log, caller, stopper, revoked,
               left,
                           lostCount, breach, late, swept, fault>>
        BY <2>24, <3>2 DEF ReportRaises
      <4> QED
        BY <2>24, <4>1 DEF ReportRaises
    <3> QED
      BY <2>24, <3>1, <3>2 DEF ReportRaises
  <2>25. CASE ReleaseLock(t)
    <3>1. CASE lock' = None /\ UNCHANGED fault
      BY <2>25, <3>1 DEF ReleaseLock
    <3>2. CASE fault' = [fault EXCEPT ![t] = TRUE] /\ UNCHANGED lock
      BY <2>25, <3>2 DEF ReleaseLock
    <3> QED
      BY <2>25, <3>1, <3>2 DEF ReleaseLock
  <2>26. CASE Killed(t)
    BY <2>26 DEF Killed
  <2>27. CASE WorkerLost(t)
    BY <2>27 DEF WorkerLost
  <2>28. CASE ExpireStopKey(t)
    BY <2>28 DEF ExpireStopKey
  <2>29. CASE Ack(t)
    BY <2>29 DEF Ack
  <2> QED
    BY <1>1, <2>1, <2>2, <2>3, <2>4, <2>5, <2>6, <2>7, <2>8, <2>9, <2>10,
       <2>11, <2>12, <2>13, <2>14, <2>15, <2>16, <2>17, <2>18, <2>19, <2>20,
       <2>21, <2>22, <2>23, <2>24, <2>25, <2>26, <2>27, <2>28, <2>29
       DEF StartStep, StopStep, WorkStep, Failure
<1>2. CASE ExpireLock
  BY <1>2 DEF ExpireLock, Breach
<1>3. CASE UNCHANGED vars
  BY <1>3 DEF vars
<1> QED
  BY <1>1, <1>2, <1>3 DEF Next

\* No step reopens a row whose stop is past the UPDATE: the worker that
\* finalizes later writes another outcome, never "running".
LEMMA RowClosedStep ==
    ASSUME Shape, RowClosed, [Next]_vars
    PROVE  RowClosed'
<1> USE BoundsAssumption, TasksAssumption DEF Shape, TypeOK, SentBeforeWork,
    OutcomeKnown, RowClosed, Outcome, LogStatus, Progress, CallerState,
    StopState, Executing, WorkerState, redisVars, taskVars, history
<1>1. ASSUME NEW t \in Tasks, StartStep(t) \/ SetStopKey(t)
    \/ StopStep(t) \/ WorkStep(t) \/ Failure(t)
      PROVE  RowClosed'
  <2>1. CASE CheckLock(t)
    BY <2>1 DEF CheckLock
  <2>2. CASE CreateLog(t)
    BY <2>2 DEF CreateLog
  <2>3. CASE SetLock(t)
    BY <2>3 DEF SetLock, Breach
  <2>4. CASE InitProgress(t)
    BY <2>4 DEF InitProgress
  <2>5. CASE SendTask(t)
    BY <2>5 DEF SendTask
  <2>6. CASE StartAborts(t)
    BY <2>6 DEF StartAborts
  <2>7. CASE SetStopKey(t)
    BY <2>7 DEF SetStopKey
  <2>8. CASE MarkProgressStopped(t)
    BY <2>8 DEF MarkProgressStopped
  <2>9. CASE Revoke(t)
    BY <2>9 DEF Revoke
  <2>10. CASE ReadLog(t)
    BY <2>10 DEF ReadLog
  <2>11. CASE CloseLog(t)
    BY <2>11 DEF CloseLog
  <2>12. CASE DropLock(t)
    BY <2>12 DEF DropLock, Breach
  <2>13. CASE StopGivesUp(t)
    BY <2>13 DEF StopGivesUp
  <2>14. CASE PickUp(t)
    BY <2>14 DEF PickUp
  <2>15. CASE Discard(t)
    BY <2>15 DEF Discard
  <2>16. CASE Begin(t)
    BY <2>16 DEF Begin
  <2>17. CASE PollStops(t)
    BY <2>17 DEF PollStops
  <2>18. CASE PollContinues(t)
    BY <2>18 DEF PollContinues
  <2>19. CASE WriteBatch(t)
    BY <2>19 DEF WriteBatch
  <2>20. CASE Exhausted(t)
    BY <2>20 DEF Exhausted
  <2>21. CASE Raise(t)
    BY <2>21 DEF Raise
  <2>22. CASE FinalizeLog(t)
    <3>1. CASE log' = [log EXCEPT ![t] = result[t]] /\ UNCHANGED fault
      BY <2>22, <3>1 DEF FinalizeLog
    <3>2. CASE fault' = [fault EXCEPT ![t] = TRUE] /\ UNCHANGED log
      BY <2>22, <3>2 DEF FinalizeLog
    <3> QED
      BY <2>22, <3>1, <3>2 DEF FinalizeLog
  <2>23. CASE ReportProgress(t)
    BY <2>23 DEF ReportProgress
  <2>24. CASE ReportRaises(t)
    <3>1. CASE result[t] = "failed"
      BY <2>24, <3>1 DEF ReportRaises
    <3>2. CASE result[t] # "failed"
      <4>1. /\ worker' = [worker EXCEPT ![t] = "finalizing"]
            /\ result' = [result EXCEPT ![t] = "failed"]
            /\ UNCHANGED <<strategy, redisVars, log, caller, stopper, revoked,
               left,
                           lostCount, breach, late, swept, fault>>
        BY <2>24, <3>2 DEF ReportRaises
      <4> QED
        BY <2>24, <4>1 DEF ReportRaises
    <3> QED
      BY <2>24, <3>1, <3>2 DEF ReportRaises
  <2>25. CASE ReleaseLock(t)
    <3>1. CASE lock' = None /\ UNCHANGED fault
      BY <2>25, <3>1 DEF ReleaseLock
    <3>2. CASE fault' = [fault EXCEPT ![t] = TRUE] /\ UNCHANGED lock
      BY <2>25, <3>2 DEF ReleaseLock
    <3> QED
      BY <2>25, <3>1, <3>2 DEF ReleaseLock
  <2>26. CASE Killed(t)
    BY <2>26 DEF Killed
  <2>27. CASE WorkerLost(t)
    BY <2>27 DEF WorkerLost
  <2>28. CASE ExpireStopKey(t)
    BY <2>28 DEF ExpireStopKey
  <2>29. CASE Ack(t)
    BY <2>29 DEF Ack
  <2> QED
    BY <1>1, <2>1, <2>2, <2>3, <2>4, <2>5, <2>6, <2>7, <2>8, <2>9, <2>10,
       <2>11, <2>12, <2>13, <2>14, <2>15, <2>16, <2>17, <2>18, <2>19, <2>20,
       <2>21, <2>22, <2>23, <2>24, <2>25, <2>26, <2>27, <2>28, <2>29
       DEF StartStep, StopStep, WorkStep, Failure
<1>2. CASE ExpireLock
  BY <1>2 DEF ExpireLock, Breach
<1>3. CASE UNCHANGED vars
  BY <1>3 DEF vars
<1> QED
  BY <1>1, <1>2, <1>3 DEF Next

\* A lock is only written by the start that becomes live with it, and while a
\* task is live it goes only with a breach.
LEMMA LockHeldStep ==
    ASSUME Shape, LockHeld, [Next]_vars
    PROVE  LockHeld'
<1> USE BoundsAssumption, TasksAssumption DEF Shape, TypeOK, SentBeforeWork,
    LockHeld, Live, Running, Outcome, LogStatus, Progress, CallerState,
    StopState, Executing, WorkerState, redisVars, taskVars, history
<1>1. ASSUME NEW t \in Tasks, StartStep(t) \/ SetStopKey(t)
    \/ StopStep(t) \/ WorkStep(t) \/ Failure(t)
      PROVE  LockHeld'
  <2>1. CASE CheckLock(t)
    BY <2>1 DEF CheckLock
  <2>2. CASE CreateLog(t)
    BY <2>2 DEF CreateLog
  <2>3. CASE SetLock(t)
    <3> SUFFICES ASSUME ~ breach', NEW u \in Tasks, Live(u)'
                 PROVE  lock' = u
      BY DEF LockHeld
    <3>1. ~ breach /\ ~ (lock # None /\ Live(lock))
      BY <2>3 DEF SetLock, Breach
    <3>2. ~ Live(u)
      BY <3>1
    <3>3. u = t
      BY <2>3, <3>2 DEF SetLock
    <3> QED
      BY <2>3, <3>3 DEF SetLock
  <2>4. CASE InitProgress(t)
    BY <2>4 DEF InitProgress
  <2>5. CASE SendTask(t)
    BY <2>5 DEF SendTask
  <2>6. CASE StartAborts(t)
    BY <2>6 DEF StartAborts
  <2>7. CASE SetStopKey(t)
    BY <2>7 DEF SetStopKey
  <2>8. CASE MarkProgressStopped(t)
    BY <2>8 DEF MarkProgressStopped
  <2>9. CASE Revoke(t)
    BY <2>9 DEF Revoke
  <2>10. CASE ReadLog(t)
    BY <2>10 DEF ReadLog
  <2>11. CASE CloseLog(t)
    BY <2>11 DEF CloseLog
  <2>12. CASE DropLock(t)
    BY <2>12 DEF DropLock, Breach
  <2>13. CASE StopGivesUp(t)
    BY <2>13 DEF StopGivesUp
  <2>14. CASE PickUp(t)
    BY <2>14 DEF PickUp
  <2>15. CASE Discard(t)
    BY <2>15 DEF Discard
  <2>16. CASE Begin(t)
    BY <2>16 DEF Begin
  <2>17. CASE PollStops(t)
    BY <2>17 DEF PollStops
  <2>18. CASE PollContinues(t)
    BY <2>18 DEF PollContinues
  <2>19. CASE WriteBatch(t)
    BY <2>19 DEF WriteBatch
  <2>20. CASE Exhausted(t)
    BY <2>20 DEF Exhausted
  <2>21. CASE Raise(t)
    BY <2>21 DEF Raise
  <2>22. CASE FinalizeLog(t)
    BY <2>22 DEF FinalizeLog
  <2>23. CASE ReportProgress(t)
    BY <2>23 DEF ReportProgress
  <2>24. CASE ReportRaises(t)
    BY <2>24 DEF ReportRaises
  <2>25. CASE ReleaseLock(t)
    <3>1. CASE lock' = None /\ UNCHANGED fault
      BY <2>25, <3>1 DEF ReleaseLock
    <3>2. CASE fault' = [fault EXCEPT ![t] = TRUE] /\ UNCHANGED lock
      BY <2>25, <3>2 DEF ReleaseLock
    <3> QED
      BY <2>25, <3>1, <3>2 DEF ReleaseLock
  <2>26. CASE Killed(t)
    BY <2>26 DEF Killed
  <2>27. CASE WorkerLost(t)
    BY <2>27, ZenonT(30) DEF WorkerLost
  <2>28. CASE ExpireStopKey(t)
    BY <2>28 DEF ExpireStopKey
  <2>29. CASE Ack(t)
    BY <2>29 DEF Ack
  <2> QED
    BY <1>1, <2>1, <2>2, <2>3, <2>4, <2>5, <2>6, <2>7, <2>8, <2>9, <2>10,
       <2>11, <2>12, <2>13, <2>14, <2>15, <2>16, <2>17, <2>18, <2>19, <2>20,
       <2>21, <2>22, <2>23, <2>24, <2>25, <2>26, <2>27, <2>28, <2>29
       DEF StartStep, StopStep, WorkStep, Failure
<1>2. CASE ExpireLock
  BY <1>2 DEF ExpireLock, Breach
<1>3. CASE UNCHANGED vars
  BY <1>3 DEF vars
<1> QED
  BY <1>1, <1>2, <1>3 DEF Next

\* A task stops being live with its lock deleted or with a fault on record.
LEMMA LockNamedStep ==
    ASSUME Shape, LockOutlivesOnlyFaults, [Next]_vars
    PROVE  LockOutlivesOnlyFaults'
<1> USE BoundsAssumption, TasksAssumption DEF Shape, TypeOK, SentBeforeWork,
    LockOutlivesOnlyFaults, Live, Running, Outcome, LogStatus, Progress, CallerState,
    StopState, Executing, WorkerState, redisVars, taskVars, history
<1>1. ASSUME NEW t \in Tasks, StartStep(t) \/ SetStopKey(t)
    \/ StopStep(t) \/ WorkStep(t) \/ Failure(t)
      PROVE  LockOutlivesOnlyFaults'
  <2>1. CASE CheckLock(t)
    BY <2>1 DEF CheckLock
  <2>2. CASE CreateLog(t)
    BY <2>2 DEF CreateLog
  <2>3. CASE SetLock(t)
    BY <2>3 DEF SetLock
  <2>4. CASE InitProgress(t)
    BY <2>4 DEF InitProgress
  <2>5. CASE SendTask(t)
    BY <2>5 DEF SendTask
  <2>6. CASE StartAborts(t)
    BY <2>6 DEF StartAborts
  <2>7. CASE SetStopKey(t)
    BY <2>7 DEF SetStopKey
  <2>8. CASE MarkProgressStopped(t)
    BY <2>8 DEF MarkProgressStopped
  <2>9. CASE Revoke(t)
    BY <2>9 DEF Revoke
  <2>10. CASE ReadLog(t)
    BY <2>10 DEF ReadLog
  <2>11. CASE CloseLog(t)
    BY <2>11 DEF CloseLog
  <2>12. CASE DropLock(t)
    BY <2>12 DEF DropLock, Breach
  <2>13. CASE StopGivesUp(t)
    BY <2>13 DEF StopGivesUp
  <2>14. CASE PickUp(t)
    BY <2>14 DEF PickUp
  <2>15. CASE Discard(t)
    BY <2>15 DEF Discard
  <2>16. CASE Begin(t)
    BY <2>16 DEF Begin
  <2>17. CASE PollStops(t)
    BY <2>17 DEF PollStops
  <2>18. CASE PollContinues(t)
    BY <2>18 DEF PollContinues
  <2>19. CASE WriteBatch(t)
    BY <2>19 DEF WriteBatch
  <2>20. CASE Exhausted(t)
    BY <2>20 DEF Exhausted
  <2>21. CASE Raise(t)
    BY <2>21 DEF Raise
  <2>22. CASE FinalizeLog(t)
    BY <2>22 DEF FinalizeLog
  <2>23. CASE ReportProgress(t)
    BY <2>23 DEF ReportProgress
  <2>24. CASE ReportRaises(t)
    BY <2>24 DEF ReportRaises
  <2>25. CASE ReleaseLock(t)
    <3>1. CASE lock' = None /\ UNCHANGED fault
      BY <2>25, <3>1 DEF ReleaseLock
    <3>2. CASE fault' = [fault EXCEPT ![t] = TRUE] /\ UNCHANGED lock
      BY <2>25, <3>2 DEF ReleaseLock
    <3> QED
      BY <2>25, <3>1, <3>2 DEF ReleaseLock
  <2>26. CASE Killed(t)
    BY <2>26 DEF Killed
  <2>27. CASE WorkerLost(t)
    BY <2>27 DEF WorkerLost
  <2>28. CASE ExpireStopKey(t)
    BY <2>28 DEF ExpireStopKey
  <2>29. CASE Ack(t)
    BY <2>29 DEF Ack
  <2> QED
    BY <1>1, <2>1, <2>2, <2>3, <2>4, <2>5, <2>6, <2>7, <2>8, <2>9, <2>10,
       <2>11, <2>12, <2>13, <2>14, <2>15, <2>16, <2>17, <2>18, <2>19, <2>20,
       <2>21, <2>22, <2>23, <2>24, <2>25, <2>26, <2>27, <2>28, <2>29
       DEF StartStep, StopStep, WorkStep, Failure
<1>2. CASE ExpireLock
  BY <1>2 DEF ExpireLock, Breach
<1>3. CASE UNCHANGED vars
  BY <1>3 DEF vars
<1> QED
  BY <1>1, <1>2, <1>3 DEF Next

\* A late batch leads to the poll that ends the execution, and the key does
\* not expire under it.
LEMMA LateStep ==
    ASSUME Shape, LateThenPoll, [Next]_vars
    PROVE  LateThenPoll'
<1> USE BoundsAssumption, TasksAssumption DEF Shape, TypeOK, LateThenPoll,
    Running, Outcome, LogStatus, Progress, CallerState, StopState, Executing,
    WorkerState, redisVars, taskVars, history
<1>1. ASSUME NEW t \in Tasks, StartStep(t) \/ SetStopKey(t)
    \/ StopStep(t) \/ WorkStep(t) \/ Failure(t)
      PROVE  LateThenPoll'
  <2>1. CASE CheckLock(t)
    BY <2>1 DEF CheckLock
  <2>2. CASE CreateLog(t)
    BY <2>2 DEF CreateLog
  <2>3. CASE SetLock(t)
    BY <2>3 DEF SetLock, Breach
  <2>4. CASE InitProgress(t)
    BY <2>4 DEF InitProgress
  <2>5. CASE SendTask(t)
    BY <2>5 DEF SendTask
  <2>6. CASE StartAborts(t)
    BY <2>6 DEF StartAborts
  <2>7. CASE SetStopKey(t)
    BY <2>7 DEF SetStopKey
  <2>8. CASE MarkProgressStopped(t)
    BY <2>8 DEF MarkProgressStopped
  <2>9. CASE Revoke(t)
    BY <2>9 DEF Revoke
  <2>10. CASE ReadLog(t)
    BY <2>10 DEF ReadLog
  <2>11. CASE CloseLog(t)
    BY <2>11 DEF CloseLog
  <2>12. CASE DropLock(t)
    BY <2>12 DEF DropLock, Breach
  <2>13. CASE StopGivesUp(t)
    BY <2>13 DEF StopGivesUp
  <2>14. CASE PickUp(t)
    BY <2>14 DEF PickUp
  <2>15. CASE Discard(t)
    BY <2>15 DEF Discard
  <2>16. CASE Begin(t)
    BY <2>16 DEF Begin
  <2>17. CASE PollStops(t)
    BY <2>17 DEF PollStops
  <2>18. CASE PollContinues(t)
    BY <2>18 DEF PollContinues
  <2>19. CASE WriteBatch(t)
    BY <2>19 DEF WriteBatch
  <2>20. CASE Exhausted(t)
    BY <2>20 DEF Exhausted
  <2>21. CASE Raise(t)
    BY <2>21 DEF Raise
  <2>22. CASE FinalizeLog(t)
    BY <2>22 DEF FinalizeLog
  <2>23. CASE ReportProgress(t)
    BY <2>23 DEF ReportProgress
  <2>24. CASE ReportRaises(t)
    BY <2>24 DEF ReportRaises
  <2>25. CASE ReleaseLock(t)
    <3>1. CASE lock' = None /\ UNCHANGED fault
      BY <2>25, <3>1 DEF ReleaseLock
    <3>2. CASE fault' = [fault EXCEPT ![t] = TRUE] /\ UNCHANGED lock
      BY <2>25, <3>2 DEF ReleaseLock
    <3> QED
      BY <2>25, <3>1, <3>2 DEF ReleaseLock
  <2>26. CASE Killed(t)
    BY <2>26 DEF Killed
  <2>27. CASE WorkerLost(t)
    BY <2>27 DEF WorkerLost
  <2>28. CASE ExpireStopKey(t)
    BY <2>28 DEF ExpireStopKey
  <2>29. CASE Ack(t)
    BY <2>29 DEF Ack
  <2> QED
    BY <1>1, <2>1, <2>2, <2>3, <2>4, <2>5, <2>6, <2>7, <2>8, <2>9, <2>10,
       <2>11, <2>12, <2>13, <2>14, <2>15, <2>16, <2>17, <2>18, <2>19, <2>20,
       <2>21, <2>22, <2>23, <2>24, <2>25, <2>26, <2>27, <2>28, <2>29
       DEF StartStep, StopStep, WorkStep, Failure
<1>2. CASE ExpireLock
  BY <1>2 DEF ExpireLock, Breach
<1>3. CASE UNCHANGED vars
  BY <1>3 DEF vars
<1> QED
  BY <1>1, <1>2, <1>3 DEF Next

\* Only Exhausted concludes "completed".
LEMMA SweptStep ==
    ASSUME Shape, SweptFirst, [Next]_vars
    PROVE  SweptFirst'
<1> USE BoundsAssumption, TasksAssumption DEF Shape, TypeOK, SweptFirst,
    Outcome, LogStatus, Progress, CallerState, StopState, Executing,
    WorkerState, redisVars, taskVars, history
<1>1. ASSUME NEW t \in Tasks, StartStep(t) \/ SetStopKey(t)
    \/ StopStep(t) \/ WorkStep(t) \/ Failure(t)
      PROVE  SweptFirst'
  <2>1. CASE CheckLock(t)
    BY <2>1 DEF CheckLock
  <2>2. CASE CreateLog(t)
    BY <2>2 DEF CreateLog
  <2>3. CASE SetLock(t)
    BY <2>3 DEF SetLock, Breach
  <2>4. CASE InitProgress(t)
    BY <2>4 DEF InitProgress
  <2>5. CASE SendTask(t)
    BY <2>5 DEF SendTask
  <2>6. CASE StartAborts(t)
    BY <2>6 DEF StartAborts
  <2>7. CASE SetStopKey(t)
    BY <2>7 DEF SetStopKey
  <2>8. CASE MarkProgressStopped(t)
    BY <2>8 DEF MarkProgressStopped
  <2>9. CASE Revoke(t)
    BY <2>9 DEF Revoke
  <2>10. CASE ReadLog(t)
    BY <2>10 DEF ReadLog
  <2>11. CASE CloseLog(t)
    BY <2>11 DEF CloseLog
  <2>12. CASE DropLock(t)
    BY <2>12 DEF DropLock, Breach
  <2>13. CASE StopGivesUp(t)
    BY <2>13 DEF StopGivesUp
  <2>14. CASE PickUp(t)
    BY <2>14 DEF PickUp
  <2>15. CASE Discard(t)
    BY <2>15 DEF Discard
  <2>16. CASE Begin(t)
    BY <2>16 DEF Begin
  <2>17. CASE PollStops(t)
    BY <2>17 DEF PollStops
  <2>18. CASE PollContinues(t)
    BY <2>18 DEF PollContinues
  <2>19. CASE WriteBatch(t)
    BY <2>19 DEF WriteBatch
  <2>20. CASE Exhausted(t)
    BY <2>20 DEF Exhausted
  <2>21. CASE Raise(t)
    BY <2>21 DEF Raise
  <2>22. CASE FinalizeLog(t)
    BY <2>22 DEF FinalizeLog
  <2>23. CASE ReportProgress(t)
    BY <2>23 DEF ReportProgress
  <2>24. CASE ReportRaises(t)
    BY <2>24 DEF ReportRaises
  <2>25. CASE ReleaseLock(t)
    <3>1. CASE lock' = None /\ UNCHANGED fault
      BY <2>25, <3>1 DEF ReleaseLock
    <3>2. CASE fault' = [fault EXCEPT ![t] = TRUE] /\ UNCHANGED lock
      BY <2>25, <3>2 DEF ReleaseLock
    <3> QED
      BY <2>25, <3>1, <3>2 DEF ReleaseLock
  <2>26. CASE Killed(t)
    BY <2>26 DEF Killed
  <2>27. CASE WorkerLost(t)
    BY <2>27 DEF WorkerLost
  <2>28. CASE ExpireStopKey(t)
    BY <2>28 DEF ExpireStopKey
  <2>29. CASE Ack(t)
    BY <2>29 DEF Ack
  <2> QED
    BY <1>1, <2>1, <2>2, <2>3, <2>4, <2>5, <2>6, <2>7, <2>8, <2>9, <2>10,
       <2>11, <2>12, <2>13, <2>14, <2>15, <2>16, <2>17, <2>18, <2>19, <2>20,
       <2>21, <2>22, <2>23, <2>24, <2>25, <2>26, <2>27, <2>28, <2>29
       DEF StartStep, StopStep, WorkStep, Failure
<1>2. CASE ExpireLock
  BY <1>2 DEF ExpireLock, Breach
<1>3. CASE UNCHANGED vars
  BY <1>3 DEF vars
<1> QED
  BY <1>1, <1>2, <1>3 DEF Next
\* Only a stop or a lost write comes between the end of an execution and what is told of
\* it.
LEMMA ToldStep ==
    ASSUME Shape, OutcomeTold, [Next]_vars
    PROVE  OutcomeTold'
<1> USE BoundsAssumption, TasksAssumption DEF Shape, TypeOK, SentBeforeWork,
    OutcomeKnown, OutcomeTold, Outcome, LogStatus, Progress, CallerState, StopState, Executing,
    WorkerState, redisVars, taskVars, history
<1>1. ASSUME NEW t \in Tasks, StartStep(t) \/ SetStopKey(t)
    \/ StopStep(t) \/ WorkStep(t) \/ Failure(t)
      PROVE  OutcomeTold'
  <2>1. CASE CheckLock(t)
    BY <2>1 DEF CheckLock
  <2>2. CASE CreateLog(t)
    BY <2>2 DEF CreateLog
  <2>3. CASE SetLock(t)
    BY <2>3 DEF SetLock, Breach
  <2>4. CASE InitProgress(t)
    BY <2>4 DEF InitProgress
  <2>5. CASE SendTask(t)
    BY <2>5 DEF SendTask
  <2>6. CASE StartAborts(t)
    BY <2>6 DEF StartAborts
  <2>7. CASE SetStopKey(t)
    BY <2>7 DEF SetStopKey
  <2>8. CASE MarkProgressStopped(t)
    BY <2>8 DEF MarkProgressStopped
  <2>9. CASE Revoke(t)
    BY <2>9 DEF Revoke
  <2>10. CASE ReadLog(t)
    BY <2>10 DEF ReadLog
  <2>11. CASE CloseLog(t)
    BY <2>11 DEF CloseLog
  <2>12. CASE DropLock(t)
    BY <2>12 DEF DropLock, Breach
  <2>13. CASE StopGivesUp(t)
    BY <2>13 DEF StopGivesUp
  <2>14. CASE PickUp(t)
    BY <2>14 DEF PickUp
  <2>15. CASE Discard(t)
    BY <2>15 DEF Discard
  <2>16. CASE Begin(t)
    BY <2>16 DEF Begin
  <2>17. CASE PollStops(t)
    BY <2>17 DEF PollStops
  <2>18. CASE PollContinues(t)
    BY <2>18 DEF PollContinues
  <2>19. CASE WriteBatch(t)
    BY <2>19 DEF WriteBatch
  <2>20. CASE Exhausted(t)
    BY <2>20 DEF Exhausted
  <2>21. CASE Raise(t)
    BY <2>21 DEF Raise
  <2>22. CASE FinalizeLog(t)
    BY <2>22 DEF FinalizeLog
  <2>23. CASE ReportProgress(t)
    BY <2>23 DEF ReportProgress
  <2>24. CASE ReportRaises(t)
    BY <2>24 DEF ReportRaises
  <2>25. CASE ReleaseLock(t)
    <3>1. CASE lock' = None /\ UNCHANGED fault
      BY <2>25, <3>1 DEF ReleaseLock
    <3>2. CASE fault' = [fault EXCEPT ![t] = TRUE] /\ UNCHANGED lock
      BY <2>25, <3>2 DEF ReleaseLock
    <3> QED
      BY <2>25, <3>1, <3>2 DEF ReleaseLock
  <2>26. CASE Killed(t)
    BY <2>26 DEF Killed
  <2>27. CASE WorkerLost(t)
    BY <2>27 DEF WorkerLost
  <2>28. CASE ExpireStopKey(t)
    BY <2>28 DEF ExpireStopKey
  <2>29. CASE Ack(t)
    BY <2>29 DEF Ack
  <2> QED
    BY <1>1, <2>1, <2>2, <2>3, <2>4, <2>5, <2>6, <2>7, <2>8, <2>9, <2>10,
       <2>11, <2>12, <2>13, <2>14, <2>15, <2>16, <2>17, <2>18, <2>19, <2>20,
       <2>21, <2>22, <2>23, <2>24, <2>25, <2>26, <2>27, <2>28, <2>29
       DEF StartStep, StopStep, WorkStep, Failure
<1>2. CASE ExpireLock
  BY <1>2 DEF ExpireLock, Breach
<1>3. CASE UNCHANGED vars
  BY <1>3 DEF vars
<1> QED
  BY <1>1, <1>2, <1>3 DEF Next

-----------------------------------------------------------------------------
\* Before the first request nothing is locked, queued or told.
LEMMA InitIInv == Init => IInv
<1> SUFFICES ASSUME Init PROVE IInv
  OBVIOUS
<1> USE DEF Init
<1>1. TypeOK
  <2>1. /\ progress \in [Tasks -> Progress] /\ log \in [Tasks -> LogStatus]
        /\ caller \in [Tasks -> CallerState] /\ stopper \in [Tasks -> StopState]
        /\ worker \in [Tasks -> WorkerState]
           /\ result \in [Tasks -> {"none"} \cup Outcome]
    BY DEF Progress, LogStatus, CallerState, StopState, WorkerState
  <2>2. 0 \in 0 .. MaxBatches /\ 0 \in 0 .. MaxLost /\ 0 \in 0 .. 2
    BY BoundsAssumption
  <2>3. left \in [Tasks -> 0 .. MaxBatches] /\ late \in [Tasks -> 0 .. 2]
    BY <2>2
  <2>4. /\ stopKey \in [Tasks -> BOOLEAN] /\ revoked \in [Tasks -> BOOLEAN]
        /\ swept \in [Tasks -> BOOLEAN] /\ fault \in [Tasks -> BOOLEAN]
    OBVIOUS
  <2> QED
    BY <2>1, <2>2, <2>3, <2>4 DEF TypeOK
<1>2. SentBeforeWork /\ BatchLeft /\ OutcomeKnown /\ RowClosed
  BY DEF SentBeforeWork, BatchLeft, OutcomeKnown, RowClosed
<1>3. /\ LockHeld /\ LockOutlivesOnlyFaults /\ LateThenPoll /\ SweptFirst
      /\ OutcomeTold
  BY DEF LockHeld, Live, Running, Executing, LockOutlivesOnlyFaults, LateThenPoll,
         SweptFirst, OutcomeTold
<1> QED
  BY <1>1, <1>2, <1>3 DEF IInv, Shape

\* Every step keeps every part of the invariant.
LEMMA NextIInv == IInv /\ [Next]_vars => IInv'
BY ShapeStep, RowClosedStep, LockHeldStep, LockNamedStep, LateStep, SweptStep,
   ToldStep DEF IInv

\* IInv holds for ever; every safety theorem below is a consequence of it.
THEOREM Invariance == Spec => []IInv
BY InitIInv, NextIInv, PTL DEF Spec

\* The variables keep their types, in particular no execution writes a row or
\* a progress record without an outcome.
THEOREM TypeCorrect == Spec => []TypeOK
<1>1. IInv => TypeOK
  BY DEF IInv, Shape
<1> QED
  BY <1>1, Invariance, PTL

\* The lock keeps the imports of an interface apart until one of the four
\* breaches happens, for any number of tasks.
THEOREM NoOverlapWithoutBreach == Spec => []OverlapNeedsBreach
<1>1. IInv => OverlapNeedsBreach
  BY DEF IInv, LockHeld, OverlapNeedsBreach, OneImportPerApi, Live
<1> QED
  BY <1>1, Invariance, PTL

\* The lock that is left behind when an import has ended was left by a fault, for
\* any number of tasks, overlaps, stops and redeliveries.
THEOREM LocksOutliveOnlyFaults == Spec => []LockOutlivesOnlyFaults
<1>1. IInv => LockOutlivesOnlyFaults
  BY DEF IInv
<1> QED
  BY <1>1, Invariance, PTL

\* The cooperative stop costs at most one more batch, for any import size.
THEOREM PromptStop == Spec => []AtMostOneBatchAfterStop
<1>1. IInv => AtMostOneBatchAfterStop
  BY DEF IInv, LateThenPoll, AtMostOneBatchAfterStop
<1> QED
  BY <1>1, Invariance, PTL

\* A row that says "completed" was written by an execution that swept all its
\* batches.
THEOREM CompletedRowsAreSwept == Spec => []CompletedMeansSwept
<1>1. IInv => CompletedMeansSwept
  BY DEF IInv, SweptFirst, CompletedMeansSwept
<1> QED
  BY <1>1, Invariance, PTL

\* A stop that ran to its end leaves the row closed.
THEOREM StoppedRowsAreClosed == Spec => []StopClosesLog
<1>1. IInv => StopClosesLog
  BY DEF IInv, RowClosed, StopClosesLog
<1> QED
  BY <1>1, Invariance, PTL

\* Without a stop and without a lost write the row and the progress record tell the
\* outcome an execution ended with, from its last report on.
THEOREM RowAndRecordAgree == Spec => []OutcomesAgree
<1>1. IInv => OutcomesAgree
  BY DEF IInv, OutcomeTold, OutcomesAgree
<1> QED
  BY <1>1, Invariance, PTL
-----------------------------------------------------------------------------
(***************************************************************************)
(* The lock implements the exclusive lease of module Lease.                *)
(***************************************************************************)
\* A step that leaves everybody as live as before is a stutter of the lease.
LEMMA LeaseStutter ==
    ASSUME UNCHANGED breach, \A u \in Tasks : Live(u)' <=> Live(u)
    PROVE  [ApiLease!Next]_(ApiLease!vars)
BY DEF ApiLease!vars

\* The live task that stops being live gives the lease back.
LEMMA LeaseRelease ==
    ASSUME IInv, NEW t \in Tasks, Live(t), ~ Live(t)', UNCHANGED breach,
           \A u \in Tasks \ {t} : Live(u)' <=> Live(u)
    PROVE  [ApiLease!Next]_(ApiLease!vars)
<1>1. CASE breach
  BY <1>1 DEF ApiLease!vars
<1>2. CASE ~ breach
  <2>1. \A u \in Tasks : Live(u) => u = t
    BY <1>2 DEF IInv, LockHeld
  <2>2. ApiLease!Release(t)
    BY <1>2, <2>1 DEF ApiLease!Release
  <2> QED
    BY <2>2 DEF ApiLease!Next
<1> QED
  BY <1>1, <1>2

\* The task that becomes live while nobody else is gets the lease.
LEMMA LeaseAcquire ==
    ASSUME NEW t \in Tasks, ~ breach, UNCHANGED breach, \A u \in Tasks : ~ Live(u),
           \A u \in Tasks : Live(u)' <=> u = t
    PROVE  [ApiLease!Next]_(ApiLease!vars)
<1>1. (IF breach THEN {} ELSE {u \in Tasks : Live(u)}) = {}
  OBVIOUS
<1>2. (IF breach THEN {} ELSE {u \in Tasks : Live(u)})' = {t}
  OBVIOUS
<1>3. ApiLease!Acquire(t)
  BY <1>1, <1>2 DEF ApiLease!Acquire
<1> QED
  BY <1>3 DEF ApiLease!Next

\* A step that takes the lock from the live task, or makes one live without it,
\* breaks the lease.
LEMMA LeaseBreak ==
    ASSUME breach', breach \in BOOLEAN
    PROVE  [ApiLease!Next]_(ApiLease!vars)
<1>1. CASE breach
  BY <1>1 DEF ApiLease!vars
<1>2. CASE ~ breach
  BY <1>2 DEF ApiLease!Next, ApiLease!Break
<1> QED
  BY <1>1, <1>2

\* Every step is a step of the lease or a stutter: SetLock acquires (or breaks), so
\* does a redelivery after the finally, the ends of a task release, the two ways to
\* lose a live lock break, and all other steps leave everybody as live as before.
LEMMA LeaseStep ==
    ASSUME IInv, [Next]_vars
    PROVE  [ApiLease!Next]_(ApiLease!vars)
<1> USE DEF Live, Running, Executing
<1> breach \in BOOLEAN
  BY DEF IInv, Shape, TypeOK
<1>1. ASSUME NEW t \in Tasks,
             StartStep(t) \/ SetStopKey(t) \/ StopStep(t) \/ WorkStep(t)
                \/ Failure(t)
      PROVE  [ApiLease!Next]_(ApiLease!vars)
  <2> USE DEF IInv, Shape, TypeOK, SentBeforeWork
  <2>1. CASE CheckLock(t)
    <3>1. UNCHANGED breach /\ \A u \in Tasks : Live(u)' <=> Live(u)
      BY <2>1 DEF CheckLock, history, taskVars
    <3> QED
      BY <3>1, LeaseStutter
  <2>2. CASE CreateLog(t)
    <3>1. UNCHANGED breach /\ \A u \in Tasks : Live(u)' <=> Live(u)
      BY <2>2 DEF CreateLog, history, taskVars
    <3> QED
      BY <3>1, LeaseStutter
  <2>3. CASE SetLock(t)
    <3>1. CASE breach'
      BY <3>1, LeaseBreak
    <3>2. CASE ~ breach'
      <4>1. ~ breach /\ ~ (lock # None /\ Live(lock))
        BY <2>3, <3>2 DEF SetLock, Breach
      <4>2. \A u \in Tasks : ~ Live(u)
        BY <4>1, TasksAssumption DEF LockHeld
      <4>3. \A u \in Tasks : Live(u)' <=> u = t
        BY <2>3, <4>2 DEF SetLock, taskVars
      <4>4. UNCHANGED breach
        BY <2>3, <3>2 DEF SetLock, Breach
      <4> QED
        BY <4>1, <4>2, <4>3, <4>4, LeaseAcquire
    <3> QED
      BY <3>1, <3>2
  <2>4. CASE InitProgress(t)
    <3>1. UNCHANGED breach /\ \A u \in Tasks : Live(u)' <=> Live(u)
      BY <2>4 DEF InitProgress, history, taskVars
    <3> QED
      BY <3>1, LeaseStutter
  <2>5. CASE SendTask(t)
    <3>1. UNCHANGED breach /\ \A u \in Tasks : Live(u)' <=> Live(u)
      BY <2>5 DEF SendTask, history, taskVars
    <3> QED
      BY <3>1, LeaseStutter
  <2>6. CASE StartAborts(t)
    <3>1. UNCHANGED breach /\ \A u \in Tasks \ {t} : Live(u)' <=> Live(u)
      BY <2>6 DEF StartAborts, taskVars
    <3>2. ~ Live(t)'
      BY <2>6 DEF StartAborts, taskVars
    <3>3. CASE Live(t)
      BY <3>1, <3>2, <3>3, LeaseRelease
    <3>4. CASE ~ Live(t)
      <4>1. \A u \in Tasks : Live(u)' <=> Live(u)
        BY <3>1, <3>2, <3>4
      <4> QED
        BY <3>1, <4>1, LeaseStutter
    <3> QED
      BY <3>3, <3>4
  <2>7. CASE SetStopKey(t)
    <3>1. UNCHANGED breach /\ \A u \in Tasks : Live(u)' <=> Live(u)
      BY <2>7 DEF SetStopKey, history, taskVars
    <3> QED
      BY <3>1, LeaseStutter
  <2>8. CASE MarkProgressStopped(t)
    <3>1. UNCHANGED breach /\ \A u \in Tasks : Live(u)' <=> Live(u)
      BY <2>8 DEF MarkProgressStopped, history, taskVars
    <3> QED
      BY <3>1, LeaseStutter
  <2>9. CASE Revoke(t)
    <3>1. UNCHANGED breach /\ \A u \in Tasks : Live(u)' <=> Live(u)
      BY <2>9 DEF Revoke, history, taskVars
    <3> QED
      BY <3>1, LeaseStutter
  <2>10. CASE ReadLog(t)
    <3>1. UNCHANGED breach /\ \A u \in Tasks : Live(u)' <=> Live(u)
      BY <2>10 DEF ReadLog, history, taskVars
    <3> QED
      BY <3>1, LeaseStutter
  <2>11. CASE CloseLog(t)
    <3>1. UNCHANGED breach /\ \A u \in Tasks : Live(u)' <=> Live(u)
      BY <2>11 DEF CloseLog, history, taskVars
    <3> QED
      BY <3>1, LeaseStutter
  <2>12. CASE DropLock(t)
    <3>1. \A u \in Tasks : Live(u)' <=> Live(u)
      BY <2>12 DEF DropLock, taskVars
    <3>2. CASE breach'
      BY <3>2, LeaseBreak
    <3>3. CASE ~ breach'
      <4>1. UNCHANGED breach
        BY <2>12, <3>3 DEF DropLock, Breach
      <4> QED
        BY <3>1, <4>1, LeaseStutter
    <3> QED
      BY <3>2, <3>3
  <2>13. CASE StopGivesUp(t)
    <3>1. UNCHANGED breach /\ \A u \in Tasks : Live(u)' <=> Live(u)
      BY <2>13 DEF StopGivesUp, history, taskVars
    <3> QED
      BY <3>1, LeaseStutter
  <2>14. CASE PickUp(t)
    <3>1. UNCHANGED breach /\ \A u \in Tasks : Live(u)' <=> Live(u)
      BY <2>14 DEF PickUp, history, taskVars
    <3> QED
      BY <3>1, LeaseStutter
  <2>15. CASE Discard(t)
    <3>1. /\ Live(t) /\ ~ Live(t)' /\ UNCHANGED breach
          /\ \A u \in Tasks \ {t} : Live(u)' <=> Live(u)
      BY <2>15 DEF Discard, history
    <3> QED
      BY <3>1, LeaseRelease
  <2>16. CASE Begin(t)
    <3>1. UNCHANGED breach /\ \A u \in Tasks : Live(u)' <=> Live(u)
      BY <2>16 DEF Begin, history, taskVars
    <3> QED
      BY <3>1, LeaseStutter
  <2>17. CASE PollStops(t)
    <3>1. UNCHANGED breach /\ \A u \in Tasks : Live(u)' <=> Live(u)
      BY <2>17 DEF PollStops, history, taskVars
    <3> QED
      BY <3>1, LeaseStutter
  <2>18. CASE PollContinues(t)
    <3>1. UNCHANGED breach /\ \A u \in Tasks : Live(u)' <=> Live(u)
      BY <2>18 DEF PollContinues, history, taskVars
    <3> QED
      BY <3>1, LeaseStutter
  <2>19. CASE WriteBatch(t)
    <3>1. UNCHANGED breach /\ \A u \in Tasks : Live(u)' <=> Live(u)
      BY <2>19 DEF WriteBatch, history, taskVars
    <3> QED
      BY <3>1, LeaseStutter
  <2>20. CASE Exhausted(t)
    <3>1. UNCHANGED breach /\ \A u \in Tasks : Live(u)' <=> Live(u)
      BY <2>20 DEF Exhausted, history, taskVars
    <3> QED
      BY <3>1, LeaseStutter
  <2>21. CASE Raise(t)
    <3>1. UNCHANGED breach /\ \A u \in Tasks : Live(u)' <=> Live(u)
      BY <2>21 DEF Raise, history, taskVars
    <3> QED
      BY <3>1, LeaseStutter
  <2>22. CASE FinalizeLog(t)
    <3>1. UNCHANGED breach /\ \A u \in Tasks : Live(u)' <=> Live(u)
      BY <2>22 DEF FinalizeLog, history, taskVars
    <3> QED
      BY <3>1, LeaseStutter
  <2>23. CASE ReportProgress(t)
    <3>1. UNCHANGED breach /\ \A u \in Tasks : Live(u)' <=> Live(u)
      BY <2>23 DEF ReportProgress, history, taskVars
    <3> QED
      BY <3>1, LeaseStutter
  <2>24. CASE ReportRaises(t)
    <3>1. UNCHANGED breach /\ \A u \in Tasks : Live(u)' <=> Live(u)
      BY <2>24 DEF ReportRaises, history, taskVars
    <3> QED
      BY <3>1, LeaseStutter
  <2>25. CASE ReleaseLock(t)
    <3>1. /\ Live(t) /\ ~ Live(t)' /\ UNCHANGED breach
          /\ \A u \in Tasks \ {t} : Live(u)' <=> Live(u)
      BY <2>25 DEF ReleaseLock
    <3> QED
      BY <3>1, LeaseRelease
  <2>26. CASE Killed(t)
    <3>1. UNCHANGED breach /\ \A u \in Tasks \ {t} : Live(u)' <=> Live(u)
      BY <2>26 DEF Killed
    <3>2. ~ Live(t)'
      BY <2>26 DEF Killed
    <3>3. CASE Live(t)
      BY <3>1, <3>2, <3>3, LeaseRelease
    <3>4. CASE ~ Live(t)
      <4>1. \A u \in Tasks : Live(u)' <=> Live(u)
        BY <3>1, <3>2, <3>4
      <4> QED
        BY <3>1, <4>1, LeaseStutter
    <3> QED
      BY <3>3, <3>4
  <2>27. CASE WorkerLost(t)
    <3>1. CASE breach'
      BY <3>1, LeaseBreak
    <3>2. CASE ~ breach'
      <4>1. UNCHANGED breach /\ ~ breach /\ lock = t
        BY <2>27, <3>2 DEF WorkerLost
      <4>2. Live(t)' /\ \A u \in Tasks \ {t} : Live(u)' <=> Live(u)
        BY <2>27 DEF WorkerLost
      <4>3. CASE Live(t)
        <5>1. \A u \in Tasks : Live(u)' <=> Live(u)
          BY <4>2, <4>3
        <5> QED
          BY <4>1, <5>1, LeaseStutter
      <4>4. CASE ~ Live(t)
        <5>1. \A u \in Tasks : ~ Live(u)
          BY <4>1, <4>4 DEF LockHeld
        <5>2. \A u \in Tasks : Live(u)' <=> u = t
          BY <4>2, <5>1
        <5> QED
          BY <4>1, <5>1, <5>2, LeaseAcquire
      <4> QED
        BY <4>3, <4>4
    <3> QED
      BY <3>1, <3>2
  <2>28. CASE ExpireStopKey(t)
    <3>1. UNCHANGED breach /\ \A u \in Tasks : Live(u)' <=> Live(u)
      BY <2>28 DEF ExpireStopKey, history, taskVars
    <3> QED
      BY <3>1, LeaseStutter
  <2>29. CASE Ack(t)
    <3>1. UNCHANGED breach /\ \A u \in Tasks : Live(u)' <=> Live(u)
      BY <2>29 DEF Ack, history
    <3> QED
      BY <3>1, LeaseStutter
  <2> QED
    BY <1>1, <2>1, <2>2, <2>3, <2>4, <2>5, <2>6, <2>7, <2>8, <2>9, <2>10,
       <2>11, <2>12, <2>13, <2>14, <2>15, <2>16, <2>17, <2>18, <2>19, <2>20,
       <2>21, <2>22, <2>23, <2>24, <2>25, <2>26, <2>27, <2>28, <2>29
       DEF StartStep, StopStep, WorkStep, Failure
<1>2. CASE ExpireLock
  <2>1. \A u \in Tasks : Live(u)' <=> Live(u)
    BY <1>2 DEF ExpireLock, taskVars
  <2>2. CASE breach'
    BY <2>2, LeaseBreak
  <2>3. CASE ~ breach'
    <3>1. UNCHANGED breach
      BY <1>2, <2>3 DEF ExpireLock, Breach, IInv, Shape, TypeOK
    <3> QED
      BY <2>1, <3>1, LeaseStutter
  <2> QED
    BY <2>2, <2>3
<1>3. CASE UNCHANGED vars
  <2>1. UNCHANGED breach /\ \A u \in Tasks : Live(u)' <=> Live(u)
    BY <1>3 DEF vars
  <2> QED
    BY <2>1, LeaseStutter
<1> QED
  BY <1>1, <1>2, <1>3 DEF Next

\* The interface's lock is an exclusive lease on running an import, for any
\* number of tasks, until it is broken.
THEOREM LockImplementsLease == Spec => LockIsLease
<1>1. Init => ApiLease!Init
  BY DEF Init, ApiLease!Init, Live, Running, Executing
<1>2. IInv /\ [Next]_vars => [ApiLease!Next]_(ApiLease!vars)
  BY LeaseStep
<1> QED
  BY <1>1, <1>2, Invariance, PTL DEF Spec, LockIsLease, ApiLease!Spec
=============================================================================
