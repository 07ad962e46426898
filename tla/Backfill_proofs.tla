-------------------------- MODULE Backfill_proofs --------------------------
(***************************************************************************)
(* Theorems about Backfill, for any number of starts, data types, items,   *)
(* stops and faults.                                                       *)
(*                                                                         *)
(* The inductive invariant IInv is the type invariant with the shape of    *)
(* the program counters, and one conjunct per property that says of every  *)
(* COPY of the record, and of every task a stop has found, what the        *)
(* property says of the record and of the tasks.                           *)
(***************************************************************************)
EXTENDS Backfill, TLAPS

\* Where a task has its own copy of the record.
HasCopy == {"announcing", "polling", "marking", "fetching", "stopping", "finishing"}

\* Whoever is going to write a copy of the record has one, and a task that is at an
\* item has an item left.
CopiesInHand ==
    /\ stopper \in {"read", "marked"} => stopCopy \in Record
    /\ viewer = "settling" => viewCopy \in Record
    /\ \A t \in Tasks :
          /\ worker[t] \in HasCopy => copy[t] \in Record
          /\ worker[t] \in {"marking", "fetching"} => left[t] > 0

\* Only a task that was sent is on the queue or in a worker.
SentFirst == \A t \in Tasks : worker[t] # "absent" => t \in sent[t[1]]

Shape == TypeOK /\ CopiesInHand

\* No copy that may be written back counts more than the tasks have gone through.
CountsReal ==
    /\ record # NoRecord => record.count <= processed
    /\ stopper \in {"read", "marked"} => stopCopy.count <= processed
    /\ viewer = "settling" => viewCopy.count <= processed
    /\ \A t \in Tasks : worker[t] \in HasCopy => copy[t].count <= processed

\* A task that has written "running" and has its last write before it; the message of
\* one that was run again counts, since it may have written it.
Owner(t) ==
    \/ worker[t] \in HasCopy
    \/ faults > 0 /\ worker[t] \in {"queued", "checking", "reading"}

RunningOwned == Says("running") /\ ~broken => \E t \in Tasks : Owner(t)

\* Until the signal is erased it stays for the tasks a stop has found, and one that went
\* through an item since is not at another.
SignalStays ==
    ~erased => \A t \in Tasks :
        /\ t \in aimed => signal
        /\ late[t] <= 1
        /\ late[t] > 0 => t \in aimed /\ worker[t] \notin {"marking", "fetching"}

IInv == Shape /\ SentFirst /\ CountsReal /\ RunningOwned /\ SignalStays
-----------------------------------------------------------------------------
\* Every step preserves the types and keeps copies where they are needed.
LEMMA ShapeStep ==
    ASSUME Shape, [Next]_vars
    PROVE  Shape'
<1> USE BackfillAssumption DEF Shape, TypeOK, CopiesInHand, HasCopy, Tasks,
    Record, Status, Executing, Over, Alive, Says, startVars, stopVars, viewVars, workVars, history, others
<1>1. ASSUME NEW r \in Starts, Start(r)
      PROVE  Shape'
  <2>1. ASSUME NEW D \in SUBSET Types, ReadBeforeStart(r, D)
        PROVE  Shape'
    BY <2>1 DEF ReadBeforeStart, CallerStep
  <2>2. CASE ClearRecord(r)
    BY <2>2 DEF ClearRecord, CallerStep
  <2>3. CASE ClearSignal(r)
    <3>1. erased' \in BOOLEAN
      BY <2>3 DEF ClearSignal, DeleteSignal
    <3>2. signal' = FALSE /\ UNCHANGED <<processed, aimed, late, broken>>
      BY <2>3 DEF ClearSignal, DeleteSignal
    <3>3. signal' \in BOOLEAN /\ broken' \in BOOLEAN
      BY <3>2
    <3>4. CopiesInHand'
      BY <2>3 DEF ClearSignal, CallerStep
    <3> QED
      BY <2>3, <3>1, <3>2, <3>3, <3>4 DEF ClearSignal, CallerStep
  <2>4. CASE Announce(r)
    BY <2>4 DEF Announce, CallerStep
  <2>5. CASE WriteIds(r)
    BY <2>5 DEF WriteIds, CallerStep
  <2>6. ASSUME NEW d \in Types, Send(r, d)
        PROVE  Shape'
    BY <2>6 DEF Send
  <2> QED
    BY <1>1, <2>1, <2>2, <2>3, <2>4, <2>5, <2>6 DEF Start
<1>2. CASE Stop \/ View
  <2>1. CASE RaiseSignal
    BY <2>1 DEF RaiseSignal
  <2>2. CASE ReadForStop
    BY <2>2 DEF ReadForStop
  <2>3. CASE WriteStopping
    <3>1. record' \in Record
      BY <2>3 DEF WriteStopping
    <3> QED
      BY <2>3, <3>1 DEF WriteStopping
  <2>4. CASE RevokeNamed
    BY <2>4 DEF RevokeNamed
  <2>5. CASE ReadForView
    BY <2>5 DEF ReadForView
  <2>6. CASE SettleStopped
    BY <2>6 DEF SettleStopped
  <2>7. CASE SweepSignal
    <3>1. erased' \in BOOLEAN
      BY <2>7 DEF SweepSignal, DeleteSignal
    <3>2. signal' = FALSE /\ UNCHANGED <<processed, aimed, late, broken>>
      BY <2>7 DEF SweepSignal, DeleteSignal
    <3>3. signal' \in BOOLEAN /\ broken' \in BOOLEAN
      BY <3>2
    <3>4. CopiesInHand'
      BY <2>7 DEF SweepSignal
    <3> QED
      BY <2>7, <3>1, <3>2, <3>3, <3>4 DEF SweepSignal
  <2> QED
    BY <1>2, <2>1, <2>2, <2>3, <2>4, <2>5, <2>6, <2>7 DEF Stop, View
<1>3. ASSUME NEW t \in Tasks, Work(t) \/ Fault(t)
      PROVE  Shape'
  <2>1. CASE Deliver(t)
    BY <2>1 DEF Deliver, WorkerStep
  <2>2. CASE Drop(t)
    BY <2>2 DEF Drop, End
  <2>3. CASE QuitAtStart(t)
    BY <2>3 DEF QuitAtStart, End
  <2>4. CASE PassStart(t)
    BY <2>4 DEF PassStart, WorkerStep
  <2>5. CASE ReadRecord(t)
    BY <2>5 DEF ReadRecord, WorkerStep
  <2>6. CASE AnnounceRunning(t)
    BY <2>6 DEF AnnounceRunning, WorkerStep
  <2>7. CASE Poll(t)
    BY <2>7 DEF Poll, WorkerStep
  <2>8. CASE MarkCurrent(t)
    BY <2>8 DEF MarkCurrent, WorkerStep
  <2>9. CASE Process(t)
    <3>1. copy' \in [Tasks -> Record \cup {NoRecord}] /\ copy'[t] \in Record
      BY <2>9 DEF Process, WorkerStep
    <3>2. record' \in Record /\ processed' \in Nat
      BY <2>9, <3>1 DEF Process
    <3>3. left' \in [Tasks -> 0 .. Items]
      BY <2>9 DEF Process, WorkerStep
    <3>4. late' \in [Tasks -> 0 .. 2]
      BY <2>9 DEF Process
    <3>5. /\ WorkerStep(t, "fetching", "polling")
          /\ \A u \in Tasks \ {t} : copy'[u] = copy[u] /\ left'[u] = left[u]
          /\ UNCHANGED <<signal, others, faults, aimed, erased, broken>>
      BY <2>9 DEF Process
    <3> QED
      BY <2>9, <3>1, <3>2, <3>3, <3>4, <3>5 DEF WorkerStep
  <2>10. CASE StopTask(t)
    BY <2>10 DEF StopTask, WriteLast, End
  <2>11. CASE FinishTask(t)
    BY <2>11 DEF FinishTask, WriteLast, End
  <2>12. CASE Redeliver(t)
    BY <2>12 DEF Redeliver
  <2>13. CASE Terminate(t)
    BY <2>13 DEF Terminate, End
  <2>14. CASE Kill(t)
    BY <2>14 DEF Kill, End
  <2> QED
    BY <1>3, <2>1, <2>2, <2>3, <2>4, <2>5, <2>6, <2>7, <2>8, <2>9, <2>10, <2>11, <2>12,
       <2>13, <2>14 DEF Work, Fault
<1>4. CASE UNCHANGED vars
  BY <1>4 DEF vars
<1> QED
  BY <1>1, <1>2, <1>3, <1>4 DEF Next

\* Only sending brings a task on the queue.
LEMMA SentStep ==
    ASSUME Shape, SentFirst, [Next]_vars
    PROVE  SentFirst'
<1> USE DEF Shape, TypeOK, SentFirst, Executing, startVars, stopVars, viewVars, workVars,
   history, others
<1>1. ASSUME NEW r \in Starts, Start(r)
      PROVE  SentFirst'
  <2>1. ASSUME NEW D \in SUBSET Types, ReadBeforeStart(r, D)
        PROVE  SentFirst'
    BY <2>1 DEF ReadBeforeStart, CallerStep, Tasks
  <2>2. CASE ClearRecord(r)
    BY <2>2 DEF ClearRecord, CallerStep
  <2>3. CASE ClearSignal(r)
    BY <2>3 DEF ClearSignal, CallerStep, DeleteSignal
  <2>4. CASE Announce(r)
    BY <2>4 DEF Announce, CallerStep
  <2>5. CASE WriteIds(r)
    BY <2>5 DEF WriteIds, CallerStep
  <2>6. ASSUME NEW d \in Types, Send(r, d)
        PROVE  SentFirst'
    BY <2>6 DEF Send, Tasks
  <2> QED
    BY <1>1, <2>1, <2>2, <2>3, <2>4, <2>5, <2>6 DEF Start
<1>2. CASE Stop \/ View
  <2>1. CASE RaiseSignal
    BY <2>1 DEF RaiseSignal
  <2>2. CASE ReadForStop
    BY <2>2 DEF ReadForStop
  <2>3. CASE WriteStopping
    BY <2>3 DEF WriteStopping
  <2>4. CASE RevokeNamed
    BY <2>4 DEF RevokeNamed
  <2>5. CASE ReadForView
    BY <2>5 DEF ReadForView
  <2>6. CASE SettleStopped
    BY <2>6 DEF SettleStopped
  <2>7. CASE SweepSignal
    BY <2>7 DEF SweepSignal, DeleteSignal
  <2> QED
    BY <1>2, <2>1, <2>2, <2>3, <2>4, <2>5, <2>6, <2>7 DEF Stop, View
<1>3. ASSUME NEW t \in Tasks, Work(t) \/ Fault(t)
      PROVE  SentFirst'
  <2>1. CASE Deliver(t)
    BY <2>1 DEF Deliver, WorkerStep
  <2>2. CASE Drop(t)
    BY <2>2 DEF Drop, End
  <2>3. CASE QuitAtStart(t)
    BY <2>3 DEF QuitAtStart, End
  <2>4. CASE PassStart(t)
    BY <2>4 DEF PassStart, WorkerStep
  <2>5. CASE ReadRecord(t)
    BY <2>5 DEF ReadRecord, WorkerStep
  <2>6. CASE AnnounceRunning(t)
    BY <2>6 DEF AnnounceRunning, WorkerStep
  <2>7. CASE Poll(t)
    BY <2>7 DEF Poll, WorkerStep
  <2>8. CASE MarkCurrent(t)
    BY <2>8 DEF MarkCurrent, WorkerStep
  <2>9. CASE Process(t)
    BY <2>9 DEF Process, WorkerStep
  <2>10. CASE StopTask(t)
    BY <2>10 DEF StopTask, WriteLast, End
  <2>11. CASE FinishTask(t)
    BY <2>11 DEF FinishTask, WriteLast, End
  <2>12. CASE Redeliver(t)
    BY <2>12 DEF Redeliver
  <2>13. CASE Terminate(t)
    BY <2>13 DEF Terminate, End
  <2>14. CASE Kill(t)
    BY <2>14 DEF Kill, End
  <2> QED
    BY <1>3, <2>1, <2>2, <2>3, <2>4, <2>5, <2>6, <2>7, <2>8, <2>9, <2>10, <2>11, <2>12,
       <2>13, <2>14 DEF Work, Fault
<1>4. CASE UNCHANGED vars
  BY <1>4 DEF vars
<1> QED
  BY <1>1, <1>2, <1>3, <1>4 DEF Next

\* An item is counted in the step that goes through it, and copies only repeat counts.
LEMMA CountsStep ==
    ASSUME Shape, CountsReal, [Next]_vars
    PROVE  CountsReal'
<1> USE DEF Shape, TypeOK, CopiesInHand, CountsReal, HasCopy, Record, startVars, stopVars,
   viewVars, workVars, history, others
<1>1. ASSUME NEW r \in Starts, Start(r)
      PROVE  CountsReal'
  <2>1. ASSUME NEW D \in SUBSET Types, ReadBeforeStart(r, D)
        PROVE  CountsReal'
    BY <2>1 DEF ReadBeforeStart, CallerStep
  <2>2. CASE ClearRecord(r)
    BY <2>2 DEF ClearRecord, CallerStep
  <2>3. CASE ClearSignal(r)
    BY <2>3 DEF ClearSignal, CallerStep, DeleteSignal
  <2>4. CASE Announce(r)
    BY <2>4 DEF Announce, CallerStep
  <2>5. CASE WriteIds(r)
    BY <2>5 DEF WriteIds, CallerStep
  <2>6. ASSUME NEW d \in Types, Send(r, d)
        PROVE  CountsReal'
    BY <2>6 DEF Send
  <2> QED
    BY <1>1, <2>1, <2>2, <2>3, <2>4, <2>5, <2>6 DEF Start
<1>2. CASE Stop \/ View
  <2>1. CASE RaiseSignal
    BY <2>1 DEF RaiseSignal
  <2>2. CASE ReadForStop
    BY <2>2 DEF ReadForStop
  <2>3. CASE WriteStopping
    BY <2>3 DEF WriteStopping
  <2>4. CASE RevokeNamed
    BY <2>4 DEF RevokeNamed
  <2>5. CASE ReadForView
    BY <2>5 DEF ReadForView
  <2>6. CASE SettleStopped
    BY <2>6 DEF SettleStopped
  <2>7. CASE SweepSignal
    BY <2>7 DEF SweepSignal, DeleteSignal
  <2> QED
    BY <1>2, <2>1, <2>2, <2>3, <2>4, <2>5, <2>6, <2>7 DEF Stop, View
<1>3. ASSUME NEW t \in Tasks, Work(t) \/ Fault(t)
      PROVE  CountsReal'
  <2>1. CASE Deliver(t)
    BY <2>1 DEF Deliver, WorkerStep
  <2>2. CASE Drop(t)
    BY <2>2 DEF Drop, End
  <2>3. CASE QuitAtStart(t)
    BY <2>3 DEF QuitAtStart, End
  <2>4. CASE PassStart(t)
    BY <2>4 DEF PassStart, WorkerStep
  <2>5. CASE ReadRecord(t)
    BY <2>5 DEF ReadRecord, WorkerStep
  <2>6. CASE AnnounceRunning(t)
    BY <2>6 DEF AnnounceRunning, WorkerStep
  <2>7. CASE Poll(t)
    BY <2>7 DEF Poll, WorkerStep
  <2>8. CASE MarkCurrent(t)
    BY <2>8 DEF MarkCurrent, WorkerStep
  <2>9. CASE Process(t)
    BY <2>9 DEF Process, WorkerStep
  <2>10. CASE StopTask(t)
    BY <2>10 DEF StopTask, WriteLast, End
  <2>11. CASE FinishTask(t)
    BY <2>11 DEF FinishTask, WriteLast, End
  <2>12. CASE Redeliver(t)
    BY <2>12 DEF Redeliver
  <2>13. CASE Terminate(t)
    BY <2>13 DEF Terminate, End
  <2>14. CASE Kill(t)
    BY <2>14 DEF Kill, End
  <2> QED
    BY <1>3, <2>1, <2>2, <2>3, <2>4, <2>5, <2>6, <2>7, <2>8, <2>9, <2>10, <2>11, <2>12,
       <2>13, <2>14 DEF Work, Fault
<1>4. CASE UNCHANGED vars
  BY <1>4 DEF vars
<1> QED
  BY <1>1, <1>2, <1>3, <1>4 DEF Next

\* The task that wrote "running" stays, or ends with a write or as broken.
LEMMA OwnedStep ==
    ASSUME Shape, SentFirst, RunningOwned, [Next]_vars
    PROVE  RunningOwned'
<1> USE DEF Shape, TypeOK, CopiesInHand, SentFirst, Tasks, RunningOwned, Owner, Says,
   HasCopy, Record,
    Executing, startVars, stopVars, viewVars, workVars, history, others
<1>1. ASSUME NEW r \in Starts, Start(r)
      PROVE  RunningOwned'
  <2>1. ASSUME NEW D \in SUBSET Types, ReadBeforeStart(r, D)
        PROVE  RunningOwned'
    BY <2>1 DEF ReadBeforeStart, CallerStep
  <2>2. CASE ClearRecord(r)
    BY <2>2 DEF ClearRecord, CallerStep
  <2>3. CASE ClearSignal(r)
    BY <2>3 DEF ClearSignal, CallerStep, DeleteSignal
  <2>4. CASE Announce(r)
    BY <2>4 DEF Announce, CallerStep
  <2>5. CASE WriteIds(r)
    BY <2>5 DEF WriteIds, CallerStep
  <2>6. ASSUME NEW d \in Types, Send(r, d)
        PROVE  RunningOwned'
    BY <2>6 DEF Send
  <2> QED
    BY <1>1, <2>1, <2>2, <2>3, <2>4, <2>5, <2>6 DEF Start
<1>2. CASE Stop \/ View
  <2>1. CASE RaiseSignal
    BY <2>1 DEF RaiseSignal
  <2>2. CASE ReadForStop
    BY <2>2 DEF ReadForStop
  <2>3. CASE WriteStopping
    BY <2>3 DEF WriteStopping
  <2>4. CASE RevokeNamed
    BY <2>4 DEF RevokeNamed
  <2>5. CASE ReadForView
    BY <2>5 DEF ReadForView
  <2>6. CASE SettleStopped
    BY <2>6 DEF SettleStopped
  <2>7. CASE SweepSignal
    BY <2>7 DEF SweepSignal, DeleteSignal
  <2> QED
    BY <1>2, <2>1, <2>2, <2>3, <2>4, <2>5, <2>6, <2>7 DEF Stop, View
<1>3. ASSUME NEW t \in Tasks, Work(t) \/ Fault(t)
      PROVE  RunningOwned'
  <2>1. CASE Deliver(t)
    BY <2>1 DEF Deliver, WorkerStep
  <2>2. CASE Drop(t)
    BY <2>2 DEF Drop, End
  <2>3. CASE QuitAtStart(t)
    BY <2>3 DEF QuitAtStart, End
  <2>4. CASE PassStart(t)
    BY <2>4 DEF PassStart, WorkerStep
  <2>5. CASE ReadRecord(t)
    BY <2>5 DEF ReadRecord, WorkerStep
  <2>6. CASE AnnounceRunning(t)
    BY <2>6 DEF AnnounceRunning, WorkerStep
  <2>7. CASE Poll(t)
    BY <2>7 DEF Poll, WorkerStep
  <2>8. CASE MarkCurrent(t)
    BY <2>8 DEF MarkCurrent, WorkerStep
  <2>9. CASE Process(t)
    BY <2>9 DEF Process, WorkerStep
  <2>10. CASE StopTask(t)
    BY <2>10 DEF StopTask, WriteLast, End
  <2>11. CASE FinishTask(t)
    BY <2>11 DEF FinishTask, WriteLast, End
  <2>12. CASE Redeliver(t)
    BY <2>12 DEF Redeliver
  <2>13. CASE Terminate(t)
    BY <2>13 DEF Terminate, End
  <2>14. CASE Kill(t)
    BY <2>14 DEF Kill, End
  <2> QED
    BY <1>3, <2>1, <2>2, <2>3, <2>4, <2>5, <2>6, <2>7, <2>8, <2>9, <2>10, <2>11, <2>12,
       <2>13, <2>14 DEF Work, Fault
<1>4. CASE UNCHANGED vars
  BY <1>4 DEF vars
<1> QED
  BY <1>1, <1>2, <1>3, <1>4 DEF Next

\* The signal leaves only when it is erased too early or nobody waits for it.
LEMMA SignalStep ==
    ASSUME Shape, SignalStays, [Next]_vars
    PROVE  SignalStays'
<1> USE DEF Shape, TypeOK, SignalStays, Alive, Executing, startVars, stopVars, viewVars,
   workVars, history, others
<1>1. ASSUME NEW r \in Starts, Start(r)
      PROVE  SignalStays'
  <2>1. ASSUME NEW D \in SUBSET Types, ReadBeforeStart(r, D)
        PROVE  SignalStays'
    BY <2>1 DEF ReadBeforeStart, CallerStep
  <2>2. CASE ClearRecord(r)
    BY <2>2 DEF ClearRecord, CallerStep
  <2>3. CASE ClearSignal(r)
    BY <2>3 DEF ClearSignal, CallerStep, DeleteSignal
  <2>4. CASE Announce(r)
    BY <2>4 DEF Announce, CallerStep
  <2>5. CASE WriteIds(r)
    BY <2>5 DEF WriteIds, CallerStep
  <2>6. ASSUME NEW d \in Types, Send(r, d)
        PROVE  SignalStays'
    BY <2>6 DEF Send
  <2> QED
    BY <1>1, <2>1, <2>2, <2>3, <2>4, <2>5, <2>6 DEF Start
<1>2. CASE Stop \/ View
  <2>1. CASE RaiseSignal
    BY <2>1 DEF RaiseSignal
  <2>2. CASE ReadForStop
    BY <2>2 DEF ReadForStop
  <2>3. CASE WriteStopping
    BY <2>3 DEF WriteStopping
  <2>4. CASE RevokeNamed
    BY <2>4 DEF RevokeNamed
  <2>5. CASE ReadForView
    BY <2>5 DEF ReadForView
  <2>6. CASE SettleStopped
    BY <2>6 DEF SettleStopped
  <2>7. CASE SweepSignal
    BY <2>7 DEF SweepSignal, DeleteSignal
  <2> QED
    BY <1>2, <2>1, <2>2, <2>3, <2>4, <2>5, <2>6, <2>7 DEF Stop, View
<1>3. ASSUME NEW t \in Tasks, Work(t) \/ Fault(t)
      PROVE  SignalStays'
  <2>1. CASE Deliver(t)
    BY <2>1 DEF Deliver, WorkerStep
  <2>2. CASE Drop(t)
    BY <2>2 DEF Drop, End
  <2>3. CASE QuitAtStart(t)
    BY <2>3 DEF QuitAtStart, End
  <2>4. CASE PassStart(t)
    BY <2>4 DEF PassStart, WorkerStep
  <2>5. CASE ReadRecord(t)
    BY <2>5 DEF ReadRecord, WorkerStep
  <2>6. CASE AnnounceRunning(t)
    BY <2>6 DEF AnnounceRunning, WorkerStep
  <2>7. CASE Poll(t)
    BY <2>7 DEF Poll, WorkerStep
  <2>8. CASE MarkCurrent(t)
    BY <2>8 DEF MarkCurrent, WorkerStep
  <2>9. CASE Process(t)
    BY <2>9 DEF Process, WorkerStep
  <2>10. CASE StopTask(t)
    BY <2>10 DEF StopTask, WriteLast, End
  <2>11. CASE FinishTask(t)
    BY <2>11 DEF FinishTask, WriteLast, End
  <2>12. CASE Redeliver(t)
    BY <2>12 DEF Redeliver
  <2>13. CASE Terminate(t)
    BY <2>13 DEF Terminate, End
  <2>14. CASE Kill(t)
    BY <2>14 DEF Kill, End
  <2> QED
    BY <1>3, <2>1, <2>2, <2>3, <2>4, <2>5, <2>6, <2>7, <2>8, <2>9, <2>10, <2>11, <2>12,
       <2>13, <2>14 DEF Work, Fault
<1>4. CASE UNCHANGED vars
  BY <1>4 DEF vars
<1> QED
  BY <1>1, <1>2, <1>3, <1>4 DEF Next
-----------------------------------------------------------------------------
\* Before the first request no job runs and nothing was counted.
LEMMA InitHolds == Init => IInv
<1> SUFFICES ASSUME Init PROVE IInv
  OBVIOUS
<1> USE BackfillAssumption DEF Init
<1>1. TypeOK
  <2>1. signal \in BOOLEAN /\ erased \in BOOLEAN /\ broken \in BOOLEAN
    OBVIOUS
  <2>2. left \in [Tasks -> 0 .. Items]
    OBVIOUS
  <2>3. late \in [Tasks -> 0 .. 2]
    OBVIOUS
  <2>4. stops \in 0 .. MaxStops /\ faults \in 0 .. MaxFaults /\ processed \in Nat
    OBVIOUS
  <2>5. /\ wanted \in [Starts -> SUBSET Types] /\ sent \in [Starts -> SUBSET Tasks]
        /\ revoked \subseteq Tasks /\ aimed \subseteq Tasks
    OBVIOUS
  <2> QED
    BY <2>1, <2>2, <2>3, <2>4, <2>5 DEF TypeOK
<1>2. CopiesInHand /\ SentFirst
  BY DEF CopiesInHand, SentFirst, HasCopy
<1>3. CountsReal /\ RunningOwned /\ SignalStays
  BY DEF CountsReal, RunningOwned, Says, SignalStays, HasCopy
<1> QED
  BY <1>1, <1>2, <1>3 DEF IInv, Shape

\* The invariant holds in every reachable state.
THEOREM Invariance == Spec => []IInv
<1>1. IInv /\ [Next]_vars => IInv'
  BY ShapeStep, SentStep, CountsStep, OwnedStep, SignalStep DEF IInv
<1> QED
  BY InitHolds, <1>1, PTL DEF Spec

\* Variables keep to their values: no task goes through more items than it has.
THEOREM TypeCorrect == Spec => []TypeOK
<1>1. IInv => TypeOK
  BY DEF IInv, Shape
<1> QED
  BY Invariance, <1>1, PTL

\* The progress that start_backfill, stop_backfill, get_progress and the tasks write
\* over each other never counts an item that no task went through.
THEOREM ProgressIsReal == Spec => []ProgressNotAhead
<1>1. IInv => ProgressNotAhead
  BY DEF IInv, CountsReal, ProgressNotAhead
<1> QED
  BY Invariance, <1>1, PTL

\* A record that says "running" has a live task, or one ended abnormally.
THEOREM RunningIsOwned == Spec => []RunningHasRunner
<1>1. IInv => RunningHasRunner
  BY DEF IInv, RunningOwned, RunningHasRunner, Owner, HasCopy, Alive, Executing
<1> QED
  BY Invariance, <1>1, PTL

\* A stop whose signal is left in place costs each task one item at most.
THEOREM PromptStop == Spec => []SignalHonoured
<1>1. IInv => SignalHonoured
  BY DEF IInv, SignalStays, SignalHonoured
<1> QED
  BY Invariance, <1>1, PTL
=============================================================================
