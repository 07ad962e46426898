------------------------ MODULE SmartWorkflow_proofs ------------------------
(***************************************************************************)
(* Theorems about SmartWorkflow, for any number of workflows, steps, calls *)
(* and runs, and any bounds.                                               *)
(***************************************************************************)
EXTENDS SmartWorkflow, NumberSets, SequenceTheorems

CallRecord == [op : {"none", "resume", "paused", "stopped", "get_running"},
               at : CallState, wf : Workflows \cup {None},
               run : 0 .. MaxRuns, children : Seq(Child)]
RunRecord == [at : RunState, wf : Workflows \cup {None}, resume : BOOLEAN,
              children : Seq(Child), step : 0 .. NumSteps,
              id : Ids \cup {None}, holder : Ids \cup {None, Rival},
              result : Status \cup {"none", "raised"}, late : 0 .. 2]
Document == [status : Status, children : Seq(Child)]

\* A call that has claimed the running key and has not sent its message.
WithClaim == {"unpausing", "unstopping", "saving", "sending"}
CallsOwnRuns ==
    /\ \A c \in Calls :
           IF call[c].at \in WithClaim
           THEN /\ call[c].run \in Runs
                /\ run[call[c].run].at = "claimed" /\ Wf(call[c].run) = call[c].wf
           ELSE call[c].run = 0
    /\ \A b, c \in Calls : call[b].at \in WithClaim /\ call[b].run = call[c].run
                               => b = c

LastOf(children) == children[Len(children)]
InLoop == InTry \ {"close"}
RunWellFormed(r) ==
    /\ run[r].at # "absent" => Wf(r) \in Workflows
    /\ run[r].at \in InLoop \ {"stopped"} => run[r].step \in Steps
    /\ run[r].at \in {"add", "import", "record"} =>
           run[r].id \in {r} \X {run[r].step} \X (0 .. MaxLost)
    /\ run[r].at \in {"import", "record"} =>
           Len(run[r].children) > 0 /\ LastOf(run[r].children).id = run[r].id
    /\ run[r].at = "record" =>
           LastOf(run[r].children).status \in {"completed", "failed", "stopped"}
    /\ run[r].at = "close" =>
           run[r].result \in {"completed", "failed", "paused", "stopped"}
CallWellFormed(c) ==
    /\ call[c].at \notin {"idle", "done"} => call[c].wf \in Workflows
    /\ call[c].at \in {"flagged", "signalling", "marking"} =>
           call[c].op \in {"paused", "stopped"}
    /\ call[c].at = "signalling" => LastRunning(call[c].children) # 0
WellFormed ==
    /\ \A r \in Runs : RunWellFormed(r)
    /\ \A c \in Calls : CallWellFormed(c)
    /\ runningKey # None => run[runningKey].at # "absent"

\* A step writes the record of one run, which stays with its workflow.
OnlyRun(r) == /\ run' \in [Runs -> RunRecord]
              /\ \A q \in Runs \ {r} : run'[q] = run[q]
              /\ run'[r].wf = run[r].wf

RunsOK == run \in [Runs -> RunRecord] /\ \A r \in Runs : RunWellFormed(r)

\* Where a message is under way, or its run has not given the running key up yet.
Acting == {"queued", "mark", "release"} \cup InTry

\* One run moves; it does not become live again unless its message comes again.
RunMove(r) ==
    /\ OnlyRun(r) /\ RunWellFormed(r)'
    /\ run[r].at \in {"queued", "done"} \cup Executing
    /\ run'[r].at \notin {"absent", "claimed"}
    /\ run'[r].at \in Acting => run[r].at \in Acting \/ WorkerLost(r)
    /\ run'[r].at \in {"add", "import"} => TakeLock(r) \/ AddChild(r)
-----------------------------------------------------------------------------
\* What comes from outside the workflow changes locks and signals, no run or call.
LEMMA OthersAlone ==
    ASSUME NEW s \in Steps, OtherStep(s)
    PROVE  /\ runningKey' = runningKey /\ state' = state
           /\ pauseFlag' = pauseFlag /\ stopFlag' = stopFlag
           /\ call' = call /\ run' = run
           /\ breach' = breach /\ imported' = imported
<1>1. CASE RivalChecks(s) \/ RivalStarts(s) \/ RivalMoves(s)
  BY <1>1 DEF RivalChecks, RivalStarts, RivalMoves, keys, flagVars, history
<1>2. CASE RivalReturns(s) \/ RivalEnds(s)
  BY <1>2 DEF RivalReturns, RivalEnds, keys, flagVars, history
<1>3. CASE LockExpires(s) \/ StopImport(s)
  BY <1>3 DEF LockExpires, StopImport, flagVars
<1> QED
  BY <1>1, <1>2, <1>3 DEF OtherStep

\* The smallest of the steps that are left is one of them, and those before it
\* are on record as completed.
LEMMA FirstToDo ==
    ASSUME NEW s \in Nat \ {0}, NEW children, ToDo(s, children) # {}
    PROVE  /\ Min(ToDo(s, children)) \in Steps
           /\ Min(ToDo(s, children)) >= s
           /\ \A u \in Steps : s <= u /\ u < Min(ToDo(s, children))
                                   => u \in Completed(children)
<1> USE StepsAssumption
<1> DEFINE S == ToDo(s, children)
<1>1. S \in SUBSET (s .. NumSteps)
  BY DEF ToDo
<1>2. S \in SUBSET Nat /\ S # {}
  BY <1>1
<1>3. Min(S) \in S /\ \A k \in S : Min(S) <= k
  <2> HIDE DEF S
  <2> QED
    BY <1>2, MinOf
<1>4. Min(S) \in s .. NumSteps
  BY <1>1, <1>3
<1>5. ASSUME NEW u \in Steps, s <= u, u < Min(S)
      PROVE  u \in Completed(children)
  <2>1. u \notin S
    BY <1>3, <1>4, <1>5 DEF Steps
  <2>2. u \in s .. NumSteps
    BY <1>5 DEF Steps
  <2> QED
    BY <2>1, <2>2 DEF ToDo
<1> QED
  BY <1>4, <1>5 DEF Steps

\* The index of the last running child is one, and 0 if there is none.
LEMMA LastRunningChild ==
    ASSUME NEW children \in Seq(Child)
    PROVE  /\ LastRunning(children) \in 0 .. Len(children)
           /\ LastRunning(children) # 0 =>
                  /\ LastRunning(children) \in 1 .. Len(children)
                  /\ children[LastRunning(children)].status = "running"
<1> DEFINE S == {i \in DOMAIN children : children[i].status = "running"}
<1>1. Len(children) \in Nat /\ DOMAIN children = 1 .. Len(children)
  BY LenProperties
<1>2. CASE S = {}
  BY <1>1, <1>2 DEF LastRunning
<1>3. CASE S # {}
  <2>1. LastRunning(children) = Max(S)
    BY <1>3 DEF LastRunning
  <2>2. S \in SUBSET (0 .. Len(children))
    BY <1>1
  <2>3. Max(S) \in S
    <3> HIDE DEF S
    <3> QED
      BY <1>1, <1>3, <2>2, MaxOf
  <2> QED
    BY <1>1, <2>1, <2>3
<1> QED
  BY <1>2, <1>3

\* What a resumed run takes over are children of the state that completed.
LEMMA OnlyCompleted ==
    ASSUME NEW children \in Seq(Child)
    PROVE  /\ CompletedOnly(children) \in Seq(Child)
           /\ \A i \in DOMAIN CompletedOnly(children) :
                  \E j \in DOMAIN children : CompletedOnly(children)[i] = children[j]
<1> DEFINE N == Len(children)
           Step(f, n) == IF n = 0 THEN <<>>
                         ELSE IF children[n].status = "completed"
                              THEN Append(f[n - 1], children[n]) ELSE f[n - 1]
           Taken(q) == \A i \in DOMAIN q : \E j \in DOMAIN children : q[i] = children[j]
           Good == {q \in Seq(Child) : Taken(q)}
           Upto(f, n) == /\ f \in [0 .. n -> Good]
                         /\ \A i \in 0 .. n : f[i] = Step(f, i)
<1>1. N \in Nat /\ DOMAIN children = 1 .. N
  BY LenProperties
<1>2. <<>> \in Good
  OBVIOUS
<1>3. ASSUME NEW q \in Good, NEW j \in 1 .. N
      PROVE  Append(q, children[j]) \in Good
  <2>1. q \in Seq(Child) /\ children[j] \in Child /\ Taken(q)
    BY <1>1, <1>3
  <2> DEFINE p == Append(q, children[j])
  <2>2. /\ p \in Seq(Child) /\ DOMAIN p = 1 .. Len(q) + 1
        /\ DOMAIN q = 1 .. Len(q) /\ Len(q) \in Nat
        /\ p[Len(q) + 1] = children[j]
        /\ \A i \in 1 .. Len(q) : p[i] = q[i]
    BY <2>1, AppendProperties, LenProperties
  <2> HIDE DEF p
  <2>3. Taken(p)
    <3> SUFFICES ASSUME NEW i \in DOMAIN p
                 PROVE  \E k \in DOMAIN children : p[i] = children[k]
      OBVIOUS
    <3>1. CASE i = Len(q) + 1
      BY <1>1, <2>2, <3>1
    <3>2. CASE i \in 1 .. Len(q)
      BY <2>1, <2>2, <3>2
    <3> QED
      BY <2>2, <3>1, <3>2
  <2> QED
    BY <2>2, <2>3 DEF p
<1>4. \A n \in 0 .. N : \E f : Upto(f, n)
  <2> DEFINE Bad == {n \in 0 .. N : ~ \E f : Upto(f, n)}
  <2>1. SUFFICES ASSUME Bad # {}
                 PROVE  FALSE
    OBVIOUS
  <2>2. Bad \in SUBSET Nat
    BY <1>1
  <2>3. PICK m \in Bad : \A k \in Bad : m <= k
    <3> HIDE DEF Bad
    <3> QED
      BY <2>1, <2>2, Smallest
  <2>4. m \in 0 .. N /\ ~ \E f : Upto(f, m)
    OBVIOUS
  <2>5. CASE m = 0
    <3> DEFINE f == [i \in 0 .. 0 |-> <<>>]
    <3>1. Upto(f, 0)
      BY <1>2
    <3> QED
      BY <2>4, <2>5, <3>1
  <2>6. CASE m # 0
    <3>1. m - 1 \in 0 .. N /\ m - 1 \notin Bad
      <4> HIDE DEF Bad
      <4> QED
        BY <1>1, <2>3, <2>4, <2>6
    <3>2. PICK f : Upto(f, m - 1)
      BY <3>1
    <3> DEFINE g == [i \in 0 .. m |-> IF i = m THEN Step(f, m) ELSE f[i]]
    <3> HIDE DEF Good
    <3>3. Step(f, m) \in Good
      <4>1. f[m - 1] \in Good /\ m \in 1 .. N
        BY <1>1, <2>4, <2>6, <3>2
      <4> QED
        BY <1>3, <2>6, <4>1
    <3>4. g \in [0 .. m -> Good]
      <4>1. \A i \in 0 .. m : i # m => i \in 0 .. m - 1
        BY <1>1, <2>4
      <4> QED
        BY <3>2, <3>3, <4>1
    <3>5. ASSUME NEW i \in 0 .. m
          PROVE  g[i] = Step(g, i)
      <4>1. i \in Nat /\ m \in Nat
        BY <1>1, <2>4
      <4>2. i # 0 => i - 1 \in 0 .. m /\ g[i - 1] = f[i - 1]
        BY <3>5, <4>1
      <4>3. Step(g, i) = Step(f, i)
        BY <4>2
      <4>4. i # m => i \in 0 .. m - 1
        BY <3>5, <4>1
      <4>5. i # m => f[i] = Step(f, i)
        BY <3>2, <4>4
      <4> QED
        BY <4>3, <4>5
    <3>6. Upto(g, m)
      BY <3>4, <3>5
    <3> QED
      BY <2>4, <3>6
  <2> QED
    BY <2>5, <2>6
<1>5. PICK f : Upto(f, N)
  <2> HIDE DEF Upto
  <2>1. N \in 0 .. N
    BY <1>1
  <2> QED
    BY <1>4, <2>1
<1> DEFINE Fits(g) == g = [n \in 0 .. N |-> Step(g, n)]
           kept == CHOOSE g : Fits(g)
<1>6. Fits(f)
  BY <1>5
<1>7. Fits(kept)
  BY <1>6
<1>8. CompletedOnly(children) = kept[N]
  BY DEF CompletedOnly
<1>9. \A n \in 0 .. N : kept[n] \in Good
  <2> DEFINE Bad == {n \in 0 .. N : kept[n] \notin Good}
  <2>1. SUFFICES ASSUME Bad # {}
                 PROVE  FALSE
    OBVIOUS
  <2>2. Bad \in SUBSET Nat
    BY <1>1
  <2>3. PICK m \in Bad : \A k \in Bad : m <= k
    <3> HIDE DEF Bad
    <3> QED
      BY <2>1, <2>2, Smallest
  <2>4. m \in 0 .. N /\ kept[m] \notin Good
    OBVIOUS
  <2> HIDE DEF kept
  <2>5. kept[m] = Step(kept, m)
    BY <1>7, <2>4
  <2>6. CASE m = 0
    BY <1>2, <2>4, <2>5, <2>6
  <2>7. CASE m # 0
    <3> HIDE DEF Good
    <3>1. m - 1 \in 0 .. N /\ m - 1 \notin Bad /\ m \in 1 .. N
      BY <1>1, <2>3, <2>4, <2>7
    <3>2. kept[m - 1] \in Good
      BY <3>1
    <3>3. Step(kept, m) \in Good
      BY <1>3, <2>7, <3>1, <3>2
    <3> QED
      BY <2>4, <2>5, <3>3
  <2> QED
    BY <2>6, <2>7
<1>10. kept[N] \in Good
  <2> HIDE DEF kept, Good
  <2>1. N \in 0 .. N
    BY <1>1
  <2> QED
    BY <1>9, <2>1
<1> QED
  BY <1>8, <1>10
-----------------------------------------------------------------------------
\* The records and their fields.
LEMMA Typed ==
    ASSUME TypeOK
    PROVE  /\ run \in [Runs -> RunRecord] /\ call \in [Calls -> CallRecord]
           /\ state \in [Workflows -> Document]
BY Zenon DEF TypeOK, RunRecord, CallRecord, Document

\* The values of the fields of a run.
LEMMA RunFields ==
    ASSUME NEW m \in RunRecord
    PROVE  /\ m.at \in RunState /\ m.wf \in Workflows \cup {None}
           /\ m.resume \in BOOLEAN /\ m.children \in Seq(Child)
           /\ m.step \in 0 .. NumSteps /\ m.id \in Ids \cup {None}
           /\ m.holder \in Ids \cup {None, Rival}
           /\ m.result \in Status \cup {"none", "raised"} /\ m.late \in 0 .. 2
BY DEF RunRecord

\* The values of the fields of a call.
LEMMA CallFields ==
    ASSUME NEW m \in CallRecord
    PROVE  /\ m.op \in {"none", "resume", "paused", "stopped", "get_running"}
           /\ m.at \in CallState /\ m.wf \in Workflows \cup {None}
           /\ m.run \in 0 .. MaxRuns /\ m.children \in Seq(Child)
BY DEF CallRecord

\* What the operations on them leave in the fields.
LEMMA Moved ==
    ASSUME run \in [Runs -> RunRecord], NEW r \in Runs, NEW at \in RunState, Move(r, at)
    PROVE  /\ run' \in [Runs -> RunRecord]
           /\ \A q \in Runs \ {r} : run'[q] = run[q]
           /\ run'[r].at = at
           /\ run'[r].wf = run[r].wf /\ run'[r].resume = run[r].resume
           /\ run'[r].children = run[r].children /\ run'[r].step = run[r].step
           /\ run'[r].id = run[r].id /\ run'[r].holder = run[r].holder
           /\ run'[r].result = run[r].result /\ run'[r].late = run[r].late
BY DEF Move, RunRecord

\* A run that is over keeps its workflow and nothing else.
LEMMA OverFields ==
    ASSUME run \in [Runs -> RunRecord], NEW r \in Runs, NEW at \in RunState
    PROVE  /\ Over(r, at) \in RunRecord
           /\ Over(r, at).at = at
           /\ Over(r, at).wf = run[r].wf /\ Over(r, at).resume = run[r].resume
           /\ Over(r, at).children = <<>> /\ Over(r, at).step = 0
           /\ Over(r, at).id = None /\ Over(r, at).holder = None
           /\ Over(r, at).result = "none" /\ Over(r, at).late = 0
<1>1. run[r].wf \in Workflows \cup {None} /\ run[r].resume \in BOOLEAN
  BY RunFields
<1>2. <<>> \in Seq(Child) /\ 0 \in 0 .. NumSteps
  BY StepsAssumption
<1>3. NoRun \in RunRecord
  BY <1>2 DEF NoRun, RunRecord, RunState
<1>4. Over(r, at) \in RunRecord
  BY <1>1, <1>3 DEF Over, RunRecord
<1>5. /\ Over(r, at).at = at
      /\ Over(r, at).wf = run[r].wf /\ Over(r, at).resume = run[r].resume
  BY DEF Over, NoRun
<1>6. /\ Over(r, at).children = <<>> /\ Over(r, at).step = 0
      /\ Over(r, at).id = None /\ Over(r, at).holder = None
      /\ Over(r, at).result = "none" /\ Over(r, at).late = 0
  BY DEF Over, NoRun
<1> QED
  BY <1>4, <1>5, <1>6

\* The end of a run touches that run only.
LEMMA Ended ==
    ASSUME run \in [Runs -> RunRecord], NEW r \in Runs, NEW at \in RunState, End(r, at)
    PROVE  /\ run' \in [Runs -> RunRecord]
           /\ \A q \in Runs \ {r} : run'[q] = run[q]
           /\ run'[r].at = at
           /\ run'[r].wf = run[r].wf /\ run'[r].resume = run[r].resume
           /\ run'[r].children = <<>> /\ run'[r].step = 0
           /\ run'[r].id = None /\ run'[r].holder = None
           /\ run'[r].result = "none" /\ run'[r].late = 0
BY OverFields DEF End

\* A run with a result goes on to write it, with the children it has.
LEMMA Concluded ==
    ASSUME run \in [Runs -> RunRecord], NEW r \in Runs, NEW children \in Seq(Child),
           NEW result \in Status, Conclude(r, result, children)
    PROVE  /\ run' \in [Runs -> RunRecord]
           /\ \A q \in Runs \ {r} : run'[q] = run[q]
           /\ run'[r].at = "close"
           /\ run'[r].wf = run[r].wf /\ run'[r].resume = run[r].resume
           /\ run'[r].children = children /\ run'[r].step = 0
           /\ run'[r].id = None /\ run'[r].holder = None
           /\ run'[r].result = result /\ run'[r].late = 0
<1> DEFINE over == Over(r, "close")
<1>1. "close" \in RunState
  BY DEF RunState, Executing, InTry
<1>2. over \in RunRecord
  BY <1>1, OverFields
<1>3. run' = [run EXCEPT ![r] = [over EXCEPT !.children = children, !.result = result]]
  BY DEF Conclude
<1>4. /\ over.at = "close"
      /\ over.wf = run[r].wf /\ over.resume = run[r].resume
      /\ over.step = 0 /\ over.id = None /\ over.holder = None /\ over.late = 0
  BY <1>1, OverFields
<1> HIDE DEF over
<1>5. [over EXCEPT !.children = children, !.result = result] \in RunRecord
  BY <1>2 DEF RunRecord
<1>6. run'[r] = [over EXCEPT !.children = children, !.result = result]
  BY <1>3
<1> QED
  BY <1>2, <1>3, <1>4, <1>5, <1>6 DEF RunRecord

\* The loop goes to the first step that is left, or to its end.
LEMMA Proceeded ==
    ASSUME run \in [Runs -> RunRecord], NEW r \in Runs, NEW s \in Nat \ {0},
           NEW children \in Seq(Child), Proceed(r, s, children)
    PROVE  /\ run' \in [Runs -> RunRecord]
           /\ \A q \in Runs \ {r} : run'[q] = run[q]
           /\ run'[r].wf = run[r].wf /\ run'[r].resume = run[r].resume
           /\ run'[r].children = children
           /\ run'[r].id = None /\ run'[r].holder = None
           /\ \/ /\ run'[r].at = "close" /\ run'[r].result = "completed"
                 /\ run'[r].late = 0
                 /\ \A u \in Steps : s <= u => u \in Completed(children)
              \/ /\ run'[r].at = "pause?" /\ run'[r].result = "none"
                 /\ run'[r].step \in Steps /\ run'[r].late = run[r].late
                 /\ \A u \in Steps : s <= u /\ u < run'[r].step
                                         => u \in Completed(children)
<1>1. CASE ToDo(s, children) = {}
  <2>1. Conclude(r, "completed", children) /\ "completed" \in Status
    BY <1>1 DEF Proceed, Status
  <2>2. \A u \in Steps : s <= u => u \in Completed(children)
    <3>1. \A u \in Steps : s <= u => u \in s .. NumSteps
      BY StepsAssumption DEF Steps
    <3> QED
      BY <1>1, <3>1 DEF ToDo
  <2> QED
    BY <2>1, <2>2, Concluded
<1>2. CASE ToDo(s, children) # {}
  <2> DEFINE over == Over(r, "pause?")
             step == Min(ToDo(s, children))
             late == run[r].late
             new == [over EXCEPT !.children = children, !.step = step, !.late = late]
  <2>1. "pause?" \in RunState
    BY DEF RunState, Executing, InTry
  <2>2. over \in RunRecord
    BY <2>1, OverFields
  <2>3. run' = [run EXCEPT ![r] = new]
    BY <1>2 DEF Proceed
  <2>4. /\ over.at = "pause?"
        /\ over.wf = run[r].wf /\ over.resume = run[r].resume
        /\ over.id = None /\ over.holder = None /\ over.result = "none"
    BY <2>1, OverFields
  <2>5. late \in 0 .. 2
    BY RunFields
  <2>6. step \in Steps /\ \A u \in Steps : s <= u /\ u < step => u \in Completed(children)
    BY <1>2, FirstToDo
  <2>7. step \in 0 .. NumSteps
    BY <2>6, StepsAssumption DEF Steps
  <2> HIDE DEF over, late, step
  <2>8. new \in RunRecord
    BY <2>2, <2>5, <2>7 DEF RunRecord
  <2>9. /\ new.at = over.at /\ new.wf = over.wf /\ new.resume = over.resume
        /\ new.children = children /\ new.step = step /\ new.late = late
        /\ new.id = over.id /\ new.holder = over.holder /\ new.result = over.result
    BY <2>2 DEF RunRecord
  <2> HIDE DEF new
  <2>10. run'[r] = new /\ run' \in [Runs -> RunRecord]
         /\ \A q \in Runs \ {r} : run'[q] = run[q]
    BY <2>3, <2>8
  <2> QED
    BY <2>4, <2>6, <2>9, <2>10 DEF late
<1> QED
  BY <1>1, <1>2

\* A write of a state document touches that workflow only.
LEMMA Saved ==
    ASSUME state \in [Workflows -> Document], NEW w \in Workflows,
           NEW status \in Status, NEW children \in Seq(Child), Save(w, status, children)
    PROVE  /\ state' \in [Workflows -> Document]
           /\ \A v \in Workflows \ {w} : state'[v] = state[v]
           /\ state'[w].status = status /\ state'[w].children = children
BY DEF Save, Document

\* A call that goes on keeps what it read.
LEMMA Went ==
    ASSUME call \in [Calls -> CallRecord], NEW c \in Calls, NEW at \in CallState,
           Goto(c, at)
    PROVE  /\ call' \in [Calls -> CallRecord]
           /\ \A b \in Calls \ {c} : call'[b] = call[b]
           /\ call'[c].at = at
           /\ call'[c].op = call[c].op /\ call'[c].wf = call[c].wf
           /\ call'[c].run = call[c].run /\ call'[c].children = call[c].children
BY DEF Goto, CallRecord

\* A call that returns forgets what it read.
LEMMA Returned ==
    ASSUME call \in [Calls -> CallRecord], NEW c \in Calls, Return(c)
    PROVE  /\ call' \in [Calls -> CallRecord]
           /\ \A b \in Calls \ {c} : call'[b] = call[b]
           /\ call'[c].at = "done" /\ call'[c].run = 0 /\ call'[c].children = <<>>
<1>1. call[c].wf \in Workflows \cup {None}
  BY CallFields
<1>2. <<>> \in Seq(Child) /\ 0 \in 0 .. MaxRuns
  BY BoundsAssumption
<1> QED
  BY <1>1, <1>2 DEF Return, NoCall, CallRecord, CallState

\* A call begins with nothing read.
LEMMA Began ==
    ASSUME call \in [Calls -> CallRecord], NEW c \in Calls, NEW w \in Workflows,
           NEW op \in {"none", "resume", "paused", "stopped", "get_running"},
           NEW at \in CallState, Begin(c, op, at, w)
    PROVE  /\ call' \in [Calls -> CallRecord]
           /\ \A b \in Calls \ {c} : call'[b] = call[b]
           /\ call'[c].at = at /\ call'[c].op = op /\ call'[c].wf = w
           /\ call'[c].run = 0 /\ call'[c].children = <<>>
<1>1. <<>> \in Seq(Child) /\ 0 \in 0 .. MaxRuns
  BY BoundsAssumption
<1> QED
  BY <1>1 DEF Begin, NoCall, CallRecord

ClaimedBy(c, w, at) == \E resumed \in BOOLEAN : Claim(c, w, at, resumed)

\* A call that takes the running key names a run nobody used, and no other call
\* and no other run is touched.
LEMMA Claims ==
    ASSUME run \in [Runs -> RunRecord], call \in [Calls -> CallRecord],
           NEW c \in Calls, NEW w \in Workflows, NEW at \in CallState,
           ClaimedBy(c, w, at)
    PROVE  \E r \in Runs :
               /\ run[r].at = "absent" /\ runningKey' = r
               /\ run' \in [Runs -> RunRecord] /\ call' \in [Calls -> CallRecord]
               /\ \A q \in Runs \ {r} : run'[q] = run[q]
               /\ run'[r].at = "claimed" /\ run'[r].wf = w
               /\ run'[r].children = <<>> /\ run'[r].late = 0
               /\ \A b \in Calls \ {c} : call'[b] = call[b]
               /\ call'[c].at = at /\ call'[c].wf = w /\ call'[c].run = r
               /\ call'[c].op = call[c].op /\ call'[c].children = call[c].children
<1>1. PICK resumed \in BOOLEAN, r \in Runs :
          /\ Unsent(r) /\ runningKey' = r
          /\ run' = [run EXCEPT ![r] = [NoRun EXCEPT !.at = "claimed", !.wf = w,
                                                     !.resume = resumed]]
          /\ call' = [call EXCEPT ![c] = [@ EXCEPT !.at = at, !.wf = w, !.run = r]]
  BY DEF ClaimedBy, Claim
<1> DEFINE new == [NoRun EXCEPT !.at = "claimed", !.wf = w, !.resume = resumed]
           old == call[c]
           got == [old EXCEPT !.at = at, !.wf = w, !.run = r]
<1>2. <<>> \in Seq(Child) /\ 0 \in 0 .. NumSteps /\ r \in 0 .. MaxRuns
  BY StepsAssumption, BoundsAssumption DEF Runs
<1>3. NoRun \in RunRecord
  BY <1>2 DEF NoRun, RunRecord, RunState
<1>4. new \in RunRecord
  BY <1>3 DEF RunRecord, RunState
<1>5. new.at = "claimed" /\ new.wf = w /\ new.children = <<>> /\ new.late = 0
  BY DEF NoRun
<1>6. old \in CallRecord
  OBVIOUS
<1>7. call' = [call EXCEPT ![c] = got]
  BY <1>1
<1> HIDE DEF new, old
<1>8. got \in CallRecord
  BY <1>2, <1>6 DEF CallRecord
<1>9. /\ got.at = at /\ got.wf = w /\ got.run = r
      /\ got.op = old.op /\ got.children = old.children
  BY <1>6 DEF CallRecord
<1> HIDE DEF got
<1>10. /\ run' \in [Runs -> RunRecord] /\ run'[r] = new
       /\ \A q \in Runs \ {r} : run'[q] = run[q]
  BY <1>1, <1>4 DEF new
<1>11. /\ call' \in [Calls -> CallRecord] /\ call'[c] = got
       /\ \A b \in Calls \ {c} : call'[b] = call[b]
  BY <1>7, <1>8
<1>12. run[r].at = "absent"
  BY <1>1 DEF Unsent
<1> QED
  BY <1>1, <1>5, <1>9, <1>10, <1>11, <1>12, ZenonT(40) DEF old

\* A call that fails gives up its message, if it had one.
LEMMA Fails ==
    ASSUME run \in [Runs -> RunRecord], NEW c \in Calls, CallFails(c)
    PROVE  /\ run' \in [Runs -> RunRecord]
           /\ \A r \in Runs : r # call[c].run => run'[r] = run[r]
           /\ \A r \in Runs : r = call[c].run =>
                  /\ run'[r].at = "gone" /\ run'[r].wf = run[r].wf
                  /\ run'[r].children = <<>> /\ run'[r].late = 0
<1>1. run' = [r \in Runs |-> IF r = call[c].run THEN Over(r, "gone") ELSE run[r]]
  BY DEF CallFails
<1>2. \A r \in Runs : /\ Over(r, "gone") \in RunRecord
                      /\ Over(r, "gone").at = "gone" /\ Over(r, "gone").wf = run[r].wf
                      /\ Over(r, "gone").children = <<>> /\ Over(r, "gone").late = 0
  BY OverFields DEF RunState
<1> QED
  BY <1>1, <1>2

\* The lock is taken by a run that found it free, and kept by nobody else.
LEMMA Locks ==
    ASSUME TypeOK, NEW r \in Runs, run[r].step \in Steps, TakeLock(r)
    PROVE  /\ run' \in [Runs -> RunRecord]
           /\ \A q \in Runs \ {r} : run'[q] = run[q]
           /\ run'[r].wf = run[r].wf /\ run'[r].children = run[r].children
           /\ run'[r].step = run[r].step /\ run'[r].late = run[r].late
           /\ run[r].at \in {"lock", "relock"}
           /\ lock' \in [Steps -> Ids \cup {None, Rival}]
           /\ \/ /\ run'[r].at = "add" /\ run'[r].id = <<r, run[r].step, lostCount>>
                 /\ lock[run[r].step] = None
                 /\ lock' = [lock EXCEPT ![run[r].step] = <<r, run[r].step, lostCount>>]
              \/ run'[r].at \in {"holder", "refuse"} /\ lock' = lock
<1> DEFINE s == run[r].step
           id == <<r, s, lostCount>>
<1>1. /\ run \in [Runs -> RunRecord] /\ lock \in [Steps -> Ids \cup {None, Rival}]
      /\ lostCount \in 0 .. MaxLost
  BY Typed DEF TypeOK
<1>2. PICK otherwise \in {"holder", "refuse"} : GetLock(r, otherwise)
  BY DEF TakeLock
<1>3. run[r].at \in {"lock", "relock"}
  BY DEF TakeLock, In
<1>4. id \in Ids
  BY <1>1 DEF Ids
<1>5. CASE lock[s] = None
  <2>1. /\ lock' = [lock EXCEPT ![s] = id]
        /\ run' = [run EXCEPT ![r].at = "add", ![r].id = id]
    BY <1>2, <1>5 DEF GetLock
  <2> DEFINE old == run[r]
             new == [old EXCEPT !.at = "add", !.id = id]
  <2>2. old \in RunRecord /\ "add" \in RunState
    BY <1>1 DEF RunState, Executing, InTry
  <2>3. run' = [run EXCEPT ![r] = new]
    BY <2>1
  <2> HIDE DEF old, id
  <2>4. /\ new \in RunRecord
        /\ new.at = "add" /\ new.id = id /\ new.wf = old.wf /\ new.late = old.late
        /\ new.children = old.children /\ new.step = old.step
    BY <1>4, <2>2 DEF RunRecord
  <2> HIDE DEF new
  <2>5. run' \in [Runs -> RunRecord] /\ run'[r] = new /\ \A q \in Runs \ {r} : run'[q] = run[q]
    BY <1>1, <2>3, <2>4
  <2>6. lock' \in [Steps -> Ids \cup {None, Rival}]
    BY <1>1, <1>4, <2>1
  <2> QED
    BY <1>3, <1>5, <2>1, <2>4, <2>5, <2>6 DEF old, id
<1>6. CASE lock[s] # None
  <2>1. Move(r, otherwise) /\ lock' = lock
    BY <1>2, <1>6 DEF GetLock
  <2>2. otherwise \in RunState
    BY DEF RunState, Executing, InTry
  <2> QED
    BY <1>1, <1>3, <2>1, <2>2, Moved
<1> QED
  BY <1>5, <1>6

\* A run that lost the race for an import lock looks at the holder or refuses.
LEMMA ReadsHolder ==
    ASSUME TypeOK, NEW r \in Runs, run[r].step \in Steps, ReadHolder(r)
    PROVE  /\ run' \in [Runs -> RunRecord]
           /\ \A q \in Runs \ {r} : run'[q] = run[q]
           /\ run'[r].wf = run[r].wf /\ run'[r].children = run[r].children
           /\ run'[r].step = run[r].step /\ run'[r].late = run[r].late
           /\ run'[r].at \in {"refuse", "inspect"}
<1> DEFINE holder == lock[run[r].step]
           at == IF holder = None THEN "refuse" ELSE "inspect"
           old == run[r]
           new == [old EXCEPT !.holder = holder, !.at = at]
<1>1. run \in [Runs -> RunRecord] /\ holder \in Ids \cup {None, Rival}
  BY Typed DEF TypeOK
<1>2. at \in {"refuse", "inspect"} /\ at \in RunState
  BY DEF RunState, Executing, InTry
<1>3. run' = [run EXCEPT ![r] = new] /\ old \in RunRecord
  BY <1>1 DEF ReadHolder
<1> HIDE DEF holder, at, old
<1>4. /\ new \in RunRecord
      /\ new.at = at /\ new.wf = old.wf /\ new.late = old.late
      /\ new.children = old.children /\ new.step = old.step
  BY <1>1, <1>2, <1>3 DEF RunRecord
<1> HIDE DEF new
<1>5. run' \in [Runs -> RunRecord] /\ run'[r] = new /\ \A q \in Runs \ {r} : run'[q] = run[q]
  BY <1>1, <1>3, <1>4
<1> QED
  BY <1>2, <1>4, <1>5 DEF old

\* A run that got the lock lists the import it starts.
LEMMA AddsChild ==
    ASSUME TypeOK, NEW r \in Runs, run[r].id \in Ids, AddChild(r)
    PROVE  LET children == Append(run[r].children,
                                  [id |-> run[r].id, status |-> "running"])
           IN  /\ run' \in [Runs -> RunRecord]
               /\ \A q \in Runs \ {r} : run'[q] = run[q]
               /\ run'[r].wf = run[r].wf /\ run'[r].step = run[r].step
               /\ run'[r].id = run[r].id /\ run'[r].at = "import"
               /\ children \in Seq(Child) /\ run'[r].children = children
               /\ Flagged(Wf(r)) /\ run[r].late < 2 => run'[r].late = run[r].late + 1
               /\ ~(Flagged(Wf(r)) /\ run[r].late < 2) => run'[r].late = run[r].late
<1> DEFINE children == Append(run[r].children, [id |-> run[r].id, status |-> "running"])
           late == IF Flagged(Wf(r)) /\ run[r].late < 2 THEN run[r].late + 1 ELSE run[r].late
           old == run[r]
           new == [old EXCEPT !.at = "import", !.children = children, !.late = late]
<1>1. run \in [Runs -> RunRecord] /\ old \in RunRecord
  BY Typed
<1>2. run[r].children \in Seq(Child) /\ run[r].late \in 0 .. 2
  BY <1>1, RunFields
<1>3. [id |-> run[r].id, status |-> "running"] \in Child
  BY DEF Child, ChildStatus
<1>4. children \in Seq(Child)
  BY <1>2, <1>3, AppendProperties
<1>5. late \in 0 .. 2 /\ "import" \in RunState
  BY <1>2 DEF RunState, Executing, InTry
<1>6. run' = [run EXCEPT ![r] = new]
  BY DEF AddChild
<1>7. /\ Flagged(Wf(r)) /\ run[r].late < 2 => late = run[r].late + 1
      /\ ~(Flagged(Wf(r)) /\ run[r].late < 2) => late = run[r].late
  OBVIOUS
<1> HIDE DEF children, late, old
<1>8. /\ new \in RunRecord
      /\ new.at = "import" /\ new.wf = old.wf /\ new.late = late
      /\ new.children = children /\ new.step = old.step /\ new.id = old.id
  BY <1>1, <1>4, <1>5 DEF RunRecord
<1> HIDE DEF new
<1>9. run' \in [Runs -> RunRecord] /\ run'[r] = new /\ \A q \in Runs \ {r} : run'[q] = run[q]
  BY <1>1, <1>6, <1>8
<1> QED
  BY <1>4, <1>7, <1>8, <1>9 DEF old, children

\* One child gets another status.
LEMMA StatusSet ==
    ASSUME NEW children \in Seq(Child), NEW i \in 1 .. Len(children),
           NEW status \in ChildStatus
    PROVE  LET changed == [children EXCEPT ![i].status = status]
           IN  /\ changed \in Seq(Child) /\ Len(changed) = Len(children)
               /\ changed[i].status = status /\ changed[i].id = children[i].id
               /\ \A j \in 1 .. Len(children) : j # i => changed[j] = children[j]
<1> DEFINE old == children[i]
           new == [old EXCEPT !.status = status]
<1>1. old \in Child
  BY ElementOfSeq
<1>2. new \in Child /\ new.status = status /\ new.id = old.id
  <2> HIDE DEF old
  <2> QED
    BY <1>1 DEF Child
<1>3. [children EXCEPT ![i].status = status] = [children EXCEPT ![i] = new]
  OBVIOUS
<1> HIDE DEF new
<1>4. /\ [children EXCEPT ![i] = new] \in Seq(Child)
      /\ Len([children EXCEPT ![i] = new]) = Len(children)
      /\ \A j \in 1 .. Len(children) :
             [children EXCEPT ![i] = new][j] = IF j = i THEN new ELSE children[j]
  BY <1>2, ExceptSeq
<1> QED
  BY <1>2, <1>3, <1>4

\* An import ends with one of three outcomes, and the list of children has it.
LEMMA Imports ==
    ASSUME TypeOK, NEW r \in Runs, Len(run[r].children) > 0, Import(r)
    PROVE  \E status \in {"completed", "failed", "stopped"} :
               /\ run' \in [Runs -> RunRecord]
               /\ \A q \in Runs \ {r} : run'[q] = run[q]
               /\ run'[r].wf = run[r].wf /\ run'[r].step = run[r].step
               /\ run'[r].id = run[r].id /\ run'[r].late = run[r].late
               /\ run'[r].at = "record"
               /\ run'[r].children \in Seq(Child)
               /\ Len(run'[r].children) = Len(run[r].children)
               /\ LastOf(run'[r].children).status = status
               /\ LastOf(run'[r].children).id = LastOf(run[r].children).id
               /\ \A j \in 1 .. Len(run[r].children) : j # Len(run[r].children) =>
                      run'[r].children[j] = run[r].children[j]
               /\ imported' = imported \cup {x \in {<<Wf(r), run[r].step>>} :
                                                 status = "completed"}
<1> DEFINE children == run[r].children
           n == Len(children)
<1>1. PICK status \in {"completed", "failed", "stopped"} :
          /\ run' = [run EXCEPT ![r].at = "record", ![r].children[n].status = status]
          /\ imported' = imported \cup {x \in {<<Wf(r), run[r].step>>} :
                                                 status = "completed"}
  BY DEF Import
<1> DEFINE changed == [children EXCEPT ![n].status = status]
           old == run[r]
           new == [old EXCEPT !.at = "record", !.children = changed]
<1>2. run \in [Runs -> RunRecord] /\ old \in RunRecord
  BY Typed
<1>3. children \in Seq(Child)
  BY <1>2, RunFields
<1>4. n \in 1 .. n
  BY <1>3, LenProperties
<1>5. status \in ChildStatus /\ "record" \in RunState
  BY DEF ChildStatus, RunState, Executing, InTry
<1>6. /\ changed \in Seq(Child) /\ Len(changed) = n
      /\ changed[n].status = status /\ changed[n].id = children[n].id
      /\ \A j \in 1 .. n : j # n => changed[j] = children[j]
  <2> HIDE DEF children
  <2> QED
    BY <1>3, <1>4, <1>5, StatusSet
<1>7. run' = [run EXCEPT ![r] = new]
  BY <1>1
<1> HIDE DEF old, changed
<1>8. /\ new \in RunRecord
      /\ new.at = "record" /\ new.wf = old.wf /\ new.late = old.late
      /\ new.children = changed /\ new.step = old.step /\ new.id = old.id
  BY <1>2, <1>5, <1>6 DEF RunRecord
<1> HIDE DEF new
<1>9. run' \in [Runs -> RunRecord] /\ run'[r] = new /\ \A q \in Runs \ {r} : run'[q] = run[q]
  BY <1>2, <1>7, <1>8
<1> WITNESS status \in {"completed", "failed", "stopped"}
<1> QED
  BY <1>1, <1>6, <1>8, <1>9 DEF LastOf, old

\* A run that raises keeps its children and goes to the handler of where it stood.
LEMMA Raises ==
    ASSUME run \in [Runs -> RunRecord], NEW r \in Runs, Raise(r)
    PROVE  /\ run' \in [Runs -> RunRecord]
           /\ \A q \in Runs \ {r} : run'[q] = run[q]
           /\ run'[r].wf = run[r].wf /\ run'[r].children = run[r].children
           /\ run'[r].late = 0 /\ run'[r].result = "raised"
           /\ run'[r].at \in {"mark", "again", "reread"}
           /\ run'[r].at = "mark" => run[r].at \in InTry \cup {"release"}
<1> DEFINE at == RaisesTo(r)
           over == Over(r, at)
           new == [over EXCEPT !.children = run[r].children, !.result = "raised"]
<1>1. /\ at \in {"mark", "again", "reread"}
      /\ at = "mark" => run[r].at \in InTry \cup {"release"}
  BY DEF RaisesTo, In
<1>2. at \in RunState
  BY <1>1 DEF RunState, Executing, InTry
<1> HIDE DEF at
<1>3. /\ over \in RunRecord /\ over.at = at /\ over.wf = run[r].wf /\ over.late = 0
  BY <1>2, OverFields
<1>4. run[r].children \in Seq(Child)
  BY RunFields
<1>5. run' = [run EXCEPT ![r] = new]
  BY DEF Raise, at
<1> HIDE DEF over
<1>6. /\ new \in RunRecord
      /\ new.at = at /\ new.wf = over.wf /\ new.late = over.late
      /\ new.children = run[r].children /\ new.result = "raised"
  BY <1>3, <1>4 DEF RunRecord
<1> HIDE DEF new
<1>7. run' \in [Runs -> RunRecord] /\ run'[r] = new /\ \A q \in Runs \ {r} : run'[q] = run[q]
  BY <1>5, <1>6
<1> QED
  BY <1>1, <1>3, <1>6, <1>7

\* A run that is about to mark the workflow failed reads its children again.
LEMMA ReadsAgain ==
    ASSUME run \in [Runs -> RunRecord], state \in [Workflows -> Document],
           NEW r \in Runs, Wf(r) \in Workflows, ReadAgain(r)
    PROVE  /\ run' \in [Runs -> RunRecord]
           /\ \A q \in Runs \ {r} : run'[q] = run[q]
           /\ run'[r].wf = run[r].wf /\ run'[r].children = state[Wf(r)].children
           /\ run'[r].late = run[r].late /\ run'[r].at = "remark"
<1> DEFINE children == state[Wf(r)].children
           old == run[r]
           new == [old EXCEPT !.children = children, !.at = "remark"]
<1>1. children \in Seq(Child) /\ old \in RunRecord
  BY DEF Document
<1>2. "remark" \in RunState
  BY DEF RunState, Executing
<1>3. run' = [run EXCEPT ![r] = new]
  BY DEF ReadAgain
<1> HIDE DEF old, children
<1>4. /\ new \in RunRecord
      /\ new.at = "remark" /\ new.wf = old.wf /\ new.late = old.late
      /\ new.children = children
  BY <1>1, <1>2 DEF RunRecord
<1> HIDE DEF new
<1>5. run' \in [Runs -> RunRecord] /\ run'[r] = new /\ \A q \in Runs \ {r} : run'[q] = run[q]
  BY <1>3, <1>4
<1> QED
  BY <1>4, <1>5 DEF old, children

\* Marking the failure changes the status of one child that was running, and drops
\* no lock but that child's.
LEMMA MarksFailed ==
    ASSUME TypeOK, NEW r \in Runs, Wf(r) \in Workflows,
           NEW childStatus \in {"failed", "stale_failed"}, NEW at \in RunState,
           MarkFailed(r, childStatus, at)
    PROVE  /\ run' \in [Runs -> RunRecord]
           /\ \A q \in Runs \ {r} : run'[q] = run[q]
           /\ run'[r].wf = run[r].wf /\ run'[r].at = at /\ run'[r].late = run[r].late
           /\ run'[r].children \in Seq(Child)
           /\ Len(run'[r].children) = Len(run[r].children)
           /\ \A j \in 1 .. Len(run[r].children) :
                  \/ run'[r].children[j] = run[r].children[j]
                  \/ run'[r].children[j].status = childStatus
           /\ state' \in [Workflows -> Document]
           /\ \A v \in Workflows \ {Wf(r)} : state'[v] = state[v]
           /\ state'[Wf(r)].status = "failed"
           /\ state'[Wf(r)].children = run'[r].children
           /\ lock' \in [Steps -> Ids \cup {None, Rival}]
           /\ \A s \in Steps : lock'[s] # lock[s] =>
                  lock[s] \in Ids /\ (ImportLives(lock[s], s) => evicted')
           /\ evicted' \in BOOLEAN /\ (evicted => evicted')
<1> DEFINE children == run[r].children
           i == LastRunning(children)
           marked == IF i = 0 THEN children
                     ELSE [children EXCEPT ![i].status = childStatus]
           left == {s \in Steps : i # 0 /\ lock[s] = children[i].id}
           old == run[r]
           new == [old EXCEPT !.children = marked, !.at = at]
<1>1. /\ run \in [Runs -> RunRecord] /\ old \in RunRecord
      /\ state \in [Workflows -> Document]
      /\ lock \in [Steps -> Ids \cup {None, Rival}] /\ evicted \in BOOLEAN
  BY Typed DEF TypeOK
<1>2. children \in Seq(Child)
  BY <1>1, RunFields
<1>3. childStatus \in ChildStatus
  BY DEF ChildStatus
<1>4. /\ lock' = [s \in Steps |-> IF s \in left THEN None ELSE lock[s]]
      /\ evicted' = (evicted \/ \E s \in left : ImportLives(lock[s], s))
      /\ Save(Wf(r), "failed", marked)
      /\ run' = [run EXCEPT ![r] = new]
  BY DEF MarkFailed
<1>5. i # 0 => i \in 1 .. Len(children)
  BY <1>2, LastRunningChild
<1>6. /\ marked \in Seq(Child) /\ Len(marked) = Len(children)
      /\ \A j \in 1 .. Len(children) : \/ marked[j] = children[j]
                                       \/ marked[j].status = childStatus
  <2>1. CASE i = 0
    BY <1>2, <2>1
  <2>2. CASE i # 0
    <3> DEFINE changed == [children EXCEPT ![i].status = childStatus]
    <3>1. i \in 1 .. Len(children) /\ marked = changed
      BY <1>5, <2>2
    <3>2. /\ changed \in Seq(Child) /\ Len(changed) = Len(children)
          /\ changed[i].status = childStatus
          /\ \A j \in 1 .. Len(children) : j # i => changed[j] = children[j]
      <4> HIDE DEF children, i
      <4> QED
        BY <1>2, <1>3, <3>1, StatusSet
    <3> QED
      BY <3>1, <3>2
  <2> QED
    BY <2>1, <2>2
<1>7. \A s \in left : lock[s] \in Ids
  <2>1. ASSUME i # 0
        PROVE  children[i].id \in Ids
    <3> HIDE DEF children, i
    <3>1. children[i] \in Child
      BY <1>2, <1>5, <2>1, ElementOfSeq
    <3> QED
      BY <3>1 DEF Child
  <2> QED
    BY <2>1
<1> HIDE DEF left
<1>8. /\ lock' \in [Steps -> Ids \cup {None, Rival}]
      /\ \A s \in Steps : lock'[s] # lock[s] => s \in left
  BY <1>1, <1>4
<1>9. /\ \A s \in left : ImportLives(lock[s], s) => evicted'
      /\ evicted' \in BOOLEAN /\ (evicted => evicted')
  <2> HIDE DEF new, old, marked
  <2> QED
    BY <1>1, <1>4, Zenon
<1> HIDE DEF old, marked
<1>10. /\ new \in RunRecord
      /\ new.at = at /\ new.wf = old.wf /\ new.late = old.late
      /\ new.children = marked
  BY <1>1, <1>6 DEF RunRecord
<1> HIDE DEF new
<1>11. run' \in [Runs -> RunRecord] /\ run'[r] = new /\ \A q \in Runs \ {r} : run'[q] = run[q]
  BY <1>1, <1>4, <1>10
<1>12. /\ state' \in [Workflows -> Document]
       /\ \A v \in Workflows \ {Wf(r)} : state'[v] = state[v]
       /\ state'[Wf(r)].status = "failed" /\ state'[Wf(r)].children = marked
  BY <1>1, <1>4, <1>6, Saved DEF Status
<1>13. \A s \in Steps : lock'[s] # lock[s] =>
                  lock[s] \in Ids /\ (ImportLives(lock[s], s) => evicted')
  BY <1>7, <1>8, <1>9
<1> QED
  BY <1>6, <1>8, <1>9, <1>10, <1>11, <1>12, <1>13 DEF old
-----------------------------------------------------------------------------
(***************************************************************************)
(* Types, and the shape of the records.                                    *)
(***************************************************************************)
LEMMA RunStates ==
    InTry \cup {"absent", "claimed", "queued", "done", "gone", "mark", "release",
                "again", "reread", "remark", "last"} \subseteq RunState
BY DEF RunState, Executing

\* What a resumed run keeps of its children is a list of children.
LEMMA KeptChildren ==
    ASSUME state \in [Workflows -> Document], NEW r \in Runs, Wf(r) \in Workflows
    PROVE  Kept(r) \in Seq(Child)
<1>1. state[Wf(r)].children \in Seq(Child)
  BY DEF Document
<1> QED
  BY <1>1, OnlyCompleted DEF Kept

\* A step that leaves one run well formed and touches no other keeps all well formed.
LEMMA RunChanged ==
    ASSUME RunsOK, NEW r \in Runs, OnlyRun(r), RunWellFormed(r)'
    PROVE  RunsOK'
<1>1. ASSUME NEW q \in Runs \ {r}
      PROVE  RunWellFormed(q)'
  <2>1. run'[q] = run[q] /\ RunWellFormed(q)
    BY DEF OnlyRun, RunsOK
  <2> QED
    BY <2>1 DEF RunWellFormed, Wf
<1> QED
  BY <1>1 DEF RunsOK, OnlyRun

\* After a failed step the run ends, or goes on when the step is optional.
LEMMA StepFails ==
    ASSUME run \in [Runs -> RunRecord], NEW r \in Runs, run[r].step \in Steps,
           NEW children \in Seq(Child), StepFailed(r, children)
    PROVE  /\ OnlyRun(r) /\ run'[r].children = children
           /\ \/ /\ run'[r].at = "close" /\ run'[r].result = "failed" /\ run'[r].late = 0
              \/ /\ run'[r].at = "close" /\ run'[r].result = "completed"
                 /\ run'[r].late = 0 /\ run[r].step \in Optional
                 /\ \A u \in Steps : run[r].step + 1 <= u => u \in Completed(children)
              \/ /\ run'[r].at = "pause?" /\ run'[r].step \in Steps
                 /\ run'[r].late = run[r].late /\ run[r].step \in Optional
                 /\ \A u \in Steps : run[r].step + 1 <= u /\ u < run'[r].step
                                         => u \in Completed(children)
<1>1. run[r].step + 1 \in Nat \ {0} /\ "failed" \in Status
  BY StepsAssumption DEF Steps, Status
<1>2. CASE run[r].step \in Optional
  <2>1. Proceed(r, run[r].step + 1, children)
    BY <1>2 DEF StepFailed
  <2> QED
    BY <1>1, <1>2, <2>1, Proceeded DEF OnlyRun
<1>3. CASE run[r].step \notin Optional
  <2>1. Conclude(r, "failed", children)
    BY <1>3 DEF StepFailed
  <2> QED
    BY <1>1, <2>1, Concluded DEF OnlyRun
<1> QED
  BY <1>2, <1>3

\* What a run does to its record, whatever it does.
LEMMA RunMoves ==
    ASSUME TypeOK, WellFormed, NEW r \in Runs,
           RunStep(r) \/ Raise(r) \/ Killed(r) \/ WorkerLost(r)
    PROVE  RunMove(r)
<1>0. /\ TypeOK /\ lostCount \in 0 .. MaxLost
      /\ run \in [Runs -> RunRecord] /\ call \in [Calls -> CallRecord]
      /\ state \in [Workflows -> Document]
      /\ \A q \in Runs : RunWellFormed(q)
      /\ \A c \in Calls : CallWellFormed(c)
  BY Typed DEF TypeOK, WellFormed
<1>a. /\ RunWellFormed(r) /\ (run[r].at # "absent" => Wf(r) \in Workflows)
      /\ run[r].children \in Seq(Child) /\ run[r].step \in 0 .. NumSteps
  BY <1>0, RunFields DEF RunWellFormed
<1>1. CASE Load(r)
  <2>1. Proceed(r, 1, Kept(r)) /\ run[r].at = "queued"
    BY <1>1 DEF Load, In
  <2>2. Kept(r) \in Seq(Child) /\ 1 \in Nat \ {0}
    BY <1>0, <1>a, <2>1, KeptChildren
  <2>3. /\ OnlyRun(r)
        /\ \/ run'[r].at = "close" /\ run'[r].result = "completed"
           \/ run'[r].at = "pause?" /\ run'[r].step \in Steps
    BY <1>0, <2>1, <2>2, Proceeded DEF OnlyRun
  <2>4. RunWellFormed(r)'
    BY <1>a, <2>1, <2>3 DEF OnlyRun, RunWellFormed, InLoop, InTry, Wf
  <2> QED
    BY <2>1, <2>2, <2>3, <2>4 DEF RunMove, Executing, Acting, InTry
<1>2. CASE PollPause(r)
  <2>1. /\ OnlyRun(r) /\ run[r].at = "pause?"
        /\ \/ run'[r].at = "close" /\ run'[r].result = "paused"
           \/ run'[r].at = "stop?" /\ run'[r].step = run[r].step
    <3>1. "paused" \in Status /\ "stop?" \in RunState /\ run[r].children \in Seq(Child)
      BY <1>a, RunStates DEF Status, InTry
    <3> QED
      BY <1>2, <1>0, <3>1, Concluded, Moved DEF PollPause, In, OnlyRun
  <2>2. RunWellFormed(r)'
    BY <1>a, <2>1 DEF OnlyRun, RunWellFormed, InLoop, InTry, LastOf, Wf
  <2> QED
    BY <2>1, <2>2 DEF RunMove, Executing, Acting, InTry
<1>3. CASE PollStop(r)
  <2>1. /\ OnlyRun(r) /\ run[r].at = "stop?"
        /\ \/ run'[r].at = "close" /\ run'[r].result = "stopped"
           \/ run'[r].at = "enter" /\ run'[r].step = run[r].step
    <3>1. "stopped" \in Status /\ "enter" \in RunState /\ run[r].children \in Seq(Child)
      BY <1>a, RunStates DEF Status, InTry
    <3> QED
      BY <1>3, <1>0, <3>1, Concluded, Moved DEF PollStop, In, OnlyRun
  <2>2. RunWellFormed(r)'
    BY <1>a, <2>1 DEF OnlyRun, RunWellFormed, InLoop, InTry, LastOf, Wf
  <2> QED
    BY <2>1, <2>2 DEF RunMove, Executing, Acting, InTry
<1>4. CASE EnterStep(r)
  <2>1. /\ OnlyRun(r) /\ run[r].at = "enter" /\ run'[r].at = "lock"
        /\ run'[r].step = run[r].step /\ run'[r].result = run[r].result
    BY <1>4, <1>0, Moved, RunStates DEF EnterStep, In, OnlyRun, InTry
  <2>2. RunWellFormed(r)'
    BY <1>a, <2>1 DEF OnlyRun, RunWellFormed, InLoop, InTry, LastOf, Wf
  <2> QED
    BY <2>1, <2>2 DEF RunMove, Executing, Acting, InTry
<1>5. CASE TakeLock(r)
  <2>1. run[r].at \in {"lock", "relock"} /\ run[r].step \in Steps
    BY <1>5, <1>a DEF TakeLock, In, RunWellFormed, InLoop, InTry
  <2>2. /\ OnlyRun(r) /\ run'[r].step = run[r].step
        /\ \/ run'[r].at = "add" /\ run'[r].id = <<r, run[r].step, lostCount>>
           \/ run'[r].at \in {"holder", "refuse"}
    BY <1>5, <1>0, <2>1, Locks DEF OnlyRun
  <2>a. <<r, run[r].step, lostCount>> \in {r} \X {run[r].step} \X (0 .. MaxLost)
    BY <1>0
  <2>3. RunWellFormed(r)'
    BY <1>a, <2>1, <2>2, <2>a DEF OnlyRun, RunWellFormed, InLoop, InTry, Wf
  <2> QED
    BY <1>5, <2>1, <2>2, <2>a, <2>3 DEF RunMove, Executing, Acting, InTry
<1>6. CASE ReadHolder(r)
  <2>1. run[r].at = "holder" /\ run[r].step \in Steps
    BY <1>6, <1>a DEF ReadHolder, In, RunWellFormed, InLoop, InTry
  <2>2. /\ OnlyRun(r) /\ run'[r].step = run[r].step
        /\ run'[r].at \in {"refuse", "inspect"}
    BY <1>6, <1>0, <2>1, ReadsHolder DEF OnlyRun
  <2>3. RunWellFormed(r)'
    BY <1>a, <2>1, <2>2 DEF OnlyRun, RunWellFormed, InLoop, InTry, Wf
  <2> QED
    BY <2>1, <2>2, <2>3 DEF RunMove, Executing, Acting, InTry
<1>7. CASE Inspect(r)
  <2>1. /\ OnlyRun(r) /\ run[r].at = "inspect" /\ (run'[r].at = "refuse" \/ run'[r].at = "compare")
        /\ run'[r].step = run[r].step /\ run'[r].result = run[r].result
    BY <1>7, <1>0, Moved, RunStates DEF Inspect, In, OnlyRun, InTry
  <2>2. RunWellFormed(r)'
    BY <1>a, <2>1 DEF OnlyRun, RunWellFormed, InLoop, InTry, LastOf, Wf
  <2> QED
    BY <2>1, <2>2 DEF RunMove, Executing, Acting, InTry
<1>8. CASE CompareLock(r)
  <2>1. /\ OnlyRun(r) /\ run[r].at = "compare" /\ (run'[r].at = "drop" \/ run'[r].at = "relock")
        /\ run'[r].step = run[r].step /\ run'[r].result = run[r].result
    BY <1>8, <1>0, Moved, RunStates DEF CompareLock, In, OnlyRun, InTry
  <2>2. RunWellFormed(r)'
    BY <1>a, <2>1 DEF OnlyRun, RunWellFormed, InLoop, InTry, LastOf, Wf
  <2> QED
    BY <2>1, <2>2 DEF RunMove, Executing, Acting, InTry
<1>9. CASE DropStaleLock(r)
  <2>1. /\ OnlyRun(r) /\ run[r].at = "drop" /\ run'[r].at = "relock"
        /\ run'[r].step = run[r].step /\ run'[r].result = run[r].result
    BY <1>9, <1>0, Moved, RunStates DEF DropStaleLock, In, OnlyRun, InTry
  <2>2. RunWellFormed(r)'
    BY <1>a, <2>1 DEF OnlyRun, RunWellFormed, InLoop, InTry, LastOf, Wf
  <2> QED
    BY <2>1, <2>2 DEF RunMove, Executing, Acting, InTry
<1>10. CASE RefuseStep(r)
  <2> DEFINE child == [id |-> <<r, run[r].step, lostCount>>, status |-> "failed"]
             children == Append(run[r].children, child)
  <2>1. run[r].at = "refuse" /\ run[r].step \in Steps /\ StepFailed(r, children)
    BY <1>10, <1>a DEF RefuseStep, In, RunWellFormed, InLoop, InTry
  <2>2. children \in Seq(Child)
    <3>1. child \in Child
      BY <1>0, <2>1 DEF Child, ChildStatus, Ids
    <3> QED
      BY <1>a, <3>1, AppendProperties
  <2> HIDE DEF children
<2>3. /\ OnlyRun(r)
        /\ \/ run'[r].at = "close" /\ run'[r].result \in {"completed", "failed"}
           \/ run'[r].at = "pause?" /\ run'[r].step \in Steps
    BY <1>0, <1>a, <2>1, <2>2, StepFails
  <2>4. RunWellFormed(r)'
    BY <1>a, <2>1, <2>3 DEF OnlyRun, RunWellFormed, InLoop, InTry, Wf
  <2> QED
    BY <2>1, <2>2, <2>3, <2>4 DEF RunMove, Executing, Acting, InTry
<1>11. CASE AddChild(r)
  <2> DEFINE child == [id |-> run[r].id, status |-> "running"]
             children == Append(run[r].children, child)
  <2>1. /\ run[r].at = "add" /\ run[r].step \in Steps
        /\ run[r].id \in {r} \X {run[r].step} \X (0 .. MaxLost)
    BY <1>11, <1>a DEF AddChild, In, RunWellFormed, InLoop, InTry
  <2>2. run[r].id \in Ids
    BY <2>1 DEF Ids
  <2>3. /\ OnlyRun(r) /\ run'[r].step = run[r].step /\ run'[r].id = run[r].id
        /\ run'[r].at = "import"
        /\ children \in Seq(Child) /\ run'[r].children = children
    BY <1>11, <1>0, <2>2, AddsChild DEF OnlyRun
  <2>4. Len(children) > 0 /\ children[Len(children)] = child
    <3>1. child \in Child
      BY <2>2 DEF Child, ChildStatus
    <3> QED
      BY <1>a, <3>1, AppendProperties, LenProperties
  <2>5. Len(run'[r].children) > 0 /\ LastOf(run[r].children)'.id = run[r].id
    BY <2>3, <2>4 DEF LastOf
  <2> HIDE DEF children
  <2>6. RunWellFormed(r)'
    BY <1>a, <2>1, <2>3, <2>5 DEF OnlyRun, RunWellFormed, InLoop, InTry, Wf
  <2> QED
    BY <1>11, <2>1, <2>2, <2>3, <2>4, <2>5, <2>6 DEF RunMove, Executing, Acting, InTry
<1>12. CASE Import(r)
  <2>1. /\ run[r].at = "import" /\ run[r].step \in Steps
        /\ run[r].id \in {r} \X {run[r].step} \X (0 .. MaxLost)
        /\ Len(run[r].children) > 0 /\ LastOf(run[r].children).id = run[r].id
    BY <1>12, <1>a DEF Import, In, RunWellFormed, InLoop, InTry
  <2>2. /\ OnlyRun(r) /\ run'[r].step = run[r].step /\ run'[r].id = run[r].id
        /\ run'[r].at = "record"
        /\ Len(run'[r].children) = Len(run[r].children)
        /\ LastOf(run'[r].children).id = LastOf(run[r].children).id
        /\ LastOf(run'[r].children).status \in {"completed", "failed", "stopped"}
    BY <1>12, <1>0, <2>1, Imports DEF OnlyRun
  <2>3. RunWellFormed(r)'
    BY <1>a, <2>1, <2>2 DEF OnlyRun, RunWellFormed, InLoop, InTry, Wf, LastOf
  <2> QED
    BY <2>1, <2>2, <2>3 DEF RunMove, Executing, Acting, InTry
<1>13. CASE RecordChild(r)
  <2> DEFINE children == run[r].children
             status == children[Len(children)].status
  <2>1. /\ run[r].at = "record" /\ run[r].step \in Steps
        /\ status \in {"completed", "failed", "stopped"}
    BY <1>13, <1>a DEF RecordChild, In, RunWellFormed, InLoop, InTry, LastOf
  <2>2. /\ status = "completed" => Proceed(r, run[r].step + 1, children)
        /\ status = "failed" => StepFailed(r, children)
        /\ status = "stopped" => Move(r, "stopped")
    BY <1>13 DEF RecordChild
  <2> HIDE DEF status
  <2>3. run[r].step + 1 \in Nat \ {0} /\ children \in Seq(Child)
    BY <1>a, <2>1, StepsAssumption DEF Steps
  <2> HIDE DEF children
  <2>4. /\ OnlyRun(r)
        /\ \/ run'[r].at = "close" /\ run'[r].result \in {"completed", "failed"}
           \/ run'[r].at = "pause?" /\ run'[r].step \in Steps
           \/ run'[r].at = "stopped"
    <3>1. CASE status = "completed"
      BY <1>0, <2>2, <2>3, <3>1, Proceeded DEF OnlyRun
    <3>2. CASE status = "failed"
      BY <1>0, <1>a, <2>1, <2>2, <2>3, <3>2, StepFails
    <3>3. CASE status = "stopped"
      BY <1>0, <2>2, <3>3, Moved, RunStates DEF OnlyRun, InTry
    <3> QED
      BY <2>1, <3>1, <3>2, <3>3
  <2>5. RunWellFormed(r)'
    BY <1>a, <2>1, <2>4 DEF OnlyRun, RunWellFormed, InLoop, InTry, Wf
  <2> QED
    BY <2>1, <2>2, <2>3, <2>4, <2>5 DEF RunMove, Executing, Acting, InTry
<1>14. CASE PauseOrStop(r)
  <2> DEFINE result == IF pauseFlag[Wf(r)] THEN "paused" ELSE "stopped"
  <2>1. /\ run[r].at = "stopped" /\ Conclude(r, result, run[r].children)
        /\ result \in {"paused", "stopped"} /\ run[r].children \in Seq(Child)
    BY <1>14, <1>a DEF PauseOrStop, In
  <2> HIDE DEF result
  <2>2. OnlyRun(r) /\ run'[r].at = "close" /\ run'[r].result = result
    BY <1>0, <2>1, Concluded DEF OnlyRun, Status
  <2>3. RunWellFormed(r)'
    BY <1>a, <2>1, <2>2 DEF OnlyRun, RunWellFormed, InLoop, InTry, Wf
  <2> QED
    BY <2>1, <2>2, <2>3 DEF RunMove, Executing, Acting, InTry
<1>15. CASE Close(r)
  <2>1. /\ OnlyRun(r) /\ run[r].at = "close" /\ run'[r].at = "release"
        /\ run'[r].step = run[r].step /\ run'[r].result = run[r].result
    BY <1>15, <1>0, Moved, RunStates DEF Close, In, OnlyRun, InTry
  <2>2. RunWellFormed(r)'
    BY <1>a, <2>1 DEF OnlyRun, RunWellFormed, InLoop, InTry, LastOf, Wf
  <2> QED
    BY <2>1, <2>2 DEF RunMove, Executing, Acting, InTry
<1>16. CASE Release(r)
  <2>1. OnlyRun(r) /\ run[r].at = "release" /\ run'[r].at \in {"again", "done"}
    BY <1>16, <1>0, Moved, Ended, RunStates DEF Release, In, OnlyRun
  <2>2. RunWellFormed(r)'
    BY <1>a, <2>1 DEF OnlyRun, RunWellFormed, Executing, InLoop, InTry, Wf
  <2> QED
    BY <2>1, <2>2 DEF RunMove, Executing, Acting, InTry
<1>17. CASE ReleaseAgain(r)
  <2>1. OnlyRun(r) /\ run[r].at = "again" /\ run'[r].at \in {"reread", "done"}
    BY <1>17, <1>0, Moved, Ended, RunStates DEF ReleaseAgain, In, OnlyRun
  <2>2. RunWellFormed(r)'
    BY <1>a, <2>1 DEF OnlyRun, RunWellFormed, Executing, InLoop, InTry, Wf
  <2> QED
    BY <2>1, <2>2 DEF RunMove, Executing, Acting, InTry
<1>18. CASE MarkStateFailed(r)
  <2>1. OnlyRun(r) /\ run[r].at = "mark" /\ run'[r].at = "release"
    <3>1. run[r].at = "mark" /\ MarkFailed(r, "failed", "release")
      BY <1>18 DEF MarkStateFailed, In
    <3> QED
      BY <1>0, <1>a, <3>1, MarksFailed, RunStates DEF OnlyRun
  <2>2. RunWellFormed(r)'
    BY <1>a, <2>1 DEF OnlyRun, RunWellFormed, Executing, InLoop, InTry, Wf
  <2> QED
    BY <2>1, <2>2 DEF RunMove, Executing, Acting, InTry
<1>19. CASE ReadAgain(r)
  <2>1. OnlyRun(r) /\ run[r].at = "reread" /\ run'[r].at = "remark"
    <3>1. run[r].at = "reread"
      BY <1>19 DEF ReadAgain, In
    <3> QED
      BY <1>19, <1>0, <1>a, <3>1, ReadsAgain DEF OnlyRun
  <2>2. RunWellFormed(r)'
    BY <1>a, <2>1 DEF OnlyRun, RunWellFormed, Executing, InLoop, InTry, Wf
  <2> QED
    BY <2>1, <2>2 DEF RunMove, Executing, Acting, InTry
<1>20. CASE MarkAgain(r)
  <2>1. OnlyRun(r) /\ run[r].at = "remark" /\ run'[r].at = "last"
    <3>1. run[r].at = "remark" /\ MarkFailed(r, "stale_failed", "last")
      BY <1>20 DEF MarkAgain, In
    <3> QED
      BY <1>0, <1>a, <3>1, MarksFailed, RunStates DEF OnlyRun
  <2>2. RunWellFormed(r)'
    BY <1>a, <2>1 DEF OnlyRun, RunWellFormed, Executing, InLoop, InTry, Wf
  <2> QED
    BY <2>1, <2>2 DEF RunMove, Executing, Acting, InTry
<1>21. CASE ReleaseLast(r)
  <2>1. OnlyRun(r) /\ run[r].at = "last" /\ run'[r].at = "done"
    BY <1>21, <1>0, Ended, RunStates DEF ReleaseLast, In, OnlyRun
  <2>2. RunWellFormed(r)'
    BY <1>a, <2>1 DEF OnlyRun, RunWellFormed, Executing, InLoop, InTry, Wf
  <2> QED
    BY <2>1, <2>2 DEF RunMove, Executing, Acting, InTry
<1>22. CASE Raise(r)
  <2>1. OnlyRun(r) /\ run[r].at \in {"queued"} \cup Executing /\ run'[r].at \in {"mark", "again", "reread"}
        /\ (run'[r].at = "mark" => run[r].at \in InTry \cup {"release"})
    <3>1. run[r].at \in {"queued", "mark", "release", "again"} \cup InTry
      BY <1>22 DEF Raise
    <3> QED
      BY <1>22, <1>0, <3>1, Raises DEF OnlyRun, Executing, InTry
  <2>2. RunWellFormed(r)'
    BY <1>a, <2>1 DEF OnlyRun, RunWellFormed, Executing, InLoop, InTry, Wf
  <2> QED
    BY <2>1, <2>2 DEF RunMove, Executing, Acting, InTry
<1>23. CASE Killed(r)
  <2>1. OnlyRun(r) /\ run[r].at \in Executing /\ run'[r].at = "gone"
    BY <1>23, <1>0, Ended, RunStates DEF Killed, OnlyRun
  <2>2. RunWellFormed(r)'
    BY <1>a, <2>1 DEF OnlyRun, RunWellFormed, Executing, InLoop, InTry, Wf
  <2> QED
    BY <2>1, <2>2 DEF RunMove, Executing, Acting, InTry
<1>24. CASE WorkerLost(r)
  <2>1. OnlyRun(r) /\ run[r].at \in Executing \cup {"done"} /\ run'[r].at = "queued"
    BY <1>24, <1>0, Ended, RunStates DEF WorkerLost, OnlyRun, Executing
  <2>2. RunWellFormed(r)'
    BY <1>a, <2>1 DEF OnlyRun, RunWellFormed, Executing, InLoop, InTry, Wf
  <2> QED
    BY <1>24, <2>1, <2>2 DEF RunMove, Executing, Acting, InTry
<1> QED
  BY <1>1, <1>2, <1>3, <1>4, <1>5, <1>6, <1>7, <1>8, <1>9, <1>10, <1>11, <1>12, <1>13,
     <1>14, <1>15, <1>16, <1>17, <1>18, <1>19, <1>20, <1>21, <1>22, <1>23, <1>24 DEF
     RunStep

\* Every step leaves the records of the runs well formed.
LEMMA RunsStep ==
    ASSUME TypeOK, WellFormed, CallsOwnRuns, [Next]_vars
    PROVE  RunsOK'
<1>0. /\ TypeOK /\ CallsOwnRuns /\ RunsOK /\ lostCount \in 0 .. MaxLost
      /\ run \in [Runs -> RunRecord] /\ call \in [Calls -> CallRecord]
      /\ state \in [Workflows -> Document]
      /\ \A r \in Runs : RunWellFormed(r)
      /\ \A c \in Calls : CallWellFormed(c)
  BY Typed DEF TypeOK, WellFormed, RunsOK
<1>1. ASSUME NEW c \in Calls, NEW w \in Workflows, Start(c, w) \/ Resume(c, w) \/ Interrupt(c, w)
      PROVE  RunsOK'
  <2>1. CASE Start(c, w)
    <3>1. ClaimedBy(c, w, "saving") /\ "saving" \in CallState
      BY <2>1 DEF Start, ClaimedBy, CallState
    <3>2. w \in Workflows
      OBVIOUS
    <3>3. PICK r \in Runs : /\ run' \in [Runs -> RunRecord]
                            /\ \A q \in Runs \ {r} : run'[q] = run[q]
                            /\ run'[r].at = "claimed" /\ run'[r].wf = w
      BY <1>0, <3>1, <3>2, Claims
    <3>4. RunWellFormed(r)'
      BY <3>2, <3>3 DEF RunWellFormed, InLoop, InTry, Wf
    <3>5. ASSUME NEW q \in Runs \ {r}
          PROVE  RunWellFormed(q)'
      <4>1. run'[q] = run[q] /\ RunWellFormed(q)
        BY <1>0, <3>3
      <4> QED
        BY <4>1 DEF RunWellFormed, Wf
    <3> QED
      BY <3>3, <3>4, <3>5 DEF RunsOK
  <2>2. CASE Resume(c, w) \/ Interrupt(c, w)
    BY <2>2, <1>0 DEF Resume, Interrupt, RunsOK, RunWellFormed, Wf
  <2> QED
    BY <1>1, <2>1, <2>2
<1>2. ASSUME NEW c \in Calls, GetRunning(c) \/ CallStep(c) \/ CallFails(c)
      PROVE  RunsOK'
  <2>1. CASE GetRunning(c) \/ ResumeRefused(c) \/ DeletePauseFlag(c) \/
            DeleteStopFlag(c) \/ SavePending(c) \/ ReadToInterrupt(c) \/
            SignalChild(c) \/ MarkInterrupted(c) \/ LookUpState(c) \/
            DropRunningKey(c)
    BY <2>1, <1>0 DEF GetRunning, ResumeRefused, DeletePauseFlag, DeleteStopFlag,
       SavePending, ReadToInterrupt, SignalChild, MarkInterrupted, LookUpState,
       DropRunningKey, RunsOK, RunWellFormed, Wf
  <2>2. CASE ClaimForResume(c)
    <3>1. ClaimedBy(c, call[c].wf, "unpausing") /\ "unpausing" \in CallState
      BY <2>2 DEF ClaimForResume, ClaimedBy, CallState
    <3>2. call[c].wf \in Workflows
      BY <2>2, <1>0 DEF ClaimForResume, At, CallWellFormed
    <3>3. PICK r \in Runs : /\ run' \in [Runs -> RunRecord]
                            /\ \A q \in Runs \ {r} : run'[q] = run[q]
                            /\ run'[r].at = "claimed" /\ run'[r].wf = call[c].wf
      BY <1>0, <3>1, <3>2, Claims
    <3>4. RunWellFormed(r)'
      BY <3>2, <3>3 DEF RunWellFormed, InLoop, InTry, Wf
    <3>5. ASSUME NEW q \in Runs \ {r}
          PROVE  RunWellFormed(q)'
      <4>1. run'[q] = run[q] /\ RunWellFormed(q)
        BY <1>0, <3>3
      <4> QED
        BY <4>1 DEF RunWellFormed, Wf
    <3> QED
      BY <3>3, <3>4, <3>5 DEF RunsOK
  <2>3. CASE Send(c)
    <3>1. PICK r \in Runs : r = call[c].run /\ run[r].at = "claimed"
      BY <2>3, <1>0 DEF Send, At, CallsOwnRuns, WithClaim
    <3>2. Move(r, "queued") /\ "queued" \in RunState
      BY <2>3, <3>1, RunStates DEF Send, Move
    <3>3. OnlyRun(r) /\ run'[r].at = "queued"
      BY <1>0, <3>2, Moved DEF OnlyRun
    <3>4. RunWellFormed(r)'
      BY <1>0, <3>1, <3>3 DEF OnlyRun, RunWellFormed, InLoop, InTry, Wf
    <3> QED
      BY <1>0, <3>1, <3>3, <3>4, RunChanged
  <2>4. CASE CallFails(c)
    <3>1. /\ run' \in [Runs -> RunRecord]
          /\ \A r \in Runs : r # call[c].run => run'[r] = run[r]
          /\ \A r \in Runs : r = call[c].run =>
                 run'[r].at = "gone" /\ run'[r].wf = run[r].wf
      BY <2>4, <1>0, Fails
    <3>2. ASSUME NEW r \in Runs, r # call[c].run
          PROVE  RunWellFormed(r)'
      <4>1. run'[r] = run[r] /\ RunWellFormed(r)
        BY <1>0, <3>1, <3>2
      <4> QED
        BY <4>1 DEF RunWellFormed, Wf
    <3>3. ASSUME NEW r \in Runs, r = call[c].run
          PROVE  RunWellFormed(r)'
      <4>1. call[c].at \in WithClaim /\ run[r].at = "claimed"
        <5>1. 0 \notin Runs
          BY BoundsAssumption DEF Runs
        <5> QED
          BY <1>0, <3>3, <5>1 DEF CallsOwnRuns
      <4>2. run'[r].at = "gone" /\ Wf(r)' = Wf(r) /\ RunWellFormed(r)
        BY <1>0, <3>1, <3>3 DEF Wf
      <4> QED
        BY <4>1, <4>2 DEF RunWellFormed, InLoop, InTry
    <3> QED
      BY <3>1, <3>2, <3>3 DEF RunsOK
  <2> QED
    BY <1>2, <2>1, <2>2, <2>3, <2>4 DEF CallStep
<1>3. ASSUME NEW r \in Runs, RunStep(r) \/ Raise(r) \/ Killed(r) \/ WorkerLost(r)
      PROVE  RunsOK'
  <2>1. RunMove(r)
    BY <1>3, RunMoves
  <2> QED
    BY <1>0, <2>1, RunChanged DEF RunMove
<1>4. ASSUME NEW s \in Steps, OtherStep(s)
      PROVE  RunsOK'
  <2>1. CASE OtherStep(s)
    BY <2>1, <1>0, OthersAlone DEF RunsOK, RunWellFormed, Wf
  <2> QED
    BY <1>4, <2>1
<1>5. CASE ExpireRunningKey
  BY <1>5, <1>0 DEF ExpireRunningKey, RunsOK, RunWellFormed, Wf
<1>6. CASE UNCHANGED vars
  BY <1>0, <1>6 DEF vars, RunsOK, RunWellFormed, Wf
<1> QED
  BY <1>1, <1>2, <1>3, <1>4, <1>5, <1>6 DEF Next

OnlyCall(c) == /\ call' \in [Calls -> CallRecord]
               /\ \A b \in Calls \ {c} : call'[b] = call[b]

CallsOK == call \in [Calls -> CallRecord] /\ \A c \in Calls : CallWellFormed(c)

\* The same of the calls.
LEMMA CallChanged ==
    ASSUME CallsOK, NEW c \in Calls, OnlyCall(c), CallWellFormed(c)'
    PROVE  CallsOK'
<1>1. ASSUME NEW b \in Calls \ {c}
      PROVE  CallWellFormed(b)'
  <2>1. call'[b] = call[b] /\ CallWellFormed(b)
    BY DEF OnlyCall, CallsOK
  <2> QED
    BY <2>1 DEF CallWellFormed
<1> QED
  BY <1>1 DEF CallsOK, OnlyCall

\* A pause or a stop goes on with the children it read, to the last running one if
\* there is one.
ReadsToInterrupt(c) ==
    /\ OnlyCall(c)
    /\ call[c].at = "flagged" /\ call[c].wf \in Workflows
    /\ call[c].op \in {"paused", "stopped"} /\ call'[c].op = call[c].op
    /\ call'[c].wf = call[c].wf /\ call'[c].run = call[c].run
    /\ call'[c].children = state[call[c].wf].children
    /\ \/ call'[c].at = "marking"
       \/ call'[c].at = "signalling" /\ LastRunning(call'[c].children) # 0

\* What pause and stop read decides whether they have an import to signal.
LEMMA WhatIsRead ==
    ASSUME TypeOK, NEW c \in Calls, CallWellFormed(c), ReadToInterrupt(c)
    PROVE  ReadsToInterrupt(c)
<1> DEFINE children == state[call[c].wf].children
           at == IF LastRunning(children) = 0 THEN "marking" ELSE "signalling"
           old == call[c]
           new == [old EXCEPT !.children = children, !.at = at]
<1>1. /\ call \in [Calls -> CallRecord] /\ old \in CallRecord
      /\ state \in [Workflows -> Document]
  BY Typed
<1>2. call[c].at = "flagged" /\ call[c].wf \in Workflows /\ call[c].op \in {"paused", "stopped"}
  BY DEF ReadToInterrupt, At, CallWellFormed
<1>3. call' = [call EXCEPT ![c] = new]
  BY DEF ReadToInterrupt
<1>4. children \in Seq(Child)
  BY <1>1, <1>2 DEF Document
<1>5. /\ at \in {"marking", "signalling"}
      /\ at = "signalling" => LastRunning(children) # 0
  OBVIOUS
<1>6. at \in CallState
  BY <1>5 DEF CallState
<1> HIDE DEF at, children, old
<1>7. /\ new \in CallRecord /\ new.at = at /\ new.children = children
      /\ new.op = old.op /\ new.wf = old.wf /\ new.run = old.run
  BY <1>1, <1>4, <1>6 DEF CallRecord
<1> HIDE DEF new
<1>8. /\ call' \in [Calls -> CallRecord] /\ call'[c] = new
      /\ \A b \in Calls \ {c} : call'[b] = call[b]
  BY <1>1, <1>3, <1>7
<1> QED
  BY <1>2, <1>5, <1>7, <1>8 DEF ReadsToInterrupt, OnlyCall, old, children

\* Every step leaves the records of the calls well formed.
LEMMA CallsStep ==
    ASSUME TypeOK, WellFormed, [Next]_vars
    PROVE  CallsOK'
<1>0. /\ TypeOK /\ WellFormed /\ CallsOK
      /\ run \in [Runs -> RunRecord] /\ call \in [Calls -> CallRecord]
      /\ state \in [Workflows -> Document]
      /\ \A c \in Calls : CallWellFormed(c)
  BY Typed DEF WellFormed, CallsOK
<1>1. ASSUME NEW c \in Calls, NEW w \in Workflows, Start(c, w) \/ Resume(c, w) \/ Interrupt(c, w)
      PROVE  CallsOK'
  <2>1. CASE Start(c, w)
    <3>1. ClaimedBy(c, w, "saving") /\ "saving" \in CallState
      BY <2>1 DEF Start, ClaimedBy, CallState
    <3>2. OnlyCall(c) /\ call'[c].at = "saving" /\ call'[c].wf = w
      BY <1>0, <3>1, Claims DEF OnlyCall
    <3> QED
      BY <1>0, <3>2, CallChanged DEF CallWellFormed
  <2>2. CASE Resume(c, w)
    <3> DEFINE children == state[w].children
               new == [NoCall EXCEPT !.op = "resume", !.at = "claiming", !.wf = w,
                                     !.children = children]
    <3>1. call' = [call EXCEPT ![c] = new]
      BY <2>2 DEF Resume
    <3>2. children \in Seq(Child) /\ <<>> \in Seq(Child) /\ 0 \in 0 .. MaxRuns
      BY <1>0, BoundsAssumption DEF Document
    <3> HIDE DEF children
    <3>3. NoCall \in CallRecord
      BY <3>2 DEF NoCall, CallRecord, CallState
    <3>4. new \in CallRecord
      BY <3>2, <3>3 DEF CallRecord, CallState
    <3>5. new.at = "claiming" /\ new.wf = w
      BY DEF NoCall
    <3> HIDE DEF new
    <3>6. OnlyCall(c) /\ call'[c].at = "claiming" /\ call'[c].wf = w
      BY <1>0, <3>1, <3>4, <3>5 DEF OnlyCall
    <3> QED
      BY <1>0, <3>6, CallChanged DEF CallWellFormed
  <2>3. CASE Interrupt(c, w)
    <3>1. PICK op \in {"paused", "stopped"} : Begin(c, op, "flagged", w)
      BY <2>3 DEF Interrupt
    <3>2. OnlyCall(c) /\ call'[c].at = "flagged" /\ call'[c].wf = w /\ call'[c].op = op
      BY <1>0, <3>1, Began DEF OnlyCall, CallState
    <3> QED
      BY <1>0, <3>2, CallChanged DEF CallWellFormed
  <2> QED
    BY <1>1, <2>1, <2>2, <2>3
<1>2. ASSUME NEW c \in Calls, GetRunning(c) \/ CallStep(c) \/ CallFails(c)
      PROVE  CallsOK'
  <2>1. CASE GetRunning(c)
    <3> DEFINE w == run[runningKey].wf
    <3>1. Begin(c, "get_running", "found", w)
      BY <2>1 DEF GetRunning
    <3>2. w \in Workflows
      <4>1. runningKey \in Runs /\ run[runningKey].at # "absent"
        BY <2>1, <1>0 DEF GetRunning, WellFormed, TypeOK
      <4> QED
        BY <1>0, <4>1 DEF WellFormed, RunWellFormed, Wf
    <3>3. OnlyCall(c) /\ call'[c].at = "found" /\ call'[c].wf \in Workflows
      <4> HIDE DEF w
      <4> QED
        BY <1>0, <3>1, <3>2, Began DEF OnlyCall, CallState
    <3> QED
      BY <1>0, <3>3, CallChanged DEF CallWellFormed
  <2>2. CASE ClaimForResume(c)
    <3> DEFINE w == call[c].wf
    <3>1. ClaimedBy(c, w, "unpausing") /\ "unpausing" \in CallState
      BY <2>2 DEF ClaimForResume, ClaimedBy, CallState
    <3>2. w \in Workflows
      BY <2>2, <1>0 DEF ClaimForResume, At, CallWellFormed
    <3>3. OnlyCall(c) /\ call'[c].at = "unpausing" /\ call'[c].wf \in Workflows
      <4> HIDE DEF w
      <4> QED
        BY <1>0, <3>1, <3>2, Claims DEF OnlyCall
    <3> QED
      BY <1>0, <3>3, CallChanged DEF CallWellFormed
  <2>3. CASE ResumeRefused(c) \/ Send(c) \/ MarkInterrupted(c) \/ DropRunningKey(c) \/
            CallFails(c)
    BY <2>3, <1>0, Returned, CallChanged DEF ResumeRefused, Send, MarkInterrupted,
       DropRunningKey, CallFails, OnlyCall, CallWellFormed
  <2>4. CASE DeletePauseFlag(c)
    <3>1. call[c].at = "unpausing" /\ Goto(c, "unstopping") /\ "unstopping" \in CallState
      BY <2>4 DEF DeletePauseFlag, At, CallState
    <3>2. /\ OnlyCall(c) /\ call'[c].at = "unstopping" /\ call'[c].wf = call[c].wf
          /\ call'[c].op = call[c].op
      BY <1>0, <3>1, Went DEF OnlyCall
    <3> QED
      BY <1>0, <3>1, <3>2, CallChanged DEF CallWellFormed
  <2>5. CASE DeleteStopFlag(c)
    <3>1. call[c].at = "unstopping" /\ Goto(c, "saving") /\ "saving" \in CallState
      BY <2>5 DEF DeleteStopFlag, At, CallState
    <3>2. /\ OnlyCall(c) /\ call'[c].at = "saving" /\ call'[c].wf = call[c].wf
          /\ call'[c].op = call[c].op
      BY <1>0, <3>1, Went DEF OnlyCall
    <3> QED
      BY <1>0, <3>1, <3>2, CallChanged DEF CallWellFormed
  <2>6. CASE SavePending(c)
    <3>1. call[c].at = "saving" /\ Goto(c, "sending") /\ "sending" \in CallState
      BY <2>6 DEF SavePending, At, CallState
    <3>2. /\ OnlyCall(c) /\ call'[c].at = "sending" /\ call'[c].wf = call[c].wf
          /\ call'[c].op = call[c].op
      BY <1>0, <3>1, Went DEF OnlyCall
    <3> QED
      BY <1>0, <3>1, <3>2, CallChanged DEF CallWellFormed
  <2>7. CASE ReadToInterrupt(c)
    <3>1. ReadsToInterrupt(c)
      BY <2>7, <1>0, WhatIsRead DEF WellFormed
    <3> QED
      BY <1>0, <3>1, CallChanged DEF CallWellFormed, ReadsToInterrupt
  <2>8. CASE SignalChild(c)
    <3>1. call[c].at = "signalling" /\ Goto(c, "marking") /\ "marking" \in CallState
      BY <2>8 DEF SignalChild, At, CallState
    <3>2. /\ OnlyCall(c) /\ call'[c].at = "marking" /\ call'[c].wf = call[c].wf
          /\ call'[c].op = call[c].op
      BY <1>0, <3>1, Went DEF OnlyCall
    <3> QED
      BY <1>0, <3>1, <3>2, CallChanged DEF CallWellFormed
  <2>9. CASE LookUpState(c)
    <3>1. call[c].at = "found" /\ (Goto(c, "dropping") \/ Return(c))
      BY <2>9 DEF LookUpState, At
    <3>2. CASE Goto(c, "dropping")
      <4>1. OnlyCall(c) /\ call'[c].at = "dropping" /\ call'[c].wf = call[c].wf
        BY <1>0, <3>2, Went DEF OnlyCall, CallState
      <4> QED
        BY <1>0, <3>1, <4>1, CallChanged DEF CallWellFormed
    <3>3. CASE Return(c)
      BY <1>0, <3>3, Returned, CallChanged DEF OnlyCall, CallWellFormed
    <3> QED
      BY <3>1, <3>2, <3>3
  <2> QED
    BY <1>2, <2>1, <2>2, <2>3, <2>4, <2>5, <2>6, <2>7, <2>8, <2>9 DEF CallStep
<1>3. ASSUME NEW r \in Runs, RunStep(r) \/ Raise(r) \/ Killed(r) \/ WorkerLost(r)
      PROVE  CallsOK'
  <2>1. CASE Load(r) \/ PollPause(r) \/ PollStop(r) \/ EnterStep(r) \/ TakeLock(r) \/
            ReadHolder(r)
    <3>1. call' = call
      BY <2>1 DEF Load, PollPause, PollStop, EnterStep, TakeLock, ReadHolder, MarkFailed
    <3> QED
      BY <1>0, <3>1 DEF CallsOK, CallWellFormed
  <2>2. CASE Inspect(r) \/ CompareLock(r) \/ DropStaleLock(r) \/ RefuseStep(r) \/
            AddChild(r) \/ Import(r)
    <3>1. call' = call
      BY <2>2 DEF Inspect, CompareLock, DropStaleLock, RefuseStep, AddChild, Import,
         MarkFailed
    <3> QED
      BY <1>0, <3>1 DEF CallsOK, CallWellFormed
  <2>3. CASE RecordChild(r) \/ PauseOrStop(r) \/ Close(r) \/ Release(r) \/
            ReleaseAgain(r) \/ MarkStateFailed(r)
    <3>1. call' = call
      BY <2>3 DEF RecordChild, PauseOrStop, Close, Release, ReleaseAgain,
         MarkStateFailed, MarkFailed
    <3> QED
      BY <1>0, <3>1 DEF CallsOK, CallWellFormed
  <2>4. CASE ReadAgain(r) \/ MarkAgain(r) \/ ReleaseLast(r) \/ Raise(r) \/ Killed(r) \/
            WorkerLost(r)
    <3>1. call' = call
      BY <2>4 DEF ReadAgain, MarkAgain, ReleaseLast, Raise, Killed, WorkerLost, MarkFailed
    <3> QED
      BY <1>0, <3>1 DEF CallsOK, CallWellFormed
  <2> QED
    BY <1>3, <2>1, <2>2, <2>3, <2>4 DEF RunStep
<1>4. ASSUME NEW s \in Steps, OtherStep(s)
      PROVE  CallsOK'
  <2>1. CASE OtherStep(s)
    <3>1. call' = call
      BY <2>1, OthersAlone
    <3> QED
      BY <1>0, <3>1 DEF CallsOK, CallWellFormed
  <2> QED
    BY <1>4, <2>1
<1>5. CASE ExpireRunningKey
  BY <1>5, <1>0 DEF ExpireRunningKey, CallsOK, CallWellFormed
<1>6. CASE UNCHANGED vars
  BY <1>0, <1>6 DEF vars, CallsOK, CallWellFormed
<1> QED
  BY <1>1, <1>2, <1>3, <1>4, <1>5, <1>6 DEF Next

\* Every step leaves documents in the state.
LEMMA StateStep ==
    ASSUME TypeOK, WellFormed, [Next]_vars
    PROVE  state' \in [Workflows -> Document]
<1>0. /\ TypeOK /\ lostCount \in 0 .. MaxLost
      /\ run \in [Runs -> RunRecord] /\ call \in [Calls -> CallRecord]
      /\ state \in [Workflows -> Document]
      /\ \A r \in Runs : RunWellFormed(r)
      /\ \A c \in Calls : CallWellFormed(c)
  BY Typed DEF TypeOK, WellFormed
<1>1. ASSUME NEW c \in Calls, NEW w \in Workflows, Start(c, w) \/ Resume(c, w) \/ Interrupt(c, w)
      PROVE  state' \in [Workflows -> Document]
  <2>1. CASE Start(c, w) \/ Resume(c, w) \/ Interrupt(c, w)
    BY <2>1, <1>0 DEF Start, Resume, Interrupt, keys
  <2> QED
    BY <1>1, <2>1
<1>2. ASSUME NEW c \in Calls, GetRunning(c) \/ CallStep(c) \/ CallFails(c)
      PROVE  state' \in [Workflows -> Document]
  <2>1. CASE GetRunning(c) \/ ClaimForResume(c) \/ ResumeRefused(c) \/
            DeletePauseFlag(c) \/ DeleteStopFlag(c) \/ Send(c) \/ ReadToInterrupt(c)
            \/ SignalChild(c) \/ LookUpState(c) \/ DropRunningKey(c) \/ CallFails(c)
    BY <2>1, <1>0 DEF GetRunning, ClaimForResume, ResumeRefused, DeletePauseFlag,
       DeleteStopFlag, Send, ReadToInterrupt, SignalChild, LookUpState, DropRunningKey,
       CallFails, keys
  <2>2. CASE SavePending(c)
    <3> DEFINE w == call[c].wf
               children == call[c].children
    <3>1. w \in Workflows /\ children \in Seq(Child) /\ Save(w, "pending", children)
      BY <2>2, <1>0, CallFields DEF SavePending, At, CallWellFormed
    <3> HIDE DEF w, children
    <3> QED
      BY <1>0, <3>1, Saved DEF Status
  <2>3. CASE MarkInterrupted(c)
    <3> DEFINE w == call[c].wf
               children == call[c].children
               op == call[c].op
    <3>1. /\ w \in Workflows /\ children \in Seq(Child) /\ op \in {"paused", "stopped"}
          /\ Save(w, op, children)
      BY <2>3, <1>0, CallFields DEF MarkInterrupted, At, CallWellFormed
    <3> HIDE DEF w, children, op
    <3> QED
      BY <1>0, <3>1, Saved DEF Status
  <2> QED
    BY <1>2, <2>1, <2>2, <2>3 DEF CallStep
<1>3. ASSUME NEW r \in Runs, RunStep(r) \/ Raise(r) \/ Killed(r) \/ WorkerLost(r)
      PROVE  state' \in [Workflows -> Document]
  <2>a. /\ RunWellFormed(r) /\ (run[r].at # "absent" => Wf(r) \in Workflows)
        /\ run[r].children \in Seq(Child) /\ run[r].step \in 0 .. NumSteps
    BY <1>0, RunFields DEF RunWellFormed
  <2>1. CASE Load(r)
    <3> DEFINE children == Kept(r)
    <3>1. run[r].at # "absent" /\ Save(Wf(r), "running", children)
      BY <2>1 DEF Load, In
    <3>2. children \in Seq(Child)
      BY <1>0, <2>a, <3>1, KeptChildren
    <3> HIDE DEF children
    <3> QED
      BY <1>0, <2>a, <3>1, <3>2, Saved DEF Status
  <2>2. CASE PollPause(r) \/ PollStop(r) \/ TakeLock(r) \/ ReadHolder(r) \/ Inspect(r)
            \/ CompareLock(r) \/ DropStaleLock(r) \/ Import(r) \/ PauseOrStop(r) \/
            Release(r) \/ ReleaseAgain(r) \/ ReadAgain(r) \/ ReleaseLast(r) \/
            Raise(r) \/ Killed(r) \/ WorkerLost(r)
    BY <2>2, <1>0 DEF PollPause, PollStop, TakeLock, ReadHolder, Inspect, CompareLock,
       DropStaleLock, Import, PauseOrStop, Release, ReleaseAgain, ReadAgain, ReleaseLast,
       Raise, Killed, WorkerLost, keys
  <2>3. CASE EnterStep(r)
    <3> DEFINE children == run[r].children
    <3>1. run[r].at # "absent" /\ Save(Wf(r), "running", children)
      BY <2>3 DEF EnterStep, In
    <3>2. children \in Seq(Child)
      BY <2>a
    <3> HIDE DEF children
    <3> QED
      BY <1>0, <2>a, <3>1, <3>2, Saved DEF Status
  <2>4. CASE RefuseStep(r)
    <3> DEFINE child == [id |-> <<r, run[r].step, lostCount>>, status |-> "failed"]
               children == Append(run[r].children, child)
    <3>1. run[r].at = "refuse" /\ run[r].step \in Steps /\ Save(Wf(r), "running", children)
      BY <2>4, <2>a DEF RefuseStep, In, RunWellFormed, InLoop, InTry
    <3>2. children \in Seq(Child)
      <4>1. child \in Child
        BY <1>0, <3>1 DEF Child, ChildStatus, Ids
      <4> QED
        BY <2>a, <4>1, AppendProperties
    <3> HIDE DEF children
    <3> QED
      BY <1>0, <2>a, <3>1, <3>2, Saved DEF Status
  <2>5. CASE AddChild(r)
    <3> DEFINE child == [id |-> run[r].id, status |-> "running"]
               children == Append(run[r].children, child)
    <3>1. /\ run[r].at = "add" /\ Save(Wf(r), "running", children)
          /\ run[r].step \in Steps
          /\ run[r].id \in {r} \X {run[r].step} \X (0 .. MaxLost)
      BY <2>5, <2>a DEF AddChild, In, RunWellFormed, InLoop, InTry
    <3>2. children \in Seq(Child)
      <4>1. child \in Child
        BY <3>1 DEF Child, ChildStatus, Ids
      <4> QED
        BY <2>a, <4>1, AppendProperties
    <3> HIDE DEF children
    <3> QED
      BY <1>0, <2>a, <3>1, <3>2, Saved DEF Status
  <2>6. CASE RecordChild(r)
    <3> DEFINE children == run[r].children
    <3>1. run[r].at # "absent" /\ Save(Wf(r), "running", children)
      BY <2>6 DEF RecordChild, In
    <3>2. children \in Seq(Child)
      BY <2>a
    <3> HIDE DEF children
    <3> QED
      BY <1>0, <2>a, <3>1, <3>2, Saved DEF Status
  <2>7. CASE Close(r)
    <3> DEFINE children == run[r].children
               result == run[r].result
    <3>1. /\ run[r].at # "absent" /\ Save(Wf(r), result, children)
          /\ result \in {"completed", "failed", "paused", "stopped"}
      BY <2>7, <2>a DEF Close, In, RunWellFormed
    <3>2. children \in Seq(Child)
      BY <2>a
    <3> HIDE DEF children, result
    <3> QED
      BY <1>0, <2>a, <3>1, <3>2, Saved DEF Status
  <2>8. CASE MarkStateFailed(r)
    <3>1. run[r].at = "mark" /\ MarkFailed(r, "failed", "release") /\ "release" \in RunState
      BY <2>8, RunStates DEF MarkStateFailed, In
    <3> QED
      BY <1>0, <2>a, <3>1, MarksFailed
  <2>9. CASE MarkAgain(r)
    <3>1. run[r].at = "remark" /\ MarkFailed(r, "stale_failed", "last") /\ "last" \in RunState
      BY <2>9, RunStates DEF MarkAgain, In
    <3> QED
      BY <1>0, <2>a, <3>1, MarksFailed
  <2> QED
    BY <1>3, <2>1, <2>2, <2>3, <2>4, <2>5, <2>6, <2>7, <2>8, <2>9 DEF RunStep
<1>4. ASSUME NEW s \in Steps, OtherStep(s)
      PROVE  state' \in [Workflows -> Document]
  <2>1. CASE OtherStep(s)
    BY <2>1, <1>0, OthersAlone
  <2> QED
    BY <1>4, <2>1
<1>5. CASE ExpireRunningKey
  BY <1>5, <1>0 DEF ExpireRunningKey
<1>6. CASE UNCHANGED vars
  BY <1>0, <1>6 DEF vars
<1> QED
  BY <1>1, <1>2, <1>3, <1>4, <1>5, <1>6 DEF Next

\* Every step leaves tasks and nothing else in the locks.
LEMMA LockStep ==
    ASSUME TypeOK, WellFormed, [Next]_vars
    PROVE  lock' \in [Steps -> Ids \cup {None, Rival}]
<1>0. /\ TypeOK /\ lock \in [Steps -> Ids \cup {None, Rival}] /\ lostCount \in 0 .. MaxLost
      /\ run \in [Runs -> RunRecord] /\ call \in [Calls -> CallRecord]
      /\ state \in [Workflows -> Document]
      /\ \A r \in Runs : RunWellFormed(r)
      /\ \A c \in Calls : CallWellFormed(c)
  BY Typed DEF TypeOK, WellFormed
<1>1. ASSUME NEW c \in Calls, NEW w \in Workflows, Start(c, w) \/ Resume(c, w) \/ Interrupt(c, w)
      PROVE  lock' \in [Steps -> Ids \cup {None, Rival}]
  <2>1. CASE Start(c, w) \/ Resume(c, w) \/ Interrupt(c, w)
    BY <2>1, <1>0 DEF Start, Resume, Interrupt, keys
  <2> QED
    BY <1>1, <2>1
<1>2. ASSUME NEW c \in Calls, GetRunning(c) \/ CallStep(c) \/ CallFails(c)
      PROVE  lock' \in [Steps -> Ids \cup {None, Rival}]
  <2>1. CASE GetRunning(c) \/ ClaimForResume(c) \/ ResumeRefused(c) \/
            DeletePauseFlag(c) \/ DeleteStopFlag(c) \/ SavePending(c) \/ Send(c) \/
            ReadToInterrupt(c) \/ SignalChild(c) \/ MarkInterrupted(c) \/
            LookUpState(c) \/ DropRunningKey(c) \/ CallFails(c)
    BY <2>1, <1>0 DEF GetRunning, ClaimForResume, ResumeRefused, DeletePauseFlag,
       DeleteStopFlag, SavePending, Send, ReadToInterrupt, SignalChild, MarkInterrupted,
       LookUpState, DropRunningKey, CallFails, keys
  <2> QED
    BY <1>2, <2>1 DEF CallStep
<1>3. ASSUME NEW r \in Runs, RunStep(r) \/ Raise(r) \/ Killed(r) \/ WorkerLost(r)
      PROVE  lock' \in [Steps -> Ids \cup {None, Rival}]
  <2>a. /\ RunWellFormed(r) /\ (run[r].at # "absent" => Wf(r) \in Workflows)
        /\ run[r].children \in Seq(Child) /\ run[r].step \in 0 .. NumSteps
    BY <1>0, RunFields DEF RunWellFormed
  <2>1. CASE Load(r) \/ PollPause(r) \/ PollStop(r) \/ EnterStep(r) \/ ReadHolder(r) \/
            Inspect(r) \/ CompareLock(r) \/ RefuseStep(r) \/ AddChild(r) \/
            RecordChild(r) \/ PauseOrStop(r) \/ Close(r) \/ Release(r) \/
            ReleaseAgain(r) \/ ReadAgain(r) \/ ReleaseLast(r) \/ Raise(r) \/ Killed(r)
            \/ WorkerLost(r)
    BY <2>1, <1>0 DEF Load, PollPause, PollStop, EnterStep, ReadHolder, Inspect,
       CompareLock, RefuseStep, AddChild, RecordChild, PauseOrStop, Close, Release,
       ReleaseAgain, ReadAgain, ReleaseLast, Raise, Killed, WorkerLost, keys
  <2>2. CASE TakeLock(r)
    <3>1. run[r].step \in Steps
      BY <2>2, <2>a DEF TakeLock, In, RunWellFormed, InLoop, InTry
    <3> QED
      BY <2>2, <1>0, <3>1, Locks
  <2>3. CASE DropStaleLock(r) \/ Import(r)
    BY <2>3, <1>0 DEF DropStaleLock, Import
  <2>4. CASE MarkStateFailed(r)
    <3>1. run[r].at = "mark" /\ MarkFailed(r, "failed", "release") /\ "release" \in RunState
      BY <2>4, RunStates DEF MarkStateFailed, In
    <3> QED
      BY <1>0, <2>a, <3>1, MarksFailed
  <2>5. CASE MarkAgain(r)
    <3>1. run[r].at = "remark" /\ MarkFailed(r, "stale_failed", "last") /\ "last" \in RunState
      BY <2>5, RunStates DEF MarkAgain, In
    <3> QED
      BY <1>0, <2>a, <3>1, MarksFailed
  <2> QED
    BY <1>3, <2>1, <2>2, <2>3, <2>4, <2>5 DEF RunStep
<1>4. ASSUME NEW s \in Steps, OtherStep(s)
      PROVE  lock' \in [Steps -> Ids \cup {None, Rival}]
  <2>1. CASE RivalStarts(s) \/ RivalEnds(s)
    BY <2>1, <1>0 DEF RivalStarts, RivalEnds
  <2>2. CASE RivalChecks(s) \/ RivalMoves(s) \/ RivalReturns(s)
    BY <2>2, <1>0 DEF RivalChecks, RivalMoves, RivalReturns, keys
  <2>3. CASE LockExpires(s) \/ StopImport(s)
    BY <2>3, <1>0 DEF LockExpires, StopImport, DropLock
  <2> QED
    BY <1>4, <2>1, <2>2, <2>3 DEF OtherStep
<1>5. CASE ExpireRunningKey
  BY <1>5, <1>0 DEF ExpireRunningKey
<1>6. CASE UNCHANGED vars
  BY <1>0, <1>6 DEF vars
<1> QED
  BY <1>1, <1>2, <1>3, <1>4, <1>5, <1>6 DEF Next

RestOK ==
    /\ runningKey \in Runs \cup {None}
    /\ pauseFlag \in [Workflows -> BOOLEAN] /\ stopFlag \in [Workflows -> BOOLEAN]
    /\ importStop \subseteq Ids
    /\ rival \in [Steps -> RivalState]
    /\ lostCount \in 0 .. MaxLost /\ drops \in 0 .. MaxDrops
    /\ breach \in BOOLEAN /\ evicted \in BOOLEAN
    /\ imported \subseteq Workflows \X Steps

\* Every step keeps the other keys, the counters and the histories to their values.
LEMMA RestStep ==
    ASSUME TypeOK, WellFormed, [Next]_vars
    PROVE  RestOK'
<1>0. /\ TypeOK /\ RestOK /\ lostCount \in 0 .. MaxLost
      /\ run \in [Runs -> RunRecord] /\ call \in [Calls -> CallRecord]
      /\ state \in [Workflows -> Document]
      /\ \A r \in Runs : RunWellFormed(r)
      /\ \A c \in Calls : CallWellFormed(c)
  BY Typed DEF TypeOK, RestOK, WellFormed
<1>1. ASSUME NEW c \in Calls, NEW w \in Workflows, Start(c, w) \/ Resume(c, w) \/ Interrupt(c, w)
      PROVE  RestOK'
  <2>1. CASE Start(c, w)
    BY <2>1, <1>0 DEF Start, Claim, flagVars, counters, history, RestOK
  <2>2. CASE Resume(c, w)
    BY <2>2, <1>0 DEF Resume, keys, flagVars, counters, history, RestOK
  <2>3. CASE Interrupt(c, w)
    BY <2>3, <1>0 DEF Interrupt, flagVars, counters, history, RestOK
  <2> QED
    BY <1>1, <2>1, <2>2, <2>3
<1>2. ASSUME NEW c \in Calls, GetRunning(c) \/ CallStep(c) \/ CallFails(c)
      PROVE  RestOK'
  <2>1. CASE GetRunning(c) \/ ResumeRefused(c) \/ SavePending(c) \/ Send(c) \/
            ReadToInterrupt(c) \/ MarkInterrupted(c) \/ LookUpState(c) \/ CallFails(c)
    BY <2>1, <1>0 DEF GetRunning, ResumeRefused, SavePending, Send, ReadToInterrupt,
       MarkInterrupted, LookUpState, CallFails, keys, flagVars, counters, history, RestOK
  <2>2. CASE ClaimForResume(c)
    BY <2>2, <1>0 DEF ClaimForResume, Claim, flagVars, counters, history, RestOK
  <2>3. CASE DeletePauseFlag(c) \/ DeleteStopFlag(c)
    BY <2>3, <1>0 DEF DeletePauseFlag, DeleteStopFlag, flagVars, counters, history, RestOK
  <2>4. CASE SignalChild(c)
    <3> DEFINE children == call[c].children
               i == LastRunning(children)
    <3>1. /\ children \in Seq(Child) /\ i # 0
          /\ importStop' = importStop \cup {children[i].id}
      BY <2>4, <1>0, CallFields DEF SignalChild, At, CallWellFormed
    <3>2. i \in 1 .. Len(children)
      BY <3>1, LastRunningChild
    <3> HIDE DEF children, i
    <3>3. children[i].id \in Ids
      <4>1. children[i] \in Child
        BY <3>1, <3>2, ElementOfSeq
      <4> QED
        BY <4>1 DEF Child
    <3> QED
      BY <2>4, <1>0, <3>1, <3>3 DEF SignalChild, counters, history, RestOK
  <2>5. CASE DropRunningKey(c)
    <3>1. breach' \in BOOLEAN /\ runningKey' = None
      BY <2>5, Zenon DEF DropRunningKey, TakeKey
    <3> QED
      BY <2>5, <1>0, <3>1 DEF DropRunningKey, flagVars, counters, RestOK
  <2> QED
    BY <1>2, <2>1, <2>2, <2>3, <2>4, <2>5 DEF CallStep
<1>3. ASSUME NEW r \in Runs, RunStep(r) \/ Raise(r) \/ Killed(r) \/ WorkerLost(r)
      PROVE  RestOK'
  <2>a. /\ RunWellFormed(r) /\ (run[r].at # "absent" => Wf(r) \in Workflows)
        /\ run[r].children \in Seq(Child) /\ run[r].step \in 0 .. NumSteps
    BY <1>0, RunFields DEF RunWellFormed
  <2>1. CASE Load(r) \/ PollPause(r) \/ PollStop(r) \/ EnterStep(r) \/ TakeLock(r) \/
            ReadHolder(r) \/ Inspect(r) \/ CompareLock(r) \/ RefuseStep(r) \/
            AddChild(r) \/ RecordChild(r) \/ PauseOrStop(r) \/ Close(r) \/
            ReadAgain(r) \/ Raise(r) \/ Killed(r)
    BY <2>1, <1>0 DEF Load, PollPause, PollStop, EnterStep, TakeLock, ReadHolder,
       Inspect, CompareLock, RefuseStep, AddChild, RecordChild, PauseOrStop, Close,
       ReadAgain, Raise, Killed, keys, flagVars, counters, history, RestOK
  <2>2. CASE DropStaleLock(r)
    <3>1. evicted' \in BOOLEAN
      BY <2>2, Zenon DEF DropStaleLock
    <3> QED
      BY <2>2, <1>0, <3>1 DEF DropStaleLock, flagVars, counters, RestOK
  <2>3. CASE Import(r)
    <3>1. run[r].at = "import" /\ run[r].step \in Steps
      BY <2>3, <2>a DEF Import, In, RunWellFormed, InLoop, InTry
    <3>2. imported' \subseteq imported \cup {<<Wf(r), run[r].step>>}
      BY <2>3 DEF Import
    <3>3. <<Wf(r), run[r].step>> \in Workflows \X Steps
      BY <2>a, <3>1
    <3>4. imported' \subseteq Workflows \X Steps
      BY <1>0, <3>2, <3>3 DEF RestOK
    <3> QED
      BY <2>3, <1>0, <3>4 DEF Import, flagVars, counters, RestOK
  <2>4. CASE Release(r)
    <3>1. breach' \in BOOLEAN /\ runningKey' = None
      BY <2>4, Zenon DEF Release, TakeKey
    <3> QED
      BY <2>4, <1>0, <3>1 DEF Release, flagVars, counters, RestOK
  <2>5. CASE ReleaseAgain(r)
    <3>1. breach' \in BOOLEAN /\ runningKey' = None
      BY <2>5, Zenon DEF ReleaseAgain, TakeKey
    <3> QED
      BY <2>5, <1>0, <3>1 DEF ReleaseAgain, flagVars, counters, RestOK
  <2>6. CASE MarkStateFailed(r)
    <3>1. run[r].at = "mark" /\ MarkFailed(r, "failed", "release") /\ "release" \in RunState
      BY <2>6, RunStates DEF MarkStateFailed, In
    <3>2. evicted' \in BOOLEAN
      BY <1>0, <2>a, <3>1, MarksFailed
    <3> QED
      BY <1>0, <3>1, <3>2 DEF MarkFailed, flagVars, counters, RestOK
  <2>7. CASE MarkAgain(r)
    <3>1. run[r].at = "remark" /\ MarkFailed(r, "stale_failed", "last") /\ "last" \in RunState
      BY <2>7, RunStates DEF MarkAgain, In
    <3>2. evicted' \in BOOLEAN
      BY <1>0, <2>a, <3>1, MarksFailed
    <3> QED
      BY <1>0, <3>1, <3>2 DEF MarkFailed, flagVars, counters, RestOK
  <2>8. CASE ReleaseLast(r)
    <3>1. breach' \in BOOLEAN /\ runningKey' = None
      BY <2>8, Zenon DEF ReleaseLast, TakeKey
    <3> QED
      BY <2>8, <1>0, <3>1 DEF ReleaseLast, flagVars, counters, RestOK
  <2>9. CASE WorkerLost(r)
    <3>1. breach' \in BOOLEAN
      BY <2>9, Zenon DEF WorkerLost
    <3> QED
      BY <2>9, <1>0, <3>1, BoundsAssumption DEF WorkerLost, keys, flagVars, RestOK
  <2> QED
    BY <1>3, <2>1, <2>2, <2>3, <2>4, <2>5, <2>6, <2>7, <2>8, <2>9 DEF RunStep
<1>4. ASSUME NEW s \in Steps, OtherStep(s)
      PROVE  RestOK'
  <2>1. /\ runningKey' = runningKey /\ breach' = breach /\ imported' = imported
        /\ pauseFlag' = pauseFlag /\ stopFlag' = stopFlag
    BY <1>4, OthersAlone
  <2>2. CASE RivalChecks(s) \/ RivalMoves(s)
    BY <2>1, <2>2, <1>0 DEF RivalChecks, RivalMoves, keys, flagVars, counters, history,
       RestOK, RivalState
  <2>3. CASE RivalStarts(s)
    <3>1. evicted' \in BOOLEAN
      BY <2>3, Zenon DEF RivalStarts
    <3> QED
      BY <2>1, <2>3, <3>1, <1>0 DEF RivalStarts, flagVars, counters, RestOK, RivalState
  <2>4. CASE RivalReturns(s)
    <3>1. evicted' \in BOOLEAN
      BY <2>4, Zenon DEF RivalReturns
    <3> QED
      BY <2>1, <2>4, <3>1, <1>0, BoundsAssumption DEF RivalReturns, keys, flagVars, RestOK,
         RivalState
  <2>5. CASE RivalEnds(s)
    BY <2>1, <2>5, <1>0 DEF RivalEnds, flagVars, counters, history, RestOK, RivalState
  <2>6. CASE LockExpires(s) \/ StopImport(s)
    <3>1. evicted' \in BOOLEAN
      BY <2>6, Zenon DEF LockExpires, StopImport, DropLock
    <3>2. drops' \in 0 .. MaxDrops
      BY <2>6, <1>0, BoundsAssumption DEF LockExpires, StopImport, DropLock, RestOK
    <3>3. importStop' \subseteq Ids
      <4>1. ASSUME NEW w \in Workflows, NEW i \in DOMAIN state[w].children
            PROVE  state[w].children[i].id \in Ids
        <5>1. state[w].children \in Seq(Child)
          BY <1>0 DEF Document
        <5>2. i \in 1 .. Len(state[w].children)
          BY <5>1
        <5>3. state[w].children[i] \in Child
          BY <5>1, <5>2, ElementOfSeq
        <5> QED
          BY <5>3 DEF Child
      <4> QED
        BY <2>6, <1>0, <4>1 DEF LockExpires, StopImport, flagVars, RestOK
    <3> QED
      BY <2>1, <2>6, <3>1, <3>2, <3>3, <1>0 DEF LockExpires, StopImport, RestOK
  <2> QED
    BY <1>4, <2>2, <2>3, <2>4, <2>5, <2>6 DEF OtherStep
<1>5. CASE ExpireRunningKey
  <2>1. breach' \in BOOLEAN /\ runningKey' = None
    BY <1>5, Zenon DEF ExpireRunningKey, TakeKey
  <2> QED
    BY <1>5, <1>0, <2>1, BoundsAssumption DEF ExpireRunningKey, flagVars, RestOK
<1>6. CASE UNCHANGED vars
  BY <1>0, <1>6 DEF vars, RestOK
<1> QED
  BY <1>1, <1>2, <1>3, <1>4, <1>5, <1>6 DEF Next
-----------------------------------------------------------------------------
(***************************************************************************)
(* A message that is not sent yet belongs to the one call that claimed the *)
(* running key for it.                                                     *)
(***************************************************************************)
\* What a run does is none of the calls' business.
LEMMA OwnersKept ==
    ASSUME TypeOK, CallsOwnRuns, NEW r \in Runs, RunMove(r), call' = call
    PROVE  CallsOwnRuns'
<1>1. ASSUME NEW c \in Calls, call[c].at \in WithClaim
      PROVE  run'[call[c].run] = run[call[c].run]
  <2>1. call[c].run \in Runs /\ run[call[c].run].at = "claimed"
    BY <1>1 DEF CallsOwnRuns
  <2>2. call[c].run # r
    BY <2>1 DEF RunMove, Executing, InTry
  <2> QED
    BY <2>1, <2>2 DEF RunMove, OnlyRun
<1> QED
  BY <1>1 DEF CallsOwnRuns, Wf

\* A call that returns, or begins, has no message; it touched no other's.
LEMMA OwnerGivesUp ==
    ASSUME CallsOwnRuns, NEW c \in Calls, OnlyCall(c),
           call'[c].at \notin WithClaim, call'[c].run = 0,
           \A q \in Runs : q # call[c].run => run'[q] = run[q]
    PROVE  CallsOwnRuns'
<1>0. 0 \notin Runs
  BY BoundsAssumption DEF Runs
<1>1. ASSUME NEW b \in Calls, call'[b].at \in WithClaim
      PROVE  /\ b # c /\ call'[b] = call[b]
             /\ call[b].run \in Runs /\ run'[call[b].run] = run[call[b].run]
  <2>1. b # c /\ call'[b] = call[b]
    BY <1>1 DEF OnlyCall
  <2>2. call[b].at \in WithClaim /\ call[b].run \in Runs
    BY <1>1, <2>1 DEF CallsOwnRuns
  <2>3. call[b].run # call[c].run
    BY <2>1, <2>2 DEF CallsOwnRuns
  <2> QED
    BY <2>1, <2>2, <2>3
<1>2. ASSUME NEW b \in Calls
      PROVE  IF call'[b].at \in WithClaim
             THEN /\ call'[b].run \in Runs
                  /\ run'[call'[b].run].at = "claimed"
                  /\ run'[call'[b].run].wf = call'[b].wf
             ELSE call'[b].run = 0
  <2>1. CASE call'[b].at \in WithClaim
    BY <1>1, <2>1 DEF CallsOwnRuns, Wf
  <2>2. CASE call'[b].at \notin WithClaim
    <3>1. b # c => call'[b] = call[b]
      BY DEF OnlyCall
    <3> QED
      BY <2>2, <3>1 DEF CallsOwnRuns
  <2> QED
    BY <2>1, <2>2
<1>3. ASSUME NEW a \in Calls, NEW b \in Calls, call'[a].at \in WithClaim,
             call'[a].run = call'[b].run
      PROVE  a = b
  <2>1. a # c /\ call'[a] = call[a] /\ call[a].run \in Runs /\ call[a].at \in WithClaim
    BY <1>1, <1>3
  <2>2. b # c
    BY <1>0, <1>3, <2>1
  <2>3. call'[b] = call[b]
    BY <2>2 DEF OnlyCall
  <2> QED
    BY <1>3, <2>1, <2>3 DEF CallsOwnRuns
<1> QED
  BY <1>2, <1>3 DEF CallsOwnRuns, Wf

\* A call that goes on keeps its message.
LEMMA OwnerGoesOn ==
    ASSUME CallsOwnRuns, NEW c \in Calls, OnlyCall(c), run' = run,
           call'[c].run = call[c].run, call'[c].wf = call[c].wf,
           call'[c].at \in WithClaim <=> call[c].at \in WithClaim
    PROVE  CallsOwnRuns'
<1>1. \A b \in Calls : /\ call'[b].run = call[b].run /\ call'[b].wf = call[b].wf
                       /\ call'[b].at \in WithClaim <=> call[b].at \in WithClaim
  BY DEF OnlyCall
<1> QED
  BY <1>1 DEF CallsOwnRuns, Wf

\* A call that takes the running key gets a message nobody has.
LEMMA OwnerClaims ==
    ASSUME TypeOK, CallsOwnRuns, NEW c \in Calls, NEW w \in Workflows,
           NEW at \in WithClaim, ClaimedBy(c, w, at)
    PROVE  CallsOwnRuns'
<1>1. at \in CallState
  BY DEF WithClaim, CallState
<1>2. PICK r \in Runs :
          /\ run[r].at = "absent"
          /\ call' \in [Calls -> CallRecord]
          /\ \A q \in Runs \ {r} : run'[q] = run[q]
          /\ run'[r].at = "claimed" /\ run'[r].wf = w
          /\ \A b \in Calls \ {c} : call'[b] = call[b]
          /\ call'[c].at = at /\ call'[c].wf = w /\ call'[c].run = r
  BY <1>1, Claims, Typed
<1>3. 0 \notin Runs
  BY BoundsAssumption DEF Runs
<1>4. \A b \in Calls : call[b].run # r
  BY <1>2, <1>3 DEF CallsOwnRuns
<1>5. ASSUME NEW b \in Calls
      PROVE  IF call'[b].at \in WithClaim
             THEN /\ call'[b].run \in Runs
                  /\ run'[call'[b].run].at = "claimed"
                  /\ run'[call'[b].run].wf = call'[b].wf
             ELSE call'[b].run = 0
  <2>1. CASE b = c
    BY <1>2, <2>1
  <2>2. CASE b # c
    <3>1. call'[b] = call[b] /\ call[b].run # r
      BY <1>2, <1>4, <2>2
    <3> QED
      BY <1>2, <3>1 DEF CallsOwnRuns, Wf
  <2> QED
    BY <2>1, <2>2
<1>6. ASSUME NEW a \in Calls, NEW b \in Calls, call'[a].at \in WithClaim,
             call'[a].run = call'[b].run
      PROVE  a = b
  <2>1. CASE a = c
    BY <1>2, <1>4, <1>6, <2>1
  <2>2. CASE a # c
    BY <1>2, <1>4, <1>6, <2>2 DEF CallsOwnRuns
  <2> QED
    BY <2>1, <2>2
<1> QED
  BY <1>5, <1>6 DEF CallsOwnRuns, Wf

\* No run touches a call.
LEMMA CallsAlone ==
    ASSUME NEW r \in Runs,
           RunStep(r) \/ Raise(r) \/ Killed(r) \/ WorkerLost(r)
    PROVE  call' = call
<1>1. CASE Load(r) \/ PollPause(r) \/ PollStop(r) \/ EnterStep(r) \/ TakeLock(r) \/
          ReadHolder(r)
  BY <1>1 DEF Load, PollPause, PollStop, EnterStep, TakeLock, ReadHolder, MarkFailed
<1>2. CASE Inspect(r) \/ CompareLock(r) \/ DropStaleLock(r) \/ RefuseStep(r) \/
          AddChild(r) \/ Import(r)
  BY <1>2 DEF Inspect, CompareLock, DropStaleLock, RefuseStep, AddChild, Import,
     MarkFailed
<1>3. CASE RecordChild(r) \/ PauseOrStop(r) \/ Close(r) \/ Release(r) \/
          ReleaseAgain(r) \/ MarkStateFailed(r)
  BY <1>3 DEF RecordChild, PauseOrStop, Close, Release, ReleaseAgain, MarkStateFailed,
     MarkFailed
<1>4. CASE ReadAgain(r) \/ MarkAgain(r) \/ ReleaseLast(r) \/ Raise(r) \/ Killed(r) \/
          WorkerLost(r)
  BY <1>4 DEF ReadAgain, MarkAgain, ReleaseLast, Raise, Killed, WorkerLost, MarkFailed
<1> QED
  BY <1>1, <1>2, <1>3, <1>4 DEF RunStep

\* Every step keeps the messages that are not sent to their calls.
LEMMA OwnsStep ==
    ASSUME TypeOK, WellFormed, CallsOwnRuns, [Next]_vars
    PROVE  CallsOwnRuns'
<1>0. /\ TypeOK /\ CallsOwnRuns /\ WellFormed
      /\ run \in [Runs -> RunRecord] /\ call \in [Calls -> CallRecord]
      /\ state \in [Workflows -> Document]
      /\ \A c \in Calls : CallWellFormed(c)
  BY Typed DEF WellFormed
<1>1. ASSUME NEW c \in Calls, NEW w \in Workflows, Start(c, w) \/ Resume(c, w) \/ Interrupt(c, w)
      PROVE  CallsOwnRuns'
  <2>1. CASE Start(c, w)
    <3>1. ClaimedBy(c, w, "saving") /\ "saving" \in WithClaim
      BY <2>1 DEF Start, ClaimedBy, WithClaim
    <3>2. w \in Workflows
      OBVIOUS
    <3> QED
      BY <1>0, <3>1, <3>2, OwnerClaims
  <2>2. CASE Resume(c, w)
    <3>1. /\ OnlyCall(c) /\ call'[c].at \notin WithClaim /\ call'[c].run = 0
          /\ \A q \in Runs : q # call[c].run => run'[q] = run[q]
      <4> DEFINE children == state[w].children
                 new == [NoCall EXCEPT !.op = "resume", !.at = "claiming", !.wf = w,
                                       !.children = children]
      <4>1. call' = [call EXCEPT ![c] = new] /\ run' = run
        BY <2>2 DEF Resume
      <4>2. children \in Seq(Child) /\ <<>> \in Seq(Child) /\ 0 \in 0 .. MaxRuns
        BY <1>0, BoundsAssumption DEF Document
      <4> HIDE DEF children
      <4>3. NoCall \in CallRecord
        BY <4>2 DEF NoCall, CallRecord, CallState
      <4>4. new \in CallRecord
        BY <4>2, <4>3 DEF CallRecord, CallState
      <4>5. new.at = "claiming" /\ new.run = 0
        BY DEF NoCall
      <4> HIDE DEF new
      <4> QED
        BY <1>0, <4>1, <4>4, <4>5 DEF OnlyCall, WithClaim
    <3> QED
      BY <1>0, <3>1, OwnerGivesUp
  <2>3. CASE Interrupt(c, w)
    <3>1. /\ OnlyCall(c) /\ call'[c].at \notin WithClaim /\ call'[c].run = 0
          /\ \A q \in Runs : q # call[c].run => run'[q] = run[q]
      <4>1. PICK op \in {"paused", "stopped"} : Begin(c, op, "flagged", w)
        BY <2>3 DEF Interrupt
      <4>2. run' = run
        BY <2>3 DEF Interrupt
      <4> QED
        BY <1>0, <4>1, <4>2, Began DEF OnlyCall, CallState, WithClaim
    <3> QED
      BY <1>0, <3>1, OwnerGivesUp
  <2> QED
    BY <1>1, <2>1, <2>2, <2>3
<1>2. ASSUME NEW c \in Calls, GetRunning(c) \/ CallStep(c) \/ CallFails(c)
      PROVE  CallsOwnRuns'
  <2>1. CASE GetRunning(c)
    <3>1. /\ OnlyCall(c) /\ call'[c].at \notin WithClaim /\ call'[c].run = 0
          /\ \A q \in Runs : q # call[c].run => run'[q] = run[q]
      <4> DEFINE w == run[runningKey].wf
      <4>1. Begin(c, "get_running", "found", w) /\ run' = run
        BY <2>1 DEF GetRunning
      <4>2. w \in Workflows
        <5>1. runningKey \in Runs /\ run[runningKey].at # "absent"
          BY <2>1, <1>0 DEF GetRunning, WellFormed, TypeOK
        <5> QED
          BY <1>0, <5>1 DEF WellFormed, RunWellFormed, Wf
      <4> HIDE DEF w
      <4> QED
        BY <1>0, <4>1, <4>2, Began DEF OnlyCall, CallState, WithClaim
    <3> QED
      BY <1>0, <3>1, OwnerGivesUp
  <2>2. CASE ClaimForResume(c)
    <3>1. ClaimedBy(c, call[c].wf, "unpausing") /\ "unpausing" \in WithClaim
      BY <2>2 DEF ClaimForResume, ClaimedBy, WithClaim
    <3>2. call[c].wf \in Workflows
      BY <2>2, <1>0 DEF ClaimForResume, At, CallWellFormed
    <3> QED
      BY <1>0, <3>1, <3>2, OwnerClaims
  <2>3. CASE ResumeRefused(c) \/ MarkInterrupted(c) \/ DropRunningKey(c)
    <3>1. /\ OnlyCall(c) /\ call'[c].at \notin WithClaim /\ call'[c].run = 0
          /\ \A q \in Runs : q # call[c].run => run'[q] = run[q]
      BY <2>3, <1>0, Returned DEF ResumeRefused, MarkInterrupted, DropRunningKey,
         OnlyCall, WithClaim
    <3> QED
      BY <1>0, <3>1, OwnerGivesUp
  <2>4. CASE DeletePauseFlag(c)
    <3>1. /\ OnlyCall(c) /\ run' = run
          /\ call'[c].run = call[c].run /\ call'[c].wf = call[c].wf
          /\ (call'[c].at \in WithClaim <=> call[c].at \in WithClaim)
      <4>1. call[c].at = "unpausing" /\ Goto(c, "unstopping") /\ "unstopping" \in CallState /\ run' = run
        BY <2>4 DEF DeletePauseFlag, At, CallState
      <4> QED
        BY <1>0, <4>1, Went DEF OnlyCall, WithClaim
    <3> QED
      BY <1>0, <3>1, OwnerGoesOn
  <2>5. CASE DeleteStopFlag(c)
    <3>1. /\ OnlyCall(c) /\ run' = run
          /\ call'[c].run = call[c].run /\ call'[c].wf = call[c].wf
          /\ (call'[c].at \in WithClaim <=> call[c].at \in WithClaim)
      <4>1. call[c].at = "unstopping" /\ Goto(c, "saving") /\ "saving" \in CallState /\ run' = run
        BY <2>5 DEF DeleteStopFlag, At, CallState
      <4> QED
        BY <1>0, <4>1, Went DEF OnlyCall, WithClaim
    <3> QED
      BY <1>0, <3>1, OwnerGoesOn
  <2>6. CASE SavePending(c)
    <3>1. /\ OnlyCall(c) /\ run' = run
          /\ call'[c].run = call[c].run /\ call'[c].wf = call[c].wf
          /\ (call'[c].at \in WithClaim <=> call[c].at \in WithClaim)
      <4>1. call[c].at = "saving" /\ Goto(c, "sending") /\ "sending" \in CallState /\ run' = run
        BY <2>6 DEF SavePending, At, CallState
      <4> QED
        BY <1>0, <4>1, Went DEF OnlyCall, WithClaim
    <3> QED
      BY <1>0, <3>1, OwnerGoesOn
  <2>7. CASE Send(c)
    <3>1. /\ OnlyCall(c) /\ call'[c].at \notin WithClaim /\ call'[c].run = 0
          /\ \A q \in Runs : q # call[c].run => run'[q] = run[q]
      BY <2>7, <1>0, Returned DEF Send, OnlyCall, WithClaim
    <3> QED
      BY <1>0, <3>1, OwnerGivesUp
  <2>8. CASE ReadToInterrupt(c)
    <3>1. /\ OnlyCall(c) /\ run' = run
          /\ call'[c].run = call[c].run /\ call'[c].wf = call[c].wf
          /\ (call'[c].at \in WithClaim <=> call[c].at \in WithClaim)
      <4>1. ReadsToInterrupt(c) /\ run' = run
        BY <2>8, <1>0, WhatIsRead DEF WellFormed, ReadToInterrupt
      <4> QED
        BY <4>1 DEF ReadsToInterrupt, WithClaim
    <3> QED
      BY <1>0, <3>1, OwnerGoesOn
  <2>9. CASE SignalChild(c)
    <3>1. /\ OnlyCall(c) /\ run' = run
          /\ call'[c].run = call[c].run /\ call'[c].wf = call[c].wf
          /\ (call'[c].at \in WithClaim <=> call[c].at \in WithClaim)
      <4>1. call[c].at = "signalling" /\ Goto(c, "marking") /\ "marking" \in CallState /\ run' = run
        BY <2>9 DEF SignalChild, At, CallState
      <4> QED
        BY <1>0, <4>1, Went DEF OnlyCall, WithClaim
    <3> QED
      BY <1>0, <3>1, OwnerGoesOn
  <2>10. CASE LookUpState(c)
    <3>1. call[c].at = "found" /\ (Goto(c, "dropping") \/ Return(c)) /\ run' = run
      BY <2>10 DEF LookUpState, At
    <3>2. CASE Goto(c, "dropping")
      <4>1. /\ OnlyCall(c) /\ call'[c].at = "dropping"
            /\ call'[c].run = call[c].run /\ call'[c].wf = call[c].wf
        BY <1>0, <3>2, Went DEF OnlyCall, CallState
      <4> QED
        BY <1>0, <3>1, <4>1, OwnerGoesOn DEF WithClaim
    <3>3. CASE Return(c)
      <4>1. OnlyCall(c) /\ call'[c].at = "done" /\ call'[c].run = 0
        BY <1>0, <3>3, Returned DEF OnlyCall
      <4> QED
        BY <1>0, <3>1, <4>1, OwnerGivesUp DEF WithClaim
    <3> QED
      BY <3>1, <3>2, <3>3
  <2>11. CASE CallFails(c)
    <3>1. /\ OnlyCall(c) /\ call'[c].at \notin WithClaim /\ call'[c].run = 0
          /\ \A q \in Runs : q # call[c].run => run'[q] = run[q]
      BY <2>11, <1>0, Returned, Fails DEF CallFails, OnlyCall, WithClaim
    <3> QED
      BY <1>0, <3>1, OwnerGivesUp
  <2> QED
    BY <1>2, <2>1, <2>2, <2>3, <2>4, <2>5, <2>6, <2>7, <2>8, <2>9, <2>10, <2>11 DEF
       CallStep
<1>3. ASSUME NEW r \in Runs, RunStep(r) \/ Raise(r) \/ Killed(r) \/ WorkerLost(r)
      PROVE  CallsOwnRuns'
  <2>1. RunMove(r) /\ call' = call
    BY <1>3, <1>0, RunMoves, CallsAlone
  <2> QED
    BY <1>0, <2>1, OwnersKept
<1>4. ASSUME NEW s \in Steps, OtherStep(s)
      PROVE  CallsOwnRuns'
  <2>1. CASE OtherStep(s)
    BY <2>1, <1>0, OthersAlone DEF CallsOwnRuns, Wf
  <2> QED
    BY <1>4, <2>1
<1>5. CASE ExpireRunningKey
  BY <1>5, <1>0 DEF ExpireRunningKey, CallsOwnRuns, Wf
<1>6. CASE UNCHANGED vars
  BY <1>0, <1>6 DEF vars, CallsOwnRuns, Wf
<1> QED
  BY <1>1, <1>2, <1>3, <1>4, <1>5, <1>6 DEF Next

\* The running key names a message that was claimed.
KeyOK == runningKey # None => run[runningKey].at # "absent"

\* A run takes the running key away or leaves it.
LEMMA KeyAlone ==
    ASSUME NEW r \in Runs,
           RunStep(r) \/ Raise(r) \/ Killed(r) \/ WorkerLost(r)
    PROVE  runningKey' \in {runningKey, None}
<1>1. CASE Load(r) \/ PollPause(r) \/ PollStop(r) \/ EnterStep(r) \/ TakeLock(r) \/
          ReadHolder(r)
  BY <1>1 DEF Load, PollPause, PollStop, EnterStep, TakeLock, ReadHolder, MarkFailed,
     keys, TakeKey
<1>2. CASE Inspect(r) \/ CompareLock(r) \/ DropStaleLock(r) \/ RefuseStep(r) \/
          AddChild(r) \/ Import(r)
  BY <1>2 DEF Inspect, CompareLock, DropStaleLock, RefuseStep, AddChild, Import,
     MarkFailed, keys, TakeKey
<1>3. CASE RecordChild(r) \/ PauseOrStop(r) \/ Close(r) \/ Release(r) \/
          ReleaseAgain(r) \/ MarkStateFailed(r)
  BY <1>3 DEF RecordChild, PauseOrStop, Close, Release, ReleaseAgain, MarkStateFailed,
     MarkFailed, keys, TakeKey
<1>4. CASE ReadAgain(r) \/ MarkAgain(r) \/ ReleaseLast(r) \/ Raise(r) \/ Killed(r) \/
          WorkerLost(r)
  BY <1>4 DEF ReadAgain, MarkAgain, ReleaseLast, Raise, Killed, WorkerLost, MarkFailed,
     keys, TakeKey
<1> QED
  BY <1>1, <1>2, <1>3, <1>4 DEF RunStep

\* Every step leaves the running key with a message that was claimed.
LEMMA KeyStep ==
    ASSUME TypeOK, WellFormed, CallsOwnRuns, [Next]_vars
    PROVE  KeyOK'
<1>0. /\ TypeOK /\ CallsOwnRuns /\ WellFormed /\ KeyOK /\ runningKey \in Runs \cup {None}
      /\ run \in [Runs -> RunRecord] /\ call \in [Calls -> CallRecord]
      /\ state \in [Workflows -> Document]
      /\ \A c \in Calls : CallWellFormed(c)
  BY Typed DEF TypeOK, WellFormed, KeyOK
<1>1. ASSUME NEW c \in Calls, NEW w \in Workflows, Start(c, w) \/ Resume(c, w) \/ Interrupt(c, w)
      PROVE  KeyOK'
  <2>1. CASE Start(c, w)
    <3>1. ClaimedBy(c, w, "saving") /\ "saving" \in CallState
      BY <2>1 DEF Start, ClaimedBy, CallState
    <3>2. w \in Workflows
      OBVIOUS
    <3>3. PICK r \in Runs : runningKey' = r /\ run'[r].at = "claimed"
      BY <1>0, <3>1, <3>2, Claims
    <3> QED
      BY <3>3 DEF KeyOK
  <2>2. CASE Resume(c, w) \/ Interrupt(c, w)
    BY <2>2, <1>0 DEF Resume, Interrupt, keys, KeyOK
  <2> QED
    BY <1>1, <2>1, <2>2
<1>2. ASSUME NEW c \in Calls, GetRunning(c) \/ CallStep(c) \/ CallFails(c)
      PROVE  KeyOK'
  <2>1. CASE GetRunning(c) \/ ResumeRefused(c) \/ DeletePauseFlag(c) \/
            DeleteStopFlag(c) \/ SavePending(c) \/ ReadToInterrupt(c) \/
            SignalChild(c) \/ MarkInterrupted(c) \/ LookUpState(c)
    BY <2>1, <1>0 DEF GetRunning, ResumeRefused, DeletePauseFlag, DeleteStopFlag,
       SavePending, ReadToInterrupt, SignalChild, MarkInterrupted, LookUpState, keys, KeyOK
  <2>2. CASE ClaimForResume(c)
    <3>1. ClaimedBy(c, call[c].wf, "unpausing") /\ "unpausing" \in CallState
      BY <2>2 DEF ClaimForResume, ClaimedBy, CallState
    <3>2. call[c].wf \in Workflows
      BY <2>2, <1>0 DEF ClaimForResume, At, CallWellFormed
    <3>3. PICK r \in Runs : runningKey' = r /\ run'[r].at = "claimed"
      BY <1>0, <3>1, <3>2, Claims
    <3> QED
      BY <3>3 DEF KeyOK
  <2>3. CASE Send(c)
    <3>1. PICK r \in Runs : r = call[c].run /\ Move(r, "queued")
      BY <2>3, <1>0 DEF Send, At, CallsOwnRuns, WithClaim, Move
    <3>2. run'[r].at = "queued" /\ \A q \in Runs \ {r} : run'[q] = run[q]
      BY <1>0, <3>1, RunStates, Moved
    <3> QED
      BY <2>3, <1>0, <3>2 DEF Send, keys, KeyOK
  <2>4. CASE DropRunningKey(c)
    BY <2>4 DEF DropRunningKey, TakeKey, KeyOK
  <2>5. CASE CallFails(c)
    <3>1. \A r \in Runs : run'[r] = run[r] \/ run'[r].at = "gone"
      BY <2>5, <1>0, Fails
    <3> QED
      BY <2>5, <1>0, <3>1 DEF CallFails, keys, KeyOK
  <2> QED
    BY <1>2, <2>1, <2>2, <2>3, <2>4, <2>5 DEF CallStep
<1>3. ASSUME NEW r \in Runs, RunStep(r) \/ Raise(r) \/ Killed(r) \/ WorkerLost(r)
      PROVE  KeyOK'
  <2>1. RunMove(r)
    BY <1>3, <1>0, RunMoves
  <2>2. runningKey' \in {runningKey, None}
    BY <1>3, KeyAlone
  <2> QED
    BY <1>0, <2>1, <2>2 DEF RunMove, OnlyRun, KeyOK
<1>4. ASSUME NEW s \in Steps, OtherStep(s)
      PROVE  KeyOK'
  <2>1. CASE OtherStep(s)
    BY <2>1, <1>0, OthersAlone DEF KeyOK
  <2> QED
    BY <1>4, <2>1
<1>5. CASE ExpireRunningKey
  BY <1>5 DEF ExpireRunningKey, TakeKey, KeyOK
<1>6. CASE UNCHANGED vars
  BY <1>0, <1>6 DEF vars, KeyOK
<1> QED
  BY <1>1, <1>2, <1>3, <1>4, <1>5, <1>6 DEF Next

\* The inductive invariant behind the types.
Shape == TypeOK /\ WellFormed /\ CallsOwnRuns

\* Before the first call everything is well formed.
LEMMA InitShape == Init => Shape
<1> SUFFICES ASSUME Init
             PROVE  Shape
  OBVIOUS
<1>1. <<>> \in Seq(Child) /\ 0 \in 0 .. NumSteps /\ 0 \in 0 .. MaxRuns
  BY StepsAssumption, BoundsAssumption
<1>2. NoRun \in RunRecord /\ NoCall \in CallRecord
  BY <1>1 DEF NoRun, NoCall, RunRecord, CallRecord, RunState, CallState
<1>3. [status |-> "absent", children |-> <<>>] \in Document
  BY <1>1 DEF Document, Status
<1>4. /\ run \in [Runs -> RunRecord] /\ call \in [Calls -> CallRecord]
      /\ state \in [Workflows -> Document]
  BY <1>2, <1>3 DEF Init
<1>5. RestOK /\ lock \in [Steps -> Ids \cup {None, Rival}]
  <2>1. 0 \in 0 .. MaxLost /\ 0 \in 0 .. MaxDrops
    BY BoundsAssumption
  <2>2. /\ pauseFlag \in [Workflows -> BOOLEAN] /\ stopFlag \in [Workflows -> BOOLEAN]
        /\ rival \in [Steps -> RivalState]
        /\ lock \in [Steps -> Ids \cup {None, Rival}]
    BY DEF Init, RivalState
  <2> QED
    BY <2>1, <2>2 DEF Init, RestOK
<1>6. TypeOK
  BY <1>4, <1>5, Zenon DEF TypeOK, RestOK, RunRecord, CallRecord, Document
<1>7. /\ \A r \in Runs : run[r].at = "absent"
      /\ \A c \in Calls : call[c].at = "idle" /\ call[c].run = 0
      /\ runningKey = None
  BY DEF Init, NoRun, NoCall
<1>8. WellFormed
  BY <1>7 DEF WellFormed, RunWellFormed, CallWellFormed, InLoop, InTry
<1>9. CallsOwnRuns
  BY <1>7 DEF CallsOwnRuns, WithClaim
<1> QED
  BY <1>6, <1>8, <1>9 DEF Shape

\* Every step keeps the types and the shape of the records.
LEMMA ShapeStep ==
    ASSUME Shape, [Next]_vars
    PROVE  Shape'
<1>1. TypeOK /\ WellFormed /\ CallsOwnRuns
  BY DEF Shape
<1>2. RunsOK' /\ CallsOK' /\ RestOK' /\ KeyOK' /\ CallsOwnRuns'
  BY <1>1, RunsStep, CallsStep, RestStep, KeyStep, OwnsStep
<1>3. state' \in [Workflows -> Document] /\ lock' \in [Steps -> Ids \cup {None, Rival}]
  BY <1>1, StateStep, LockStep
<1>4. TypeOK'
  BY <1>2, <1>3, Zenon DEF TypeOK, RestOK, RunsOK, CallsOK, RunRecord, CallRecord, Document
<1>5. WellFormed'
  BY <1>2 DEF WellFormed, RunsOK, CallsOK, KeyOK
<1> QED
  BY <1>2, <1>4, <1>5 DEF Shape

\* The records keep their shape along every behaviour.
LEMMA ShapeKept == Spec => []Shape
BY InitShape, ShapeStep, PTL DEF Spec

\* Every variable keeps to its values: no run leaves the steps of its workflow and no
\* call or run writes anything but children of the workflow's runs.
THEOREM TypeCorrect == Spec => []TypeOK
<1>1. Shape => TypeOK
  BY DEF Shape
<1> QED
  BY <1>1, ShapeKept, PTL
-----------------------------------------------------------------------------
(***************************************************************************)
(* The running key.                                                        *)
(***************************************************************************)
\* A step writes the record of one run at most.
OneRun == run' = run \/ \E r \in Runs : \A q \in Runs \ {r} : run'[q] = run[q]

\* The key stays, and nobody becomes live.
LEMMA KeyStays ==
    ASSUME LiveRunHoldsKey, runningKey' = runningKey, breach' = breach,
           \A q \in Runs : Live(q)' => Live(q)
    PROVE  LiveRunHoldsKey'
BY DEF LiveRunHoldsKey

\* The key is taken away, and whoever takes it is not live any more.
LEMMA KeyTaken ==
    ASSUME LiveRunHoldsKey, NEW who \in Runs \cup {None}, TakeKey(who),
           \A q \in Runs : Live(q)' => Live(q) /\ q # who
    PROVE  LiveRunHoldsKey'
<1>1. ASSUME NEW q \in Runs, Live(q)'
      PROVE  breach'
  <2>1. Live(q) /\ q # who
    BY <1>1
  <2>2. breach \/ runningKey = q
    BY <2>1 DEF LiveRunHoldsKey
  <2>3. q # None
    BY KeysAssumption
  <2> QED
    BY <2>1, <2>2, <2>3 DEF TakeKey
<1> QED
  BY <1>1, Zenon DEF LiveRunHoldsKey

\* A live run is given the key when nobody had it.
LEMMA KeyGiven ==
    ASSUME LiveRunHoldsKey, runningKey = None, breach' = breach, NEW r \in Runs,
           runningKey' = r, \A q \in Runs \ {r} : run'[q] = run[q]
    PROVE  LiveRunHoldsKey'
<1>1. ASSUME NEW q \in Runs, q # r, Live(q)', ~ breach
      PROVE  FALSE
  <2>1. Live(q)
    BY <1>1 DEF Live
  <2> QED
    BY <1>1, <2>1, KeysAssumption DEF LiveRunHoldsKey
<1> QED
  BY <1>1 DEF LiveRunHoldsKey

\* What a run does about the running key: nothing; taking it when it is not live any
\* more; or losing its process, which leaves the key where it is.
KeyMove(r) ==
    \/ runningKey' = runningKey /\ breach' = breach /\ ~ WorkerLost(r)
    \/ TakeKey(r) /\ run'[r].at \in {"again", "reread", "done"}
    \/ /\ WorkerLost(r) /\ runningKey' = runningKey
       /\ breach' = (breach \/ runningKey # r)

\* A message comes again with a lost worker process alone.
LEMMA NotLost ==
    ASSUME TypeOK, NEW r \in Runs, lostCount' = lostCount
    PROVE  ~ WorkerLost(r)
<1>1. lostCount \in Nat
  BY BoundsAssumption DEF TypeOK
<1> QED
  BY <1>1 DEF WorkerLost

\* Each action of a run is one of these.
LEMMA KeyMoves ==
    ASSUME TypeOK, NEW r \in Runs,
           RunStep(r) \/ Raise(r) \/ Killed(r) \/ WorkerLost(r)
    PROVE  KeyMove(r)
<1>0. TypeOK /\ run \in [Runs -> RunRecord]
  BY Typed
<1>1. CASE Load(r) \/ PollPause(r) \/ PollStop(r) \/ EnterStep(r) \/ TakeLock(r)
  <2>1. lostCount' = lostCount
    BY <1>1 DEF Load, PollPause, PollStop, EnterStep, TakeLock, MarkFailed, counters
  <2>2. runningKey' = runningKey /\ breach' = breach
    BY <1>1 DEF Load, PollPause, PollStop, EnterStep, TakeLock, MarkFailed, keys, history
  <2> QED
    BY <1>0, <2>1, <2>2, NotLost DEF KeyMove
<1>2. CASE ReadHolder(r) \/ Inspect(r) \/ CompareLock(r) \/ DropStaleLock(r) \/
          RefuseStep(r)
  <2>1. lostCount' = lostCount
    BY <1>2 DEF ReadHolder, Inspect, CompareLock, DropStaleLock, RefuseStep, MarkFailed,
       counters
  <2>2. runningKey' = runningKey /\ breach' = breach
    BY <1>2 DEF ReadHolder, Inspect, CompareLock, DropStaleLock, RefuseStep, MarkFailed,
       keys, history
  <2> QED
    BY <1>0, <2>1, <2>2, NotLost DEF KeyMove
<1>3. CASE AddChild(r) \/ Import(r) \/ RecordChild(r) \/ PauseOrStop(r) \/ Close(r)
  <2>1. lostCount' = lostCount
    BY <1>3 DEF AddChild, Import, RecordChild, PauseOrStop, Close, MarkFailed, counters
  <2>2. runningKey' = runningKey /\ breach' = breach
    BY <1>3 DEF AddChild, Import, RecordChild, PauseOrStop, Close, MarkFailed, keys,
       history
  <2> QED
    BY <1>0, <2>1, <2>2, NotLost DEF KeyMove
<1>4. CASE Release(r)
  <2>1. /\ TakeKey(r) /\ run'[r].at \in {"again", "done"}
    BY <1>4, <1>0, Moved, Ended, RunStates DEF Release, In
  <2> QED
    BY <2>1 DEF KeyMove
<1>5. CASE ReleaseAgain(r)
  <2>1. /\ TakeKey(r) /\ run'[r].at \in {"reread", "done"}
    BY <1>5, <1>0, Moved, Ended, RunStates DEF ReleaseAgain, In
  <2> QED
    BY <2>1 DEF KeyMove
<1>6. CASE MarkStateFailed(r) \/ ReadAgain(r) \/ MarkAgain(r) \/ Raise(r) \/ Killed(r)
  <2>1. lostCount' = lostCount
    BY <1>6 DEF MarkStateFailed, ReadAgain, MarkAgain, Raise, Killed, MarkFailed, counters
  <2>2. runningKey' = runningKey /\ breach' = breach
    BY <1>6 DEF MarkStateFailed, ReadAgain, MarkAgain, Raise, Killed, MarkFailed, keys,
       history
  <2> QED
    BY <1>0, <2>1, <2>2, NotLost DEF KeyMove
<1>7. CASE ReleaseLast(r)
  <2>1. /\ TakeKey(r) /\ run'[r].at \in {"reread", "done"}
    BY <1>7, <1>0, Moved, Ended, RunStates DEF ReleaseLast, In
  <2> QED
    BY <2>1 DEF KeyMove
<1>8. CASE WorkerLost(r)
  BY <1>8 DEF WorkerLost, keys, KeyMove
<1> QED
  BY <1>1, <1>2, <1>3, <1>4, <1>5, <1>6, <1>7, <1>8 DEF RunStep

\* Whatever a run does, the key stays with the live one, or is taken from it.
LEMMA RunKeepsKey ==
    ASSUME TypeOK, LiveRunHoldsKey, NEW r \in Runs, RunMove(r), KeyMove(r)
    PROVE  LiveRunHoldsKey'
<1>1. \A q \in Runs : q # r => (Live(q)' <=> Live(q))
  BY DEF RunMove, OnlyRun, Live
<1>2. Live(r) <=> run[r].at \in Acting
  BY DEF RunMove, Live, Acting, Executing, InTry
<1>3. Live(r)' => run'[r].at \in Acting
  BY DEF RunMove, Live, Acting
<1>4. CASE runningKey' = runningKey /\ breach' = breach /\ ~ WorkerLost(r)
  <2>1. \A q \in Runs : Live(q)' => Live(q)
    BY <1>1, <1>2, <1>3, <1>4 DEF RunMove
  <2> QED
    BY <1>4, <2>1, KeyStays
<1>5. CASE TakeKey(r) /\ run'[r].at \in {"again", "reread", "done"}
  <2>1. ~ Live(r)'
    BY <1>5 DEF Live, InTry
  <2>2. \A q \in Runs : Live(q)' => Live(q) /\ q # r
    BY <1>1, <2>1
  <2> QED
    BY <1>5, <2>2, KeyTaken
<1>6. CASE WorkerLost(r) /\ runningKey' = runningKey /\ breach' = (breach \/ runningKey # r)
  <2>1. ASSUME NEW q \in Runs, Live(q)', ~ breach'
        PROVE  runningKey' = q
    <3>1. ~ breach /\ runningKey = r
      BY <1>6, <2>1
    <3>2. CASE q = r
      BY <1>6, <3>1, <3>2
    <3>3. CASE q # r
      BY <1>1, <1>6, <2>1, <3>1, <3>3 DEF LiveRunHoldsKey
    <3> QED
      BY <3>2, <3>3
  <2> QED
    BY <2>1 DEF LiveRunHoldsKey
<1> QED
  BY <1>4, <1>5, <1>6 DEF KeyMove

\* Every step leaves the running key with the live run.
LEMMA LiveStep ==
    ASSUME Shape, LiveRunHoldsKey, [Next]_vars
    PROVE  LiveRunHoldsKey'
<1>0. /\ TypeOK /\ CallsOwnRuns /\ WellFormed /\ LiveRunHoldsKey
      /\ run \in [Runs -> RunRecord] /\ call \in [Calls -> CallRecord]
      /\ \A c \in Calls : CallWellFormed(c)
  BY Typed DEF Shape, WellFormed
<1>1. ASSUME NEW c \in Calls, NEW w \in Workflows, Start(c, w) \/ Resume(c, w) \/ Interrupt(c, w)
      PROVE  LiveRunHoldsKey'
  <2>1. CASE Start(c, w)
    <3>1. /\ ClaimedBy(c, w, "saving") /\ "saving" \in CallState
          /\ runningKey = None /\ breach' = breach
      BY <2>1 DEF Start, ClaimedBy, CallState, history
    <3>2. w \in Workflows
      OBVIOUS
    <3>3. PICK r \in Runs : runningKey' = r /\ \A q \in Runs \ {r} : run'[q] = run[q]
      BY <1>0, <3>1, <3>2, Claims
    <3> QED
      BY <1>0, <3>1, <3>3, KeyGiven
  <2>2. CASE Resume(c, w) \/ Interrupt(c, w)
    <3>1. runningKey' = runningKey /\ breach' = breach /\ run' = run
      BY <2>2 DEF Resume, Interrupt, keys, history
    <3> QED
      BY <1>0, <3>1, KeyStays DEF Live
  <2> QED
    BY <1>1, <2>1, <2>2
<1>2. ASSUME NEW c \in Calls, GetRunning(c) \/ CallStep(c) \/ CallFails(c)
      PROVE  LiveRunHoldsKey'
  <2>1. CASE GetRunning(c) \/ ResumeRefused(c) \/ DeletePauseFlag(c) \/
            DeleteStopFlag(c) \/ SavePending(c) \/ ReadToInterrupt(c) \/
            SignalChild(c) \/ MarkInterrupted(c) \/ LookUpState(c)
    <3>1. runningKey' = runningKey /\ breach' = breach /\ run' = run
      BY <2>1 DEF GetRunning, ResumeRefused, DeletePauseFlag, DeleteStopFlag,
         SavePending, ReadToInterrupt, SignalChild, MarkInterrupted, LookUpState, keys,
         history
    <3> QED
      BY <1>0, <3>1, KeyStays DEF Live
  <2>2. CASE ClaimForResume(c)
    <3>1. /\ ClaimedBy(c, call[c].wf, "unpausing") /\ "unpausing" \in CallState
          /\ runningKey = None /\ breach' = breach
      BY <2>2 DEF ClaimForResume, ClaimedBy, CallState, history
    <3>2. call[c].wf \in Workflows
      BY <2>2, <1>0 DEF ClaimForResume, At, CallWellFormed
    <3>3. PICK r \in Runs : runningKey' = r /\ \A q \in Runs \ {r} : run'[q] = run[q]
      BY <1>0, <3>1, <3>2, Claims
    <3> QED
      BY <1>0, <3>1, <3>3, KeyGiven
  <2>3. CASE Send(c)
    <3>1. PICK r \in Runs : r = call[c].run /\ Move(r, "queued") /\ run[r].at = "claimed"
      BY <2>3, <1>0 DEF Send, At, CallsOwnRuns, WithClaim, Move
    <3>2. run'[r].at = "queued" /\ \A q \in Runs \ {r} : run'[q] = run[q]
      BY <1>0, <3>1, RunStates, Moved
    <3>3. \A q \in Runs : Live(q)' => Live(q)
      BY <3>1, <3>2 DEF Live
    <3>4. runningKey' = runningKey /\ breach' = breach
      BY <2>3 DEF Send, keys, history
    <3> QED
      BY <1>0, <3>3, <3>4, KeyStays
  <2>4. CASE DropRunningKey(c)
    <3>1. TakeKey(None) /\ run' = run
      BY <2>4 DEF DropRunningKey
    <3>2. \A q \in Runs : Live(q)' => Live(q) /\ q # None
      BY <3>1, KeysAssumption DEF Live
    <3> QED
      BY <1>0, <3>1, <3>2, KeyTaken
  <2>5. CASE CallFails(c)
    <3>1. \A r \in Runs : run'[r] = run[r] \/ run'[r].at = "gone"
      BY <2>5, <1>0, Fails
    <3>2. \A q \in Runs : Live(q)' => Live(q)
      BY <3>1 DEF Live, InTry
    <3>3. runningKey' = runningKey /\ breach' = breach
      BY <2>5 DEF CallFails, keys, history
    <3> QED
      BY <1>0, <3>2, <3>3, KeyStays
  <2> QED
    BY <1>2, <2>1, <2>2, <2>3, <2>4, <2>5 DEF CallStep
<1>3. ASSUME NEW r \in Runs, RunStep(r) \/ Raise(r) \/ Killed(r) \/ WorkerLost(r)
      PROVE  LiveRunHoldsKey'
  <2>1. RunMove(r) /\ KeyMove(r)
    BY <1>3, <1>0, RunMoves, KeyMoves
  <2> QED
    BY <1>0, <2>1, RunKeepsKey
<1>4. ASSUME NEW s \in Steps, OtherStep(s)
      PROVE  LiveRunHoldsKey'
  <2>1. CASE OtherStep(s)
    <3>1. runningKey' = runningKey /\ breach' = breach /\ run' = run
      BY <2>1, OthersAlone
    <3> QED
      BY <1>0, <3>1, KeyStays DEF Live
  <2> QED
    BY <1>4, <2>1
<1>5. CASE ExpireRunningKey
  <2>1. TakeKey(None) /\ run' = run
    BY <1>5 DEF ExpireRunningKey
  <2>2. \A q \in Runs : Live(q)' => Live(q) /\ q # None
    BY <2>1, KeysAssumption DEF Live
  <2> QED
    BY <1>0, <2>1, <2>2, KeyTaken
<1>6. CASE UNCHANGED vars
  BY <1>0, <1>6 DEF vars, LiveRunHoldsKey, Live
<1> QED
  BY <1>1, <1>2, <1>3, <1>4, <1>5, <1>6 DEF Next

\* Every step writes the record of one run at most.
LEMMA OneRunStep ==
    ASSUME Shape, [Next]_vars
    PROVE  OneRun
<1>0. /\ TypeOK /\ CallsOwnRuns /\ WellFormed
      /\ run \in [Runs -> RunRecord] /\ call \in [Calls -> CallRecord]
      /\ \A c \in Calls : CallWellFormed(c)
  BY Typed DEF Shape, WellFormed
<1>1. ASSUME NEW c \in Calls, NEW w \in Workflows, Start(c, w) \/ Resume(c, w) \/ Interrupt(c, w)
      PROVE  OneRun
  <2>1. CASE Start(c, w)
    <3>1. ClaimedBy(c, w, "saving") /\ "saving" \in CallState
      BY <2>1 DEF Start, ClaimedBy, CallState
    <3>2. w \in Workflows
      OBVIOUS
    <3>3. \E r \in Runs : \A q \in Runs \ {r} : run'[q] = run[q]
      BY <1>0, <3>1, <3>2, Claims
    <3> QED
      BY <3>3 DEF OneRun
  <2>2. CASE Resume(c, w) \/ Interrupt(c, w)
    BY <2>2 DEF Resume, Interrupt, OneRun
  <2> QED
    BY <1>1, <2>1, <2>2
<1>2. ASSUME NEW c \in Calls, GetRunning(c) \/ CallStep(c) \/ CallFails(c)
      PROVE  OneRun
  <2>1. CASE GetRunning(c) \/ ResumeRefused(c) \/ DeletePauseFlag(c) \/
            DeleteStopFlag(c) \/ SavePending(c) \/ ReadToInterrupt(c) \/
            SignalChild(c) \/ MarkInterrupted(c) \/ LookUpState(c) \/
            DropRunningKey(c)
    BY <2>1 DEF GetRunning, ResumeRefused, DeletePauseFlag, DeleteStopFlag, SavePending,
       ReadToInterrupt, SignalChild, MarkInterrupted, LookUpState, DropRunningKey, OneRun
  <2>2. CASE ClaimForResume(c)
    <3>1. ClaimedBy(c, call[c].wf, "unpausing") /\ "unpausing" \in CallState
      BY <2>2 DEF ClaimForResume, ClaimedBy, CallState
    <3>2. call[c].wf \in Workflows
      BY <2>2, <1>0 DEF ClaimForResume, At, CallWellFormed
    <3>3. \E r \in Runs : \A q \in Runs \ {r} : run'[q] = run[q]
      BY <1>0, <3>1, <3>2, Claims
    <3> QED
      BY <3>3 DEF OneRun
  <2>3. CASE Send(c)
    <3>1. PICK r \in Runs : r = call[c].run /\ Move(r, "queued")
      BY <2>3, <1>0 DEF Send, At, CallsOwnRuns, WithClaim, Move
    <3>2. \A q \in Runs \ {r} : run'[q] = run[q]
      BY <1>0, <3>1, RunStates, Moved
    <3> QED
      BY <3>2 DEF OneRun
  <2>4. CASE CallFails(c)
    <3>1. run' \in [Runs -> RunRecord] /\ \A r \in Runs : r # call[c].run => run'[r] = run[r]
      BY <2>4, <1>0, Fails
    <3>2. CASE call[c].run \in Runs
      BY <3>1, <3>2 DEF OneRun
    <3>3. CASE call[c].run \notin Runs
      BY <1>0, <3>1, <3>3 DEF OneRun
    <3> QED
      BY <3>2, <3>3
  <2> QED
    BY <1>2, <2>1, <2>2, <2>3, <2>4 DEF CallStep
<1>3. ASSUME NEW r \in Runs, RunStep(r) \/ Raise(r) \/ Killed(r) \/ WorkerLost(r)
      PROVE  OneRun
  <2>1. RunMove(r)
    BY <1>3, <1>0, RunMoves
  <2> QED
    BY <2>1 DEF RunMove, OnlyRun, OneRun
<1>4. ASSUME NEW s \in Steps, OtherStep(s)
      PROVE  OneRun
  <2>1. CASE OtherStep(s)
    BY <2>1, OthersAlone DEF OneRun
  <2> QED
    BY <1>4, <2>1
<1>5. CASE ExpireRunningKey
  BY <1>5 DEF ExpireRunningKey, OneRun
<1>6. CASE UNCHANGED vars
  BY <1>0, <1>6 DEF vars, OneRun
<1> QED
  BY <1>1, <1>2, <1>3, <1>4, <1>5, <1>6 DEF Next

\* What was broken once stays so.
LEMMA BrokenStays ==
    ASSUME TypeOK, breach, [Next]_vars
    PROVE  breach'
<1>1. ASSUME NEW c \in Calls, NEW w \in Workflows, Start(c, w) \/ Resume(c, w) \/ Interrupt(c, w)
      PROVE  breach'
  <2>1. CASE Start(c, w) \/ Resume(c, w) \/ Interrupt(c, w)
    BY <2>1 DEF Start, Resume, Interrupt, history, TakeKey
  <2> QED
    BY <1>1, <2>1
<1>2. ASSUME NEW c \in Calls, GetRunning(c) \/ CallStep(c) \/ CallFails(c)
      PROVE  breach'
  <2>1. CASE GetRunning(c) \/ ClaimForResume(c) \/ ResumeRefused(c) \/
            DeletePauseFlag(c) \/ DeleteStopFlag(c) \/ SavePending(c) \/ Send(c) \/
            ReadToInterrupt(c) \/ SignalChild(c) \/ MarkInterrupted(c) \/
            LookUpState(c) \/ DropRunningKey(c) \/ CallFails(c)
    BY <2>1 DEF GetRunning, ClaimForResume, ResumeRefused, DeletePauseFlag,
       DeleteStopFlag, SavePending, Send, ReadToInterrupt, SignalChild, MarkInterrupted,
       LookUpState, DropRunningKey, CallFails, history, TakeKey
  <2> QED
    BY <1>2, <2>1 DEF CallStep
<1>3. ASSUME NEW r \in Runs, RunStep(r) \/ Raise(r) \/ Killed(r) \/ WorkerLost(r)
      PROVE  breach'
  <2>1. KeyMove(r)
    BY <1>3, KeyMoves
  <2> QED
    BY <2>1 DEF KeyMove, TakeKey
<1>4. ASSUME NEW s \in Steps, OtherStep(s)
      PROVE  breach'
  <2>1. CASE OtherStep(s)
    BY <2>1, OthersAlone DEF TakeKey
  <2> QED
    BY <1>4, <2>1
<1>5. CASE ExpireRunningKey
  BY <1>5 DEF ExpireRunningKey, TakeKey
<1>6. CASE UNCHANGED vars
  BY <1>6 DEF vars
<1> QED
  BY <1>1, <1>2, <1>3, <1>4, <1>5, <1>6 DEF Next

\* Until the running key was taken from a live run, or a run that had given it up
\* came back, there is one live run and the key names it: whatever calls start, resume
\* and get_running make, and whatever the runs do, at any point of one another.
THEOREM LiveRunsHoldKeys == Spec => []LiveRunHoldsKey
<1>1. Init => LiveRunHoldsKey
  BY DEF Init, NoRun, LiveRunHoldsKey, Live, InTry
<1> QED
  BY <1>1, LiveStep, ShapeKept, PTL DEF Spec

\* The lease sees a step of the workflows as an acquisition, a release, its breaking or
\* nothing at all.
LEMMA LeaseStep ==
    ASSUME Shape, Shape', LiveRunHoldsKey, LiveRunHoldsKey', [Next]_vars
    PROVE  [WorkflowLease!Next]_(WorkflowLease!vars)
<1> DEFINE L == {r \in Runs : Live(r)}
           H == IF breach THEN {} ELSE L
<1>1. OneRun /\ TypeOK /\ (breach => breach')
  BY OneRunStep, BrokenStays DEF Shape
<1>2. breach \in BOOLEAN /\ breach' \in BOOLEAN
  BY DEF Shape, TypeOK
<1>3. ~ breach => \A r \in L : r = runningKey
  BY DEF LiveRunHoldsKey
<1>4. ~ breach' => \A r \in L' : r = runningKey'
  BY DEF LiveRunHoldsKey
<1>5. L \subseteq Runs /\ L' \subseteq Runs
  OBVIOUS
<1>6. L' = L \/ \E r \in Runs : \A q \in Runs \ {r} : q \in L' <=> q \in L
  BY <1>1 DEF OneRun, Live
<1> HIDE DEF L
<1>7. CASE breach
  BY <1>1, <1>2, <1>7 DEF WorkflowLease!vars, L
<1>8. CASE ~ breach /\ breach'
  <2>1. H' = {} /\ breach' = TRUE
    BY <1>2, <1>8
  <2> QED
    BY <1>8, <2>1 DEF WorkflowLease!Next, WorkflowLease!Break
<1>9. CASE ~ breach /\ ~ breach'
  <2>1. H = L /\ H' = L' /\ breach' = breach
    BY <1>2, <1>9
  <2>2. CASE L' = L
    BY <2>1, <2>2 DEF WorkflowLease!vars, L
  <2>3. CASE L = {} /\ L' # {}
    <3>1. PICK r \in Runs : r \in L'
      BY <1>5, <2>3
    <3>2. L' = {r}
      BY <1>4, <1>9, <3>1
    <3>3. WorkflowLease!Acquire(r)
      BY <1>9, <2>1, <2>3, <3>2 DEF WorkflowLease!Acquire, L
    <3> QED
      BY <3>1, <3>3 DEF WorkflowLease!Next
  <2>4. CASE L # {} /\ L' = {}
    <3>1. PICK r \in Runs : r \in L
      BY <1>5, <2>4
    <3>2. L = {r}
      BY <1>3, <1>9, <3>1
    <3>3. WorkflowLease!Release(r)
      BY <1>9, <2>1, <2>4, <3>2 DEF WorkflowLease!Release, L
    <3> QED
      BY <3>1, <3>3 DEF WorkflowLease!Next
  <2>5. CASE L # {} /\ L' # {}
    <3>1. PICK p \in Runs, q \in Runs : p \in L /\ q \in L'
      BY <1>5, <2>5
    <3>2. L = {p} /\ L' = {q}
      BY <1>3, <1>4, <1>9, <3>1
    <3>3. p = q
      BY <1>6, <3>2
    <3> QED
      BY <2>2, <3>2, <3>3
  <2> QED
    BY <2>2, <2>3, <2>4, <2>5
<1> QED
  BY <1>7, <1>8, <1>9

\* The running key implements the exclusive lease "being the live run" until that lease
\* is broken.
THEOREM KeyIsLease == Spec => RunningKeyIsLease
<1>1. Init => WorkflowLease!Init
  BY DEF Init, NoRun, Live, InTry, WorkflowLease!Init
<1> QED
  BY <1>1, LeaseStep, ShapeKept, LiveRunsHoldKeys, PTL
     DEF Spec, RunningKeyIsLease, WorkflowLease!Spec
-----------------------------------------------------------------------------
(***************************************************************************)
(* The locks of the interfaces.                                            *)
(***************************************************************************)
Importing(r) == run[r].at \in {"add", "import"}
RivalLives(s) == rival[s] \in {"queued", "active"}

\* The other imports hold their locks as well: an import that ends deletes whatever lock
\* is there, so each side needs that the lock is its own.
LocksHeld ==
    ~ evicted => /\ \A r \in Runs : Importing(r) => lock[run[r].step] = run[r].id
                 /\ \A s \in Steps : RivalLives(s) => lock[s] = Rival

\* The lock of s was not anybody's who still imports after the step.
LockFree(s) ==
    /\ \A q \in Runs : Importing(q)' /\ run'[q].step = s => lock[s] # run[q].id
    /\ RivalLives(s)' => lock[s] # Rival

\* Nobody begins to import, and no lock goes away that somebody imports under.
LEMMA LocksKept ==
    ASSUME LocksHeld, WellFormed, evicted => evicted',
           \A q \in Runs : Importing(q)' => /\ Importing(q)
                                            /\ run'[q].id = run[q].id
                                            /\ run'[q].step = run[q].step,
           \A s \in Steps : RivalLives(s)' => RivalLives(s),
           \A s \in Steps : lock'[s] = lock[s] \/ evicted' \/ LockFree(s)
    PROVE  LocksHeld'
<1>1. ASSUME ~ evicted', NEW q \in Runs, Importing(q)'
      PROVE  lock'[run'[q].step] = run'[q].id
  <2>1. /\ run'[q].id = run[q].id /\ run'[q].step = run[q].step
        /\ lock[run[q].step] = run[q].id
    BY <1>1 DEF LocksHeld
  <2>2. run[q].step \in Steps
    BY <1>1 DEF WellFormed, RunWellFormed, Importing, InLoop, InTry
  <2>3. ~ LockFree(run[q].step)
    BY <1>1, <2>1 DEF LockFree
  <2> QED
    BY <1>1, <2>1, <2>2, <2>3
<1>2. ASSUME ~ evicted', NEW s \in Steps, RivalLives(s)'
      PROVE  lock'[s] = Rival
  <2>1. lock[s] = Rival
    BY <1>2 DEF LocksHeld
  <2>2. ~ LockFree(s)
    BY <1>2, <2>1 DEF LockFree
  <2> QED
    BY <1>2, <2>1, <2>2
<1> QED
  BY <1>1, <1>2 DEF LocksHeld

\* The id of an import is a child's, and says whose it is.
LEMMA OwnId ==
    ASSUME WellFormed, NEW r \in Runs, Importing(r)
    PROVE  /\ run[r].step \in Steps /\ run[r].id \in Ids
           /\ run[r].id \in {r} \X {run[r].step} \X (0 .. MaxLost)
           /\ run[r].id # None /\ run[r].id # Rival
<1>1. /\ run[r].step \in Steps
      /\ run[r].id \in {r} \X {run[r].step} \X (0 .. MaxLost)
  BY DEF WellFormed, RunWellFormed, Importing, InLoop, InTry
<1>2. run[r].id \in Ids
  BY <1>1 DEF Ids
<1> QED
  BY <1>1, <1>2, KeysAssumption

\* If the lock of nobody that lives is dropped, it was nobody's.
LEMMA DeadLock ==
    ASSUME WellFormed, NEW s \in Steps, ~ ImportLives(lock[s], s),
           \A q \in Runs : Importing(q)' => Importing(q) /\ run'[q].id = run[q].id,
           RivalLives(s)' => RivalLives(s)
    PROVE  LockFree(s)
<1>1. ASSUME NEW q \in Runs, Importing(q)'
      PROVE  lock[s] # run[q].id
  <2>1. Importing(q) /\ run[q].id # Rival
    BY <1>1, OwnId
  <2> QED
    BY <2>1 DEF ImportLives, Importing
<1>2. RivalLives(s)' => lock[s] # Rival
  BY DEF ImportLives, RivalLives
<1> QED
  BY <1>1, <1>2 DEF LockFree

\* Only the run that takes a lock begins to import.
LEMMA Importers ==
    ASSUME TypeOK, WellFormed, NEW r \in Runs, RunMove(r), ~ TakeLock(r)
    PROVE  \A q \in Runs : Importing(q)' => /\ Importing(q)
                                            /\ run'[q].id = run[q].id
                                            /\ run'[q].step = run[q].step
<1>1. \A q \in Runs \ {r} : run'[q] = run[q]
  BY DEF RunMove, OnlyRun
<1>2. ASSUME Importing(r)'
      PROVE  Importing(r) /\ run'[r].id = run[r].id /\ run'[r].step = run[r].step
  <2>1. AddChild(r)
    BY <1>2 DEF RunMove, Importing
  <2>2. Importing(r)
    BY <2>1 DEF AddChild, In, Importing
  <2> QED
    BY <2>1, <2>2, OwnId, AddsChild
<1> QED
  BY <1>1, <1>2 DEF Importing

\* Apart from these, a run leaves the locks alone.
LockMove(r) == \/ lock' = lock /\ evicted' = evicted
               \/ TakeLock(r) \/ DropStaleLock(r) \/ Import(r)
               \/ MarkStateFailed(r) \/ MarkAgain(r)

\* Each action of a run is one of these.
LEMMA LockMoves ==
    ASSUME NEW r \in Runs,
           RunStep(r) \/ Raise(r) \/ Killed(r) \/ WorkerLost(r)
    PROVE  LockMove(r)
<1>1. CASE Load(r) \/ PollPause(r) \/ PollStop(r) \/ EnterStep(r) \/ ReadHolder(r)
  BY <1>1 DEF Load, PollPause, PollStop, EnterStep, ReadHolder, keys, history, LockMove
<1>2. CASE TakeLock(r) \/ DropStaleLock(r) \/ Import(r) \/ MarkStateFailed(r) \/
          MarkAgain(r)
  BY <1>2 DEF LockMove
<1>3. CASE Inspect(r) \/ CompareLock(r) \/ RefuseStep(r) \/ AddChild(r) \/
          RecordChild(r)
  BY <1>3 DEF Inspect, CompareLock, RefuseStep, AddChild, RecordChild, keys, history,
     LockMove
<1>4. CASE PauseOrStop(r) \/ Close(r) \/ Release(r) \/ ReleaseAgain(r) \/ ReadAgain(r)
  BY <1>4 DEF PauseOrStop, Close, Release, ReleaseAgain, ReadAgain, keys, history,
     LockMove
<1>5. CASE ReleaseLast(r) \/ Raise(r) \/ Killed(r) \/ WorkerLost(r)
  BY <1>5 DEF ReleaseLast, Raise, Killed, WorkerLost, keys, history, LockMove
<1> QED
  BY <1>1, <1>2, <1>3, <1>4, <1>5 DEF RunStep

\* No run comes to hold the lock of two interfaces, or of one that another holds.
LEMMA RunKeepsLocks ==
    ASSUME TypeOK, WellFormed, LocksHeld, NEW r \in Runs, RunMove(r), LockMove(r),
           rival' = rival
    PROVE  LocksHeld'
<1>0. /\ run \in [Runs -> RunRecord] /\ evicted \in BOOLEAN
      /\ lock \in [Steps -> Ids \cup {None, Rival}]
      /\ RunWellFormed(r) /\ (run[r].at # "absent" => Wf(r) \in Workflows)
      /\ \A s \in Steps : RivalLives(s)' => RivalLives(s)
  BY Typed DEF TypeOK, WellFormed, RunWellFormed, RivalLives
<1>a. ~ TakeLock(r) =>
          \A q \in Runs : Importing(q)' => /\ Importing(q)
                                           /\ run'[q].id = run[q].id
                                           /\ run'[q].step = run[q].step
  BY Importers
<1>1. CASE lock' = lock /\ evicted' = evicted /\ ~ TakeLock(r)
  BY <1>0, <1>a, <1>1, LocksKept
<1>2. CASE TakeLock(r)
  <2>1. run[r].step \in Steps
    BY <1>0, <1>2 DEF TakeLock, In, RunWellFormed, InLoop, InTry
  <2>2. evicted' = evicted
    BY <1>2 DEF TakeLock, history
  <2> DEFINE s == run[r].step
             id == <<r, s, lostCount>>
  <2>3. CASE /\ run'[r].at = "add" /\ run'[r].id = id /\ run'[r].step = s
             /\ lock[s] = None /\ lock' = [lock EXCEPT ![s] = id]
    <3>1. lock'[s] = id /\ \A u \in Steps \ {s} : lock'[u] = lock[u]
      BY <1>0, <2>1, <2>3
    <3>2. ASSUME ~ evicted', NEW q \in Runs \ {r}, Importing(q)'
          PROVE  lock'[run'[q].step] = run'[q].id
      <4>1. run'[q] = run[q] /\ Importing(q)
        BY <3>2 DEF RunMove, OnlyRun, Importing
      <4>2. lock[run[q].step] = run[q].id
        BY <2>2, <3>2, <4>1 DEF LocksHeld
      <4>3. run[q].step \in Steps /\ run[q].id # None
        BY <4>1, OwnId
      <4> QED
        BY <2>3, <3>1, <4>1, <4>2, <4>3
    <3>3. ASSUME ~ evicted', NEW u \in Steps, RivalLives(u)'
          PROVE  lock'[u] = Rival
      <4>1. lock[u] = Rival
        BY <1>0, <2>2, <3>3 DEF LocksHeld
      <4>2. u # s
        BY <2>3, <4>1, KeysAssumption
      <4> QED
        BY <3>1, <4>1, <4>2
    <3>4. lock'[run'[r].step] = run'[r].id
      BY <2>3, <3>1
    <3> QED
      BY <3>2, <3>3, <3>4 DEF LocksHeld
  <2>4. CASE run'[r].at \in {"holder", "refuse"} /\ lock' = lock
    <3>1. \A q \in Runs : Importing(q)' => Importing(q) /\ run'[q] = run[q]
      BY <2>4 DEF RunMove, OnlyRun, Importing
    <3> QED
      BY <1>0, <2>2, <2>4, <3>1, LocksKept
  <2> QED
    BY <1>2, <2>1, <2>3, <2>4, Locks
<1>3. CASE DropStaleLock(r)
  <2> DEFINE s == run[r].step
  <2>1. s \in Steps /\ ~ TakeLock(r)
    BY <1>0, <1>3 DEF DropStaleLock, TakeLock, In, RunWellFormed, InLoop, InTry
  <2>2. /\ lock' = [lock EXCEPT ![s] = None]
        /\ evicted' = (evicted \/ ImportLives(lock[s], s))
    BY <1>3 DEF DropStaleLock
  <2>3. (evicted => evicted') /\ (ImportLives(lock[s], s) => evicted')
    BY <2>2, Zenon
  <2>4. \A u \in Steps : lock'[u] = lock[u] \/ u = s
    BY <1>0, <2>1, <2>2
  <2>5. evicted' \/ LockFree(s)
    <3> HIDE DEF s
    <3> QED
      BY <1>0, <1>a, <2>1, <2>3, DeadLock
  <2> QED
    BY <1>0, <1>a, <2>1, <2>3, <2>4, <2>5, LocksKept
<1>4. CASE Import(r)
  <2> DEFINE s == run[r].step
  <2>1. Importing(r) /\ ~ TakeLock(r)
    BY <1>4 DEF Import, TakeLock, In, Importing
  <2>2. s \in Steps /\ run[r].id \in {r} \X {s} \X (0 .. MaxLost) /\ run[r].id # Rival
    BY <2>1, OwnId
  <2>3. lock' = [lock EXCEPT ![s] = None] /\ evicted' = evicted
    BY <1>4 DEF Import
  <2>4. \A u \in Steps : lock'[u] = lock[u] \/ u = s
    BY <1>0, <2>2, <2>3
  <2>5. ~ Importing(r)'
    <3>1. Len(run[r].children) > 0
      BY <1>0, <1>4 DEF Import, In, RunWellFormed
    <3>2. run'[r].at = "record"
      BY <1>4, <3>1, Imports
    <3> QED
      BY <3>2 DEF Importing
  <2>6. evicted' \/ LockFree(s)
    <3>1. SUFFICES ASSUME ~ evicted
                   PROVE  LockFree(s)
      BY <2>3
    <3>2. lock[s] = run[r].id
      BY <2>1, <3>1 DEF LocksHeld
    <3>3. ASSUME NEW q \in Runs, Importing(q)'
          PROVE  lock[s] # run[q].id
      <4>1. Importing(q) /\ q # r
        BY <1>a, <2>1, <2>5, <3>3
      <4>2. run[q].id \in {q} \X {run[q].step} \X (0 .. MaxLost)
        BY <4>1, OwnId
      <4> QED
        BY <2>2, <3>2, <4>1, <4>2
    <3> QED
      BY <2>2, <3>2, <3>3 DEF LockFree
  <2> HIDE DEF s
  <2> QED
    BY <1>0, <1>a, <2>1, <2>3, <2>4, <2>6, LocksKept
<1>5. ASSUME NEW childStatus \in {"failed", "stale_failed"}, NEW at \in RunState,
             run[r].at # "absent", MarkFailed(r, childStatus, at), ~ TakeLock(r)
      PROVE  LocksHeld'
  <2>1. /\ \A s \in Steps : lock'[s] # lock[s] =>
               (ImportLives(lock[s], s) => evicted')
        /\ (evicted => evicted')
    BY <1>0, <1>5, MarksFailed
  <2>2. \A s \in Steps : lock'[s] = lock[s] \/ evicted' \/ LockFree(s)
    BY <1>0, <1>a, <1>5, <2>1, DeadLock
  <2> QED
    BY <1>0, <1>a, <1>5, <2>1, <2>2, LocksKept
<1>6. CASE MarkStateFailed(r)
  <2>1. /\ run[r].at # "absent" /\ ~ TakeLock(r)
        /\ MarkFailed(r, "failed", "release") /\ "release" \in RunState
    BY <1>6, RunStates DEF MarkStateFailed, TakeLock, In
  <2> QED
    BY <1>5, <2>1
<1>7. CASE MarkAgain(r)
  <2>1. /\ run[r].at # "absent" /\ ~ TakeLock(r)
        /\ MarkFailed(r, "stale_failed", "last") /\ "last" \in RunState
    BY <1>7, RunStates DEF MarkAgain, TakeLock, In
  <2> QED
    BY <1>5, <2>1
<1> QED
  BY <1>1, <1>2, <1>3, <1>4, <1>6, <1>7 DEF LockMove

\* A run leaves the other imports alone.
LEMMA RivalAlone ==
    ASSUME NEW r \in Runs,
           RunStep(r) \/ Raise(r) \/ Killed(r) \/ WorkerLost(r)
    PROVE  rival' = rival
<1>1. CASE Load(r) \/ PollPause(r) \/ PollStop(r) \/ EnterStep(r) \/ TakeLock(r) \/
          ReadHolder(r)
  BY <1>1 DEF Load, PollPause, PollStop, EnterStep, TakeLock, ReadHolder, MarkFailed
<1>2. CASE Inspect(r) \/ CompareLock(r) \/ DropStaleLock(r) \/ RefuseStep(r) \/
          AddChild(r) \/ Import(r)
  BY <1>2 DEF Inspect, CompareLock, DropStaleLock, RefuseStep, AddChild, Import,
     MarkFailed
<1>3. CASE RecordChild(r) \/ PauseOrStop(r) \/ Close(r) \/ Release(r) \/
          ReleaseAgain(r) \/ MarkStateFailed(r)
  BY <1>3 DEF RecordChild, PauseOrStop, Close, Release, ReleaseAgain, MarkStateFailed,
     MarkFailed
<1>4. CASE ReadAgain(r) \/ MarkAgain(r) \/ ReleaseLast(r) \/ Raise(r) \/ Killed(r) \/
          WorkerLost(r)
  BY <1>4 DEF ReadAgain, MarkAgain, ReleaseLast, Raise, Killed, WorkerLost, MarkFailed
<1> QED
  BY <1>1, <1>2, <1>3, <1>4 DEF RunStep

\* Every step leaves the imports with their locks.
LEMMA LocksStep ==
    ASSUME Shape, LocksHeld, [Next]_vars
    PROVE  LocksHeld'
<1>0. /\ TypeOK /\ CallsOwnRuns /\ WellFormed /\ LocksHeld
      /\ run \in [Runs -> RunRecord] /\ call \in [Calls -> CallRecord]
      /\ lock \in [Steps -> Ids \cup {None, Rival}]
      /\ rival \in [Steps -> RivalState]
      /\ \A c \in Calls : CallWellFormed(c)
  BY Typed DEF Shape, TypeOK, WellFormed
<1>1. ASSUME NEW c \in Calls, NEW w \in Workflows, Start(c, w) \/ Resume(c, w) \/ Interrupt(c, w)
      PROVE  LocksHeld'
  <2>1. CASE Start(c, w)
    <3>1. ClaimedBy(c, w, "saving") /\ "saving" \in CallState
      BY <2>1 DEF Start, ClaimedBy, CallState
    <3>2. w \in Workflows
      OBVIOUS
    <3>3. PICK r \in Runs : run'[r].at = "claimed" /\ \A q \in Runs \ {r} : run'[q] = run[q]
      BY <1>0, <3>1, <3>2, Claims
    <3>7. \A q \in Runs : Importing(q)' => Importing(q) /\ run'[q] = run[q]
      BY <3>3 DEF Importing
    <3>8. lock' = lock /\ evicted' = evicted /\ rival' = rival
      BY <2>1 DEF Start, keys, history
    <3>9. \A s \in Steps : RivalLives(s)' => RivalLives(s)
      BY <3>8 DEF RivalLives
    <3> QED
      BY <1>0, <3>7, <3>8, <3>9, LocksKept
  <2>2. CASE Resume(c, w) \/ Interrupt(c, w)
    <3>1. lock' = lock /\ evicted' = evicted /\ run' = run /\ rival' = rival
      BY <2>2 DEF Resume, Interrupt, keys, history
    <3> QED
      BY <1>0, <3>1 DEF LocksHeld, Importing, RivalLives
  <2> QED
    BY <1>1, <2>1, <2>2
<1>2. ASSUME NEW c \in Calls, GetRunning(c) \/ CallStep(c) \/ CallFails(c)
      PROVE  LocksHeld'
  <2>1. CASE GetRunning(c) \/ ResumeRefused(c) \/ DeletePauseFlag(c) \/
            DeleteStopFlag(c) \/ SavePending(c) \/ ReadToInterrupt(c) \/
            SignalChild(c) \/ MarkInterrupted(c) \/ LookUpState(c) \/
            DropRunningKey(c)
    <3>1. lock' = lock /\ evicted' = evicted /\ run' = run /\ rival' = rival
      BY <2>1 DEF GetRunning, ResumeRefused, DeletePauseFlag, DeleteStopFlag,
         SavePending, ReadToInterrupt, SignalChild, MarkInterrupted, LookUpState,
         DropRunningKey, keys, history
    <3> QED
      BY <1>0, <3>1 DEF LocksHeld, Importing, RivalLives
  <2>2. CASE ClaimForResume(c)
    <3>1. ClaimedBy(c, call[c].wf, "unpausing") /\ "unpausing" \in CallState
      BY <2>2 DEF ClaimForResume, ClaimedBy, CallState
    <3>2. call[c].wf \in Workflows
      BY <2>2, <1>0 DEF ClaimForResume, At, CallWellFormed
    <3>3. PICK r \in Runs : run'[r].at = "claimed" /\ \A q \in Runs \ {r} : run'[q] = run[q]
      BY <1>0, <3>1, <3>2, Claims
    <3>7. \A q \in Runs : Importing(q)' => Importing(q) /\ run'[q] = run[q]
      BY <3>3 DEF Importing
    <3>8. lock' = lock /\ evicted' = evicted /\ rival' = rival
      BY <2>2 DEF ClaimForResume, keys, history
    <3>9. \A s \in Steps : RivalLives(s)' => RivalLives(s)
      BY <3>8 DEF RivalLives
    <3> QED
      BY <1>0, <3>7, <3>8, <3>9, LocksKept
  <2>3. CASE Send(c)
    <3>1. PICK r \in Runs : r = call[c].run /\ Move(r, "queued") /\ run[r].at = "claimed"
      BY <2>3, <1>0 DEF Send, At, CallsOwnRuns, WithClaim, Move
    <3>2. run'[r].at = "queued" /\ \A q \in Runs \ {r} : run'[q] = run[q]
      BY <1>0, <3>1, RunStates, Moved
    <3>7. \A q \in Runs : Importing(q)' => Importing(q) /\ run'[q] = run[q]
      BY <3>2 DEF Importing
    <3>8. lock' = lock /\ evicted' = evicted /\ rival' = rival
      BY <2>3 DEF Send, keys, history
    <3>9. \A s \in Steps : RivalLives(s)' => RivalLives(s)
      BY <3>8 DEF RivalLives
    <3> QED
      BY <1>0, <3>7, <3>8, <3>9, LocksKept
  <2>4. CASE CallFails(c)
    <3>1. \A r \in Runs : run'[r] = run[r] \/ run'[r].at = "gone"
      BY <2>4, <1>0, Fails
    <3>7. \A q \in Runs : Importing(q)' => Importing(q) /\ run'[q] = run[q]
      BY <3>1 DEF Importing
    <3>8. lock' = lock /\ evicted' = evicted /\ rival' = rival
      BY <2>4 DEF CallFails, keys, history
    <3>9. \A s \in Steps : RivalLives(s)' => RivalLives(s)
      BY <3>8 DEF RivalLives
    <3> QED
      BY <1>0, <3>7, <3>8, <3>9, LocksKept
  <2> QED
    BY <1>2, <2>1, <2>2, <2>3, <2>4 DEF CallStep
<1>3. ASSUME NEW r \in Runs, RunStep(r) \/ Raise(r) \/ Killed(r) \/ WorkerLost(r)
      PROVE  LocksHeld'
  <2>1. RunMove(r) /\ LockMove(r)
    BY <1>3, <1>0, RunMoves, LockMoves
  <2>2. rival' = rival
    BY <1>3, RivalAlone
  <2> QED
    BY <1>0, <2>1, <2>2, RunKeepsLocks
<1>4. ASSUME NEW s \in Steps, OtherStep(s)
      PROVE  LocksHeld'
  <2>a. run' = run
    BY <1>4, OthersAlone
  <2>1. CASE RivalStarts(s)
    <3>1. /\ lock' = [lock EXCEPT ![s] = Rival]
          /\ rival' = [rival EXCEPT ![s] = "queued"]
          /\ evicted' = (evicted \/ ImportLives(lock[s], s))
      BY <2>1 DEF RivalStarts
    <3>2. lock'[s] = Rival /\ \A u \in Steps \ {s} : lock'[u] = lock[u] /\ rival'[u] = rival[u]
      BY <1>0, <3>1
    <3>3. (evicted => evicted') /\ (ImportLives(lock[s], s) => evicted')
      BY <3>1, Zenon
    <3>4. ASSUME ~ evicted', NEW q \in Runs, Importing(q)
          PROVE  lock'[run[q].step] = run[q].id
      <4>1. lock[run[q].step] = run[q].id
        BY <1>0, <3>3, <3>4 DEF LocksHeld
      <4>2. run[q].step \in Steps /\ run[q].id # Rival
        BY <1>0, <3>4, OwnId
      <4>3. run[q].step # s
        BY <3>3, <3>4, <4>1, <4>2 DEF ImportLives, Importing
      <4> QED
        BY <3>2, <4>1, <4>2, <4>3
    <3>5. ASSUME ~ evicted', NEW u \in Steps, RivalLives(u)'
          PROVE  lock'[u] = Rival
      BY <1>0, <3>2, <3>3, <3>5 DEF LocksHeld, RivalLives
    <3> QED
      BY <2>a, <3>4, <3>5 DEF LocksHeld, Importing
  <2>2. CASE RivalChecks(s) \/ RivalMoves(s)
    <3>1. lock' = lock /\ evicted' = evicted
      BY <2>2 DEF RivalChecks, RivalMoves, keys, history
    <3>2. \A u \in Steps : RivalLives(u)' => RivalLives(u)
      BY <2>2, <1>0 DEF RivalChecks, RivalMoves, RivalLives
    <3>3. \A q \in Runs : Importing(q)' => Importing(q)
      BY <2>a DEF Importing
    <3> QED
      BY <1>0, <2>a, <3>1, <3>2, <3>3, LocksKept
  <2>3. CASE RivalEnds(s)
    <3>1. /\ rival[s] = "active" /\ lock' = [lock EXCEPT ![s] = None]
          /\ rival' = [rival EXCEPT ![s] = "returned"]
          /\ evicted' = evicted
      BY <2>3 DEF RivalEnds, history
    <3>2. \A u \in Steps : lock'[u] = lock[u] \/ u = s
      BY <1>0, <3>1
    <3>3. \A u \in Steps : RivalLives(u)' => RivalLives(u)
      BY <1>0, <3>1 DEF RivalLives
    <3>4. \A q \in Runs : Importing(q)' => Importing(q)
      BY <2>a DEF Importing
    <3>5. evicted' \/ LockFree(s)
      <4>1. SUFFICES ASSUME ~ evicted
                     PROVE  LockFree(s)
        BY <3>1
      <4>2. lock[s] = Rival
        BY <1>0, <3>1, <4>1 DEF LocksHeld, RivalLives
      <4>3. ~ RivalLives(s)'
        BY <1>0, <3>1 DEF RivalLives
      <4>4. \A q \in Runs : Importing(q)' => run[q].id # Rival
        BY <1>0, <3>4, OwnId
      <4> QED
        BY <4>2, <4>3, <4>4 DEF LockFree
    <3> QED
      BY <1>0, <2>a, <3>1, <3>2, <3>3, <3>4, <3>5, LocksKept
  <2>4. CASE RivalReturns(s)
    <3>1. /\ lock' = lock /\ rival' = [rival EXCEPT ![s] = "queued"]
          /\ evicted' = (evicted \/ lock[s] # Rival)
      BY <2>4 DEF RivalReturns, keys
    <3>2. (evicted => evicted') /\ (evicted' \/ lock[s] = Rival)
      BY <3>1, Zenon
    <3>3. \A u \in Steps \ {s} : rival'[u] = rival[u]
      BY <1>0, <3>1
    <3>4. ASSUME ~ evicted', NEW u \in Steps, RivalLives(u)'
          PROVE  lock'[u] = Rival
      BY <1>0, <3>1, <3>2, <3>3, <3>4 DEF LocksHeld, RivalLives
    <3> QED
      BY <1>0, <2>a, <3>1, <3>2, <3>4 DEF LocksHeld, Importing
  <2>5. CASE LockExpires(s) \/ StopImport(s)
    <3>1. /\ lock' = [lock EXCEPT ![s] = None] /\ rival' = rival
          /\ evicted' = (evicted \/ ImportLives(lock[s], s))
      BY <2>5 DEF LockExpires, StopImport, DropLock
    <3>2. (evicted => evicted') /\ (ImportLives(lock[s], s) => evicted')
      BY <3>1, Zenon
    <3>3. \A u \in Steps : lock'[u] = lock[u] \/ u = s
      BY <1>0, <3>1
    <3>4. \A u \in Steps : RivalLives(u)' => RivalLives(u)
      BY <3>1 DEF RivalLives
    <3>5. \A q \in Runs : Importing(q)' => Importing(q)
      BY <2>a DEF Importing
    <3>6. evicted' \/ LockFree(s)
      BY <1>0, <2>a, <3>2, <3>4, <3>5, DeadLock
    <3> QED
      BY <1>0, <2>a, <3>2, <3>3, <3>4, <3>5, <3>6, LocksKept
  <2> QED
    BY <1>4, <2>1, <2>2, <2>3, <2>4, <2>5 DEF OtherStep
<1>5. CASE ExpireRunningKey
  BY <1>5, <1>0 DEF ExpireRunningKey, LocksHeld, Importing, RivalLives
<1>6. CASE UNCHANGED vars
  BY <1>0, <1>6 DEF vars, LocksHeld, Importing, RivalLives
<1> QED
  BY <1>1, <1>2, <1>3, <1>4, <1>5, <1>6 DEF Next

\* A step imports under the lock of its interface, for any number of steps, until an
\* import was left without its lock: released as stale or for a failed run, expired,
\* deleted by stop_import, overwritten by start_import, or gone when it came again.
THEOREM ImportsHoldLocks == Spec => []ImportHoldsLock
<1>1. Init => LocksHeld
  BY DEF Init, NoRun, LocksHeld, Importing, RivalLives
<1>2. LocksHeld => ImportHoldsLock
  BY DEF LocksHeld, ImportHoldsLock, Importing, In
<1> QED
  BY <1>1, <1>2, LocksStep, ShapeKept, PTL DEF Spec
-----------------------------------------------------------------------------
(***************************************************************************)
(* What the documents say was imported was imported.                       *)
(***************************************************************************)
Sound(w, children) == \A u \in Completed(children) : <<w, u>> \in imported
AllImported(w) == \A s \in Steps \ Optional : <<w, s>> \in imported
Behind(w, s) == \A u \in Steps \ Optional : u < s => <<w, u>> \in imported

\* Every copy of a document, in Redis, in a run or in a call, shows steps as completed
\* only whose import came through, and a run has passed no other step that matters.
StateSound(w) == /\ Sound(w, state[w].children)
                 /\ state[w].status = "completed" => AllImported(w)
RunSound(r) ==
    /\ Sound(Wf(r), run[r].children)
    /\ run[r].at \in InLoop => Behind(Wf(r), run[r].step)
    /\ run[r].at = "close" /\ run[r].result = "completed" => AllImported(Wf(r))
CallSound(c) == /\ Sound(call[c].wf, call[c].children)
                /\ call[c].at = "idle" => call[c].children = <<>>
CopiesSound ==
    /\ \A w \in Workflows : StateSound(w)
    /\ \A r \in Runs : RunSound(r)
    /\ \A c \in Calls : CallSound(c)

\* No children, no step completed.
LEMMA NoneCompleted == Completed(<<>>) = {}
<1>1. DOMAIN <<>> = {}
  BY DEF Completed
<1> QED
  BY <1>1 DEF Completed

\* A child that is appended does not make a step completed unless it says so.
LEMMA AppendedCompleted ==
    ASSUME NEW children \in Seq(Child), NEW child \in Child, child.status # "completed"
    PROVE  /\ Append(children, child) \in Seq(Child)
           /\ Completed(Append(children, child)) \subseteq Completed(children)
<1> DEFINE all == Append(children, child)
<1>1. /\ all \in Seq(Child) /\ Len(children) \in Nat
      /\ Len(all) = Len(children) + 1 /\ all[Len(children) + 1] = child
      /\ \A i \in 1 .. Len(children) : all[i] = children[i]
  BY AppendProperties, LenProperties
<1>2. DOMAIN all = 1 .. Len(children) + 1 /\ DOMAIN children = 1 .. Len(children)
  BY <1>1, LenProperties
<1> HIDE DEF all
<1>3. ASSUME NEW i \in DOMAIN all, all[i].status = "completed"
      PROVE  i \in DOMAIN children /\ all[i] = children[i]
  <2>1. i # Len(children) + 1
    BY <1>1, <1>3
  <2> QED
    BY <1>1, <1>2, <2>1
<1>4. Completed(all) \subseteq Completed(children)
  BY <1>3 DEF Completed
<1> QED
  BY <1>1, <1>4 DEF all

\* Nor does a change of statuses that makes none completed.
LEMMA ChangedCompleted ==
    ASSUME NEW children \in Seq(Child), NEW changed \in Seq(Child),
           Len(changed) = Len(children),
           \A j \in 1 .. Len(children) : \/ changed[j] = children[j]
                                         \/ changed[j].status # "completed"
    PROVE  Completed(changed) \subseteq Completed(children)
<1>1. DOMAIN changed = 1 .. Len(children) /\ DOMAIN children = 1 .. Len(children)
  BY LenProperties
<1>2. \A j \in DOMAIN changed : changed[j].status = "completed" => changed[j] = children[j]
  BY <1>1
<1> QED
  BY <1>1, <1>2 DEF Completed

\* Nor does what a run takes over from the state.
LEMMA KeptCompleted ==
    ASSUME state \in [Workflows -> Document], NEW r \in Runs, Wf(r) \in Workflows
    PROVE  Completed(Kept(r)) \subseteq Completed(state[Wf(r)].children)
<1> DEFINE children == state[Wf(r)].children
           kept == CompletedOnly(children)
<1>1. children \in Seq(Child)
  BY DEF Document
<1>2. \A i \in DOMAIN kept : \E j \in DOMAIN children : kept[i] = children[j]
  <2> HIDE DEF children
  <2> QED
    BY <1>1, OnlyCompleted
<1>3. Kept(r) = kept \/ Kept(r) = children
  BY DEF Kept
<1> HIDE DEF kept
<1>4. Completed(kept) \subseteq Completed(children)
  BY <1>2 DEF Completed
<1> QED
  BY <1>3, <1>4

\* An import that came through did.
LEMMA ImportedGrows ==
    ASSUME [Next]_vars
    PROVE  imported \subseteq imported'
<1>1. ASSUME NEW c \in Calls, NEW w \in Workflows, Start(c, w) \/ Resume(c, w) \/ Interrupt(c, w)
      PROVE  imported \subseteq imported'
  <2>1. CASE Start(c, w) \/ Resume(c, w) \/ Interrupt(c, w)
    BY <2>1 DEF Start, Resume, Interrupt, history
  <2> QED
    BY <1>1, <2>1
<1>2. ASSUME NEW c \in Calls, GetRunning(c) \/ CallStep(c) \/ CallFails(c)
      PROVE  imported \subseteq imported'
  <2>1. CASE GetRunning(c) \/ ClaimForResume(c) \/ ResumeRefused(c) \/
            DeletePauseFlag(c) \/ DeleteStopFlag(c) \/ SavePending(c) \/ Send(c) \/
            ReadToInterrupt(c) \/ SignalChild(c) \/ MarkInterrupted(c) \/
            LookUpState(c) \/ DropRunningKey(c) \/ CallFails(c)
    BY <2>1 DEF GetRunning, ClaimForResume, ResumeRefused, DeletePauseFlag,
       DeleteStopFlag, SavePending, Send, ReadToInterrupt, SignalChild, MarkInterrupted,
       LookUpState, DropRunningKey, CallFails, history
  <2> QED
    BY <1>2, <2>1 DEF CallStep
<1>3. ASSUME NEW r \in Runs, RunStep(r) \/ Raise(r) \/ Killed(r) \/ WorkerLost(r)
      PROVE  imported \subseteq imported'
  <2>1. CASE Load(r) \/ PollPause(r) \/ PollStop(r) \/ EnterStep(r) \/ TakeLock(r) \/
            ReadHolder(r)
    BY <2>1 DEF Load, PollPause, PollStop, EnterStep, TakeLock, ReadHolder, history,
       MarkFailed
  <2>2. CASE Inspect(r) \/ CompareLock(r) \/ DropStaleLock(r) \/ RefuseStep(r) \/
            AddChild(r) \/ Import(r)
    BY <2>2 DEF Inspect, CompareLock, DropStaleLock, RefuseStep, AddChild, Import,
       history, MarkFailed
  <2>3. CASE RecordChild(r) \/ PauseOrStop(r) \/ Close(r) \/ Release(r) \/
            ReleaseAgain(r) \/ MarkStateFailed(r)
    BY <2>3 DEF RecordChild, PauseOrStop, Close, Release, ReleaseAgain, MarkStateFailed,
       history, MarkFailed
  <2>4. CASE ReadAgain(r) \/ MarkAgain(r) \/ ReleaseLast(r) \/ Raise(r) \/ Killed(r) \/
            WorkerLost(r)
    BY <2>4 DEF ReadAgain, MarkAgain, ReleaseLast, Raise, Killed, WorkerLost, history,
       MarkFailed
  <2> QED
    BY <1>3, <2>1, <2>2, <2>3, <2>4 DEF RunStep
<1>4. ASSUME NEW s \in Steps, OtherStep(s)
      PROVE  imported \subseteq imported'
  <2>1. CASE OtherStep(s)
    BY <2>1, OthersAlone
  <2> QED
    BY <1>4, <2>1
<1>5. CASE ExpireRunningKey
  BY <1>5 DEF ExpireRunningKey
<1>6. CASE UNCHANGED vars
  BY <1>6 DEF vars
<1> QED
  BY <1>1, <1>2, <1>3, <1>4, <1>5, <1>6 DEF Next

\* A state that stays stays sound.
LEMMA StatesStay ==
    ASSUME \A w \in Workflows : StateSound(w), state' = state, imported \subseteq imported'
    PROVE  \A w \in Workflows : StateSound(w)'
BY DEF StateSound, Sound, AllImported

\* A sound document that is written leaves the state sound.
LEMMA StatesWritten ==
    ASSUME state \in [Workflows -> Document], NEW w \in Workflows,
           NEW status \in Status, NEW children \in Seq(Child),
           Save(w, status, children), Sound(w, children),
           status = "completed" => AllImported(w),
           \A v \in Workflows : StateSound(v), imported \subseteq imported'
    PROVE  \A v \in Workflows : StateSound(v)'
<1>1. /\ \A v \in Workflows \ {w} : state'[v] = state[v]
      /\ state'[w].status = status /\ state'[w].children = children
  BY Saved
<1>2. StateSound(w)'
  BY <1>1 DEF StateSound, Sound, AllImported
<1>3. ASSUME NEW v \in Workflows \ {w}
      PROVE  StateSound(v)'
  BY <1>1 DEF StateSound, Sound, AllImported
<1> QED
  BY <1>2, <1>3

\* Marking a failure leaves the state as sound as the run was.
LEMMA StatesMarked ==
    ASSUME TypeOK, NEW r \in Runs, Wf(r) \in Workflows, RunSound(r),
           NEW childStatus \in {"failed", "stale_failed"}, NEW at \in RunState,
           MarkFailed(r, childStatus, at),
           \A v \in Workflows : StateSound(v), imported \subseteq imported'
    PROVE  /\ \A v \in Workflows : StateSound(v)'
           /\ Completed(run'[r].children) \subseteq Completed(run[r].children)
<1>1. /\ run'[r].children \in Seq(Child) /\ run[r].children \in Seq(Child)
      /\ Len(run'[r].children) = Len(run[r].children)
      /\ \A j \in 1 .. Len(run[r].children) :
             \/ run'[r].children[j] = run[r].children[j]
             \/ run'[r].children[j].status # "completed"
      /\ state' \in [Workflows -> Document]
      /\ \A v \in Workflows \ {Wf(r)} : state'[v] = state[v]
      /\ state'[Wf(r)].status = "failed"
      /\ state'[Wf(r)].children = run'[r].children
  <2>1. run[r].children \in Seq(Child)
    BY Typed, RunFields
  <2> QED
    BY <2>1, MarksFailed
<1>2. Completed(run'[r].children) \subseteq Completed(run[r].children)
  BY <1>1, ChangedCompleted
<1>3. ASSUME NEW v \in Workflows
      PROVE  StateSound(v)'
  <2>1. CASE v = Wf(r)
    BY <1>1, <1>2, <2>1 DEF StateSound, RunSound, Sound
  <2>2. CASE v # Wf(r)
    BY <1>1, <2>2 DEF StateSound, Sound, AllImported
  <2> QED
    BY <2>1, <2>2
<1> QED
  BY <1>2, <1>3

\* Every step leaves the documents in Redis sound.
LEMMA StatesSound ==
    ASSUME Shape, CopiesSound, [Next]_vars
    PROVE  \A w \in Workflows : StateSound(w)'
<1>0. /\ TypeOK /\ WellFormed /\ CallsOwnRuns /\ lostCount \in 0 .. MaxLost
      /\ run \in [Runs -> RunRecord] /\ call \in [Calls -> CallRecord]
      /\ state \in [Workflows -> Document]
      /\ \A r \in Runs : RunWellFormed(r) /\ RunSound(r)
      /\ \A c \in Calls : CallWellFormed(c) /\ CallSound(c)
      /\ \A w \in Workflows : StateSound(w)
      /\ imported \subseteq imported'
  BY Typed, ImportedGrows DEF Shape, TypeOK, WellFormed, CopiesSound
<1>1. ASSUME NEW c \in Calls, NEW w \in Workflows, Start(c, w) \/ Resume(c, w) \/ Interrupt(c, w)
      PROVE  \A v \in Workflows : StateSound(v)'
  <2>1. CASE Start(c, w) \/ Resume(c, w) \/ Interrupt(c, w)
    <3>1. state' = state
      BY <2>1 DEF Start, Resume, Interrupt, keys
    <3> QED
      BY <1>0, <3>1, StatesStay
  <2> QED
    BY <1>1, <2>1
<1>2. ASSUME NEW c \in Calls, GetRunning(c) \/ CallStep(c) \/ CallFails(c)
      PROVE  \A w \in Workflows : StateSound(w)'
  <2>1. CASE GetRunning(c) \/ ClaimForResume(c) \/ ResumeRefused(c) \/
            DeletePauseFlag(c) \/ DeleteStopFlag(c) \/ Send(c) \/ ReadToInterrupt(c)
            \/ SignalChild(c) \/ LookUpState(c) \/ DropRunningKey(c) \/ CallFails(c)
    <3>1. state' = state
      BY <2>1 DEF GetRunning, ClaimForResume, ResumeRefused, DeletePauseFlag,
         DeleteStopFlag, Send, ReadToInterrupt, SignalChild, LookUpState, DropRunningKey,
         CallFails, keys
    <3> QED
      BY <1>0, <3>1, StatesStay
  <2>2. CASE SavePending(c)
    <3> DEFINE w == call[c].wf
               children == call[c].children
    <3>1. /\ w \in Workflows /\ children \in Seq(Child) /\ Save(w, "pending", children)
          /\ Sound(w, children)
      BY <2>2, <1>0, CallFields DEF SavePending, At, CallWellFormed, CallSound
    <3> HIDE DEF w, children
    <3> QED
      BY <1>0, <3>1, StatesWritten DEF Status
  <2>3. CASE MarkInterrupted(c)
    <3> DEFINE w == call[c].wf
               children == call[c].children
               op == call[c].op
    <3>1. /\ w \in Workflows /\ children \in Seq(Child) /\ op \in {"paused", "stopped"}
          /\ Save(w, op, children) /\ Sound(w, children)
      BY <2>3, <1>0, CallFields DEF MarkInterrupted, At, CallWellFormed, CallSound
    <3> HIDE DEF w, children, op
    <3> QED
      BY <1>0, <3>1, StatesWritten DEF Status
  <2> QED
    BY <1>2, <2>1, <2>2, <2>3 DEF CallStep
<1>3. ASSUME NEW r \in Runs, RunStep(r) \/ Raise(r) \/ Killed(r) \/ WorkerLost(r)
      PROVE  \A w \in Workflows : StateSound(w)'
  <2>a. /\ RunWellFormed(r) /\ (run[r].at # "absent" => Wf(r) \in Workflows)
        /\ run[r].children \in Seq(Child) /\ run[r].step \in 0 .. NumSteps /\ RunSound(r)
    BY <1>0, RunFields DEF RunWellFormed
  <2>1. CASE Load(r)
    <3> DEFINE children == Kept(r)
    <3>1. run[r].at # "absent" /\ Save(Wf(r), "running", children)
      BY <2>1 DEF Load, In
    <3>2. children \in Seq(Child) /\ Sound(Wf(r), children)
      BY <1>0, <2>a, <3>1, KeptChildren, KeptCompleted DEF StateSound, Sound
    <3> HIDE DEF children
    <3> QED
      BY <1>0, <2>a, <3>1, <3>2, StatesWritten DEF Status
  <2>2. CASE PollPause(r) \/ PollStop(r) \/ TakeLock(r) \/ ReadHolder(r) \/ Inspect(r)
            \/ CompareLock(r) \/ DropStaleLock(r) \/ Import(r) \/ PauseOrStop(r) \/
            Release(r) \/ ReleaseAgain(r) \/ ReadAgain(r) \/ ReleaseLast(r) \/
            Raise(r) \/ Killed(r) \/ WorkerLost(r)
    <3>1. state' = state
      BY <2>2 DEF PollPause, PollStop, TakeLock, ReadHolder, Inspect, CompareLock,
         DropStaleLock, Import, PauseOrStop, Release, ReleaseAgain, ReadAgain, ReleaseLast,
         Raise, Killed, WorkerLost, keys
    <3> QED
      BY <1>0, <3>1, StatesStay
  <2>3. CASE EnterStep(r)
    <3> DEFINE children == run[r].children
    <3>1. run[r].at # "absent" /\ Save(Wf(r), "running", children)
      BY <2>3 DEF EnterStep, In
    <3>2. children \in Seq(Child) /\ Sound(Wf(r), children)
      BY <1>0, <2>a DEF RunSound
    <3> HIDE DEF children
    <3> QED
      BY <1>0, <2>a, <3>1, <3>2, StatesWritten DEF Status
  <2>4. CASE RefuseStep(r)
    <3> DEFINE child == [id |-> <<r, run[r].step, lostCount>>, status |-> "failed"]
               children == Append(run[r].children, child)
    <3>1. run[r].at = "refuse" /\ run[r].step \in Steps /\ Save(Wf(r), "running", children)
      BY <2>4, <2>a DEF RefuseStep, In, RunWellFormed, InLoop, InTry
    <3>2. child \in Child /\ child.status # "completed"
      BY <1>0, <3>1 DEF Child, ChildStatus, Ids
    <3>3. children \in Seq(Child) /\ Sound(Wf(r), children)
      <4> HIDE DEF child
      <4> QED
        BY <1>0, <2>a, <3>2, AppendedCompleted DEF RunSound, Sound
    <3> HIDE DEF children
    <3> QED
      BY <1>0, <2>a, <3>1, <3>3, StatesWritten DEF Status
  <2>5. CASE AddChild(r)
    <3> DEFINE child == [id |-> run[r].id, status |-> "running"]
               children == Append(run[r].children, child)
    <3>1. /\ run[r].at = "add" /\ Save(Wf(r), "running", children)
          /\ run[r].step \in Steps
          /\ run[r].id \in {r} \X {run[r].step} \X (0 .. MaxLost)
      BY <2>5, <2>a DEF AddChild, In, RunWellFormed, InLoop, InTry
    <3>2. child \in Child /\ child.status # "completed"
      BY <3>1 DEF Child, ChildStatus, Ids
    <3>3. children \in Seq(Child) /\ Sound(Wf(r), children)
      <4> HIDE DEF child
      <4> QED
        BY <1>0, <2>a, <3>2, AppendedCompleted DEF RunSound, Sound
    <3> HIDE DEF children
    <3> QED
      BY <1>0, <2>a, <3>1, <3>3, StatesWritten DEF Status
  <2>6. CASE RecordChild(r)
    <3> DEFINE children == run[r].children
    <3>1. run[r].at # "absent" /\ Save(Wf(r), "running", children)
      BY <2>6 DEF RecordChild, In
    <3>2. children \in Seq(Child) /\ Sound(Wf(r), children)
      BY <1>0, <2>a DEF RunSound
    <3> HIDE DEF children
    <3> QED
      BY <1>0, <2>a, <3>1, <3>2, StatesWritten DEF Status
  <2>7. CASE Close(r)
    <3> DEFINE children == run[r].children
               result == run[r].result
    <3>1. /\ run[r].at = "close" /\ Save(Wf(r), result, children)
          /\ result \in {"completed", "failed", "paused", "stopped"}
      BY <2>7, <2>a DEF Close, In, RunWellFormed
    <3>2. /\ children \in Seq(Child) /\ Sound(Wf(r), children)
          /\ result = "completed" => AllImported(Wf(r))
      BY <1>0, <2>a, <3>1 DEF RunSound
    <3> HIDE DEF children, result
    <3> QED
      BY <1>0, <2>a, <3>1, <3>2, StatesWritten DEF Status
  <2>8. CASE MarkStateFailed(r)
    <3>1. run[r].at = "mark" /\ MarkFailed(r, "failed", "release") /\ "release" \in RunState
      BY <2>8, RunStates DEF MarkStateFailed, In
    <3> QED
      BY <1>0, <2>a, <3>1, StatesMarked
  <2>9. CASE MarkAgain(r)
    <3>1. run[r].at = "remark" /\ MarkFailed(r, "stale_failed", "last") /\ "last" \in RunState
      BY <2>9, RunStates DEF MarkAgain, In
    <3> QED
      BY <1>0, <2>a, <3>1, StatesMarked
  <2> QED
    BY <1>3, <2>1, <2>2, <2>3, <2>4, <2>5, <2>6, <2>7, <2>8, <2>9 DEF RunStep
<1>4. ASSUME NEW s \in Steps, OtherStep(s)
      PROVE  \A w \in Workflows : StateSound(w)'
  <2>1. CASE OtherStep(s)
    <3>1. state' = state
      BY <2>1, OthersAlone
    <3> QED
      BY <1>0, <3>1, StatesStay
  <2> QED
    BY <1>4, <2>1
<1>5. CASE ExpireRunningKey
  <2>1. state' = state
    BY <1>5 DEF ExpireRunningKey
  <2> QED
    BY <1>0, <2>1, StatesStay
<1>6. CASE UNCHANGED vars
  BY <1>0, <1>6, StatesStay DEF vars
<1> QED
  BY <1>1, <1>2, <1>3, <1>4, <1>5, <1>6 DEF Next

\* A call that changed leaves the copies of the others.
LEMMA CallSoundChanged ==
    ASSUME \A b \in Calls : CallSound(b), NEW c \in Calls,
           \A b \in Calls \ {c} : call'[b] = call[b], CallSound(c)',
           imported \subseteq imported'
    PROVE  \A b \in Calls : CallSound(b)'
<1>1. ASSUME NEW b \in Calls \ {c}
      PROVE  CallSound(b)'
  <2>1. call'[b] = call[b] /\ CallSound(b)
    OBVIOUS
  <2> QED
    BY <2>1 DEF CallSound, Sound
<1> QED
  BY <1>1

\* A call that forgot its copy has a sound one; so has one that kept it.
LEMMA CallSoundForgets ==
    ASSUME NEW c \in Calls, call'[c].children = <<>>
    PROVE  CallSound(c)'
BY NoneCompleted DEF CallSound, Sound

\* The copy a call has read stays sound while imports are only added.
LEMMA CallSoundKeeps ==
    ASSUME NEW c \in Calls, CallSound(c), imported \subseteq imported',
           call'[c].children = call[c].children, call'[c].wf = call[c].wf,
           call'[c].at # "idle"
    PROVE  CallSound(c)'
BY DEF CallSound, Sound

\* Every step leaves the copies of the calls sound.
LEMMA CallsSound ==
    ASSUME Shape, CopiesSound, [Next]_vars
    PROVE  \A c \in Calls : CallSound(c)'
<1>0. /\ TypeOK /\ WellFormed /\ CallsOwnRuns /\ lostCount \in 0 .. MaxLost
      /\ run \in [Runs -> RunRecord] /\ call \in [Calls -> CallRecord]
      /\ state \in [Workflows -> Document]
      /\ \A r \in Runs : RunWellFormed(r) /\ RunSound(r)
      /\ \A c \in Calls : CallWellFormed(c) /\ CallSound(c)
      /\ \A w \in Workflows : StateSound(w)
      /\ imported \subseteq imported'
  BY Typed, ImportedGrows DEF Shape, TypeOK, WellFormed, CopiesSound
<1>1. ASSUME NEW c \in Calls, NEW w \in Workflows, Start(c, w) \/ Resume(c, w) \/ Interrupt(c, w)
      PROVE  \A b \in Calls : CallSound(b)'
  <2>1. CASE Start(c, w)
    <3>1. ClaimedBy(c, w, "saving") /\ "saving" \in CallState
      BY <2>1 DEF Start, ClaimedBy, CallState
    <3>2. w \in Workflows
      OBVIOUS
    <3>3. /\ call'[c].at # "idle" /\ call'[c].wf = w
          /\ call'[c].children = call[c].children
          /\ \A b \in Calls \ {c} : call'[b] = call[b]
      BY <1>0, <3>1, <3>2, Claims
    <3>4. call[c].children = <<>>
      BY <2>1, <1>0 DEF Start, Arrives, At, CallSound
    <3> QED
      BY <1>0, <3>3, <3>4, CallSoundForgets, CallSoundChanged
  <2>2. CASE Resume(c, w)
    <3> DEFINE children == state[w].children
               new == [NoCall EXCEPT !.op = "resume", !.at = "claiming", !.wf = w,
                                     !.children = children]
    <3>1. call' = [call EXCEPT ![c] = new]
      BY <2>2 DEF Resume
    <3>2. new.at = "claiming" /\ new.wf = w /\ new.children = children
      BY DEF NoCall
    <3> HIDE DEF new
    <3>3. call'[c] = new /\ \A b \in Calls \ {c} : call'[b] = call[b]
      BY <1>0, <3>1
    <3>4. CallSound(c)'
      BY <1>0, <3>2, <3>3 DEF CallSound, StateSound, Sound
    <3> QED
      BY <1>0, <3>3, <3>4, CallSoundChanged
  <2>3. CASE Interrupt(c, w)
    <3>1. (\A b \in Calls \ {c} : call'[b] = call[b]) /\ call'[c].children = <<>>
      <4>1. PICK op \in {"paused", "stopped"} : Begin(c, op, "flagged", w)
        BY <2>3 DEF Interrupt
      <4> QED
        BY <1>0, <4>1, Began DEF CallState
    <3> QED
      BY <1>0, <3>1, CallSoundForgets, CallSoundChanged
  <2> QED
    BY <1>1, <2>1, <2>2, <2>3
<1>2. ASSUME NEW c \in Calls, GetRunning(c) \/ CallStep(c) \/ CallFails(c)
      PROVE  \A b \in Calls : CallSound(b)'
  <2>1. CASE GetRunning(c)
    <3>1. (\A b \in Calls \ {c} : call'[b] = call[b]) /\ call'[c].children = <<>>
      <4> DEFINE w == run[runningKey].wf
      <4>1. Begin(c, "get_running", "found", w)
        BY <2>1 DEF GetRunning
      <4>2. w \in Workflows
        <5>1. runningKey \in Runs /\ run[runningKey].at # "absent"
          BY <2>1, <1>0 DEF GetRunning, WellFormed, TypeOK
        <5> QED
          BY <1>0, <5>1 DEF WellFormed, RunWellFormed, Wf
      <4> HIDE DEF w
      <4> QED
        BY <1>0, <4>1, <4>2, Began DEF CallState
    <3> QED
      BY <1>0, <3>1, CallSoundForgets, CallSoundChanged
  <2>2. CASE ClaimForResume(c)
    <3>1. ClaimedBy(c, call[c].wf, "unpausing") /\ "unpausing" \in CallState
      BY <2>2 DEF ClaimForResume, ClaimedBy, CallState
    <3>2. call[c].wf \in Workflows
      BY <2>2, <1>0 DEF ClaimForResume, At, CallWellFormed
    <3>3. /\ call'[c].at # "idle" /\ call'[c].wf = call[c].wf
          /\ call'[c].children = call[c].children
          /\ \A b \in Calls \ {c} : call'[b] = call[b]
      BY <1>0, <3>1, <3>2, Claims
    <3> QED
      BY <1>0, <3>3, CallSoundKeeps, CallSoundChanged
  <2>3. CASE ResumeRefused(c) \/ Send(c) \/ MarkInterrupted(c) \/ DropRunningKey(c) \/
            CallFails(c)
    <3>1. (\A b \in Calls \ {c} : call'[b] = call[b]) /\ call'[c].children = <<>>
      BY <2>3, <1>0, Returned DEF ResumeRefused, Send, MarkInterrupted, DropRunningKey,
         CallFails
    <3> QED
      BY <1>0, <3>1, CallSoundForgets, CallSoundChanged
  <2>4. CASE DeletePauseFlag(c)
    <3>1. (\A b \in Calls \ {c} : call'[b] = call[b]) /\ call'[c].at # "idle"
          /\ call'[c].children = call[c].children /\ call'[c].wf = call[c].wf
      <4>1. call[c].at = "unpausing" /\ Goto(c, "unstopping") /\ "unstopping" \in CallState
        BY <2>4 DEF DeletePauseFlag, At, CallState
      <4> QED
        BY <1>0, <4>1, Went
    <3> QED
      BY <1>0, <3>1, CallSoundKeeps, CallSoundChanged
  <2>5. CASE DeleteStopFlag(c)
    <3>1. (\A b \in Calls \ {c} : call'[b] = call[b]) /\ call'[c].at # "idle"
          /\ call'[c].children = call[c].children /\ call'[c].wf = call[c].wf
      <4>1. call[c].at = "unstopping" /\ Goto(c, "saving") /\ "saving" \in CallState
        BY <2>5 DEF DeleteStopFlag, At, CallState
      <4> QED
        BY <1>0, <4>1, Went
    <3> QED
      BY <1>0, <3>1, CallSoundKeeps, CallSoundChanged
  <2>6. CASE SavePending(c)
    <3>1. (\A b \in Calls \ {c} : call'[b] = call[b]) /\ call'[c].at # "idle"
          /\ call'[c].children = call[c].children /\ call'[c].wf = call[c].wf
      <4>1. call[c].at = "saving" /\ Goto(c, "sending") /\ "sending" \in CallState
        BY <2>6 DEF SavePending, At, CallState
      <4> QED
        BY <1>0, <4>1, Went
    <3> QED
      BY <1>0, <3>1, CallSoundKeeps, CallSoundChanged
  <2>7. CASE ReadToInterrupt(c)
    <3>1. ReadsToInterrupt(c)
      BY <2>7, <1>0, WhatIsRead
    <3>2. /\ call'[c].children = state[call[c].wf].children /\ call'[c].wf = call[c].wf
          /\ call[c].wf \in Workflows /\ call'[c].at # "idle"
          /\ \A b \in Calls \ {c} : call'[b] = call[b]
      BY <3>1 DEF ReadsToInterrupt, OnlyCall
    <3>3. CallSound(c)'
      BY <1>0, <3>2 DEF CallSound, StateSound, Sound
    <3> QED
      BY <1>0, <3>2, <3>3, CallSoundChanged
  <2>8. CASE SignalChild(c)
    <3>1. (\A b \in Calls \ {c} : call'[b] = call[b]) /\ call'[c].at # "idle"
          /\ call'[c].children = call[c].children /\ call'[c].wf = call[c].wf
      <4>1. call[c].at = "signalling" /\ Goto(c, "marking") /\ "marking" \in CallState
        BY <2>8 DEF SignalChild, At, CallState
      <4> QED
        BY <1>0, <4>1, Went
    <3> QED
      BY <1>0, <3>1, CallSoundKeeps, CallSoundChanged
  <2>9. CASE LookUpState(c)
    <3>1. (Goto(c, "dropping") \/ Return(c)) /\ "dropping" \in CallState
      BY <2>9 DEF LookUpState, CallState
    <3>2. CASE Goto(c, "dropping")
      <4>1. (\A b \in Calls \ {c} : call'[b] = call[b]) /\ call'[c].at # "idle"
            /\ call'[c].children = call[c].children /\ call'[c].wf = call[c].wf
        BY <1>0, <3>1, <3>2, Went
      <4> QED
        BY <1>0, <4>1, CallSoundKeeps, CallSoundChanged
    <3>3. CASE Return(c)
      BY <1>0, <3>3, Returned, CallSoundForgets, CallSoundChanged
    <3> QED
      BY <3>1, <3>2, <3>3
  <2> QED
    BY <1>2, <2>1, <2>2, <2>3, <2>4, <2>5, <2>6, <2>7, <2>8, <2>9 DEF CallStep
<1>3. ASSUME NEW r \in Runs, RunStep(r) \/ Raise(r) \/ Killed(r) \/ WorkerLost(r)
      PROVE  \A c \in Calls : CallSound(c)'
  <2>1. call' = call
    BY <1>3, CallsAlone
  <2> QED
    BY <1>0, <2>1 DEF CallSound, Sound
<1>4. ASSUME NEW s \in Steps, OtherStep(s)
      PROVE  \A c \in Calls : CallSound(c)'
  <2>1. CASE OtherStep(s)
    <3>1. call' = call
      BY <2>1, OthersAlone
    <3> QED
      BY <1>0, <3>1 DEF CallSound, Sound
  <2> QED
    BY <1>4, <2>1
<1>5. CASE ExpireRunningKey
  <2>1. call' = call
    BY <1>5 DEF ExpireRunningKey
  <2> QED
    BY <1>0, <2>1 DEF CallSound, Sound
<1>6. CASE UNCHANGED vars
  BY <1>0, <1>6 DEF vars, CallSound, Sound
<1> QED
  BY <1>1, <1>2, <1>3, <1>4, <1>5, <1>6 DEF Next

\* A run that changed leaves the copies of the others.
LEMMA RunSoundChanged ==
    ASSUME \A q \in Runs : RunSound(q), NEW r \in Runs,
           \A q \in Runs \ {r} : run'[q] = run[q], RunSound(r)',
           imported \subseteq imported'
    PROVE  \A q \in Runs : RunSound(q)'
<1>1. ASSUME NEW q \in Runs \ {r}
      PROVE  RunSound(q)'
  <2>1. run'[q] = run[q] /\ RunSound(q)
    OBVIOUS
  <2> QED
    BY <2>1 DEF RunSound, Sound, Behind, AllImported, Wf
<1> QED
  BY <1>1

\* A run with no copy has a sound one.
LEMMA RunSoundForgets ==
    ASSUME NEW r \in Runs, run'[r].children = <<>>, run'[r].at \notin InTry
    PROVE  RunSound(r)'
BY NoneCompleted DEF RunSound, Sound, InLoop, InTry

\* So has one that shows no more completed, stays at its step and does not complete.
LEMMA RunSoundKeeps ==
    ASSUME NEW r \in Runs, RunSound(r), imported \subseteq imported',
           run'[r].wf = run[r].wf,
           Completed(run'[r].children) \subseteq Completed(run[r].children),
           run'[r].at \in InLoop => run[r].at \in InLoop /\ run'[r].step = run[r].step,
           run'[r].at = "close" => run'[r].result # "completed"
    PROVE  RunSound(r)'
BY DEF RunSound, Sound, Behind, Wf

\* So has one that goes on after step s - 1, if what it leaves out was completed.
LEMMA RunSoundProceeds ==
    ASSUME NEW r \in Runs, imported \subseteq imported', run'[r].wf = run[r].wf,
           NEW s \in Nat, Behind(Wf(r), s), Sound(Wf(r), run'[r].children),
           \/ /\ run'[r].at = "close"
              /\ \/ run'[r].result # "completed"
                 \/ \A u \in Steps : s <= u => u \in Completed(run'[r].children)
           \/ /\ run'[r].at = "pause?"
              /\ \A u \in Steps : s <= u /\ u < run'[r].step
                                      => u \in Completed(run'[r].children)
    PROVE  RunSound(r)'
<1>0. \A u \in Steps : u \in Nat /\ (u < s \/ s <= u)
  BY StepsAssumption DEF Steps
<1>1. Sound(Wf(r), run[r].children)'
  BY DEF Sound, Wf
<1>2. CASE run'[r].at = "close" /\ run'[r].result # "completed"
  BY <1>1, <1>2 DEF RunSound, InLoop
<1>3. CASE /\ run'[r].at = "close"
           /\ \A u \in Steps : s <= u => u \in Completed(run'[r].children)
  <2>1. AllImported(Wf(r))'
    BY <1>0, <1>3 DEF AllImported, Behind, Sound, Wf
  <2> QED
    BY <1>1, <1>3, <2>1 DEF RunSound, InLoop
<1>4. CASE /\ run'[r].at = "pause?"
           /\ \A u \in Steps : s <= u /\ u < run'[r].step
                                   => u \in Completed(run'[r].children)
  <2>1. Behind(Wf(r), run[r].step)'
    BY <1>0, <1>4 DEF Behind, Sound, Wf
  <2> QED
    BY <1>1, <1>4, <2>1 DEF RunSound
<1> QED
  BY <1>2, <1>3, <1>4

\* A step that failed may be left behind if its failure does not matter.
LEMMA RunSoundFails ==
    ASSUME run \in [Runs -> RunRecord], NEW r \in Runs, run[r].step \in Steps,
           NEW children \in Seq(Child), StepFailed(r, children),
           imported \subseteq imported', Behind(Wf(r), run[r].step),
           Sound(Wf(r), children)
    PROVE  RunSound(r)'
<1> DEFINE s == run[r].step + 1
<1>1. s \in Nat /\ run[r].step \in Nat
  BY StepsAssumption DEF Steps
<1>2. /\ run'[r].wf = run[r].wf /\ run'[r].children = children
      /\ \/ /\ run'[r].at = "close" /\ run'[r].result = "failed"
         \/ /\ run'[r].at = "close" /\ run[r].step \in Optional
            /\ \A u \in Steps : s <= u => u \in Completed(children)
         \/ /\ run'[r].at = "pause?" /\ run[r].step \in Optional
            /\ \A u \in Steps : s <= u /\ u < run'[r].step => u \in Completed(children)
  BY StepFails DEF OnlyRun
<1>3. ASSUME run[r].step \in Optional
      PROVE  Behind(Wf(r), s)
  <2>1. \A u \in Steps \ Optional : u \in Nat /\ (u < s => u < run[r].step)
    BY <1>1, <1>3, StepsAssumption DEF Steps
  <2> QED
    BY <2>1 DEF Behind
<1>4. Sound(Wf(r), run'[r].children)
  BY <1>2
<1>5. CASE run'[r].at = "close" /\ run'[r].result = "failed"
  BY <1>1, <1>2, <1>4, <1>5, RunSoundProceeds
<1>6. CASE /\ run[r].step \in Optional
           /\ \/ /\ run'[r].at = "close"
                 /\ \A u \in Steps : s <= u => u \in Completed(children)
              \/ /\ run'[r].at = "pause?"
                 /\ \A u \in Steps : s <= u /\ u < run'[r].step => u \in Completed(children)
  <2> HIDE DEF s
  <2> QED
    BY <1>1, <1>2, <1>3, <1>4, <1>6, RunSoundProceeds
<1> QED
  BY <1>2, <1>5, <1>6

\* Whatever a run does, its copy stays sound.
LEMMA RunStaysSound ==
    ASSUME Shape, CopiesSound, imported \subseteq imported', NEW r \in Runs,
           RunStep(r) \/ Raise(r) \/ Killed(r) \/ WorkerLost(r)
    PROVE  RunSound(r)'
<1>0. /\ TypeOK /\ WellFormed /\ CallsOwnRuns /\ lostCount \in 0 .. MaxLost
      /\ run \in [Runs -> RunRecord] /\ call \in [Calls -> CallRecord]
      /\ state \in [Workflows -> Document]
      /\ \A q \in Runs : RunWellFormed(q) /\ RunSound(q)
      /\ \A c \in Calls : CallWellFormed(c) /\ CallSound(c)
      /\ \A w \in Workflows : StateSound(w)
      /\ imported \subseteq imported'
  BY Typed DEF Shape, TypeOK, WellFormed, CopiesSound
<1>a. /\ RunWellFormed(r) /\ (run[r].at # "absent" => Wf(r) \in Workflows)
      /\ run[r].children \in Seq(Child) /\ run[r].step \in 0 .. NumSteps /\ RunSound(r)
  BY <1>0, RunFields DEF RunWellFormed
<1>1. CASE Load(r)
  <2>1. Proceed(r, 1, Kept(r)) /\ run[r].at = "queued"
    BY <1>1 DEF Load, In
  <2>2. /\ Kept(r) \in Seq(Child) /\ 1 \in Nat \ {0} /\ Behind(Wf(r), 1)
        /\ Sound(Wf(r), Kept(r))
    <3>1. \A u \in Steps : ~ u < 1
      BY StepsAssumption DEF Steps
    <3> QED
      BY <1>0, <1>a, <2>1, <3>1, KeptChildren, KeptCompleted DEF Behind, StateSound, Sound
  <2> DEFINE children == Kept(r)
  <2> HIDE DEF children
  <2>3. children \in Seq(Child) /\ Proceed(r, 1, children)
    BY <2>1, <2>2 DEF children
  <2>4. /\ run'[r].wf = run[r].wf /\ run'[r].children = children
        /\ \/ /\ run'[r].at = "close"
              /\ \A u \in Steps : 1 <= u => u \in Completed(children)
           \/ /\ run'[r].at = "pause?"
              /\ \A u \in Steps : 1 <= u /\ u < run'[r].step
                                      => u \in Completed(children)
    BY <1>0, <2>2, <2>3, Proceeded
  <2>5. Sound(Wf(r), run'[r].children)
    BY <2>2, <2>4 DEF children
  <2> QED
    BY <1>0, <2>2, <2>4, <2>5, RunSoundProceeds
<1>2. CASE PollPause(r)
  <2>1. /\ run'[r].wf = run[r].wf /\ run'[r].children = run[r].children
        /\ run[r].at = "pause?"
        /\ \/ run'[r].at = "close" /\ run'[r].result = "paused"
           \/ run'[r].at = "stop?" /\ run'[r].step = run[r].step
    <3>1. "paused" \in Status /\ "stop?" \in RunState
      BY RunStates DEF Status, InTry
    <3> QED
      BY <1>2, <1>0, <1>a, <3>1, Concluded, Moved DEF PollPause, In
  <2> QED
    BY <1>0, <1>a, <2>1, RunSoundKeeps DEF InLoop, InTry
<1>3. CASE PollStop(r)
  <2>1. /\ run'[r].wf = run[r].wf /\ run'[r].children = run[r].children
        /\ run[r].at = "stop?"
        /\ \/ run'[r].at = "close" /\ run'[r].result = "stopped"
           \/ run'[r].at = "enter" /\ run'[r].step = run[r].step
    <3>1. "stopped" \in Status /\ "enter" \in RunState
      BY RunStates DEF Status, InTry
    <3> QED
      BY <1>3, <1>0, <1>a, <3>1, Concluded, Moved DEF PollStop, In
  <2> QED
    BY <1>0, <1>a, <2>1, RunSoundKeeps DEF InLoop, InTry
<1>4. CASE EnterStep(r)
  <2>1. /\ run'[r].wf = run[r].wf /\ run'[r].children = run[r].children
        /\ run'[r].step = run[r].step /\ run[r].at = "enter" /\ run'[r].at \in {"lock"}
    BY <1>4, <1>0, Moved, RunStates DEF EnterStep, In, InTry
  <2> QED
    BY <1>0, <1>a, <2>1, RunSoundKeeps DEF InLoop, InTry
<1>5. CASE TakeLock(r)
  <2>1. run[r].at \in {"lock", "relock"} /\ run[r].step \in Steps
    BY <1>5, <1>a DEF TakeLock, In, RunWellFormed, InLoop, InTry
  <2>2. /\ run'[r].wf = run[r].wf /\ run'[r].children = run[r].children
        /\ run'[r].step = run[r].step /\ run'[r].at \in {"add", "holder", "refuse"}
    BY <1>5, <1>0, <2>1, Locks
  <2> QED
    BY <1>0, <1>a, <2>1, <2>2, RunSoundKeeps DEF InLoop, InTry
<1>6. CASE ReadHolder(r)
  <2>1. run[r].at = "holder" /\ run[r].step \in Steps
    BY <1>6, <1>a DEF ReadHolder, In, RunWellFormed, InLoop, InTry
  <2>2. /\ run'[r].wf = run[r].wf /\ run'[r].children = run[r].children
        /\ run'[r].step = run[r].step /\ run'[r].at \in {"refuse", "inspect"}
    BY <1>6, <1>0, <2>1, ReadsHolder
  <2> QED
    BY <1>0, <1>a, <2>1, <2>2, RunSoundKeeps DEF InLoop, InTry
<1>7. CASE Inspect(r)
  <2>1. /\ run'[r].wf = run[r].wf /\ run'[r].children = run[r].children
        /\ run'[r].step = run[r].step /\ run[r].at = "inspect" /\ run'[r].at \in {"refuse", "compare"}
    BY <1>7, <1>0, Moved, RunStates DEF Inspect, In, InTry
  <2> QED
    BY <1>0, <1>a, <2>1, RunSoundKeeps DEF InLoop, InTry
<1>8. CASE CompareLock(r)
  <2>1. /\ run'[r].wf = run[r].wf /\ run'[r].children = run[r].children
        /\ run'[r].step = run[r].step /\ run[r].at = "compare" /\ run'[r].at \in {"drop", "relock"}
    BY <1>8, <1>0, Moved, RunStates DEF CompareLock, In, InTry
  <2> QED
    BY <1>0, <1>a, <2>1, RunSoundKeeps DEF InLoop, InTry
<1>9. CASE DropStaleLock(r)
  <2>1. /\ run'[r].wf = run[r].wf /\ run'[r].children = run[r].children
        /\ run'[r].step = run[r].step /\ run[r].at = "drop" /\ run'[r].at \in {"relock"}
    BY <1>9, <1>0, Moved, RunStates DEF DropStaleLock, In, InTry
  <2> QED
    BY <1>0, <1>a, <2>1, RunSoundKeeps DEF InLoop, InTry
<1>10. CASE RefuseStep(r)
  <2> DEFINE child == [id |-> <<r, run[r].step, lostCount>>, status |-> "failed"]
             children == Append(run[r].children, child)
  <2>1. run[r].at = "refuse" /\ run[r].step \in Steps /\ StepFailed(r, children)
    BY <1>10, <1>a DEF RefuseStep, In, RunWellFormed, InLoop, InTry
  <2>2. child \in Child /\ child.status # "completed"
    BY <1>0, <2>1 DEF Child, ChildStatus, Ids
  <2>3. children \in Seq(Child) /\ Sound(Wf(r), children)
    <3> HIDE DEF child
    <3> QED
      BY <1>0, <1>a, <2>2, AppendedCompleted DEF RunSound, Sound
  <2>4. Behind(Wf(r), run[r].step)
    BY <1>a, <2>1 DEF RunSound, InLoop, InTry
  <2> HIDE DEF children
  <2> QED
    BY <1>0, <2>1, <2>3, <2>4, RunSoundFails
<1>11. CASE AddChild(r)
  <2> DEFINE child == [id |-> run[r].id, status |-> "running"]
  <2>1. Importing(r) /\ run[r].at = "add"
    BY <1>11 DEF AddChild, In, Importing
  <2>2. run[r].id \in Ids
    BY <1>0, <2>1, OwnId
  <2>3. child \in Child /\ child.status # "completed"
    BY <2>2 DEF Child, ChildStatus
  <2>4. /\ run'[r].wf = run[r].wf /\ run'[r].step = run[r].step /\ run'[r].at = "import"
        /\ run'[r].children = Append(run[r].children, child)
    BY <1>11, <1>0, <2>2, AddsChild
  <2> HIDE DEF child
  <2>5. Completed(run'[r].children) \subseteq Completed(run[r].children)
    BY <1>a, <2>3, <2>4, AppendedCompleted
  <2> QED
    BY <1>0, <1>a, <2>1, <2>4, <2>5, RunSoundKeeps DEF InLoop, InTry
<1>12. CASE Import(r)
  <2>1. /\ Importing(r) /\ run[r].at = "import"
        /\ Len(run[r].children) > 0 /\ LastOf(run[r].children).id = run[r].id
    BY <1>12, <1>a DEF Import, In, RunWellFormed, Importing
  <2>2. run[r].id \in {r} \X {run[r].step} \X (0 .. MaxLost)
    BY <1>0, <2>1, OwnId
  <2> DEFINE old == run[r].children
             new == run'[r].children
             n == Len(old)
  <2>3. PICK status \in {"completed", "failed", "stopped"} :
            /\ run'[r].wf = run[r].wf /\ run'[r].step = run[r].step
            /\ run'[r].at = "record" /\ new \in Seq(Child) /\ Len(new) = n
            /\ LastOf(new).status = status /\ LastOf(new).id = LastOf(old).id
            /\ \A j \in 1 .. n : j # n => new[j] = old[j]
            /\ imported' = imported \cup {x \in {<<Wf(r), run[r].step>>} :
                                               status = "completed"}
    BY <1>12, <1>0, <2>1, Imports
  <2>4. /\ DOMAIN new = 1 .. n /\ DOMAIN old = 1 .. n
        /\ new[n].status = status /\ StepOf(new[n]) = run[r].step
    BY <1>a, <2>1, <2>2, <2>3, LenProperties DEF LastOf, StepOf
  <2>5. ASSUME NEW u \in Completed(new)
        PROVE  <<Wf(r), u>> \in imported'
    <3>1. PICK i \in 1 .. n : new[i].status = "completed" /\ u = StepOf(new[i])
      BY <2>4, <2>5 DEF Completed
    <3>2. CASE i = n
      BY <2>3, <2>4, <3>1, <3>2
    <3>3. CASE i # n
      <4>1. u \in Completed(old)
        BY <2>3, <2>4, <3>1, <3>3 DEF Completed
      <4> QED
        BY <1>0, <1>a, <4>1 DEF RunSound, Sound
    <3> QED
      BY <3>2, <3>3
  <2> HIDE DEF new, old, n
  <2>6. Sound(Wf(r), run[r].children)'
    BY <2>3, <2>5 DEF Sound, Wf, new
  <2>7. Behind(Wf(r), run[r].step)'
    BY <1>0, <1>a, <2>1, <2>3 DEF RunSound, Behind, InLoop, InTry, Wf
  <2> QED
    BY <2>3, <2>6, <2>7 DEF RunSound
<1>13. CASE RecordChild(r)
  <2> DEFINE children == run[r].children
             status == children[Len(children)].status
             s == run[r].step + 1
  <2>1. /\ run[r].at = "record" /\ run[r].step \in Steps
        /\ status \in {"completed", "failed", "stopped"}
        /\ Len(children) > 0 /\ LastOf(children).id = run[r].id
        /\ run[r].id \in {r} \X {run[r].step} \X (0 .. MaxLost)
    BY <1>13, <1>a DEF RecordChild, In, RunWellFormed, InLoop, InTry, LastOf
  <2>2. /\ status = "completed" => Proceed(r, s, children)
        /\ status = "failed" => StepFailed(r, children)
        /\ status = "stopped" => Move(r, "stopped")
    BY <1>13 DEF RecordChild
  <2>3. /\ s \in Nat \ {0} /\ children \in Seq(Child) /\ run[r].step \in Nat
        /\ Sound(Wf(r), children) /\ Behind(Wf(r), run[r].step)
    BY <1>a, <2>1, StepsAssumption DEF Steps, RunSound, InLoop, InTry
  <2>4. CASE status = "completed"
    <3>1. run[r].step \in Completed(children)
      <4>1. Len(children) \in DOMAIN children
        BY <2>1, <2>3, LenProperties
      <4>2. StepOf(children[Len(children)]) = run[r].step
        BY <2>1 DEF LastOf, StepOf
      <4> QED
        BY <2>4, <4>1, <4>2 DEF Completed
    <3>2. Behind(Wf(r), s)
      <4>1. \A u \in Steps : u \in Nat /\ (u < s => u < run[r].step \/ u = run[r].step)
        BY <2>3, StepsAssumption DEF Steps
      <4> QED
        BY <2>3, <3>1, <4>1 DEF Behind, Sound
    <3> HIDE DEF status, children, s
    <3>3. /\ run'[r].wf = run[r].wf /\ run'[r].children = children
          /\ \/ /\ run'[r].at = "close"
                /\ \A u \in Steps : s <= u => u \in Completed(children)
             \/ /\ run'[r].at = "pause?"
                /\ \A u \in Steps : s <= u /\ u < run'[r].step
                                        => u \in Completed(children)
      BY <1>0, <2>2, <2>3, <2>4, Proceeded
    <3>4. Sound(Wf(r), run'[r].children)
      BY <2>3, <3>3
    <3> QED
      BY <1>0, <2>3, <3>2, <3>3, <3>4, RunSoundProceeds
  <2>5. CASE status = "failed"
    <3> HIDE DEF status, children
    <3> QED
      BY <1>0, <2>1, <2>2, <2>3, <2>5, RunSoundFails
  <2>6. CASE status = "stopped"
    <3>1. /\ run'[r].wf = run[r].wf /\ run'[r].children = run[r].children
          /\ run'[r].step = run[r].step /\ run'[r].at = "stopped"
      BY <1>0, <2>2, <2>6, Moved, RunStates DEF InTry
    <3> QED
      BY <1>0, <1>a, <2>1, <3>1, RunSoundKeeps DEF InLoop, InTry
  <2> QED
    BY <2>1, <2>4, <2>5, <2>6
<1>14. CASE PauseOrStop(r)
  <2> DEFINE result == IF pauseFlag[Wf(r)] THEN "paused" ELSE "stopped"
  <2>1. /\ Conclude(r, result, run[r].children)
        /\ result \in {"paused", "stopped"} /\ run[r].children \in Seq(Child)
    BY <1>14, <1>a DEF PauseOrStop, In
  <2> HIDE DEF result
  <2>2. /\ run'[r].wf = run[r].wf /\ run'[r].children = run[r].children
        /\ run'[r].at = "close" /\ run'[r].result # "completed"
    BY <1>0, <2>1, Concluded DEF Status
  <2> QED
    BY <1>0, <1>a, <2>2, RunSoundKeeps DEF InLoop
<1>15. CASE Close(r)
  <2>1. /\ run'[r].wf = run[r].wf /\ run'[r].children = run[r].children
        /\ run'[r].step = run[r].step /\ run[r].at = "close" /\ run'[r].at \in {"release"}
    BY <1>15, <1>0, Moved, RunStates DEF Close, In, InTry
  <2> QED
    BY <1>0, <1>a, <2>1, RunSoundKeeps DEF InLoop, InTry
<1>16. CASE Release(r)
  <2>1. /\ run'[r].wf = run[r].wf /\ run'[r].at \in {"again", "done"}
        /\ (run'[r].children = run[r].children \/ run'[r].children = <<>>)
    BY <1>16, <1>0, Moved, Ended, RunStates DEF Release
  <2>2. Completed(run'[r].children) \subseteq Completed(run[r].children)
    BY <2>1, NoneCompleted
  <2> QED
    BY <1>0, <1>a, <2>1, <2>2, RunSoundKeeps DEF InLoop, InTry
<1>17. CASE ReleaseAgain(r)
  <2>1. /\ run'[r].wf = run[r].wf /\ run'[r].at \in {"reread", "done"}
        /\ (run'[r].children = run[r].children \/ run'[r].children = <<>>)
    BY <1>17, <1>0, Moved, Ended, RunStates DEF ReleaseAgain
  <2>2. Completed(run'[r].children) \subseteq Completed(run[r].children)
    BY <2>1, NoneCompleted
  <2> QED
    BY <1>0, <1>a, <2>1, <2>2, RunSoundKeeps DEF InLoop, InTry
<1>18. CASE MarkStateFailed(r)
  <2>1. run[r].at = "mark" /\ MarkFailed(r, "failed", "release") /\ "release" \in RunState
    BY <1>18, RunStates DEF MarkStateFailed, In
  <2>2. Completed(run'[r].children) \subseteq Completed(run[r].children)
    BY <1>0, <1>a, <2>1, StatesMarked
  <2>3. run'[r].wf = run[r].wf /\ run'[r].at = "release"
    BY <1>0, <1>a, <2>1, MarksFailed
  <2> QED
    BY <1>0, <1>a, <2>2, <2>3, RunSoundKeeps DEF InLoop, InTry
<1>19. CASE ReadAgain(r)
  <2>1. run[r].at = "reread" /\ Wf(r) \in Workflows
    BY <1>19, <1>a DEF ReadAgain, In
  <2>2. /\ run'[r].wf = run[r].wf /\ run'[r].children = state[Wf(r)].children
        /\ run'[r].at = "remark"
    BY <1>19, <1>0, <2>1, ReadsAgain
  <2>3. Sound(Wf(r), run[r].children)'
    BY <1>0, <2>1, <2>2 DEF StateSound, Sound, Wf
  <2> QED
    BY <2>2, <2>3 DEF RunSound, InLoop, InTry
<1>20. CASE MarkAgain(r)
  <2>1. run[r].at = "remark" /\ MarkFailed(r, "stale_failed", "last") /\ "last" \in RunState
    BY <1>20, RunStates DEF MarkAgain, In
  <2>2. Completed(run'[r].children) \subseteq Completed(run[r].children)
    BY <1>0, <1>a, <2>1, StatesMarked
  <2>3. run'[r].wf = run[r].wf /\ run'[r].at = "last"
    BY <1>0, <1>a, <2>1, MarksFailed
  <2> QED
    BY <1>0, <1>a, <2>2, <2>3, RunSoundKeeps DEF InLoop, InTry
<1>21. CASE ReleaseLast(r)
  <2>1. /\ run'[r].wf = run[r].wf /\ run'[r].at \in {"done"}
        /\ (run'[r].children = run[r].children \/ run'[r].children = <<>>)
    BY <1>21, <1>0, Moved, Ended, RunStates DEF ReleaseLast
  <2>2. Completed(run'[r].children) \subseteq Completed(run[r].children)
    BY <2>1, NoneCompleted
  <2> QED
    BY <1>0, <1>a, <2>1, <2>2, RunSoundKeeps DEF InLoop, InTry
<1>22. CASE Raise(r)
  <2>1. /\ run'[r].wf = run[r].wf /\ run'[r].at \in {"mark", "again", "reread"}
        /\ (run'[r].children = run[r].children \/ run'[r].children = <<>>)
    BY <1>22, <1>0, Raises, RunStates
  <2>2. Completed(run'[r].children) \subseteq Completed(run[r].children)
    BY <2>1, NoneCompleted
  <2> QED
    BY <1>0, <1>a, <2>1, <2>2, RunSoundKeeps DEF InLoop, InTry
<1>23. CASE Killed(r)
  <2>1. /\ run'[r].wf = run[r].wf /\ run'[r].at \in {"gone"}
        /\ (run'[r].children = run[r].children \/ run'[r].children = <<>>)
    BY <1>23, <1>0, Moved, Ended, RunStates DEF Killed
  <2>2. Completed(run'[r].children) \subseteq Completed(run[r].children)
    BY <2>1, NoneCompleted
  <2> QED
    BY <1>0, <1>a, <2>1, <2>2, RunSoundKeeps DEF InLoop, InTry
<1>24. CASE WorkerLost(r)
  <2>1. /\ run'[r].wf = run[r].wf /\ run'[r].at \in {"queued"}
        /\ (run'[r].children = run[r].children \/ run'[r].children = <<>>)
    BY <1>24, <1>0, Moved, Ended, RunStates DEF WorkerLost
  <2>2. Completed(run'[r].children) \subseteq Completed(run[r].children)
    BY <2>1, NoneCompleted
  <2> QED
    BY <1>0, <1>a, <2>1, <2>2, RunSoundKeeps DEF InLoop, InTry
<1> QED
  BY <1>1, <1>2, <1>3, <1>4, <1>5, <1>6, <1>7, <1>8, <1>9, <1>10, <1>11, <1>12, <1>13,
     <1>14, <1>15, <1>16, <1>17, <1>18, <1>19, <1>20, <1>21, <1>22, <1>23, <1>24 DEF
     RunStep

\* Every step leaves the copies of the runs sound.
LEMMA RunsSound ==
    ASSUME Shape, CopiesSound, [Next]_vars
    PROVE  \A r \in Runs : RunSound(r)'
<1>0. /\ Shape /\ CopiesSound /\ TypeOK /\ WellFormed /\ CallsOwnRuns /\ lostCount \in 0 .. MaxLost
      /\ run \in [Runs -> RunRecord] /\ call \in [Calls -> CallRecord]
      /\ state \in [Workflows -> Document]
      /\ \A r \in Runs : RunWellFormed(r) /\ RunSound(r)
      /\ \A c \in Calls : CallWellFormed(c) /\ CallSound(c)
      /\ \A w \in Workflows : StateSound(w)
      /\ imported \subseteq imported'
  BY Typed, ImportedGrows DEF Shape, TypeOK, WellFormed, CopiesSound
<1>1. ASSUME NEW c \in Calls, NEW w \in Workflows, Start(c, w) \/ Resume(c, w) \/ Interrupt(c, w)
      PROVE  \A r \in Runs : RunSound(r)'
  <2>1. CASE Start(c, w)
    <3>1. ClaimedBy(c, w, "saving") /\ "saving" \in CallState
      BY <2>1 DEF Start, ClaimedBy, CallState
    <3>2. w \in Workflows
      OBVIOUS
    <3>3. PICK r \in Runs : /\ run'[r].at = "claimed" /\ run'[r].children = <<>>
                            /\ \A q \in Runs \ {r} : run'[q] = run[q]
      BY <1>0, <3>1, <3>2, Claims
    <3>4. RunSound(r)'
      BY <3>3, RunSoundForgets DEF InTry
    <3> QED
      BY <1>0, <3>3, <3>4, RunSoundChanged
  <2>2. CASE Resume(c, w) \/ Interrupt(c, w)
    <3>1. run' = run
      BY <2>2 DEF Resume, Interrupt
    <3> QED
      BY <1>0, <3>1 DEF RunSound, Sound, Behind, AllImported, Wf
  <2> QED
    BY <1>1, <2>1, <2>2
<1>2. ASSUME NEW c \in Calls, GetRunning(c) \/ CallStep(c) \/ CallFails(c)
      PROVE  \A r \in Runs : RunSound(r)'
  <2>1. CASE GetRunning(c) \/ ResumeRefused(c) \/ DeletePauseFlag(c) \/
            DeleteStopFlag(c) \/ SavePending(c) \/ ReadToInterrupt(c) \/
            SignalChild(c) \/ MarkInterrupted(c) \/ LookUpState(c) \/
            DropRunningKey(c)
    <3>1. run' = run
      BY <2>1 DEF GetRunning, ResumeRefused, DeletePauseFlag, DeleteStopFlag,
         SavePending, ReadToInterrupt, SignalChild, MarkInterrupted, LookUpState,
         DropRunningKey
    <3> QED
      BY <1>0, <3>1 DEF RunSound, Sound, Behind, AllImported, Wf
  <2>2. CASE ClaimForResume(c)
    <3>1. ClaimedBy(c, call[c].wf, "unpausing") /\ "unpausing" \in CallState
      BY <2>2 DEF ClaimForResume, ClaimedBy, CallState
    <3>2. call[c].wf \in Workflows
      BY <2>2, <1>0 DEF ClaimForResume, At, CallWellFormed
    <3>3. PICK r \in Runs : /\ run'[r].at = "claimed" /\ run'[r].children = <<>>
                            /\ \A q \in Runs \ {r} : run'[q] = run[q]
      BY <1>0, <3>1, <3>2, Claims
    <3>4. RunSound(r)'
      BY <3>3, RunSoundForgets DEF InTry
    <3> QED
      BY <1>0, <3>3, <3>4, RunSoundChanged
  <2>3. CASE Send(c)
    <3>1. PICK r \in Runs : r = call[c].run /\ Move(r, "queued")
      BY <2>3, <1>0 DEF Send, At, CallsOwnRuns, WithClaim, Move
    <3>2. /\ run'[r].at = "queued" /\ run'[r].wf = run[r].wf
          /\ run'[r].children = run[r].children
          /\ \A q \in Runs \ {r} : run'[q] = run[q]
      BY <1>0, <3>1, RunStates, Moved
    <3>3. RunSound(r)'
      BY <1>0, <3>2, RunSoundKeeps DEF InLoop, InTry
    <3> QED
      BY <1>0, <3>2, <3>3, RunSoundChanged
  <2>4. CASE CallFails(c)
    <3>1. \A r \in Runs : \/ run'[r] = run[r]
                          \/ run'[r].at = "gone" /\ run'[r].children = <<>>
      BY <2>4, <1>0, Fails
    <3>2. ASSUME NEW r \in Runs
          PROVE  RunSound(r)'
      <4>1. CASE run'[r] = run[r]
        BY <1>0, <4>1 DEF RunSound, Sound, Behind, AllImported, Wf
      <4>2. CASE run'[r].at = "gone" /\ run'[r].children = <<>>
        BY <4>2, RunSoundForgets DEF InTry
      <4> QED
        BY <3>1, <4>1, <4>2
    <3> QED
      BY <3>2
  <2> QED
    BY <1>2, <2>1, <2>2, <2>3, <2>4 DEF CallStep
<1>3. ASSUME NEW r \in Runs, RunStep(r) \/ Raise(r) \/ Killed(r) \/ WorkerLost(r)
      PROVE  \A q \in Runs : RunSound(q)'
  <2>1. RunMove(r) /\ RunSound(r)'
    BY <1>3, <1>0, RunMoves, RunStaysSound
  <2> QED
    BY <1>0, <2>1, RunSoundChanged DEF RunMove, OnlyRun
<1>4. ASSUME NEW s \in Steps, OtherStep(s)
      PROVE  \A r \in Runs : RunSound(r)'
  <2>1. CASE OtherStep(s)
    <3>1. run' = run
      BY <2>1, OthersAlone
    <3> QED
      BY <1>0, <3>1 DEF RunSound, Sound, Behind, AllImported, Wf
  <2> QED
    BY <1>4, <2>1
<1>5. CASE ExpireRunningKey
  <2>1. run' = run
    BY <1>5 DEF ExpireRunningKey
  <2> QED
    BY <1>0, <2>1 DEF RunSound, Sound, Behind, AllImported, Wf
<1>6. CASE UNCHANGED vars
  BY <1>0, <1>6 DEF vars, RunSound, Sound, Behind, AllImported, Wf
<1> QED
  BY <1>1, <1>2, <1>3, <1>4, <1>5, <1>6 DEF Next

\* A workflow says "completed" only if an import of every step that may not fail came
\* through, over pauses, resumes, redeliveries and rewritten states, for workflows of
\* any length.
THEOREM CompletedIsImported == Spec => []CompletedMeansImported
<1>1. Init => CopiesSound
  <2> SUFFICES ASSUME Init
               PROVE  CopiesSound
    OBVIOUS
  <2>1. ASSUME NEW w \in Workflows
        PROVE  StateSound(w)
    BY NoneCompleted DEF Init, StateSound, Sound
  <2>2. ASSUME NEW r \in Runs
        PROVE  RunSound(r)
    BY NoneCompleted DEF Init, NoRun, RunSound, Sound, InLoop, InTry
  <2>3. ASSUME NEW c \in Calls
        PROVE  CallSound(c)
    BY NoneCompleted DEF Init, NoCall, CallSound, Sound
  <2> QED
    BY <2>1, <2>2, <2>3 DEF CopiesSound
<1>2. Shape /\ CopiesSound /\ [Next]_vars => CopiesSound'
  BY StatesSound, RunsSound, CallsSound DEF CopiesSound
<1>3. CopiesSound => CompletedMeansImported
  BY DEF CopiesSound, StateSound, AllImported, CompletedMeansImported
<1> QED
  BY <1>1, <1>2, <1>3, ShapeKept, PTL DEF Spec
-----------------------------------------------------------------------------
(***************************************************************************)
(* Steps begun although a flag was set.                                    *)
(***************************************************************************)
\* From the begin of a late step to the polls that must see the flag.
AfterAdd == {"import", "record", "pause?", "stop?", "stopped"}
LateOK(r) ==
    \/ run[r].late = 0
    \/ run[r].at # "absent" /\ TwoRunsAbout(r)
    \/ /\ run[r].late = 1 /\ run[r].at \in AfterAdd /\ Flagged(Wf(r))
       /\ run[r].at = "stop?" => stopFlag[Wf(r)]

\* A run that is there stays there, for its workflow.
Stay == \A q \in Runs : run[q].at # "absent" =>
                            run'[q].at # "absent" /\ run'[q].wf = run[q].wf

\* Two runs once are two runs for ever.
LEMMA TwoStay ==
    ASSUME Stay, breach => breach', NEW r \in Runs, run[r].at # "absent",
           TwoRunsAbout(r)
    PROVE  run'[r].at # "absent" /\ TwoRunsAbout(r)'
BY DEF Stay, TwoRunsAbout, Wf

\* A run at whose record nothing was written, and whose flags were not deleted.
LEMMA LateStays ==
    ASSUME Stay, breach => breach', NEW r \in Runs, LateOK(r), run'[r] = run[r],
           pauseFlag[Wf(r)] => pauseFlag'[Wf(r)], stopFlag[Wf(r)] => stopFlag'[Wf(r)]
    PROVE  LateOK(r)'
<1>1. CASE run[r].late = 0
  BY <1>1 DEF LateOK
<1>2. CASE run[r].at # "absent" /\ TwoRunsAbout(r)
  BY <1>2, TwoStay DEF LateOK
<1>3. CASE /\ run[r].late = 1 /\ run[r].at \in AfterAdd /\ Flagged(Wf(r))
           /\ run[r].at = "stop?" => stopFlag[Wf(r)]
  BY <1>3 DEF LateOK, Flagged, Wf
<1> QED
  BY <1>1, <1>2, <1>3 DEF LateOK

\* A run that is between the polls and the next step is not late unless there are two.
LEMMA LateMoves ==
    ASSUME Stay, breach => breach', NEW r \in Runs, LateOK(r), run[r].at \notin AfterAdd,
           run'[r].late \in {0, run[r].late}
    PROVE  LateOK(r)'
<1>1. CASE run[r].late = 0
  BY <1>1 DEF LateOK
<1>2. CASE run[r].at # "absent" /\ TwoRunsAbout(r)
  BY <1>2, TwoStay DEF LateOK
<1> QED
  BY <1>1, <1>2 DEF LateOK

\* A run that has begun a late step goes on to the polls, and does not pass them.
LEMMA LateGoesOn ==
    ASSUME Stay, breach => breach', NEW r \in Runs, LateOK(r),
           run'[r].wf = run[r].wf, run'[r].late \in {0, run[r].late},
           pauseFlag' = pauseFlag, stopFlag' = stopFlag,
           \/ run'[r].late = 0
           \/ run'[r].at \in AfterAdd \ {"stop?"}
           \/ run'[r].at = "stop?" /\ ~ pauseFlag[Wf(r)]
           \/ run[r].at = "stop?" /\ ~ stopFlag[Wf(r)]
    PROVE  LateOK(r)'
<1>1. CASE run[r].late = 0
  BY <1>1 DEF LateOK
<1>2. CASE run[r].at # "absent" /\ TwoRunsAbout(r)
  BY <1>2, TwoStay DEF LateOK
<1>3. CASE /\ run[r].late = 1 /\ run[r].at \in AfterAdd /\ Flagged(Wf(r))
           /\ run[r].at = "stop?" => stopFlag[Wf(r)]
  BY <1>3 DEF LateOK, Flagged, AfterAdd, Wf
<1> QED
  BY <1>1, <1>2, <1>3 DEF LateOK

\* Every step leaves the runs there, for their workflows.
LEMMA RunsStay ==
    ASSUME Shape, [Next]_vars
    PROVE  Stay
<1>0. /\ TypeOK /\ CallsOwnRuns /\ WellFormed
      /\ run \in [Runs -> RunRecord] /\ call \in [Calls -> CallRecord]
      /\ \A c \in Calls : CallWellFormed(c)
  BY Typed DEF Shape, WellFormed
<1>1. ASSUME NEW c \in Calls, NEW w \in Workflows, Start(c, w) \/ Resume(c, w) \/ Interrupt(c, w)
      PROVE  Stay
  <2>1. CASE Start(c, w)
    <3>1. ClaimedBy(c, w, "saving") /\ "saving" \in CallState
      BY <2>1 DEF Start, ClaimedBy, CallState
    <3>2. w \in Workflows
      OBVIOUS
    <3>3. PICK r \in Runs : run[r].at = "absent" /\ \A q \in Runs \ {r} : run'[q] = run[q]
      BY <1>0, <3>1, <3>2, Claims
    <3> QED
      BY <3>3 DEF Stay
  <2>2. CASE Resume(c, w) \/ Interrupt(c, w)
    BY <2>2 DEF Resume, Interrupt, Stay
  <2> QED
    BY <1>1, <2>1, <2>2
<1>2. ASSUME NEW c \in Calls, GetRunning(c) \/ CallStep(c) \/ CallFails(c)
      PROVE  Stay
  <2>1. CASE GetRunning(c) \/ ResumeRefused(c) \/ DeletePauseFlag(c) \/
            DeleteStopFlag(c) \/ SavePending(c) \/ ReadToInterrupt(c) \/
            SignalChild(c) \/ MarkInterrupted(c) \/ LookUpState(c) \/
            DropRunningKey(c)
    BY <2>1 DEF GetRunning, ResumeRefused, DeletePauseFlag, DeleteStopFlag, SavePending,
       ReadToInterrupt, SignalChild, MarkInterrupted, LookUpState, DropRunningKey, Stay
  <2>2. CASE ClaimForResume(c)
    <3>1. ClaimedBy(c, call[c].wf, "unpausing") /\ "unpausing" \in CallState
      BY <2>2 DEF ClaimForResume, ClaimedBy, CallState
    <3>2. call[c].wf \in Workflows
      BY <2>2, <1>0 DEF ClaimForResume, At, CallWellFormed
    <3>3. PICK r \in Runs : run[r].at = "absent" /\ \A q \in Runs \ {r} : run'[q] = run[q]
      BY <1>0, <3>1, <3>2, Claims
    <3> QED
      BY <3>3 DEF Stay
  <2>3. CASE Send(c)
    <3>1. PICK r \in Runs : r = call[c].run /\ Move(r, "queued")
      BY <2>3, <1>0 DEF Send, At, CallsOwnRuns, WithClaim, Move
    <3>2. /\ run'[r].at = "queued" /\ run'[r].wf = run[r].wf
          /\ \A q \in Runs \ {r} : run'[q] = run[q]
      BY <1>0, <3>1, RunStates, Moved
    <3> QED
      BY <3>2 DEF Stay
  <2>4. CASE CallFails(c)
    <3>1. \A r \in Runs : \/ run'[r] = run[r]
                          \/ run'[r].at = "gone" /\ run'[r].wf = run[r].wf
      BY <2>4, <1>0, Fails
    <3> QED
      BY <3>1 DEF Stay
  <2> QED
    BY <1>2, <2>1, <2>2, <2>3, <2>4 DEF CallStep
<1>3. ASSUME NEW r \in Runs, RunStep(r) \/ Raise(r) \/ Killed(r) \/ WorkerLost(r)
      PROVE  Stay
  <2>1. RunMove(r)
    BY <1>3, <1>0, RunMoves
  <2> QED
    BY <2>1 DEF RunMove, OnlyRun, Stay
<1>4. ASSUME NEW s \in Steps, OtherStep(s)
      PROVE  Stay
  <2>1. CASE OtherStep(s)
    BY <2>1, OthersAlone DEF Stay
  <2> QED
    BY <1>4, <2>1
<1>5. CASE ExpireRunningKey
  BY <1>5 DEF ExpireRunningKey, Stay
<1>6. CASE UNCHANGED vars
  BY <1>0, <1>6 DEF vars, Stay
<1> QED
  BY <1>1, <1>2, <1>3, <1>4, <1>5, <1>6 DEF Next

\* No run sets or deletes a flag.
LEMMA FlagsAlone ==
    ASSUME NEW r \in Runs,
           RunStep(r) \/ Raise(r) \/ Killed(r) \/ WorkerLost(r)
    PROVE  pauseFlag' = pauseFlag /\ stopFlag' = stopFlag
<1>1. CASE Load(r) \/ PollPause(r) \/ PollStop(r) \/ EnterStep(r) \/ TakeLock(r) \/
          ReadHolder(r)
  BY <1>1 DEF Load, PollPause, PollStop, EnterStep, TakeLock, ReadHolder, MarkFailed,
     keys, flagVars
<1>2. CASE Inspect(r) \/ CompareLock(r) \/ DropStaleLock(r) \/ RefuseStep(r) \/
          AddChild(r) \/ Import(r)
  BY <1>2 DEF Inspect, CompareLock, DropStaleLock, RefuseStep, AddChild, Import,
     MarkFailed, keys, flagVars
<1>3. CASE RecordChild(r) \/ PauseOrStop(r) \/ Close(r) \/ Release(r) \/
          ReleaseAgain(r) \/ MarkStateFailed(r)
  BY <1>3 DEF RecordChild, PauseOrStop, Close, Release, ReleaseAgain, MarkStateFailed,
     MarkFailed, keys, flagVars
<1>4. CASE ReadAgain(r) \/ MarkAgain(r) \/ ReleaseLast(r) \/ Raise(r) \/ Killed(r) \/
          WorkerLost(r)
  BY <1>4 DEF ReadAgain, MarkAgain, ReleaseLast, Raise, Killed, WorkerLost, MarkFailed,
     keys, flagVars
<1> QED
  BY <1>1, <1>2, <1>3, <1>4 DEF RunStep

\* Whatever a run does, it begins no second late step.
LEMMA RunStaysLate ==
    ASSUME Shape, Stay, breach => breach', NEW r \in Runs, LateOK(r),
           RunStep(r) \/ Raise(r) \/ Killed(r) \/ WorkerLost(r)
    PROVE  LateOK(r)'
<1>0. /\ TypeOK /\ WellFormed /\ lostCount \in 0 .. MaxLost
      /\ run \in [Runs -> RunRecord] /\ state \in [Workflows -> Document]
      /\ Stay /\ (breach => breach') /\ LateOK(r) /\ \A q \in Runs : RunWellFormed(q)
  BY Typed DEF Shape, TypeOK, WellFormed
<1>a. /\ RunWellFormed(r) /\ (run[r].at # "absent" => Wf(r) \in Workflows)
      /\ run[r].children \in Seq(Child) /\ run[r].late \in 0 .. 2
  BY <1>0, RunFields DEF RunWellFormed
<1>1. CASE Load(r)
  <2>1. Proceed(r, 1, Kept(r)) /\ run[r].at = "queued"
    BY <1>1 DEF Load, In
  <2> DEFINE children == Kept(r)
  <2>2. children \in Seq(Child) /\ 1 \in Nat \ {0} /\ Proceed(r, 1, children)
    BY <1>0, <1>a, <2>1, KeptChildren
  <2> HIDE DEF children
  <2>3. run'[r].late \in {0, run[r].late}
    BY <1>0, <2>2, Proceeded
  <2> QED
    BY <1>0, <2>1, <2>3, LateMoves DEF AfterAdd
<1>2. CASE PollPause(r)
  <2>1. /\ run[r].at = "pause?" /\ run'[r].wf = run[r].wf
        /\ \/ run'[r].late = 0
           \/ run'[r].at = "stop?" /\ run'[r].late = run[r].late /\ ~ pauseFlag[Wf(r)]
    <3>1. "paused" \in Status /\ "stop?" \in RunState
      BY RunStates DEF Status, InTry
    <3> QED
      BY <1>2, <1>0, <1>a, <3>1, Concluded, Moved DEF PollPause, In
  <2>2. pauseFlag' = pauseFlag /\ stopFlag' = stopFlag
    BY <1>2 DEF PollPause, keys, flagVars
  <2> QED
    BY <1>0, <2>1, <2>2, LateGoesOn
<1>3. CASE PollStop(r)
  <2>1. /\ run[r].at = "stop?" /\ run'[r].wf = run[r].wf
        /\ \/ run'[r].late = 0
           \/ run'[r].at = "enter" /\ run'[r].late = run[r].late /\ ~ stopFlag[Wf(r)]
    <3>1. "stopped" \in Status /\ "enter" \in RunState
      BY RunStates DEF Status, InTry
    <3> QED
      BY <1>3, <1>0, <1>a, <3>1, Concluded, Moved DEF PollStop, In
  <2>2. pauseFlag' = pauseFlag /\ stopFlag' = stopFlag
    BY <1>3 DEF PollStop, keys, flagVars
  <2> QED
    BY <1>0, <2>1, <2>2, LateGoesOn
<1>4. CASE EnterStep(r)
  <2>1. run[r].at = "enter" /\ run'[r].late = run[r].late
    BY <1>4, <1>0, Moved, RunStates DEF EnterStep, In, InTry
  <2> QED
    BY <1>0, <2>1, LateMoves DEF AfterAdd
<1>5. CASE TakeLock(r)
  <2>1. run[r].at \in {"lock", "relock"} /\ run[r].step \in Steps
    BY <1>5, <1>a DEF TakeLock, In, RunWellFormed, InLoop, InTry
  <2>2. run'[r].late = run[r].late
    BY <1>5, <1>0, <2>1, Locks
  <2> QED
    BY <1>0, <2>1, <2>2, LateMoves DEF AfterAdd
<1>6. CASE ReadHolder(r)
  <2>1. run[r].at = "holder" /\ run[r].step \in Steps
    BY <1>6, <1>a DEF ReadHolder, In, RunWellFormed, InLoop, InTry
  <2>2. run'[r].late = run[r].late
    BY <1>6, <1>0, <2>1, ReadsHolder
  <2> QED
    BY <1>0, <2>1, <2>2, LateMoves DEF AfterAdd
<1>7. CASE Inspect(r)
  <2>1. run[r].at = "inspect" /\ run'[r].late = run[r].late
    BY <1>7, <1>0, Moved, RunStates DEF Inspect, In, InTry
  <2> QED
    BY <1>0, <2>1, LateMoves DEF AfterAdd
<1>8. CASE CompareLock(r)
  <2>1. run[r].at = "compare" /\ run'[r].late = run[r].late
    BY <1>8, <1>0, Moved, RunStates DEF CompareLock, In, InTry
  <2> QED
    BY <1>0, <2>1, LateMoves DEF AfterAdd
<1>9. CASE DropStaleLock(r)
  <2>1. run[r].at = "drop" /\ run'[r].late = run[r].late
    BY <1>9, <1>0, Moved, RunStates DEF DropStaleLock, In, InTry
  <2> QED
    BY <1>0, <2>1, LateMoves DEF AfterAdd
<1>10. CASE RefuseStep(r)
  <2> DEFINE child == [id |-> <<r, run[r].step, lostCount>>, status |-> "failed"]
             children == Append(run[r].children, child)
  <2>1. run[r].at = "refuse" /\ run[r].step \in Steps /\ StepFailed(r, children)
    BY <1>10, <1>a DEF RefuseStep, In, RunWellFormed, InLoop, InTry
  <2>2. children \in Seq(Child)
    <3>1. child \in Child
      BY <1>0, <2>1 DEF Child, ChildStatus, Ids
    <3> QED
      BY <1>a, <3>1, AppendProperties
  <2> HIDE DEF children
  <2>3. run'[r].late \in {0, run[r].late}
    BY <1>0, <2>1, <2>2, StepFails
  <2> QED
    BY <1>0, <2>1, <2>3, LateMoves DEF AfterAdd
<1>11. CASE AddChild(r)
  <2>1. run[r].at = "add" /\ Importing(r)
    BY <1>11 DEF AddChild, In, Importing
  <2>2. run[r].id \in Ids
    BY <1>0, <2>1, OwnId
  <2>3. /\ run'[r].wf = run[r].wf /\ run'[r].at = "import"
        /\ Flagged(Wf(r)) /\ run[r].late < 2 => run'[r].late = run[r].late + 1
        /\ ~(Flagged(Wf(r)) /\ run[r].late < 2) => run'[r].late = run[r].late
    BY <1>11, <1>0, <2>2, AddsChild
  <2>4. pauseFlag' = pauseFlag /\ stopFlag' = stopFlag
    BY <1>11 DEF AddChild, flagVars
  <2>5. CASE run[r].late = 0
    BY <2>3, <2>4, <2>5 DEF LateOK, AfterAdd, Flagged, Wf
  <2>6. CASE TwoRunsAbout(r)
    BY <1>0, <2>1, <2>6, TwoStay DEF LateOK
  <2> QED
    BY <1>0, <2>1, <2>5, <2>6 DEF LateOK, AfterAdd
<1>12. CASE Import(r)
  <2>1. Len(run[r].children) > 0
    BY <1>12, <1>a DEF Import, In, RunWellFormed
  <2>2. /\ run'[r].wf = run[r].wf /\ run'[r].at = "record"
        /\ run'[r].late = run[r].late
    BY <1>12, <1>0, <2>1, Imports
  <2>3. pauseFlag' = pauseFlag /\ stopFlag' = stopFlag
    BY <1>12 DEF Import, flagVars
  <2> QED
    BY <1>0, <2>2, <2>3, LateGoesOn DEF AfterAdd
<1>13. CASE RecordChild(r)
  <2> DEFINE children == run[r].children
             status == children[Len(children)].status
             s == run[r].step + 1
  <2>1. /\ run[r].step \in Steps
        /\ status \in {"completed", "failed", "stopped"}
    BY <1>13, <1>a DEF RecordChild, In, RunWellFormed, InLoop, InTry, LastOf
  <2>2. /\ status = "completed" => Proceed(r, s, children)
        /\ status = "failed" => StepFailed(r, children)
        /\ status = "stopped" => Move(r, "stopped")
    BY <1>13 DEF RecordChild
  <2>3. s \in Nat \ {0} /\ children \in Seq(Child)
    BY <1>a, <2>1, StepsAssumption DEF Steps
  <2>4. pauseFlag' = pauseFlag /\ stopFlag' = stopFlag
    BY <1>13 DEF RecordChild, flagVars
  <2> HIDE DEF children, status, s
  <2>5. /\ run'[r].wf = run[r].wf
        /\ \/ run'[r].late = 0
           \/ run'[r].late = run[r].late /\ run'[r].at \in {"pause?", "stopped"}
    <3>1. CASE status = "completed"
      BY <1>0, <2>2, <2>3, <3>1, Proceeded
    <3>2. CASE status = "failed"
      BY <1>0, <2>1, <2>2, <2>3, <3>2, StepFails DEF OnlyRun
    <3>3. CASE status = "stopped"
      BY <1>0, <2>2, <3>3, Moved, RunStates DEF InTry
    <3> QED
      BY <2>1, <3>1, <3>2, <3>3
  <2> QED
    BY <1>0, <2>4, <2>5, LateGoesOn DEF AfterAdd
<1>14. CASE PauseOrStop(r)
  <2> DEFINE result == IF pauseFlag[Wf(r)] THEN "paused" ELSE "stopped"
  <2>1. /\ Conclude(r, result, run[r].children)
        /\ result \in {"paused", "stopped"} /\ run[r].children \in Seq(Child)
    BY <1>14, <1>a DEF PauseOrStop, In
  <2> HIDE DEF result
  <2>2. run'[r].late = 0
    BY <1>0, <2>1, Concluded DEF Status
  <2> QED
    BY <2>2 DEF LateOK
<1>15. CASE Close(r)
  <2>1. run[r].at = "close" /\ run'[r].late = run[r].late
    BY <1>15, <1>0, Moved, RunStates DEF Close, In, InTry
  <2> QED
    BY <1>0, <2>1, LateMoves DEF AfterAdd
<1>16. CASE Release(r)
  <2>1. run[r].at = "release" /\ run'[r].late \in {0, run[r].late}
    BY <1>16, <1>0, Moved, Ended, RunStates DEF Release, In
  <2> QED
    BY <1>0, <2>1, LateMoves DEF AfterAdd
<1>17. CASE ReleaseAgain(r)
  <2>1. run[r].at = "again" /\ run'[r].late \in {0, run[r].late}
    BY <1>17, <1>0, Moved, Ended, RunStates DEF ReleaseAgain, In
  <2> QED
    BY <1>0, <2>1, LateMoves DEF AfterAdd
<1>18. CASE MarkStateFailed(r)
  <2>1. run[r].at = "mark" /\ MarkFailed(r, "failed", "release") /\ "release" \in RunState
    BY <1>18, RunStates DEF MarkStateFailed, In
  <2>2. run'[r].late = run[r].late
    BY <1>0, <1>a, <2>1, MarksFailed
  <2> QED
    BY <1>0, <2>1, <2>2, LateMoves DEF AfterAdd
<1>19. CASE ReadAgain(r)
  <2>1. run[r].at = "reread" /\ Wf(r) \in Workflows
    BY <1>19, <1>a DEF ReadAgain, In
  <2>2. run'[r].late = run[r].late
    BY <1>19, <1>0, <2>1, ReadsAgain
  <2> QED
    BY <1>0, <2>1, <2>2, LateMoves DEF AfterAdd
<1>20. CASE MarkAgain(r)
  <2>1. run[r].at = "remark" /\ MarkFailed(r, "stale_failed", "last") /\ "last" \in RunState
    BY <1>20, RunStates DEF MarkAgain, In
  <2>2. run'[r].late = run[r].late
    BY <1>0, <1>a, <2>1, MarksFailed
  <2> QED
    BY <1>0, <2>1, <2>2, LateMoves DEF AfterAdd
<1>21. CASE ReleaseLast(r)
  <2>1. run'[r].late = 0
    BY <1>21, <1>0, Ended, RunStates DEF ReleaseLast
  <2> QED
    BY <2>1 DEF LateOK
<1>22. CASE Raise(r)
  <2>1. run'[r].late = 0
    BY <1>22, <1>0, Raises, RunStates
  <2> QED
    BY <2>1 DEF LateOK
<1>23. CASE Killed(r)
  <2>1. run'[r].late = 0
    BY <1>23, <1>0, Ended, RunStates DEF Killed
  <2> QED
    BY <2>1 DEF LateOK
<1>24. CASE WorkerLost(r)
  <2>1. run'[r].late = 0
    BY <1>24, <1>0, Ended, RunStates DEF WorkerLost
  <2> QED
    BY <2>1 DEF LateOK
<1> QED
  BY <1>1, <1>2, <1>3, <1>4, <1>5, <1>6, <1>7, <1>8, <1>9, <1>10, <1>11, <1>12, <1>13,
     <1>14, <1>15, <1>16, <1>17, <1>18, <1>19, <1>20, <1>21, <1>22, <1>23, <1>24 DEF
     RunStep

\* Every step leaves every run with one late step at most.
LEMMA LateStep ==
    ASSUME Shape, LiveRunHoldsKey, \A r \in Runs : LateOK(r), [Next]_vars
    PROVE  \A r \in Runs : LateOK(r)'
<1>0. /\ Shape /\ TypeOK /\ CallsOwnRuns /\ WellFormed /\ LiveRunHoldsKey
      /\ run \in [Runs -> RunRecord] /\ call \in [Calls -> CallRecord]
      /\ pauseFlag \in [Workflows -> BOOLEAN] /\ stopFlag \in [Workflows -> BOOLEAN]
      /\ (\A r \in Runs : RunWellFormed(r)) /\ \A c \in Calls : CallWellFormed(c)
      /\ Stay /\ (breach => breach') /\ \A r \in Runs : LateOK(r)
  BY Typed, RunsStay, BrokenStays DEF Shape, TypeOK, WellFormed
<1>1. ASSUME NEW c \in Calls, NEW w \in Workflows, Start(c, w) \/ Resume(c, w) \/ Interrupt(c, w)
      PROVE  \A r \in Runs : LateOK(r)'
  <2>1. CASE Start(c, w)
    <3>1. ClaimedBy(c, w, "saving") /\ "saving" \in CallState
      BY <2>1 DEF Start, ClaimedBy, CallState
    <3>2. w \in Workflows
      OBVIOUS
    <3>7. \A q \in Runs : run'[q] = run[q] \/ run'[q].late = 0
      BY <1>0, <3>1, <3>2, Claims
    <3>8. pauseFlag' = pauseFlag /\ stopFlag' = stopFlag
      BY <2>1 DEF Start, flagVars
    <3>9. ASSUME NEW q \in Runs
          PROVE  LateOK(q)'
      <4>1. CASE run'[q] = run[q]
        BY <1>0, <3>8, <4>1, LateStays
      <4>2. CASE run'[q].late = 0
        BY <4>2 DEF LateOK
      <4> QED
        BY <3>7, <4>1, <4>2
    <3> QED
      BY <3>9
  <2>2. CASE Resume(c, w)
    <3>1. run' = run /\ pauseFlag' = pauseFlag /\ stopFlag' = stopFlag
      BY <2>2 DEF Resume, keys, flagVars
    <3> QED
      BY <1>0, <3>1, LateStays
  <2>3. CASE Interrupt(c, w)
    <3>1. /\ run' = run
          /\ \A v \in Workflows : /\ pauseFlag[v] => pauseFlag'[v]
                                  /\ stopFlag[v] => stopFlag'[v]
      BY <2>3, <1>0 DEF Interrupt
    <3>2. ASSUME NEW r \in Runs
          PROVE  LateOK(r)'
      <4>1. CASE run[r].at # "absent"
        <5>1. Wf(r) \in Workflows
          BY <1>0, <4>1 DEF RunWellFormed
        <5>2. run'[r] = run[r]
          BY <3>1
        <5>3. pauseFlag[Wf(r)] => pauseFlag'[Wf(r)]
          BY <3>1, <5>1
        <5>4. stopFlag[Wf(r)] => stopFlag'[Wf(r)]
          BY <3>1, <5>1
        <5>5. LateOK(r) /\ Stay /\ (breach => breach')
          BY <1>0
        <5> QED
          BY <5>2, <5>3, <5>4, <5>5, LateStays
      <4>2. CASE run[r].at = "absent"
        BY <1>0, <3>1, <4>2 DEF LateOK, AfterAdd
      <4> QED
        BY <4>1, <4>2
    <3> QED
      BY <3>2
  <2> QED
    BY <1>1, <2>1, <2>2, <2>3
<1>2. ASSUME NEW c \in Calls, GetRunning(c) \/ CallStep(c) \/ CallFails(c)
      PROVE  \A r \in Runs : LateOK(r)'
  <2>1. CASE GetRunning(c) \/ ResumeRefused(c) \/ SavePending(c) \/ ReadToInterrupt(c)
            \/ SignalChild(c) \/ MarkInterrupted(c) \/ LookUpState(c) \/
            DropRunningKey(c)
    <3>1. run' = run /\ pauseFlag' = pauseFlag /\ stopFlag' = stopFlag
      BY <2>1 DEF GetRunning, ResumeRefused, SavePending, ReadToInterrupt, SignalChild,
         MarkInterrupted, LookUpState, DropRunningKey, keys, flagVars
    <3> QED
      BY <1>0, <3>1, LateStays
  <2>2. CASE ClaimForResume(c)
    <3>1. ClaimedBy(c, call[c].wf, "unpausing") /\ "unpausing" \in CallState
      BY <2>2 DEF ClaimForResume, ClaimedBy, CallState
    <3>2. call[c].wf \in Workflows
      BY <2>2, <1>0 DEF ClaimForResume, At, CallWellFormed
    <3>7. \A q \in Runs : run'[q] = run[q] \/ run'[q].late = 0
      BY <1>0, <3>1, <3>2, Claims
    <3>8. pauseFlag' = pauseFlag /\ stopFlag' = stopFlag
      BY <2>2 DEF ClaimForResume, flagVars
    <3>9. ASSUME NEW q \in Runs
          PROVE  LateOK(q)'
      <4>1. CASE run'[q] = run[q]
        BY <1>0, <3>8, <4>1, LateStays
      <4>2. CASE run'[q].late = 0
        BY <4>2 DEF LateOK
      <4> QED
        BY <3>7, <4>1, <4>2
    <3> QED
      BY <3>9
  <2>3. CASE DeletePauseFlag(c)
    <3> DEFINE w == call[c].wf
               q == call[c].run
    <3>1. /\ run' = run /\ stopFlag' = stopFlag /\ pauseFlag' = [pauseFlag EXCEPT ![w] = FALSE]
          /\ q \in Runs /\ run[q].at = "claimed" /\ Wf(q) = w
      BY <2>3, <1>0 DEF DeletePauseFlag, At, CallsOwnRuns, WithClaim
    <3> HIDE DEF w, q
    <3>2. \A v : v # w => pauseFlag'[v] = pauseFlag[v]
      BY <1>0, <3>1
    <3>3. ASSUME NEW r \in Runs
          PROVE  LateOK(r)'
      <4>1. CASE run[r].late = 0
        BY <3>1, <4>1 DEF LateOK
      <4>2. CASE run[r].at # "absent" /\ TwoRunsAbout(r)
        BY <1>0, <4>2, TwoStay DEF LateOK
      <4>3. CASE run[r].at \in AfterAdd /\ Wf(r) # w
        BY <1>0, <3>1, <3>2, <4>3, LateStays
      <4>4. CASE run[r].at \in AfterAdd /\ Wf(r) = w
        <5>1. r # q /\ Live(r) /\ Live(q) /\ run[r].at # "absent"
          BY <3>1, <4>4 DEF AfterAdd, Live, InTry
        <5>2. breach
          BY <1>0, <3>1, <5>1 DEF LiveRunHoldsKey
        <5>3. TwoRunsAbout(r)
          BY <3>1, <4>4, <5>1, <5>2 DEF TwoRunsAbout
        <5> QED
          BY <4>2, <5>1, <5>3
      <4> QED
        BY <1>0, <4>1, <4>2, <4>3, <4>4 DEF LateOK
    <3> QED
      BY <3>3
  <2>4. CASE DeleteStopFlag(c)
    <3> DEFINE w == call[c].wf
               q == call[c].run
    <3>1. /\ run' = run /\ pauseFlag' = pauseFlag /\ stopFlag' = [stopFlag EXCEPT ![w] = FALSE]
          /\ q \in Runs /\ run[q].at = "claimed" /\ Wf(q) = w
      BY <2>4, <1>0 DEF DeleteStopFlag, At, CallsOwnRuns, WithClaim
    <3> HIDE DEF w, q
    <3>2. \A v : v # w => stopFlag'[v] = stopFlag[v]
      BY <1>0, <3>1
    <3>3. ASSUME NEW r \in Runs
          PROVE  LateOK(r)'
      <4>1. CASE run[r].late = 0
        BY <3>1, <4>1 DEF LateOK
      <4>2. CASE run[r].at # "absent" /\ TwoRunsAbout(r)
        BY <1>0, <4>2, TwoStay DEF LateOK
      <4>3. CASE run[r].at \in AfterAdd /\ Wf(r) # w
        BY <1>0, <3>1, <3>2, <4>3, LateStays
      <4>4. CASE run[r].at \in AfterAdd /\ Wf(r) = w
        <5>1. r # q /\ Live(r) /\ Live(q) /\ run[r].at # "absent"
          BY <3>1, <4>4 DEF AfterAdd, Live, InTry
        <5>2. breach
          BY <1>0, <3>1, <5>1 DEF LiveRunHoldsKey
        <5>3. TwoRunsAbout(r)
          BY <3>1, <4>4, <5>1, <5>2 DEF TwoRunsAbout
        <5> QED
          BY <4>2, <5>1, <5>3
      <4> QED
        BY <1>0, <4>1, <4>2, <4>3, <4>4 DEF LateOK
    <3> QED
      BY <3>3
  <2>5. CASE Send(c)
    <3>1. PICK r \in Runs : r = call[c].run /\ Move(r, "queued") /\ run[r].at = "claimed"
      BY <2>5, <1>0 DEF Send, At, CallsOwnRuns, WithClaim, Move
    <3>2. run'[r].late = run[r].late /\ \A q \in Runs \ {r} : run'[q] = run[q]
      BY <1>0, <3>1, RunStates, Moved
    <3>3. pauseFlag' = pauseFlag /\ stopFlag' = stopFlag
      BY <2>5 DEF Send, keys, flagVars
    <3>4. LateOK(r)'
      BY <1>0, <3>1, <3>2, LateMoves DEF AfterAdd
    <3>5. \A q \in Runs \ {r} : LateOK(q)'
      BY <1>0, <3>2, <3>3, LateStays
    <3> QED
      BY <3>4, <3>5
  <2>6. CASE CallFails(c)
    <3>7. \A q \in Runs : run'[q] = run[q] \/ run'[q].late = 0
      BY <2>6, <1>0, Fails
    <3>8. pauseFlag' = pauseFlag /\ stopFlag' = stopFlag
      BY <2>6 DEF CallFails, keys, flagVars
    <3>9. ASSUME NEW q \in Runs
          PROVE  LateOK(q)'
      <4>1. CASE run'[q] = run[q]
        BY <1>0, <3>8, <4>1, LateStays
      <4>2. CASE run'[q].late = 0
        BY <4>2 DEF LateOK
      <4> QED
        BY <3>7, <4>1, <4>2
    <3> QED
      BY <3>9
  <2> QED
    BY <1>2, <2>1, <2>2, <2>3, <2>4, <2>5, <2>6 DEF CallStep
<1>3. ASSUME NEW r \in Runs, RunStep(r) \/ Raise(r) \/ Killed(r) \/ WorkerLost(r)
      PROVE  \A q \in Runs : LateOK(q)'
  <2>1. RunMove(r) /\ LateOK(r)'
    BY <1>3, <1>0, RunMoves, RunStaysLate
  <2>2. pauseFlag' = pauseFlag /\ stopFlag' = stopFlag
    BY <1>3, FlagsAlone
  <2>3. \A q \in Runs \ {r} : LateOK(q)'
    BY <1>0, <2>1, <2>2, LateStays DEF RunMove, OnlyRun
  <2> QED
    BY <2>1, <2>3
<1>4. ASSUME NEW s \in Steps, OtherStep(s)
      PROVE  \A r \in Runs : LateOK(r)'
  <2>1. CASE OtherStep(s)
    <3>1. run' = run /\ pauseFlag' = pauseFlag /\ stopFlag' = stopFlag
      BY <2>1, OthersAlone DEF flagVars
    <3> QED
      BY <1>0, <3>1, LateStays
  <2> QED
    BY <1>4, <2>1
<1>5. CASE ExpireRunningKey
  <2>1. run' = run /\ pauseFlag' = pauseFlag /\ stopFlag' = stopFlag
    BY <1>5 DEF ExpireRunningKey, flagVars
  <2> QED
    BY <1>0, <2>1, LateStays
<1>6. CASE UNCHANGED vars
  BY <1>0, <1>6, LateStays DEF vars
<1> QED
  BY <1>1, <1>2, <1>3, <1>4, <1>5, <1>6 DEF Next

\* From the moment a flag is set a run begins at most one more step, unless a second
\* run of the workflow was about and the running key had failed to keep it away.
THEOREM OneLateStep == Spec => []AtMostOneStepAfterFlag
<1>1. Init => \A r \in Runs : LateOK(r)
  BY DEF Init, NoRun, LateOK
<1>2. (\A r \in Runs : LateOK(r)) => AtMostOneStepAfterFlag
  BY DEF LateOK, AtMostOneStepAfterFlag
<1>3. /\ Shape /\ LiveRunHoldsKey /\ (\A r \in Runs : LateOK(r)) /\ [Next]_vars
      => (\A r \in Runs : LateOK(r))'
  BY LateStep
<1> QED
  BY <1>1, <1>2, <1>3, ShapeKept, LiveRunsHoldKeys, PTL DEF Spec
=============================================================================
