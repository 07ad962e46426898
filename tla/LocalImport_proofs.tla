------------------------ MODULE LocalImport_proofs ------------------------
(***************************************************************************)
(* Theorems about LocalImport, for any number of runs, archives, blocks    *)
(* and versions.                                                           *)
(*                                                                         *)
(* The inductive invariant IInv is the type invariant with what each run   *)
(* has of its archive, and one conjunct per property.                      *)
(***************************************************************************)
EXTENDS LocalImport, TLAPS

\* A task exists only after its request has sent it.
SentFirst == \A r \in Runs : run[r] # "absent" => starter[r] = "sent"

\* What a run has read of an archive, and how far it is in it.
FileInHand ==
    \A r \in Runs :
        /\ run[r] \in {"checking", "opening", "polling", "writing", "marking"}
               => file[r] <= Files
        /\ run[r] \in {"checking", "opening"} => part[r] = 1 /\ held[r] = 0
        /\ run[r] \in {"top", "announced", "queued", "absent"} => part[r] = 1 /\ held[r] = 0
        /\ run[r] \in {"polling", "writing", "marking"} => held[r] # 0
        /\ run[r] = "writing" => part[r] <= Parts
        /\ run[r] = "marking" => part[r] > Parts
        /\ held[r] # 0 => file[r] <= Files
        /\ run[r] \in {"absent", "queued", "announced"} => after[r] = 0

\* No mark is ahead of the disk; what a run holds of its archive is on disk still, or
\* every version put in place since is on record.
VersionsKnown ==
    /\ \A f \in 1 .. Files : cached[f] <= version[f]
    /\ \A r \in Runs : held[r] # 0 =>
          /\ held[r] <= version[file[r]]
          /\ \A v \in 1 .. version[file[r]] :
                held[r] < v => <<file[r], v>> \in swapped

\* The blocks before the one a run is at are in the database, unless another run was
\* reading the version before when this one was put in place.
HeldIsStored ==
    \A r \in Runs : held[r] # 0 =>
        \/ <<file[r], held[r]>> \in swapped
        \/ \A p \in 1 .. part[r] - 1 : Hold(stored, file[r], held[r], p)

\* Without an overlap there is one run at work at most.
OneAtWork ==
    ~overlapped => \A r, s \in Runs :
        run[r] \in AtWork /\ run[s] \in AtWork => r = s

\* A stop that nobody takes away stays until the run has met it, and a run that has
\* written a block since is before a poll.
StopStays ==
    ~overlapped /\ ~wiped => \A r \in Runs :
        /\ after[r] <= 2
        /\ after[r] > 0 /\ run[r] \in AtWork \ {"stopping"} => stopKey /\ run[r] # "announced"
        /\ after[r] = 2 => run[r] \notin {"checking", "opening", "writing"}

\* As long as nobody misjudged a K-line import and no two requests crossed, an import
\* that is reserved, queued or at work has the record to itself.
Owned(r) ==
    /\ Claimed
    /\ \A s \in Runs \ {r} : ~Pending(s) /\ starter[s] \notin Acting
    /\ asker["reset"] = "idle"
    /\ \A q \in {"stop", "status"} : asker[q] # "condemning"

RecordOwned ==
    ~Adj /\ ~misjudged /\ ~crossed => \A r \in Runs : Pending(r) => Owned(r)

Records == [status : Statuses, age : Ages]

\* The three parts of TypeOK.
DataTypes ==
    /\ record \in Records
    /\ cached \in [1 .. Files -> 0 .. MaxVersions]
    /\ version \in [1 .. Files -> 1 .. MaxVersions]
    /\ stored \subseteq (1 .. Files) \X (1 .. MaxVersions) \X (1 .. Parts)
    /\ swapped \subseteq (1 .. Files) \X (1 .. MaxVersions)
RunTypes ==
    /\ starter \in [Runs -> {"idle", "refused", "sent"} \cup Acting]
    /\ asker \in [{"stop", "reset", "status"} -> {"idle", "condemning", "acting"}]
    /\ run \in [Runs -> {"absent", "queued"} \cup AtWork \cup Over]
    /\ file \in [Runs -> 1 .. Files + 1]
    /\ held \in [Runs -> 0 .. MaxVersions]
    /\ part \in [Runs -> 1 .. Parts + 1]
    /\ after \in [Runs -> 0 .. 3]
Flags ==
    /\ stopKey \in BOOLEAN /\ misjudged \in BOOLEAN /\ crossed \in BOOLEAN
    /\ overlapped \in BOOLEAN /\ wiped \in BOOLEAN

Shape == DataTypes /\ RunTypes /\ Flags /\ SentFirst /\ FileInHand
IInv  == /\ Shape /\ VersionsKnown /\ HeldIsStored /\ MarkedMeansWritten /\ OneAtWork /\ StopStays
         /\ RecordOwned /\ (Adj \/ OverlapNeedsSilence)
-----------------------------------------------------------------------------
\* A record stays one whatever the age of its heartbeat.
LEMMA Aging ==
    ASSUME record \in Records, NEW a \in Ages
    PROVE  [record EXCEPT !.age = a] \in Records
  BY DEF Records

\* A heartbeat leaves the progress record one.
LEMMA Beats ==
    ASSUME record \in Records, Beat
    PROVE  record' \in Records
<1>1. 0 \in Ages
  BY DEF Ages
<1> QED
  BY <1>1, Aging DEF Beat

\* So does a report of a status.
LEMMA Reports ==
    ASSUME NEW status \in Statuses, Report(status)
    PROVE  record' \in Records
  BY DEF Records, Report, Ages

\* So does a check that writes the status "failed".
LEMMA Condemning ==
    ASSUME record \in Records, Condemned
    PROVE  record' \in Records
  BY DEF Records, Condemned, Statuses

\* Flags stay flags.
LEMMA FlagsStep ==
    ASSUME Shape, [Next]_vars
    PROVE  Flags'
<1> USE DEF Shape, Flags, requestVars, runVars, history
<1>1. ASSUME NEW r \in Runs, Start(r)
      PROVE  Flags'
  <2>1. CASE CheckStart(r)
    BY <2>1 DEF CheckStart, Request, Judge
  <2>2. CASE CondemnAtStart(r)
    BY <2>2 DEF CondemnAtStart, Request, Condemned
  <2>3. CASE Reserve(r)
    BY <2>3 DEF Reserve, Request
  <2>4. CASE Send(r)
    BY <2>4 DEF Send, Request
  <2> QED
    BY <1>1, <2>1, <2>2, <2>3, <2>4 DEF Start
<1>2. ASSUME NEW r \in Runs, Work(r) \/ Kill(r)
      PROVE  Flags'
  <2>1. CASE Announce(r)
    BY <2>1 DEF Announce, Go, Report
  <2>2. CASE ClearStop(r)
    BY <2>2 DEF ClearStop, Go
  <2>3. CASE PollTop(r)
    BY <2>3 DEF PollTop, Go
  <2>4. CASE CheckIncremental(r)
    BY <2>4 DEF CheckIncremental, Go, NextFile, Beat
  <2>5. CASE Open(r)
    BY <2>5 DEF Open, Go
  <2>6. CASE PollPart(r)
    BY <2>6 DEF PollPart, Go
  <2>7. CASE WritePart(r)
    BY <2>7 DEF WritePart, Go, Beat
  <2>8. CASE FailFile(r)
    BY <2>8 DEF FailFile, Go, NextFile, Beat
  <2>9. CASE Mark(r)
    BY <2>9 DEF Mark, Go, NextFile, Beat
  <2>10. CASE ReportStopped(r)
    BY <2>10 DEF ReportStopped, Go, Report
  <2>11. CASE ReportCompleted(r)
    BY <2>11 DEF ReportCompleted, Go, Report
  <2>12. CASE Kill(r)
    BY <2>12 DEF Kill
  <2> QED
    BY <1>2, <2>1, <2>2, <2>3, <2>4, <2>5, <2>6, <2>7, <2>8, <2>9, <2>10, <2>11, <2>12 DEF
       Work
<1>3. ASSUME NEW q \in {"stop", "reset", "status"}, CheckAsked(q) \/ CondemnAsked(q)
      PROVE  Flags'
  <2>1. CASE CheckAsked(q)
    BY <2>1 DEF CheckAsked, Ask, Judge
  <2>2. CASE CondemnAsked(q)
    BY <2>2 DEF CondemnAsked, Ask, Condemned
  <2> QED
    BY <1>3, <2>1, <2>2
<1>4. CASE RequestStop \/ Reset \/ Silence
  <2>1. CASE RequestStop
    BY <2>1 DEF RequestStop, Ask
  <2>2. CASE Reset
    BY <2>2 DEF Reset, Ask, Absent
  <2>3. CASE Silence
    BY <2>3 DEF Silence
  <2> QED
    BY <1>4, <2>1, <2>2, <2>3
<1>5. ASSUME NEW f \in 1 .. Files, ReplaceFile(f)
      PROVE  Flags'
  <2>1. CASE ReplaceFile(f)
    BY <2>1 DEF ReplaceFile
  <2> QED
    BY <1>5, <2>1
<1>6. CASE UNCHANGED vars
  BY <1>6 DEF vars
<1> QED
  BY <1>1, <1>2, <1>3, <1>4, <1>5, <1>6 DEF Next

\* A run keeps within its archives and blocks.
LEMMA RunTypesStep ==
    ASSUME Shape, [Next]_vars
    PROVE  RunTypes'
<1> USE LocalImportAssumption DEF Shape, DataTypes, RunTypes, FileInHand, AtWork, Over,
   Acting, requestVars, runVars, history
<1>1. ASSUME NEW r \in Runs, Start(r)
      PROVE  RunTypes'
  <2>1. CASE CheckStart(r)
    BY <2>1 DEF CheckStart, Request, Judge
  <2>2. CASE CondemnAtStart(r)
    BY <2>2 DEF CondemnAtStart, Request, Condemned
  <2>3. CASE Reserve(r)
    BY <2>3 DEF Reserve, Request
  <2>4. CASE Send(r)
    BY <2>4 DEF Send, Request
  <2> QED
    BY <1>1, <2>1, <2>2, <2>3, <2>4 DEF Start
<1>2. ASSUME NEW r \in Runs, Work(r) \/ Kill(r)
      PROVE  RunTypes'
  <2>1. CASE Announce(r)
    BY <2>1 DEF Announce, Go, Report
  <2>2. CASE ClearStop(r)
    BY <2>2 DEF ClearStop, Go
  <2>3. CASE PollTop(r)
    <3>1. CASE stopKey
      BY <2>3, <3>1 DEF PollTop, Go
    <3>2. CASE ~stopKey
      BY <2>3, <3>2 DEF PollTop, Go
    <3> QED
      BY <2>3, <3>1, <3>2 DEF PollTop
  <2>4. CASE CheckIncremental(r)
    <3>1. CASE Go(r, "checking", "top") /\ NextFile(r)
      BY <2>4, <3>1, SMTT(30) DEF CheckIncremental, Go, NextFile, Beat
    <3>2. CASE Go(r, "checking", "opening") /\ UNCHANGED <<file, held, part>>
      BY <2>4, <3>2 DEF CheckIncremental, Go, Beat
    <3> QED
      BY <2>4, <3>1, <3>2 DEF CheckIncremental
  <2>5. CASE Open(r)
    <3>1. CASE Adj
      BY <2>5, <3>1 DEF Open, Go
    <3>2. CASE ~Adj
      BY <2>5, <3>2 DEF Open, Go
    <3> QED
      BY <2>5, <3>1, <3>2 DEF Open
  <2>6. CASE PollPart(r)
    <3>1. CASE Go(r, "polling", "stopping")
      BY <2>6, <3>1 DEF PollPart, Go
    <3>2. CASE Go(r, "polling", "writing") /\ part[r] <= Parts
      BY <2>6, <3>2 DEF PollPart, Go
    <3>3. CASE Go(r, "polling", "marking") /\ ~(part[r] <= Parts)
      BY <2>6, <3>3 DEF PollPart, Go
    <3> QED
      BY <2>6, <3>1, <3>2, <3>3 DEF PollPart
  <2>7. CASE WritePart(r)
    <3>1. run' \in [Runs -> {"absent", "queued"} \cup AtWork \cup Over]
      BY <2>7 DEF WritePart, Go
    <3>2. part[r] \in 1 .. Parts
      BY <2>7 DEF WritePart, Go
    <3>3. part' \in [Runs -> 1 .. Parts + 1]
      BY <2>7, <3>2, SMTT(30) DEF WritePart
    <3>4. after' \in [Runs -> 0 .. 3]
      BY <2>7 DEF WritePart
    <3>5. UNCHANGED <<starter, asker, file, held>>
      BY <2>7 DEF WritePart
    <3> QED
      BY <3>1, <3>3, <3>4, <3>5
  <2>8. CASE FailFile(r)
    <3>1. run' \in [Runs -> {"absent", "queued"} \cup AtWork \cup Over]
      BY <2>8 DEF FailFile, Go
    <3>2. file[r] \in 1 .. Files
      BY <2>8 DEF FailFile, Go
    <3>3. file' \in [Runs -> 1 .. Files + 1]
      BY <2>8, <3>2, SMTT(30) DEF FailFile, NextFile
    <3>4. held' \in [Runs -> 0 .. MaxVersions] /\ part' \in [Runs -> 1 .. Parts + 1]
      BY <2>8 DEF FailFile, NextFile
    <3>5. UNCHANGED <<starter, asker, after>>
      BY <2>8 DEF FailFile
    <3> QED
      BY <3>1, <3>3, <3>4, <3>5
  <2>9. CASE Mark(r)
    BY <2>9, SMTT(30) DEF Mark, Go, NextFile, Beat
  <2>10. CASE ReportStopped(r)
    BY <2>10 DEF ReportStopped, Go, Report
  <2>11. CASE ReportCompleted(r)
    BY <2>11 DEF ReportCompleted, Go, Report
  <2>12. CASE Kill(r)
    BY <2>12 DEF Kill
  <2> QED
    BY <1>2, <2>1, <2>2, <2>3, <2>4, <2>5, <2>6, <2>7, <2>8, <2>9, <2>10, <2>11, <2>12 DEF
       Work
<1>3. ASSUME NEW q \in {"stop", "reset", "status"}, CheckAsked(q) \/ CondemnAsked(q)
      PROVE  RunTypes'
  <2>1. CASE CheckAsked(q)
    BY <2>1, SMTT(30) DEF CheckAsked, Ask, Judge
  <2>2. CASE CondemnAsked(q)
    BY <2>2 DEF CondemnAsked, Ask, Condemned
  <2> QED
    BY <1>3, <2>1, <2>2
<1>4. CASE RequestStop \/ Reset \/ Silence
  <2>1. CASE RequestStop
    BY <2>1 DEF RequestStop, Ask
  <2>2. CASE Reset
    BY <2>2 DEF Reset, Ask, Absent
  <2>3. CASE Silence
    BY <2>3 DEF Silence
  <2> QED
    BY <1>4, <2>1, <2>2, <2>3
<1>5. ASSUME NEW f \in 1 .. Files, ReplaceFile(f)
      PROVE  RunTypes'
  <2>1. CASE ReplaceFile(f)
    BY <2>1 DEF ReplaceFile
  <2> QED
    BY <1>5, <2>1
<1>6. CASE UNCHANGED vars
  BY <1>6 DEF vars
<1> QED
  BY <1>1, <1>2, <1>3, <1>4, <1>5, <1>6 DEF Next

\* A run that is at an archive or block is at one there is.
LEMMA FileInHandStep ==
    ASSUME Shape, RunTypes', [Next]_vars
    PROVE  FileInHand'
<1> USE LocalImportAssumption DEF Shape, DataTypes, RunTypes, FileInHand, AtWork, Over,
   Acting, requestVars, runVars, history
<1>1. ASSUME NEW r \in Runs, Start(r)
      PROVE  FileInHand'
  <2>1. CASE CheckStart(r)
    BY <2>1 DEF CheckStart, Request, Judge
  <2>2. CASE CondemnAtStart(r)
    BY <2>2 DEF CondemnAtStart, Request, Condemned
  <2>3. CASE Reserve(r)
    BY <2>3 DEF Reserve, Request
  <2>4. CASE Send(r)
    BY <2>4 DEF Send, Request, SentFirst
  <2> QED
    BY <1>1, <2>1, <2>2, <2>3, <2>4 DEF Start
<1>2. ASSUME NEW r \in Runs, Work(r) \/ Kill(r)
      PROVE  FileInHand'
  <2>1. CASE Announce(r)
    BY <2>1 DEF Announce, Go, Report
  <2>2. CASE ClearStop(r)
    BY <2>2 DEF ClearStop, Go
  <2>3. CASE PollTop(r)
    <3>1. CASE stopKey
      BY <2>3, <3>1 DEF PollTop, Go
    <3>2. CASE ~stopKey
      BY <2>3, <3>2, SMTT(30) DEF PollTop, Go
    <3> QED
      BY <2>3, <3>1, <3>2 DEF PollTop
  <2>4. CASE CheckIncremental(r)
    <3>1. CASE Go(r, "checking", "top") /\ NextFile(r)
      BY <2>4, <3>1 DEF CheckIncremental, Go, NextFile, Beat
    <3>2. CASE Go(r, "checking", "opening") /\ UNCHANGED <<file, held, part>>
      BY <2>4, <3>2 DEF CheckIncremental, Go, Beat
    <3> QED
      BY <2>4, <3>1, <3>2 DEF CheckIncremental
  <2>5. CASE Open(r)
    <3>1. CASE Adj
      BY <2>5, <3>1, SMTT(30) DEF Open, Go
    <3>2. CASE ~Adj
      BY <2>5, <3>2, SMTT(30) DEF Open, Go
    <3> QED
      BY <2>5, <3>1, <3>2 DEF Open
  <2>6. CASE PollPart(r)
    <3>1. /\ UNCHANGED <<file, held, part, after>>
          /\ \A s \in Runs \ {r} : run'[s] = run[s]
      BY <2>6 DEF PollPart, Go
    <3>2. /\ run[r] = "polling" /\ held[r] # 0 /\ file[r] <= Files
          /\ \/ run'[r] = "stopping"
             \/ run'[r] = "writing" /\ part[r] <= Parts
             \/ run'[r] = "marking" /\ part[r] > Parts
      BY <2>6 DEF PollPart, Go
    <3>3. CASE run'[r] = "stopping"
      BY <3>1, <3>3
    <3>4. CASE run'[r] = "writing" /\ part[r] <= Parts
      BY <3>1, <3>2, <3>4
    <3>5. CASE run'[r] = "marking" /\ part[r] > Parts
      BY <3>1, <3>2, <3>5
    <3> QED
      BY <3>2, <3>3, <3>4, <3>5
  <2>7. CASE WritePart(r)
    <3>1. CASE Go(r, "writing", "polling")
      BY <2>7, <3>1, SMTT(30) DEF WritePart, Go, Beat
    <3>2. CASE Go(r, "writing", "marking") /\ part[r] = Parts
      BY <2>7, <3>2 DEF WritePart, Go, Beat
    <3> QED
      BY <2>7, <3>1, <3>2 DEF WritePart
  <2>8. CASE FailFile(r)
    <3>1. CASE Go(r, "opening", "top")
      BY <2>8, <3>1 DEF FailFile, Go, NextFile, Beat
    <3>2. CASE Go(r, "writing", "top")
      BY <2>8, <3>2 DEF FailFile, Go, NextFile, Beat
    <3> QED
      BY <2>8, <3>1, <3>2 DEF FailFile
  <2>9. CASE Mark(r)
    BY <2>9 DEF Mark, Go, NextFile, Beat
  <2>10. CASE ReportStopped(r)
    BY <2>10 DEF ReportStopped, Go, Report
  <2>11. CASE ReportCompleted(r)
    BY <2>11 DEF ReportCompleted, Go, Report
  <2>12. CASE Kill(r)
    BY <2>12 DEF Kill
  <2> QED
    BY <1>2, <2>1, <2>2, <2>3, <2>4, <2>5, <2>6, <2>7, <2>8, <2>9, <2>10, <2>11, <2>12 DEF
       Work
<1>3. ASSUME NEW q \in {"stop", "reset", "status"}, CheckAsked(q) \/ CondemnAsked(q)
      PROVE  FileInHand'
  <2>1. CASE CheckAsked(q)
    BY <2>1 DEF CheckAsked, Ask, Judge
  <2>2. CASE CondemnAsked(q)
    BY <2>2 DEF CondemnAsked, Ask, Condemned
  <2> QED
    BY <1>3, <2>1, <2>2
<1>4. CASE RequestStop \/ Reset \/ Silence
  <2>1. CASE RequestStop
    BY <2>1 DEF RequestStop, Ask
  <2>2. CASE Reset
    BY <2>2 DEF Reset, Ask, Absent
  <2>3. CASE Silence
    BY <2>3 DEF Silence
  <2> QED
    BY <1>4, <2>1, <2>2, <2>3
<1>5. ASSUME NEW f \in 1 .. Files, ReplaceFile(f)
      PROVE  FileInHand'
  <2>1. CASE ReplaceFile(f)
    BY <2>1 DEF ReplaceFile
  <2> QED
    BY <1>5, <2>1
<1>6. CASE UNCHANGED vars
  BY <1>6 DEF vars
<1> QED
  BY <1>1, <1>2, <1>3, <1>4, <1>5, <1>6 DEF Next

\* Only sending brings a task on the queue.
LEMMA SentStep ==
    ASSUME Shape, SentFirst, [Next]_vars
    PROVE  SentFirst'
<1> USE DEF Shape, RunTypes, SentFirst, AtWork, Over, Acting, requestVars, runVars, history
<1>1. ASSUME NEW r \in Runs, Start(r)
      PROVE  SentFirst'
  <2>1. CASE CheckStart(r)
    BY <2>1 DEF CheckStart, Request, Judge
  <2>2. CASE CondemnAtStart(r)
    BY <2>2 DEF CondemnAtStart, Request, Condemned
  <2>3. CASE Reserve(r)
    BY <2>3 DEF Reserve, Request
  <2>4. CASE Send(r)
    BY <2>4 DEF Send, Request
  <2> QED
    BY <1>1, <2>1, <2>2, <2>3, <2>4 DEF Start
<1>2. ASSUME NEW r \in Runs, Work(r) \/ Kill(r)
      PROVE  SentFirst'
  <2>1. CASE Announce(r)
    BY <2>1 DEF Announce, Go, Report
  <2>2. CASE ClearStop(r)
    BY <2>2 DEF ClearStop, Go
  <2>3. CASE PollTop(r)
    BY <2>3 DEF PollTop, Go
  <2>4. CASE CheckIncremental(r)
    BY <2>4 DEF CheckIncremental, Go, NextFile, Beat
  <2>5. CASE Open(r)
    BY <2>5 DEF Open, Go
  <2>6. CASE PollPart(r)
    BY <2>6 DEF PollPart, Go
  <2>7. CASE WritePart(r)
    BY <2>7 DEF WritePart, Go, Beat
  <2>8. CASE FailFile(r)
    BY <2>8 DEF FailFile, Go, NextFile, Beat
  <2>9. CASE Mark(r)
    BY <2>9 DEF Mark, Go, NextFile, Beat
  <2>10. CASE ReportStopped(r)
    BY <2>10 DEF ReportStopped, Go, Report
  <2>11. CASE ReportCompleted(r)
    BY <2>11 DEF ReportCompleted, Go, Report
  <2>12. CASE Kill(r)
    BY <2>12 DEF Kill
  <2> QED
    BY <1>2, <2>1, <2>2, <2>3, <2>4, <2>5, <2>6, <2>7, <2>8, <2>9, <2>10, <2>11, <2>12 DEF
       Work
<1>3. ASSUME NEW q \in {"stop", "reset", "status"}, CheckAsked(q) \/ CondemnAsked(q)
      PROVE  SentFirst'
  <2>1. CASE CheckAsked(q)
    BY <2>1 DEF CheckAsked, Ask, Judge
  <2>2. CASE CondemnAsked(q)
    BY <2>2 DEF CondemnAsked, Ask, Condemned
  <2> QED
    BY <1>3, <2>1, <2>2
<1>4. CASE RequestStop \/ Reset \/ Silence
  <2>1. CASE RequestStop
    BY <2>1 DEF RequestStop, Ask
  <2>2. CASE Reset
    BY <2>2 DEF Reset, Ask, Absent
  <2>3. CASE Silence
    BY <2>3 DEF Silence
  <2> QED
    BY <1>4, <2>1, <2>2, <2>3
<1>5. ASSUME NEW f \in 1 .. Files, ReplaceFile(f)
      PROVE  SentFirst'
  <2>1. CASE ReplaceFile(f)
    BY <2>1 DEF ReplaceFile
  <2> QED
    BY <1>5, <2>1
<1>6. CASE UNCHANGED vars
  BY <1>6 DEF vars
<1> QED
  BY <1>1, <1>2, <1>3, <1>4, <1>5, <1>6 DEF Next

\* Record, marks and rows keep to their values.
LEMMA DataTypesStep ==
    ASSUME Shape, [Next]_vars
    PROVE  DataTypes'
<1> USE LocalImportAssumption DEF Shape, DataTypes, RunTypes, FileInHand, Statuses, Ages,
   Absent, requestVars, runVars, history
<1>1. ASSUME NEW r \in Runs, Start(r)
      PROVE  DataTypes'
  <2>1. CASE CheckStart(r)
    BY <2>1 DEF CheckStart, Request, Judge
  <2>2. CASE CondemnAtStart(r)
    <3>1. record' \in Records
      BY <2>2, Condemning DEF CondemnAtStart
    <3>2. UNCHANGED <<cached, version, stored, swapped>>
      BY <2>2 DEF CondemnAtStart
    <3> QED
      BY <3>1, <3>2
  <2>3. CASE Reserve(r)
    <3>1. record' \in Records
      BY <2>3 DEF Reserve, Records
    <3>2. UNCHANGED <<cached, version, stored, swapped>>
      BY <2>3 DEF Reserve
    <3> QED
      BY <3>1, <3>2
  <2>4. CASE Send(r)
    BY <2>4 DEF Send, Request
  <2> QED
    BY <1>1, <2>1, <2>2, <2>3, <2>4 DEF Start
<1>2. ASSUME NEW r \in Runs, Work(r) \/ Kill(r)
      PROVE  DataTypes'
  <2>1. CASE Announce(r)
    <3>1. record' \in Records
      BY <2>1, Reports DEF Announce, Statuses
    <3>2. UNCHANGED <<cached, version, stored, swapped>>
      BY <2>1 DEF Announce
    <3> QED
      BY <3>1, <3>2
  <2>2. CASE ClearStop(r)
    BY <2>2 DEF ClearStop, Go
  <2>3. CASE PollTop(r)
    BY <2>3 DEF PollTop, Go
  <2>4. CASE CheckIncremental(r)
    <3>1. record' \in Records
      BY <2>4, Beats DEF CheckIncremental
    <3>2. UNCHANGED <<cached, version, stored, swapped>>
      BY <2>4 DEF CheckIncremental
    <3> QED
      BY <3>1, <3>2
  <2>5. CASE Open(r)
    BY <2>5 DEF Open, Go
  <2>6. CASE PollPart(r)
    BY <2>6 DEF PollPart, Go
  <2>7. CASE WritePart(r)
    <3>1. <<file[r], held[r], part[r]>> \in (1 .. Files) \X (1 .. MaxVersions) \X (1 .. Parts)
      BY <2>7 DEF WritePart, Go
    <3>2. stored' \subseteq (1 .. Files) \X (1 .. MaxVersions) \X (1 .. Parts)
      BY <2>7, <3>1 DEF WritePart, Inserted
    <3>3. record' \in Records
      BY <2>7, Beats DEF WritePart
    <3>4. UNCHANGED <<cached, version, swapped>>
      BY <2>7 DEF WritePart
    <3> QED
      BY <3>2, <3>3, <3>4
  <2>8. CASE FailFile(r)
    <3>1. record' \in Records
      BY <2>8, Beats DEF FailFile
    <3>2. UNCHANGED <<cached, version, stored, swapped>>
      BY <2>8 DEF FailFile
    <3> QED
      BY <3>1, <3>2
  <2>9. CASE Mark(r)
    <3>1. record' \in Records
      BY <2>9, Beats DEF Mark
    <3>2. file[r] \in 1 .. Files
      BY <2>9 DEF Mark, Go
    <3>3. version[file[r]] \in 0 .. MaxVersions
      BY <3>2
    <3>4. cached' \in [1 .. Files -> 0 .. MaxVersions]
      <4>1. CASE cached' = cached
        BY <4>1
      <4>2. CASE cached' = [cached EXCEPT ![file[r]] = version[file[r]]]
        BY <3>2, <3>3, <4>2
      <4> QED
        BY <2>9, <4>1, <4>2 DEF Mark
    <3>5. UNCHANGED <<version, stored, swapped>>
      BY <2>9 DEF Mark
    <3> QED
      BY <3>1, <3>4, <3>5
  <2>10. CASE ReportStopped(r)
    <3>1. record' \in Records
      BY <2>10, Reports DEF ReportStopped, Statuses
    <3>2. UNCHANGED <<cached, version, stored, swapped>>
      BY <2>10 DEF ReportStopped
    <3> QED
      BY <3>1, <3>2
  <2>11. CASE ReportCompleted(r)
    <3>1. record' \in Records
      BY <2>11, Reports DEF ReportCompleted, Statuses
    <3>2. UNCHANGED <<cached, version, stored, swapped>>
      BY <2>11 DEF ReportCompleted
    <3> QED
      BY <3>1, <3>2
  <2>12. CASE Kill(r)
    BY <2>12 DEF Kill
  <2> QED
    BY <1>2, <2>1, <2>2, <2>3, <2>4, <2>5, <2>6, <2>7, <2>8, <2>9, <2>10, <2>11, <2>12 DEF
       Work
<1>3. ASSUME NEW q \in {"stop", "reset", "status"}, CheckAsked(q) \/ CondemnAsked(q)
      PROVE  DataTypes'
  <2>1. CASE CheckAsked(q)
    BY <2>1 DEF CheckAsked, Ask, Judge
  <2>2. CASE CondemnAsked(q)
    <3>1. record' \in Records
      BY <2>2, Condemning DEF CondemnAsked
    <3>2. UNCHANGED <<cached, version, stored, swapped>>
      BY <2>2 DEF CondemnAsked
    <3> QED
      BY <3>1, <3>2
  <2> QED
    BY <1>3, <2>1, <2>2
<1>4. CASE RequestStop \/ Reset \/ Silence
  <2>1. CASE RequestStop
    BY <2>1 DEF RequestStop, Ask
  <2>2. CASE Reset
    <3>1. record' \in Records
      BY <2>2 DEF Reset, Records
    <3>2. UNCHANGED <<cached, version, stored, swapped>>
      BY <2>2 DEF Reset
    <3> QED
      BY <3>1, <3>2
  <2>3. CASE Silence
    <3>1. record' = [record EXCEPT !.age = record.age + 1] /\ record.age + 1 \in Ages
      BY <2>3 DEF Silence, Records
    <3>2. record' \in Records
      BY <3>1, Aging
    <3> QED
      BY <2>3, <3>2 DEF Silence
  <2> QED
    BY <1>4, <2>1, <2>2, <2>3
<1>5. ASSUME NEW f \in 1 .. Files, ReplaceFile(f)
      PROVE  DataTypes'
  <2>1. CASE ReplaceFile(f)
    <3>1. version \in [1 .. Files -> 1 .. MaxVersions] /\ f \in 1 .. Files
      BY <2>1
    <3>2. version[f] + 1 \in 1 .. MaxVersions
      BY <2>1, <3>1 DEF ReplaceFile
    <3>3. version' = [version EXCEPT ![f] = version[f] + 1]
      BY <2>1 DEF ReplaceFile
    <3>4. version' \in [1 .. Files -> 1 .. MaxVersions]
      BY <3>1, <3>2, <3>3
    <3>5. swapped' \subseteq (1 .. Files) \X (1 .. MaxVersions)
      BY <2>1, <3>1, <3>2, SMTT(30) DEF ReplaceFile
    <3> QED
      BY <2>1, <3>4, <3>5 DEF ReplaceFile
  <2> QED
    BY <1>5, <2>1
<1>6. CASE UNCHANGED vars
  BY <1>6 DEF vars
<1> QED
  BY <1>1, <1>2, <1>3, <1>4, <1>5, <1>6 DEF Next

\* An archive that is replaced while a run holds it goes on record.
LEMMA VersionsStep ==
    ASSUME Shape, VersionsKnown, [Next]_vars
    PROVE  VersionsKnown'
<1> USE LocalImportAssumption DEF Shape, DataTypes, RunTypes, SentFirst, FileInHand,
   VersionsKnown, requestVars, runVars, history
<1>1. ASSUME NEW r \in Runs, Start(r)
      PROVE  VersionsKnown'
  <2>1. CASE CheckStart(r)
    BY <2>1 DEF CheckStart, Request, Judge
  <2>2. CASE CondemnAtStart(r)
    BY <2>2 DEF CondemnAtStart, Request, Condemned
  <2>3. CASE Reserve(r)
    BY <2>3 DEF Reserve, Request
  <2>4. CASE Send(r)
    BY <2>4 DEF Send, Request
  <2> QED
    BY <1>1, <2>1, <2>2, <2>3, <2>4 DEF Start
<1>2. ASSUME NEW r \in Runs, Work(r) \/ Kill(r)
      PROVE  VersionsKnown'
  <2>1. CASE Announce(r)
    BY <2>1 DEF Announce, Go, Report
  <2>2. CASE ClearStop(r)
    BY <2>2 DEF ClearStop, Go
  <2>3. CASE PollTop(r)
    BY <2>3 DEF PollTop, Go
  <2>4. CASE CheckIncremental(r)
    <3>1. CASE Go(r, "checking", "top") /\ NextFile(r)
      BY <2>4, <3>1 DEF CheckIncremental, Go, NextFile, Beat
    <3>2. CASE Go(r, "checking", "opening") /\ UNCHANGED <<file, held, part>>
      BY <2>4, <3>2 DEF CheckIncremental, Go, Beat
    <3> QED
      BY <2>4, <3>1, <3>2 DEF CheckIncremental
  <2>5. CASE Open(r)
    <3>1. file[r] \in 1 .. Files /\ UNCHANGED <<cached, version, swapped, file>>
      BY <2>5 DEF Open, Go
    <3>2. held' = [held EXCEPT ![r] = version[file[r]]]
      BY <2>5 DEF Open
    <3>3. held'[r] = version'[file'[r]] /\ version[file[r]] \in 1 .. MaxVersions
      BY <3>1, <3>2
    <3>4. \A s \in Runs \ {r} : held'[s] = held[s]
      BY <3>2
    <3>5. \A f \in 1 .. Files : cached'[f] <= version'[f]
      BY <3>1
    <3>6. ASSUME NEW s \in Runs, held'[s] # 0
          PROVE  /\ held'[s] <= version'[file'[s]]
                 /\ \A v \in 1 .. version'[file'[s]] :
                       held'[s] < v => <<file'[s], v>> \in swapped'
      <4>1. CASE s = r
        <5>1. held'[s] = version'[file'[s]] /\ version'[file'[s]] \in Nat
          BY <3>1, <3>3, <4>1
        <5> HIDE DEF Shape, VersionsKnown
        <5> QED
          BY <5>1
      <4>2. CASE s # r
        <5>1. held'[s] = held[s] /\ held[s] # 0
          BY <3>4, <3>6, <4>2
        <5>2. /\ held[s] <= version[file[s]]
              /\ \A v \in 1 .. version[file[s]] : held[s] < v => <<file[s], v>> \in swapped
          BY <5>1 DEF VersionsKnown
        <5> HIDE DEF Shape, VersionsKnown
        <5> QED
          BY <3>1, <5>1, <5>2
      <4> QED
        BY <4>1, <4>2
    <3> QED
      BY <3>5, <3>6 DEF VersionsKnown
  <2>6. CASE PollPart(r)
    BY <2>6 DEF PollPart, Go
  <2>7. CASE WritePart(r)
    BY <2>7 DEF WritePart, Go, Beat
  <2>8. CASE FailFile(r)
    BY <2>8 DEF FailFile, Go, NextFile, Beat
  <2>9. CASE Mark(r)
    <3>1. /\ file[r] \in 1 .. Files /\ UNCHANGED <<version, swapped>>
          /\ held' = [held EXCEPT ![r] = 0] /\ file' = [file EXCEPT ![r] = @ + 1]
      BY <2>9 DEF Mark, Go, NextFile
    <3>2. \A f \in 1 .. Files : cached'[f] <= version'[f]
      <4>1. CASE cached' = cached
        BY <3>1, <4>1
      <4>2. CASE cached' = [cached EXCEPT ![file[r]] = version[file[r]]]
        BY <3>1, <4>2
      <4> QED
        BY <2>9, <4>1, <4>2 DEF Mark
    <3> QED
      BY <3>1, <3>2
  <2>10. CASE ReportStopped(r)
    BY <2>10 DEF ReportStopped, Go, Report
  <2>11. CASE ReportCompleted(r)
    BY <2>11 DEF ReportCompleted, Go, Report
  <2>12. CASE Kill(r)
    BY <2>12 DEF Kill
  <2> QED
    BY <1>2, <2>1, <2>2, <2>3, <2>4, <2>5, <2>6, <2>7, <2>8, <2>9, <2>10, <2>11, <2>12 DEF
       Work
<1>3. ASSUME NEW q \in {"stop", "reset", "status"}, CheckAsked(q) \/ CondemnAsked(q)
      PROVE  VersionsKnown'
  <2>1. CASE CheckAsked(q)
    BY <2>1 DEF CheckAsked, Ask, Judge
  <2>2. CASE CondemnAsked(q)
    BY <2>2 DEF CondemnAsked, Ask, Condemned
  <2> QED
    BY <1>3, <2>1, <2>2
<1>4. CASE RequestStop \/ Reset \/ Silence
  <2>1. CASE RequestStop
    BY <2>1 DEF RequestStop, Ask
  <2>2. CASE Reset
    BY <2>2 DEF Reset, Ask, Absent
  <2>3. CASE Silence
    BY <2>3 DEF Silence
  <2> QED
    BY <1>4, <2>1, <2>2, <2>3
<1>5. ASSUME NEW f \in 1 .. Files, ReplaceFile(f)
      PROVE  VersionsKnown'
  <2>1. CASE ReplaceFile(f)
    <3>1. /\ UNCHANGED <<cached, file, held>>
          /\ swapped \subseteq swapped'
          /\ version' = [version EXCEPT ![f] = @ + 1]
      BY <2>1 DEF ReplaceFile
    <3>2. \A g \in 1 .. Files : version[g] <= version'[g]
      BY <3>1
    <3>3. ASSUME NEW r \in Runs, held[r] # 0, NEW v \in 1 .. version'[file[r]], held[r] < v
          PROVE  <<file[r], v>> \in swapped'
      <4>1. CASE v <= version[file[r]]
        <5>1. v \in 1 .. version[file[r]]
          BY <3>3, <4>1
        <5> QED
          BY <3>1, <3>3, <5>1
      <4>2. CASE ~(v <= version[file[r]])
        <5>1. file[r] = f /\ v = version[f] + 1
          BY <3>1, <3>3, <4>2, SMTT(30)
        <5> QED
          BY <2>1, <3>3, <5>1 DEF ReplaceFile
      <4> QED
        BY <4>1, <4>2
    <3>4. \A g \in 1 .. Files : cached'[g] <= version'[g]
      BY <3>1, <3>2
    <3>5. ASSUME NEW r \in Runs, held[r] # 0
          PROVE  held[r] <= version'[file[r]]
      <4>1. /\ file[r] \in 1 .. Files /\ held[r] \in Nat /\ held[r] <= version[file[r]]
            /\ version[file[r]] \in Nat
        BY <3>5
      <4>2. version[file[r]] <= version'[file[r]] /\ version'[file[r]] \in Nat
        BY <3>1, <3>2, <4>1, SMTT(30)
      <4> QED
        BY <4>1, <4>2
    <3> QED
      BY <3>1, <3>3, <3>4, <3>5
  <2> QED
    BY <1>5, <2>1
<1>6. CASE UNCHANGED vars
  BY <1>6 DEF vars
<1> QED
  BY <1>1, <1>2, <1>3, <1>4, <1>5, <1>6 DEF Next

\* What was put in place of an archive in a run's hands is on record.
LEMMA NewerOnRecord ==
    ASSUME VersionsKnown, NEW r \in Runs, held[r] # 0,
           NEW v \in 1 .. version[file[r]], held[r] < v
    PROVE  <<file[r], v>> \in swapped
  BY DEF VersionsKnown

\* A block that is written is in the database, and of the blocks that were there it can
\* only displace its own of a newer version.
LEMMA BlockInserted ==
    ASSUME NEW f \in 1 .. Files, NEW v \in 1 .. MaxVersions, NEW p \in 1 .. Parts,
           stored' = Inserted(f, v, p)
    PROVE  /\ Hold(stored', f, v, p)
           /\ \A g \in 1 .. Files, w \in 1 .. MaxVersions, q \in 1 .. Parts :
                 Hold(stored, g, w, q) => Hold(stored', g, w, q) \/ (g = f /\ w > v)
<1> USE LocalImportAssumption
<1>1. CASE Adj /\ Standing(f, v, p) # {}
  <2>1. stored' = stored
    BY <1>1 DEF Inserted
  <2>2. Hold(stored, f, v, p)
    BY <1>1 DEF Standing, Hold
  <2> QED
    BY <2>1, <2>2 DEF Hold
<1>2. CASE ~(Adj /\ Standing(f, v, p) # {})
  <2>1. stored' = (stored \ Standing(f, v, p)) \cup {<<f, v, p>>}
    BY <1>2 DEF Inserted
  <2>2. <<f, v, p>> \in stored'
    BY <2>1
  <2>3. ASSUME NEW g \in 1 .. Files, NEW w \in 1 .. MaxVersions, NEW q \in 1 .. Parts,
               Hold(stored, g, w, q), ~(g = f /\ w > v)
        PROVE  Hold(stored', g, w, q)
    <3>1. PICK u \in 1 .. MaxVersions : /\ <<g, u, q>> \in stored
                                        /\ u = w \/ (q \in Revised /\ (Adj \/ u > w))
      BY <2>3 DEF Hold
    <3>2. CASE <<g, u, q>> \in stored'
      BY <3>1, <3>2 DEF Hold
    <3>3. CASE <<g, u, q>> \notin stored'
      <4>1. <<g, u, q>> \in Standing(f, v, p)
        BY <2>1, <3>1, <3>3
      <4>2. g = f /\ q = p /\ ~Adj
        BY <1>2, <4>1 DEF Standing
      <4>3. p \in Revised
        BY <2>2, <3>3, <4>1, <4>2 DEF Standing
      <4>4. v = w \/ v > w
        BY <2>3, <4>2
      <4> QED
        BY <2>2, <4>2, <4>3, <4>4 DEF Hold
    <3> QED
      BY <3>2, <3>3
  <2> QED
    BY <2>2, <2>3 DEF Hold
<1> QED
  BY <1>1, <1>2

\* A block is stored before the run goes on to the next.
LEMMA StoredStep ==
    ASSUME Shape, VersionsKnown, HeldIsStored, [Next]_vars
    PROVE  HeldIsStored'
<1> USE LocalImportAssumption DEF Shape, DataTypes, RunTypes, SentFirst, FileInHand,
   HeldIsStored, requestVars, runVars, history
<1>1. ASSUME NEW r \in Runs, Start(r)
      PROVE  HeldIsStored'
  <2>1. CASE CheckStart(r)
    BY <2>1 DEF CheckStart, Request, Judge
  <2>2. CASE CondemnAtStart(r)
    BY <2>2 DEF CondemnAtStart, Request, Condemned
  <2>3. CASE Reserve(r)
    BY <2>3 DEF Reserve, Request
  <2>4. CASE Send(r)
    BY <2>4 DEF Send, Request
  <2> QED
    BY <1>1, <2>1, <2>2, <2>3, <2>4 DEF Start
<1>2. ASSUME NEW r \in Runs, Work(r) \/ Kill(r)
      PROVE  HeldIsStored'
  <2>1. CASE Announce(r)
    BY <2>1 DEF Announce, Go, Report
  <2>2. CASE ClearStop(r)
    BY <2>2 DEF ClearStop, Go
  <2>3. CASE PollTop(r)
    BY <2>3 DEF PollTop, Go
  <2>4. CASE CheckIncremental(r)
    <3>1. CASE Go(r, "checking", "top") /\ NextFile(r)
      BY <2>4, <3>1 DEF CheckIncremental, Go, NextFile, Beat
    <3>2. CASE Go(r, "checking", "opening") /\ UNCHANGED <<file, held, part>>
      BY <2>4, <3>2 DEF CheckIncremental, Go, Beat
    <3> QED
      BY <2>4, <3>1, <3>2 DEF CheckIncremental
  <2>5. CASE Open(r)
    <3>1. part[r] = 1 /\ UNCHANGED <<stored, version, swapped, file, part>>
      BY <2>5 DEF Open, Go
    <3>2. held' = [held EXCEPT ![r] = version[file[r]]]
      BY <2>5 DEF Open
    <3>3. held'[r] = version'[file'[r]] /\ 1 .. part'[r] - 1 = {}
      BY <3>1, <3>2
    <3>4. \A s \in Runs \ {r} : held'[s] = held[s]
      BY <3>2
    <3> QED
      BY <3>1, <3>3, <3>4
  <2>6. CASE PollPart(r)
    BY <2>6 DEF PollPart, Go
  <2>7. CASE WritePart(r)
    <3>1. /\ stored' = Inserted(file[r], held[r], part[r])
          /\ part' = [part EXCEPT ![r] = @ + 1]
          /\ UNCHANGED <<file, held, version, swapped>>
      BY <2>7 DEF WritePart
    <3>2. file[r] \in 1 .. Files /\ held[r] \in 1 .. MaxVersions /\ part[r] \in 1 .. Parts
      BY <2>7 DEF WritePart, Go
    <3>3. /\ Hold(stored', file[r], held[r], part[r])
          /\ \A g \in 1 .. Files, w \in 1 .. MaxVersions, q \in 1 .. Parts :
                Hold(stored, g, w, q) => Hold(stored', g, w, q) \/ (g = file[r] /\ w > held[r])
      BY <3>1, <3>2, BlockInserted
    <3>4. SUFFICES ASSUME NEW s \in Runs, held[s] # 0, <<file[s], held[s]>> \notin swapped,
                          NEW p \in 1 .. part'[s] - 1
                   PROVE  Hold(stored', file[s], held[s], p)
      BY <3>1
    <3>5. file[s] \in 1 .. Files /\ held[s] \in 1 .. MaxVersions /\ p \in 1 .. Parts
      <4>1. file[s] \in 1 .. Files /\ held[s] \in 1 .. MaxVersions
        BY <3>4, SMTT(30)
      <4>2. part[s] \in 1 .. Parts + 1 /\ part[r] \in 1 .. Parts
        BY <3>2
      <4>3. CASE s = r
        <5>1. part'[s] = part[r] + 1
          BY <3>1, <4>3
        <5> HIDE DEF Shape, VersionsKnown, HeldIsStored
        <5> QED
          BY <3>4, <4>1, <4>2, <5>1
      <4>4. CASE s # r
        <5>1. part'[s] = part[s]
          BY <3>1, <4>4
        <5> HIDE DEF Shape, VersionsKnown, HeldIsStored
        <5> QED
          BY <3>4, <4>1, <4>2, <5>1
      <4> QED
        BY <4>3, <4>4
    <3>6. ~(file[s] = file[r] /\ held[s] > held[r])
      <4>1. held[s] <= version[file[s]]
        BY <3>4 DEF VersionsKnown
      <4>2. \A v \in 1 .. version[file[r]] : held[r] < v => <<file[r], v>> \in swapped
        <5>1. held[r] # 0
          BY <3>2
        <5> QED
          BY <5>1, NewerOnRecord
      <4>3. SUFFICES ASSUME file[s] = file[r], held[s] > held[r]
                     PROVE  FALSE
        OBVIOUS
      <4>4. held[s] \in 1 .. version[file[r]] /\ held[r] < held[s]
        BY <3>2, <3>5, <4>1, <4>3
      <4> QED
        BY <3>4, <4>2, <4>3, <4>4
    <3>7. CASE p \in 1 .. part[s] - 1
      BY <3>3, <3>4, <3>5, <3>6, <3>7
    <3>8. CASE p \notin 1 .. part[s] - 1
      <4>1. s = r /\ p = part[r]
        BY <3>1, <3>4, <3>8, SMTT(30)
      <4> QED
        BY <3>3, <4>1
    <3> QED
      BY <3>7, <3>8
  <2>8. CASE FailFile(r)
    BY <2>8 DEF FailFile, Go, NextFile, Beat
  <2>9. CASE Mark(r)
    BY <2>9 DEF Mark, Go, NextFile, Beat
  <2>10. CASE ReportStopped(r)
    BY <2>10 DEF ReportStopped, Go, Report
  <2>11. CASE ReportCompleted(r)
    BY <2>11 DEF ReportCompleted, Go, Report
  <2>12. CASE Kill(r)
    BY <2>12 DEF Kill
  <2> QED
    BY <1>2, <2>1, <2>2, <2>3, <2>4, <2>5, <2>6, <2>7, <2>8, <2>9, <2>10, <2>11, <2>12 DEF
       Work
<1>3. ASSUME NEW q \in {"stop", "reset", "status"}, CheckAsked(q) \/ CondemnAsked(q)
      PROVE  HeldIsStored'
  <2>1. CASE CheckAsked(q)
    BY <2>1 DEF CheckAsked, Ask, Judge
  <2>2. CASE CondemnAsked(q)
    BY <2>2 DEF CondemnAsked, Ask, Condemned
  <2> QED
    BY <1>3, <2>1, <2>2
<1>4. CASE RequestStop \/ Reset \/ Silence
  <2>1. CASE RequestStop
    BY <2>1 DEF RequestStop, Ask
  <2>2. CASE Reset
    BY <2>2 DEF Reset, Ask, Absent
  <2>3. CASE Silence
    BY <2>3 DEF Silence
  <2> QED
    BY <1>4, <2>1, <2>2, <2>3
<1>5. ASSUME NEW f \in 1 .. Files, ReplaceFile(f)
      PROVE  HeldIsStored'
  <2>1. CASE ReplaceFile(f)
    <3>1. /\ UNCHANGED <<stored, file, held, part>>
          /\ swapped \subseteq swapped'
          /\ version' = [version EXCEPT ![f] = @ + 1]
      BY <2>1 DEF ReplaceFile
    <3> QED
      BY <3>1
  <2> QED
    BY <1>5, <2>1
<1>6. CASE UNCHANGED vars
  BY <1>6 DEF vars
<1> QED
  BY <1>1, <1>2, <1>3, <1>4, <1>5, <1>6 DEF Next

\* An archive is marked when its last block is stored.
LEMMA MarkedStep ==
    ASSUME Shape, VersionsKnown, HeldIsStored, MarkedMeansWritten, [Next]_vars
    PROVE  MarkedMeansWritten'
<1> USE LocalImportAssumption DEF Shape, DataTypes, RunTypes, SentFirst, FileInHand,
   HeldIsStored, MarkedMeansWritten, requestVars, runVars, history
<1>1. ASSUME NEW r \in Runs, Start(r)
      PROVE  MarkedMeansWritten'
  <2>1. CASE CheckStart(r)
    BY <2>1 DEF CheckStart, Request, Judge
  <2>2. CASE CondemnAtStart(r)
    BY <2>2 DEF CondemnAtStart, Request, Condemned
  <2>3. CASE Reserve(r)
    BY <2>3 DEF Reserve, Request
  <2>4. CASE Send(r)
    BY <2>4 DEF Send, Request
  <2> QED
    BY <1>1, <2>1, <2>2, <2>3, <2>4 DEF Start
<1>2. ASSUME NEW r \in Runs, Work(r) \/ Kill(r)
      PROVE  MarkedMeansWritten'
  <2>1. CASE Announce(r)
    BY <2>1 DEF Announce, Go, Report
  <2>2. CASE ClearStop(r)
    BY <2>2 DEF ClearStop, Go
  <2>3. CASE PollTop(r)
    BY <2>3 DEF PollTop, Go
  <2>4. CASE CheckIncremental(r)
    BY <2>4 DEF CheckIncremental, Go, NextFile, Beat
  <2>5. CASE Open(r)
    BY <2>5 DEF Open, Go
  <2>6. CASE PollPart(r)
    BY <2>6 DEF PollPart, Go
  <2>7. CASE WritePart(r)
    <3>1. /\ stored' = Inserted(file[r], held[r], part[r])
          /\ UNCHANGED <<cached, version, swapped>>
      BY <2>7 DEF WritePart
    <3>2. file[r] \in 1 .. Files /\ held[r] \in 1 .. MaxVersions /\ part[r] \in 1 .. Parts
      BY <2>7 DEF WritePart, Go
    <3>3. \A g \in 1 .. Files, w \in 1 .. MaxVersions, q \in 1 .. Parts :
             Hold(stored, g, w, q) => Hold(stored', g, w, q) \/ (g = file[r] /\ w > held[r])
      BY <3>1, <3>2, BlockInserted
    <3>4. SUFFICES ASSUME NEW f \in 1 .. Files, cached[f] # 0,
                          <<f, cached[f]>> \notin swapped, NEW p \in 1 .. Parts
                   PROVE  Hold(stored', f, cached[f], p)
      BY <3>1
    <3>5. cached[f] \in 1 .. version[f] /\ cached[f] \in 1 .. MaxVersions
      BY <3>4, SMTT(30) DEF VersionsKnown
    <3>6. ~(f = file[r] /\ cached[f] > held[r])
      <4>1. \A v \in 1 .. version[file[r]] : held[r] < v => <<file[r], v>> \in swapped
        <5>1. held[r] # 0
          BY <3>2
        <5> QED
          BY <5>1, NewerOnRecord
      <4>2. SUFFICES ASSUME f = file[r], cached[f] > held[r]
                     PROVE  FALSE
        OBVIOUS
      <4>3. cached[f] \in 1 .. version[file[r]] /\ held[r] < cached[f]
        BY <3>2, <3>5, <4>2
      <4> QED
        BY <3>4, <4>1, <4>2, <4>3
    <3>7. Hold(stored, f, cached[f], p)
      BY <3>4
    <3> QED
      BY <3>3, <3>4, <3>5, <3>6, <3>7
  <2>8. CASE FailFile(r)
    BY <2>8 DEF FailFile, Go, NextFile, Beat
  <2>9. CASE Mark(r)
    <3>1. /\ file[r] \in 1 .. Files /\ held[r] \in 1 .. MaxVersions /\ part[r] > Parts
          /\ part[r] \in Nat /\ UNCHANGED <<stored, swapped>>
      BY <2>9 DEF Mark, Go
    <3>4. \/ <<file[r], version[file[r]]>> \in swapped
          \/ \A p \in 1 .. Parts : Hold(stored, file[r], version[file[r]], p)
      <4>1. CASE held[r] = version[file[r]]
        <5>1. \A p \in 1 .. Parts : p \in 1 .. part[r] - 1
          BY <3>1
        <5>2. \/ <<file[r], held[r]>> \in swapped
              \/ \A p \in 1 .. part[r] - 1 : Hold(stored, file[r], held[r], p)
          <6>1. held[r] # 0
            BY <3>1
          <6> HIDE DEF Shape, VersionsKnown, MarkedMeansWritten
          <6> QED
            BY <6>1 DEF HeldIsStored
        <5> HIDE DEF Shape, VersionsKnown, HeldIsStored, MarkedMeansWritten
        <5> QED
          BY <4>1, <5>1, <5>2
      <4>2. CASE held[r] # version[file[r]]
        <5>1. held[r] <= version[file[r]] /\ version[file[r]] \in 1 .. MaxVersions
          BY <3>1 DEF VersionsKnown
        <5>2. version[file[r]] \in 1 .. version[file[r]] /\ held[r] < version[file[r]]
          BY <3>1, <4>2, <5>1
        <5> QED
          <6>1. held[r] # 0
            BY <3>1
          <6>2. <<file[r], version[file[r]]>> \in swapped
            BY <5>2, <6>1, NewerOnRecord
          <6> QED
            BY <6>2
      <4> QED
        BY <4>1, <4>2
    <3>2. CASE cached' = cached
      BY <3>1, <3>2
    <3>3. CASE cached' = [cached EXCEPT ![file[r]] = version[file[r]]]
      BY <3>1, <3>3, <3>4, ZenonT(30)
    <3> QED
      BY <2>9, <3>2, <3>3 DEF Mark
  <2>10. CASE ReportStopped(r)
    BY <2>10 DEF ReportStopped, Go, Report
  <2>11. CASE ReportCompleted(r)
    BY <2>11 DEF ReportCompleted, Go, Report
  <2>12. CASE Kill(r)
    BY <2>12 DEF Kill
  <2> QED
    BY <1>2, <2>1, <2>2, <2>3, <2>4, <2>5, <2>6, <2>7, <2>8, <2>9, <2>10, <2>11, <2>12 DEF
       Work
<1>3. ASSUME NEW q \in {"stop", "reset", "status"}, CheckAsked(q) \/ CondemnAsked(q)
      PROVE  MarkedMeansWritten'
  <2>1. CASE CheckAsked(q)
    BY <2>1 DEF CheckAsked, Ask, Judge
  <2>2. CASE CondemnAsked(q)
    BY <2>2 DEF CondemnAsked, Ask, Condemned
  <2> QED
    BY <1>3, <2>1, <2>2
<1>4. CASE RequestStop \/ Reset \/ Silence
  <2>1. CASE RequestStop
    BY <2>1 DEF RequestStop, Ask
  <2>2. CASE Reset
    BY <2>2 DEF Reset, Ask, Absent
  <2>3. CASE Silence
    BY <2>3 DEF Silence
  <2> QED
    BY <1>4, <2>1, <2>2, <2>3
<1>5. ASSUME NEW f \in 1 .. Files, ReplaceFile(f)
      PROVE  MarkedMeansWritten'
  <2>1. CASE ReplaceFile(f)
    BY <2>1 DEF ReplaceFile
  <2> QED
    BY <1>5, <2>1
<1>6. CASE UNCHANGED vars
  BY <1>6 DEF vars
<1> QED
  BY <1>1, <1>2, <1>3, <1>4, <1>5, <1>6 DEF Next

\* A second run at work is an overlap.
LEMMA WorkStep ==
    ASSUME Shape, OneAtWork, [Next]_vars
    PROVE  OneAtWork'
<1> USE DEF Shape, DataTypes, RunTypes, SentFirst, FileInHand, OneAtWork, AtWork,
   requestVars, runVars, history
<1>1. ASSUME NEW r \in Runs, Start(r)
      PROVE  OneAtWork'
  <2>1. CASE CheckStart(r)
    BY <2>1 DEF CheckStart, Request, Judge
  <2>2. CASE CondemnAtStart(r)
    BY <2>2 DEF CondemnAtStart, Request, Condemned
  <2>3. CASE Reserve(r)
    BY <2>3 DEF Reserve, Request
  <2>4. CASE Send(r)
    BY <2>4 DEF Send, Request
  <2> QED
    BY <1>1, <2>1, <2>2, <2>3, <2>4 DEF Start
<1>2. ASSUME NEW r \in Runs, Work(r) \/ Kill(r)
      PROVE  OneAtWork'
  <2>1. CASE Announce(r)
    <3>1. ~overlapped' => ~overlapped /\ \A s \in Runs \ {r} : run[s] \notin AtWork
      BY <2>1 DEF Announce
    <3>2. Go(r, "queued", "announced")
      BY <2>1 DEF Announce
    <3> QED
      BY <3>1, <3>2 DEF Go
  <2>2. CASE ClearStop(r)
    BY <2>2 DEF ClearStop, Go
  <2>3. CASE PollTop(r)
    <3>1. CASE stopKey
      BY <2>3, <3>1 DEF PollTop, Go
    <3>2. CASE ~stopKey
      BY <2>3, <3>2 DEF PollTop, Go
    <3> QED
      BY <2>3, <3>1, <3>2 DEF PollTop
  <2>4. CASE CheckIncremental(r)
    <3>1. CASE Go(r, "checking", "top") /\ NextFile(r)
      BY <2>4, <3>1 DEF CheckIncremental, Go, NextFile, Beat
    <3>2. CASE Go(r, "checking", "opening") /\ UNCHANGED <<file, held, part>>
      BY <2>4, <3>2 DEF CheckIncremental, Go, Beat
    <3> QED
      BY <2>4, <3>1, <3>2 DEF CheckIncremental
  <2>5. CASE Open(r)
    BY <2>5 DEF Open, Go
  <2>6. CASE PollPart(r)
    <3>1. CASE Go(r, "polling", "stopping")
      BY <2>6, <3>1 DEF PollPart, Go
    <3>2. CASE Go(r, "polling", "writing") /\ part[r] <= Parts
      BY <2>6, <3>2 DEF PollPart, Go
    <3>3. CASE Go(r, "polling", "marking") /\ ~(part[r] <= Parts)
      BY <2>6, <3>3 DEF PollPart, Go
    <3> QED
      BY <2>6, <3>1, <3>2, <3>3 DEF PollPart
  <2>7. CASE WritePart(r)
    BY <2>7 DEF WritePart, Go, Beat
  <2>8. CASE FailFile(r)
    <3>1. CASE Go(r, "opening", "top")
      BY <2>8, <3>1 DEF FailFile, Go, NextFile, Beat
    <3>2. CASE Go(r, "writing", "top")
      BY <2>8, <3>2 DEF FailFile, Go, NextFile, Beat
    <3> QED
      BY <2>8, <3>1, <3>2 DEF FailFile
  <2>9. CASE Mark(r)
    BY <2>9 DEF Mark, Go, NextFile, Beat
  <2>10. CASE ReportStopped(r)
    BY <2>10 DEF ReportStopped, Go, Report
  <2>11. CASE ReportCompleted(r)
    BY <2>11 DEF ReportCompleted, Go, Report
  <2>12. CASE Kill(r)
    BY <2>12 DEF Kill
  <2> QED
    BY <1>2, <2>1, <2>2, <2>3, <2>4, <2>5, <2>6, <2>7, <2>8, <2>9, <2>10, <2>11, <2>12 DEF
       Work
<1>3. ASSUME NEW q \in {"stop", "reset", "status"}, CheckAsked(q) \/ CondemnAsked(q)
      PROVE  OneAtWork'
  <2>1. CASE CheckAsked(q)
    BY <2>1 DEF CheckAsked, Ask, Judge
  <2>2. CASE CondemnAsked(q)
    BY <2>2 DEF CondemnAsked, Ask, Condemned
  <2> QED
    BY <1>3, <2>1, <2>2
<1>4. CASE RequestStop \/ Reset \/ Silence
  <2>1. CASE RequestStop
    BY <2>1 DEF RequestStop, Ask
  <2>2. CASE Reset
    BY <2>2 DEF Reset, Ask, Absent
  <2>3. CASE Silence
    BY <2>3 DEF Silence
  <2> QED
    BY <1>4, <2>1, <2>2, <2>3
<1>5. ASSUME NEW f \in 1 .. Files, ReplaceFile(f)
      PROVE  OneAtWork'
  <2>1. CASE ReplaceFile(f)
    BY <2>1 DEF ReplaceFile
  <2> QED
    BY <1>5, <2>1
<1>6. CASE UNCHANGED vars
  BY <1>6 DEF vars
<1> QED
  BY <1>1, <1>2, <1>3, <1>4, <1>5, <1>6 DEF Next

\* The stop key is taken by the run it is meant for.
LEMMA StopStep ==
    ASSUME Shape, OneAtWork, StopStays, [Next]_vars
    PROVE  StopStays'
<1> USE DEF Shape, DataTypes, RunTypes, SentFirst, FileInHand, OneAtWork, StopStays,
   AtWork, requestVars, runVars, history
<1>1. ASSUME NEW r \in Runs, Start(r)
      PROVE  StopStays'
  <2>1. CASE CheckStart(r)
    BY <2>1 DEF CheckStart, Request, Judge
  <2>2. CASE CondemnAtStart(r)
    BY <2>2 DEF CondemnAtStart, Request, Condemned
  <2>3. CASE Reserve(r)
    BY <2>3 DEF Reserve, Request
  <2>4. CASE Send(r)
    BY <2>4 DEF Send, Request
  <2> QED
    BY <1>1, <2>1, <2>2, <2>3, <2>4 DEF Start
<1>2. ASSUME NEW r \in Runs, Work(r) \/ Kill(r)
      PROVE  StopStays'
  <2>1. CASE Announce(r)
    <3>1. ~overlapped' => ~overlapped /\ \A s \in Runs \ {r} : run[s] \notin AtWork
      BY <2>1 DEF Announce
    <3>2. Go(r, "queued", "announced") /\ UNCHANGED <<stopKey, wiped, after>>
      BY <2>1 DEF Announce
    <3> QED
      BY <3>1, <3>2 DEF Go
  <2>2. CASE ClearStop(r)
    BY <2>2 DEF ClearStop, Go
  <2>3. CASE PollTop(r)
    BY <2>3 DEF PollTop, Go
  <2>4. CASE CheckIncremental(r)
    BY <2>4 DEF CheckIncremental, Go, NextFile, Beat
  <2>5. CASE Open(r)
    BY <2>5 DEF Open, Go
  <2>6. CASE PollPart(r)
    BY <2>6 DEF PollPart, Go
  <2>7. CASE WritePart(r)
    BY <2>7 DEF WritePart, Go, Beat
  <2>8. CASE FailFile(r)
    BY <2>8 DEF FailFile, Go, NextFile, Beat
  <2>9. CASE Mark(r)
    BY <2>9 DEF Mark, Go, NextFile, Beat
  <2>10. CASE ReportStopped(r)
    BY <2>10 DEF ReportStopped, Go, Report
  <2>11. CASE ReportCompleted(r)
    BY <2>11 DEF ReportCompleted, Go, Report
  <2>12. CASE Kill(r)
    BY <2>12 DEF Kill
  <2> QED
    BY <1>2, <2>1, <2>2, <2>3, <2>4, <2>5, <2>6, <2>7, <2>8, <2>9, <2>10, <2>11, <2>12 DEF
       Work
<1>3. ASSUME NEW q \in {"stop", "reset", "status"}, CheckAsked(q) \/ CondemnAsked(q)
      PROVE  StopStays'
  <2>1. CASE CheckAsked(q)
    BY <2>1 DEF CheckAsked, Ask, Judge
  <2>2. CASE CondemnAsked(q)
    BY <2>2 DEF CondemnAsked, Ask, Condemned
  <2> QED
    BY <1>3, <2>1, <2>2
<1>4. CASE RequestStop \/ Reset \/ Silence
  <2>1. CASE RequestStop
    BY <2>1 DEF RequestStop, Ask
  <2>2. CASE Reset
    BY <2>2 DEF Reset, Ask, Absent
  <2>3. CASE Silence
    BY <2>3 DEF Silence
  <2> QED
    BY <1>4, <2>1, <2>2, <2>3
<1>5. ASSUME NEW f \in 1 .. Files, ReplaceFile(f)
      PROVE  StopStays'
  <2>1. CASE ReplaceFile(f)
    BY <2>1 DEF ReplaceFile
  <2> QED
    BY <1>5, <2>1
<1>6. CASE UNCHANGED vars
  BY <1>6 DEF vars
<1> QED
  BY <1>1, <1>2, <1>3, <1>4, <1>5, <1>6 DEF Next

\* Who finds the record claimed leaves it alone.
LEMMA OwnedStep ==
    ASSUME Shape, RecordOwned, [Next]_vars
    PROVE  RecordOwned'
<1> USE DEF Shape, DataTypes, RunTypes, SentFirst, FileInHand, Acting, requestVars,
   runVars, history
<1>1. ASSUME NEW r \in Runs, Start(r)
      PROVE  RecordOwned'
  <2>1. CASE CheckStart(r)
    <3> SUFFICES ASSUME ~Adj, ~misjudged', ~crossed', NEW s \in Runs, Pending(s)'
          PROVE  Owned(s)'
      BY DEF RecordOwned
    <3>1. ~misjudged /\ ~crossed /\ ~(Dead("start") /\ \E t \in Runs : Pending(t))
      BY <2>1 DEF CheckStart, Judge, Request
    <3>2. Pending(s)
      BY <2>1 DEF CheckStart, Request, Pending
    <3>3. Owned(s)
      BY <3>1, <3>2 DEF RecordOwned
    <3>4. starter' = [starter EXCEPT ![r] = "refused"] /\ UNCHANGED <<record, run, asker>>
      BY <2>1, <3>1, <3>2, <3>3 DEF CheckStart, Request, Owned
    <3> QED
      BY <3>3, <3>4 DEF Owned, Pending, Claimed
  <2>2. CASE CondemnAtStart(r)
    <3> SUFFICES ASSUME ~Adj, ~misjudged', ~crossed', NEW s \in Runs, Pending(s)'
          PROVE  Owned(s)'
      BY DEF RecordOwned
    <3>1. ~misjudged /\ ~crossed /\ Pending(s)
      BY <2>2 DEF CondemnAtStart, Request, Pending
    <3>2. Owned(s)
      BY <3>1 DEF RecordOwned
    <3>3. r = s
      BY <2>2, <3>2 DEF CondemnAtStart, Request, Owned
    <3>4. run[r] # "absent" /\ starter[r] = "condemning"
      BY <2>2, <3>1, <3>3 DEF CondemnAtStart, Request, Pending, AtWork
    <3> QED
      BY <3>4
  <2>3. CASE Reserve(r)
    <3> SUFFICES ASSUME ~Adj, ~misjudged', ~crossed', NEW s \in Runs, Pending(s)'
          PROVE  Owned(s)'
      BY DEF RecordOwned
    <3>1. ~misjudged /\ ~crossed /\ ~Crossing /\ starter[r] = "admitted"
      BY <2>3 DEF Reserve, Request
    <3>2. ASSUME NEW t \in Runs, Pending(t)
          PROVE  FALSE
      <4>1. Owned(t)
        BY <3>1, <3>2 DEF RecordOwned
      <4>2. t = r
        BY <3>1, <4>1 DEF Owned
      <4> QED
        BY <3>1, <3>2, <4>2 DEF Pending, AtWork
    <3>3. s = r
      BY <2>3, <3>2 DEF Reserve, Request, Pending
    <3>4. \A t \in Runs \ {r} : ~Pending(t)' /\ starter'[t] \notin Acting
      BY <2>3, <3>1, <3>2 DEF Reserve, Request, Pending, Crossing
    <3>5. Claimed' /\ UNCHANGED asker
      BY <2>3 DEF Reserve, Claimed
    <3> QED
      BY <3>1, <3>3, <3>4, <3>5 DEF Owned, Crossing
  <2>4. CASE Send(r)
    <3> SUFFICES ASSUME ~Adj, ~misjudged', ~crossed', NEW s \in Runs, Pending(s)'
          PROVE  Owned(s)'
      BY DEF RecordOwned
    <3>1. ~misjudged /\ ~crossed /\ Pending(r)
      BY <2>4 DEF Send, Request, Pending
    <3>2. Owned(r)
      BY <3>1 DEF RecordOwned
    <3>3. s = r
      BY <2>4, <3>2 DEF Send, Request, Pending, Owned
    <3> QED
      BY <2>4, <3>2, <3>3 DEF Send, Request, Pending, Owned, Claimed
  <2> QED
    BY <1>1, <2>1, <2>2, <2>3, <2>4 DEF Start
<1>2. ASSUME NEW r \in Runs, Work(r) \/ Kill(r)
      PROVE  RecordOwned'
  <2>1. CASE Announce(r)
    BY <2>1 DEF Announce, Go, Report, RecordOwned, Owned, Pending, Claimed, Dead, Alive,
       Crossing, AtWork
  <2>2. CASE ClearStop(r)
    BY <2>2 DEF ClearStop, Go, RecordOwned, Owned, Pending, Claimed, Dead, Alive,
       Crossing, AtWork
  <2>3. CASE PollTop(r)
    BY <2>3 DEF PollTop, Go, RecordOwned, Owned, Pending, Claimed, Dead, Alive, Crossing,
       AtWork
  <2>4. CASE CheckIncremental(r)
    BY <2>4 DEF CheckIncremental, Go, NextFile, Beat, RecordOwned, Owned, Pending,
       Claimed, Dead, Alive, Crossing, AtWork
  <2>5. CASE Open(r)
    BY <2>5 DEF Open, Go, RecordOwned, Owned, Pending, Claimed, Dead, Alive, Crossing,
       AtWork
  <2>6. CASE PollPart(r)
    BY <2>6 DEF PollPart, Go, RecordOwned, Owned, Pending, Claimed, Dead, Alive, Crossing,
       AtWork
  <2>7. CASE WritePart(r)
    BY <2>7 DEF WritePart, Go, Beat, RecordOwned, Owned, Pending, Claimed, Dead, Alive,
       Crossing, AtWork
  <2>8. CASE FailFile(r)
    BY <2>8 DEF FailFile, Go, NextFile, Beat, RecordOwned, Owned, Pending, Claimed, Dead,
       Alive, Crossing, AtWork
  <2>9. CASE Mark(r)
    BY <2>9 DEF Mark, Go, NextFile, Beat, RecordOwned, Owned, Pending, Claimed, Dead,
       Alive, Crossing, AtWork
  <2>10. CASE ReportStopped(r)
    <3> SUFFICES ASSUME ~Adj, ~misjudged', ~crossed', NEW s \in Runs, Pending(s)'
          PROVE  Owned(s)'
      BY DEF RecordOwned
    <3>1. ~misjudged /\ ~crossed /\ Pending(r)
      BY <2>10 DEF ReportStopped, Go, Pending, AtWork
    <3>2. Owned(r)
      BY <3>1 DEF RecordOwned
    <3>3. s # r /\ Pending(s)
      BY <2>10 DEF ReportStopped, Go, Pending, AtWork
    <3> QED
      BY <3>2, <3>3 DEF Owned
  <2>11. CASE ReportCompleted(r)
    <3> SUFFICES ASSUME ~Adj, ~misjudged', ~crossed', NEW s \in Runs, Pending(s)'
          PROVE  Owned(s)'
      BY DEF RecordOwned
    <3>1. ~misjudged /\ ~crossed /\ Pending(r)
      BY <2>11 DEF ReportCompleted, Go, Pending, AtWork
    <3>2. Owned(r)
      BY <3>1 DEF RecordOwned
    <3>3. s # r /\ Pending(s)
      BY <2>11 DEF ReportCompleted, Go, Pending, AtWork
    <3> QED
      BY <3>2, <3>3 DEF Owned
  <2>12. CASE Kill(r)
    BY <2>12 DEF Kill, RecordOwned, Owned, Pending, Claimed, Dead, Alive, Crossing, AtWork
  <2> QED
    BY <1>2, <2>1, <2>2, <2>3, <2>4, <2>5, <2>6, <2>7, <2>8, <2>9, <2>10, <2>11, <2>12 DEF
       Work
<1>3. ASSUME NEW q \in {"stop", "reset", "status"}, CheckAsked(q) \/ CondemnAsked(q)
      PROVE  RecordOwned'
  <2>1. CASE CheckAsked(q)
    <3> SUFFICES ASSUME ~Adj, ~misjudged', ~crossed', NEW s \in Runs, Pending(s)'
          PROVE  Owned(s)'
      BY DEF RecordOwned
    <3>1. ~misjudged /\ ~crossed /\ ~(Dead(q) /\ \E t \in Runs : Pending(t))
      BY <2>1 DEF CheckAsked, Judge, Ask
    <3>2. Pending(s)
      BY <2>1 DEF CheckAsked, Pending
    <3>3. Owned(s)
      BY <3>1, <3>2 DEF RecordOwned
    <3>4. ~Dead(q) /\ Alive(q)
      BY <3>1, <3>2, <3>3 DEF Owned, Dead, Alive, Patience, Records, Ages
    <3>5. q = "stop" /\ asker' = [asker EXCEPT ![q] = "acting"]
      BY <2>1, <3>4 DEF CheckAsked, Ask
    <3>6. UNCHANGED <<record, run, starter>>
      BY <2>1 DEF CheckAsked
    <3> QED
      BY <3>3, <3>5, <3>6 DEF Owned, Pending, Claimed
  <2>2. CASE CondemnAsked(q)
    BY <2>2 DEF CondemnAsked, Ask, Condemned, RecordOwned, Owned, Pending, Claimed, Dead,
       Alive, Crossing, AtWork
  <2> QED
    BY <1>3, <2>1, <2>2
<1>4. CASE RequestStop \/ Reset \/ Silence
  <2>1. CASE RequestStop
    BY <2>1 DEF RequestStop, Ask, RecordOwned, Owned, Pending, Claimed, Dead, Alive,
       Crossing, AtWork
  <2>2. CASE Reset
    BY <2>2 DEF Reset, Ask, Absent, RecordOwned, Owned, Pending, Claimed, Dead, Alive,
       Crossing, AtWork
  <2>3. CASE Silence
    BY <2>3 DEF Silence, RecordOwned, Owned, Pending, Claimed, Dead, Alive, Crossing, AtWork
  <2> QED
    BY <1>4, <2>1, <2>2, <2>3
<1>5. ASSUME NEW f \in 1 .. Files, ReplaceFile(f)
      PROVE  RecordOwned'
  <2>1. CASE ReplaceFile(f)
    BY <2>1 DEF ReplaceFile, RecordOwned, Owned, Pending, Claimed, Dead, Alive, Crossing,
       AtWork
  <2> QED
    BY <1>5, <2>1
<1>6. CASE UNCHANGED vars
  BY <1>6 DEF vars, RecordOwned, Owned, Pending, Claimed
<1> QED
  BY <1>1, <1>2, <1>3, <1>4, <1>5, <1>6 DEF Next

\* Two runs at work need a misjudgement or a crossing before.
LEMMA ExclusionStep ==
    ASSUME ~Adj, Shape, RecordOwned, OverlapNeedsSilence, [Next]_vars
    PROVE  OverlapNeedsSilence'
<1> USE DEF Shape, DataTypes, RunTypes, SentFirst, FileInHand, RecordOwned, Owned,
   OverlapNeedsSilence, Pending, Claimed, AtWork, requestVars, runVars, history
<1>1. ASSUME NEW r \in Runs, Start(r)
      PROVE  OverlapNeedsSilence'
  <2>1. CASE CheckStart(r)
    BY <2>1 DEF CheckStart, Request, Judge
  <2>2. CASE CondemnAtStart(r)
    BY <2>2 DEF CondemnAtStart, Request, Condemned
  <2>3. CASE Reserve(r)
    BY <2>3 DEF Reserve, Request
  <2>4. CASE Send(r)
    BY <2>4 DEF Send, Request
  <2> QED
    BY <1>1, <2>1, <2>2, <2>3, <2>4 DEF Start
<1>2. ASSUME NEW r \in Runs, Work(r) \/ Kill(r)
      PROVE  OverlapNeedsSilence'
  <2>1. CASE Announce(r)
    BY <2>1 DEF Announce, Go, Report
  <2>2. CASE ClearStop(r)
    BY <2>2 DEF ClearStop, Go
  <2>3. CASE PollTop(r)
    BY <2>3 DEF PollTop, Go
  <2>4. CASE CheckIncremental(r)
    BY <2>4 DEF CheckIncremental, Go, NextFile, Beat
  <2>5. CASE Open(r)
    BY <2>5 DEF Open, Go
  <2>6. CASE PollPart(r)
    BY <2>6 DEF PollPart, Go
  <2>7. CASE WritePart(r)
    BY <2>7 DEF WritePart, Go, Beat
  <2>8. CASE FailFile(r)
    BY <2>8 DEF FailFile, Go, NextFile, Beat
  <2>9. CASE Mark(r)
    BY <2>9 DEF Mark, Go, NextFile, Beat
  <2>10. CASE ReportStopped(r)
    BY <2>10 DEF ReportStopped, Go, Report
  <2>11. CASE ReportCompleted(r)
    BY <2>11 DEF ReportCompleted, Go, Report
  <2>12. CASE Kill(r)
    BY <2>12 DEF Kill
  <2> QED
    BY <1>2, <2>1, <2>2, <2>3, <2>4, <2>5, <2>6, <2>7, <2>8, <2>9, <2>10, <2>11, <2>12 DEF
       Work
<1>3. ASSUME NEW q \in {"stop", "reset", "status"}, CheckAsked(q) \/ CondemnAsked(q)
      PROVE  OverlapNeedsSilence'
  <2>1. CASE CheckAsked(q)
    BY <2>1 DEF CheckAsked, Ask, Judge
  <2>2. CASE CondemnAsked(q)
    BY <2>2 DEF CondemnAsked, Ask, Condemned
  <2> QED
    BY <1>3, <2>1, <2>2
<1>4. CASE RequestStop \/ Reset \/ Silence
  <2>1. CASE RequestStop
    BY <2>1 DEF RequestStop, Ask
  <2>2. CASE Reset
    BY <2>2 DEF Reset, Ask, Absent
  <2>3. CASE Silence
    BY <2>3 DEF Silence
  <2> QED
    BY <1>4, <2>1, <2>2, <2>3
<1>5. ASSUME NEW f \in 1 .. Files, ReplaceFile(f)
      PROVE  OverlapNeedsSilence'
  <2>1. CASE ReplaceFile(f)
    BY <2>1 DEF ReplaceFile
  <2> QED
    BY <1>5, <2>1
<1>6. CASE UNCHANGED vars
  BY <1>6 DEF vars
<1> QED
  BY <1>1, <1>2, <1>3, <1>4, <1>5, <1>6 DEF Next
-----------------------------------------------------------------------------
\* Before the first request nothing is locked, marked or reported.
LEMMA InitHolds == Init => IInv
<1> SUFFICES ASSUME Init PROVE IInv
  OBVIOUS
<1> USE LocalImportAssumption DEF Init
<1>1. DataTypes
  BY DEF DataTypes, Records, Absent, Statuses, Ages
<1>2. RunTypes
  BY DEF RunTypes
<1>3. Flags
  BY DEF Flags
<1>4. SentFirst /\ FileInHand /\ VersionsKnown /\ HeldIsStored
  BY DEF SentFirst, FileInHand, VersionsKnown, HeldIsStored
<1>5. MarkedMeansWritten /\ OneAtWork /\ StopStays
  BY DEF MarkedMeansWritten, OneAtWork, StopStays, AtWork
<1>6. RecordOwned /\ OverlapNeedsSilence
  BY DEF RecordOwned, OverlapNeedsSilence, Pending, AtWork
<1> QED
  BY <1>1, <1>2, <1>3, <1>4, <1>5, <1>6 DEF IInv, Shape

\* The invariant holds in every reachable state.
THEOREM Invariance == Spec => []IInv
<1>1. IInv /\ [Next]_vars => IInv'
  BY FlagsStep, RunTypesStep, FileInHandStep, SentStep, DataTypesStep, VersionsStep,
     StoredStep, MarkedStep, WorkStep, StopStep, OwnedStep, ExclusionStep
     DEF IInv, Shape
<1> QED
  BY InitHolds, <1>1, PTL DEF Spec

\* Variables keep to their values: no run goes past the archives and blocks there are.
THEOREM TypeCorrect == Spec => []TypeOK
<1>1. IInv => TypeOK
  BY DEF IInv, Shape, DataTypes, RunTypes, Flags, Records, TypeOK
<1> QED
  BY Invariance, <1>1, PTL

\* An archive that check_incremental will skip has all its rows in the database, K lines
\* those of that version or a newer one, factors one under each key, but for one that
\* was replaced while a run was reading the version before.
THEOREM MarksAreTrue == Spec => []MarkedMeansWritten
<1>1. IInv => MarkedMeansWritten
  BY DEF IInv
<1> QED
  BY Invariance, <1>1, PTL

\* K-line imports overlap only after a live one was condemned, or two requests acted on
\* what they had both found before.
THEOREM ExclusionUnlessMisjudged ==
    ASSUME ~Adj
    PROVE  Spec => []OverlapNeedsSilence
<1>1. IInv => OverlapNeedsSilence
  BY DEF IInv
<1> QED
  BY Invariance, <1>1, PTL

\* An accepted stop that is not taken away costs one more block at most.
THEOREM PromptStop == Spec => []StopObeyed
<1>1. IInv => StopObeyed
  BY DEF IInv, StopStays, StopObeyed
<1> QED
  BY Invariance, <1>1, PTL
=============================================================================
