-------------------------- MODULE BackupJobsProofs --------------------------
(***************************************************************************)
(* Proofs about BackupJobs: for any number of backups and jobs, however    *)
(* often steps fail and the backend restarts.  The worker comes first: it  *)
(* has one job, and its steps follow each other as the handlers await      *)
(* them.  The rows and the temporary files are proved on top of that.      *)
(***************************************************************************)
EXTENDS BackupJobs, SequenceTheorems, TLAPS

-----------------------------------------------------------------------------
(* The worker.                                                              *)

StepName == {"find", "start", "prepare", "pack", "stat", "upload", "save", "clean", "download", "failed", "tidy"}
LastStep == {"clean", "download", "tidy"}

\* The step t comes after the step s in a handler.
Follows(s, t) ==
  \/ s = "find"    /\ t \in {"start", "download"}
  \/ s = "start"   /\ t = "prepare"
  \/ s = "prepare" /\ t = "pack"
  \/ s = "pack"    /\ t = "stat"
  \/ s = "stat"    /\ t = "upload"
  \/ s = "upload"  /\ t = "save"
  \/ s = "save"    /\ t = "clean"
  \/ s = "failed"  /\ t = "tidy"

Ordered(steps) ==
  /\ steps \in Seq(StepName)
  /\ \A i \in 1 .. Len(steps) - 1 : Follows(steps[i], steps[i + 1])
  /\ steps # <<>> => steps[Len(steps)] \in LastStep

Kind  == {"none", "create", "restore"}
State == {"unused", "waiting", "active", "delayed", "completed", "failed"}
Entry == [backup : Backup \cup {"none"}, kind : Kind, state : State, failed : Nat, stalled : 0 .. 1]

\* A job that may still run has an attempt left.
Counted(w) ==
  /\ w.failed \in 0 .. Attempts
  /\ w.state \in {"waiting", "active", "delayed"} =>
       w.failed < Attempts /\ w.kind \in {"create", "restore"} /\ w.backup \in Backup

OneActive == \A i, j \in Active : i = j

\* A job of the backup may still run.
Queued(b) == \E j \in Job : job[j].state \in {"waiting", "active", "delayed"} /\ job[j].backup = b

WorkerInv ==
  /\ job \in [Job -> Entry]
  /\ \A j \in Job : Counted(job[j])
  /\ OneActive
  /\ Ordered(todo)
  /\ (todo = <<>>) <=> (Active = {})

-----------------------------------------------------------------------------
LEMMA Constants ==
  Attempts \in Nat \ {0} /\ Base \in Seq(STRING) /\ Full \subseteq Backup
BY BoundAssumption, BaseAssumption, FullAssumption

\* What the worker starts with, and what is left after a failure, are in order.
LEMMA StepsOrdered ==
  /\ Ordered(<<>>) /\ Ordered(<<"failed", "tidy">>)
  /\ \A kind \in {"create", "restore"} :
       Ordered(Steps(kind)) /\ Steps(kind) # <<>> /\ Head(Steps(kind)) = "find"
<1>1. Ordered(<<>>)
  BY DEF Ordered
<1>2. Ordered(<<"failed", "tidy">>)
  BY DEF Ordered, StepName, LastStep, Follows
<1>3. /\ Ordered(Steps("restore")) /\ Steps("restore") # <<>> /\ Head(Steps("restore")) = "find"
  BY DEF Ordered, Steps, StepName, LastStep, Follows
<1>4. /\ Ordered(Steps("create")) /\ Steps("create") # <<>> /\ Head(Steps("create")) = "find"
  <2> DEFINE s == <<"find", "start", "prepare", "pack", "stat", "upload", "save", "clean">>
  <2>1. Steps("create") = s
    BY DEF Steps
  <2>2. /\ Len(s) = 8 /\ s[1] = "find" /\ s[2] = "start" /\ s[3] = "prepare" /\ s[4] = "pack"
        /\ s[5] = "stat" /\ s[6] = "upload" /\ s[7] = "save" /\ s[8] = "clean"
    OBVIOUS
  <2>3. s \in Seq(StepName) /\ s # <<>> /\ Head(s) = "find"
    BY DEF StepName
  <2> HIDE DEF s
  <2>4. \A i \in 1 .. 7 : Follows(s[i], s[i + 1])
    <3>1. ASSUME NEW i \in 1 .. 7 PROVE Follows(s[i], s[i + 1])
      <4>1. i = 1 \/ i = 2 \/ i = 3 \/ i = 4 \/ i = 5 \/ i = 6 \/ i = 7
        OBVIOUS
      <4> QED BY <2>2, <4>1 DEF Follows
    <3> QED BY <3>1
  <2>5. Len(s) - 1 = 7 /\ s[Len(s)] \in LastStep
    BY <2>2 DEF LastStep
  <2> QED BY <2>1, <2>3, <2>4, <2>5 DEF Ordered
<1> QED BY <1>1, <1>2, <1>3, <1>4

\* The worker goes on to the step that follows, if there is one.
LEMMA TailOrdered ==
  ASSUME NEW s, Ordered(s), s # <<>>
  PROVE  /\ Ordered(Tail(s)) /\ Head(s) \in StepName
         /\ Head(s) \notin LastStep => Tail(s) # <<>> /\ Follows(Head(s), Head(Tail(s)))
         /\ Head(s) \in LastStep => Tail(s) = <<>>
<1>1. s \in Seq(StepName) /\ Len(s) \in Nat \ {0} /\ Head(s) = s[1] /\ Head(s) \in StepName
  BY DEF Ordered
<1>2. /\ Tail(s) \in Seq(StepName) /\ Len(Tail(s)) = Len(s) - 1
      /\ \A i \in 1 .. Len(s) - 1 : Tail(s)[i] = s[i + 1]
  BY <1>1, HeadTailProperties
<1>3. Ordered(Tail(s))
  BY <1>1, <1>2 DEF Ordered
<1>4. /\ Len(s) # 1 => 1 \in 1 .. Len(s) - 1 /\ Len(Tail(s)) # 0 /\ Tail(s)[1] = s[2]
      /\ Len(s) = 1 => Len(Tail(s)) = 0 /\ s[1] \in LastStep
      /\ (Tail(s) = <<>>) <=> (Len(Tail(s)) = 0)
  <2>1. Len(s) = 1 => s[1] \in LastStep
    BY DEF Ordered
  <2>2. (Tail(s) = <<>>) <=> (Len(Tail(s)) = 0)
    BY <1>2, EmptySeq
  <2>3. Len(s) # 1 => 1 \in 1 .. Len(s) - 1
    <3>1. \A n \in Nat \ {0} : n # 1 => 1 \in 1 .. n - 1
      OBVIOUS
    <3> QED BY <1>1, <3>1
  <2> QED BY <1>1, <1>2, <2>1, <2>2, <2>3
<1>5. Len(s) # 1 => Follows(s[1], s[2])
  BY <1>4 DEF Ordered
<1>6. ASSUME Head(s) \notin LastStep PROVE Tail(s) # <<>> /\ Follows(Head(s), Head(Tail(s)))
  BY <1>1, <1>4, <1>5, <1>6
<1>7. ASSUME Head(s) \in LastStep PROVE Tail(s) = <<>>
  <2>1. ~Follows(s[1], s[2])
    BY <1>1, <1>7 DEF Follows, LastStep
  <2> QED BY <1>4, <1>5, <2>1
<1> QED BY <1>1, <1>3, <1>6, <1>7

-----------------------------------------------------------------------------
(* What each step does to the queue and to the worker.                      *)

\* The worker goes on with the job it has.
LEMMA AdvanceFields ==
  ASSUME WorkerInv, NEW s, At(s), s \notin LastStep, Advance, UNCHANGED job
  PROVE  WorkerInv' /\ todo' # <<>> /\ Follows(s, Head(todo'))
         /\ \A c : (Working(c)' <=> Working(c)) /\ (Queued(c)' => Queued(c))
<1>1. Ordered(todo) /\ todo # <<>> /\ todo' = Tail(todo) /\ Head(todo) = s
  BY DEF WorkerInv, At, Advance
<1>2. Ordered(todo') /\ todo' # <<>> /\ Follows(s, Head(todo'))
  BY <1>1, TailOrdered
<1>3. Active' = Active /\ \A c : (Working(c)' <=> Working(c)) /\ (Queued(c)' => Queued(c))
  BY DEF Active, Working, Queued
<1> QED BY <1>1, <1>2, <1>3 DEF WorkerInv, OneActive

\* The worker goes on to what is left after a failure.
LEMMA CaughtFields ==
  ASSUME WorkerInv, todo # <<>>, todo' = <<"failed", "tidy">>, UNCHANGED job
  PROVE  WorkerInv' /\ todo' # <<>> /\ Head(todo') = "failed"
         /\ \A c : (Working(c)' <=> Working(c)) /\ (Queued(c)' => Queued(c))
<1>1. Ordered(todo') /\ todo' # <<>> /\ Head(todo') = "failed"
  BY StepsOrdered
<1>2. Active' = Active /\ \A c : (Working(c)' <=> Working(c)) /\ (Queued(c)' => Queued(c))
  BY DEF Active, Working, Queued
<1> QED BY <1>1, <1>2 DEF WorkerInv, OneActive

\* A job that throws leaves the worker without one.
LEMMA ThrowsFields ==
  ASSUME WorkerInv, Throws
  PROVE  WorkerInv' /\ todo' = <<>> /\ \A c : ~Working(c)' /\ (Queued(c)' => Queued(c))
<1> DEFINE thrown(w) == [w EXCEPT !.failed = w.failed + 1,
             !.state = IF w.kind = "create" /\ w.failed + 1 < Attempts THEN "delayed" ELSE "failed"]
<1>1. /\ todo' = <<>> /\ job \in [Job -> Entry]
      /\ job' = [j \in Job |-> IF j \notin Active THEN job[j] ELSE thrown(job[j])]
  BY DEF Throws, WorkerInv
<1>2. ASSUME NEW w \in Entry, Counted(w), w.state = "active"
      PROVE  /\ thrown(w) \in Entry /\ Counted(thrown(w)) /\ thrown(w).state # "active"
             /\ thrown(w).backup = w.backup
  <2>1. w.failed \in Nat /\ w.failed + 1 \in 0 .. Attempts /\ w.failed + 1 \in Nat
    BY <1>2, Constants DEF Counted, Entry
  <2>2. CASE w.kind = "create" /\ w.failed + 1 < Attempts
    <3>1. thrown(w) = [w EXCEPT !.failed = w.failed + 1, !.state = "delayed"]
      BY <2>2
    <3> QED BY <1>2, <2>1, <2>2, <3>1 DEF Entry, State, Counted
  <2>3. CASE ~(w.kind = "create" /\ w.failed + 1 < Attempts)
    <3>1. thrown(w) = [w EXCEPT !.failed = w.failed + 1, !.state = "failed"]
      BY <2>3
    <3> QED BY <1>2, <2>1, <3>1 DEF Entry, State, Counted
  <2> QED BY <2>2, <2>3
<1> HIDE DEF thrown
<1>3. ASSUME NEW j \in Job
      PROVE  /\ job'[j] \in Entry /\ Counted(job'[j]) /\ job'[j].state # "active"
             /\ job'[j] = job[j] \/ (job[j].state = "active" /\ job'[j].backup = job[j].backup)
  <2>1. CASE j \in Active
    BY <1>1, <1>2, <2>1 DEF Active, WorkerInv
  <2>2. CASE j \notin Active
    BY <1>1, <2>2 DEF Active, WorkerInv
  <2> QED BY <2>1, <2>2
<1>4. job' \in [Job -> Entry] /\ Active' = {} /\ \A c : ~Working(c)' /\ (Queued(c)' => Queued(c))
  BY <1>1, <1>3 DEF Active, Working, Queued
<1> QED BY <1>1, <1>3, <1>4, StepsOrdered DEF WorkerInv, OneActive

\* A job is added to the queue, taken from it, or waits again.
LEMMA JobFields ==
  ASSUME WorkerInv, NEW j \in Job, NEW w \in Entry, Counted(w), w.state # "active",
         job' = [job EXCEPT ![j] = w], UNCHANGED todo, j \notin Active
  PROVE  /\ WorkerInv'
         /\ \A c : (Working(c)' <=> Working(c)) /\ (Queued(c)' => Queued(c) \/ c = w.backup)
<1>1. job' \in [Job -> Entry] /\ \A i \in Job : job'[i] = IF i = j THEN w ELSE job[i]
  BY DEF WorkerInv
<1>2. Active' = Active /\ \A c : (Working(c)' <=> Working(c)) /\ (Queued(c)' => Queued(c) \/ c = w.backup)
  BY <1>1 DEF Active, Working, Queued
<1> QED BY <1>1, <1>2 DEF WorkerInv, OneActive

LEMMA EnqueueFields ==
  ASSUME WorkerInv, NEW b \in Backup, NEW kind \in {"create", "restore"}, Enqueue(b, kind), UNCHANGED todo
  PROVE  WorkerInv' /\ \A c : (Working(c)' <=> Working(c)) /\ (Queued(c)' => Queued(c) \/ c = b)
<1>1. PICK j \in Job : /\ job[j] = Unused
        /\ job' = [job EXCEPT ![j] = [Unused EXCEPT !.backup = b, !.kind = kind, !.state = "waiting"]]
  BY DEF Enqueue
<1> DEFINE w == [Unused EXCEPT !.backup = b, !.kind = kind, !.state = "waiting"]
<1>2. w \in Entry /\ Counted(w) /\ w.state # "active" /\ w.backup = b
  <2>1. Unused \in Entry /\ Unused.failed = 0 /\ Unused.stalled = 0
    BY DEF Unused, Entry, Kind, State
  <2>2. \A u \in Entry : LET x == [u EXCEPT !.backup = b, !.kind = kind, !.state = "waiting"] IN
          /\ x \in Entry /\ x.backup = b /\ x.kind = kind /\ x.state = "waiting" /\ x.failed = u.failed
    BY DEF Entry, Kind, State
  <2>3. w \in Entry /\ w.backup = b /\ w.kind = kind /\ w.state = "waiting" /\ w.failed = 0
    BY <2>1, <2>2
  <2>4. 0 \in 0 .. Attempts /\ 0 < Attempts
    BY Constants
  <2> HIDE DEF w
  <2> QED BY <2>3, <2>4 DEF Counted
<1>3. j \notin Active
  BY <1>1 DEF Active, Unused
<1> QED BY <1>1, <1>2, <1>3, JobFields

LEMMA BackoffFields ==
  ASSUME WorkerInv, NEW j \in Job, Backoff(j)
  PROVE  WorkerInv' /\ \A c : (Working(c)' <=> Working(c)) /\ (Queued(c)' => Queued(c))
<1> DEFINE w == [job[j] EXCEPT !.state = "waiting"]
<1>1. job[j].state = "delayed" /\ job' = [job EXCEPT ![j] = w] /\ UNCHANGED todo
  BY DEF Backoff
<1>2. job[j] \in Entry /\ Counted(job[j])
  BY DEF WorkerInv
<1>3. w \in Entry /\ Counted(w) /\ w.state # "active" /\ w.backup = job[j].backup
  BY <1>1, <1>2 DEF Entry, State, Counted
<1>4. j \notin Active /\ Queued(job[j].backup)
  BY <1>1 DEF Active, Queued
<1> QED BY <1>1, <1>3, <1>4, JobFields

LEMMA TakeJobFields ==
  ASSUME WorkerInv, NEW j \in Job, TakeJob(j)
  PROVE  WorkerInv' /\ todo' # <<>> /\ Head(todo') = "find" /\ \A c : ~Working(c) /\ (Queued(c)' => Queued(c))
<1> DEFINE w == [job[j] EXCEPT !.state = "active"]
<1>1. /\ job[j].state = "waiting" /\ Active = {} /\ job' = [job EXCEPT ![j] = w]
      /\ todo' = Steps(job[j].kind)
  BY DEF TakeJob
<1>2. job[j] \in Entry /\ Counted(job[j]) /\ job[j].kind \in {"create", "restore"}
  BY <1>1 DEF WorkerInv, Counted
<1>3. Ordered(todo') /\ todo' # <<>> /\ Head(todo') = "find"
  BY <1>1, <1>2, StepsOrdered
<1>4. w \in Entry /\ Counted(w) /\ w.state = "active" /\ w.backup = job[j].backup
  BY <1>1, <1>2 DEF Entry, State, Counted
<1>5. job' \in [Job -> Entry] /\ \A i \in Job : job'[i] = IF i = j THEN w ELSE job[i]
  BY <1>1, <1>4 DEF WorkerInv
<1>6. Active' = {j}
  BY <1>1, <1>4, <1>5 DEF Active
<1>7. \A c : ~Working(c) /\ (Queued(c)' => Queued(c))
  BY <1>1, <1>4, <1>5 DEF Working, Queued
<1> QED BY <1>3, <1>4, <1>5, <1>6, <1>7 DEF WorkerInv, OneActive

LEMMA CleanFields ==
  ASSUME WorkerInv, NEW b \in Backup, Clean(b)
  PROVE  WorkerInv' /\ todo' = <<>> /\ \A c : ~Working(c)' /\ (Queued(c)' => Queued(c))
<1> DEFINE done(w) == [w EXCEPT !.state = "completed"]
<1>1. /\ todo # <<>> /\ Head(todo) = "clean" /\ todo' = Tail(todo) /\ job \in [Job -> Entry]
      /\ job' = [j \in Job |-> IF j \in Active THEN done(job[j]) ELSE job[j]]
  BY DEF Clean, At, Advance, WorkerInv
<1>2. Ordered(todo') /\ todo' = <<>>
  BY <1>1, TailOrdered DEF WorkerInv, LastStep
<1>3. ASSUME NEW w \in Entry, Counted(w)
      PROVE  /\ done(w) \in Entry /\ Counted(done(w)) /\ done(w).state # "active"
             /\ done(w).backup = w.backup
  BY <1>3 DEF Entry, State, Counted
<1> HIDE DEF done
<1>4. ASSUME NEW j \in Job
      PROVE  /\ job'[j] \in Entry /\ Counted(job'[j]) /\ job'[j].state # "active"
             /\ job'[j] = job[j] \/ (job[j].state = "active" /\ job'[j].backup = job[j].backup)
  BY <1>1, <1>3 DEF WorkerInv, Active
<1>5. job' \in [Job -> Entry] /\ Active' = {} /\ \A c : ~Working(c)' /\ (Queued(c)' => Queued(c))
  BY <1>1, <1>4 DEF Active, Working, Queued
<1> QED BY <1>2, <1>4, <1>5 DEF WorkerInv, OneActive

LEMMA RestartFields ==
  ASSUME WorkerInv, Restart
  PROVE  WorkerInv' /\ todo' = <<>> /\ \A c : ~Working(c)' /\ (Queued(c)' => Queued(c))
<1>1. /\ todo' = <<>> /\ job \in [Job -> Entry]
      /\ job' = [j \in Job |-> IF j \in Active THEN Stalled(job[j]) ELSE job[j]]
  BY DEF Restart, WorkerInv
<1>2. ASSUME NEW w \in Entry, Counted(w), w.state = "active"
      PROVE  /\ Stalled(w) \in Entry /\ Counted(Stalled(w)) /\ Stalled(w).state # "active"
             /\ Stalled(w).backup = w.backup
  <2>1. PICK next \in {"waiting", "failed"} : Stalled(w) = [w EXCEPT !.state = next, !.stalled = 1]
    BY DEF Stalled
  <2>2. Stalled(w) = [backup |-> w.backup, kind |-> w.kind, state |-> next, failed |-> w.failed, stalled |-> 1]
    BY <1>2, <2>1 DEF Entry
  <2>3. 1 \in 0 .. 1 /\ next \in State /\ next # "active"
    BY DEF State
  <2>4. Stalled(w) \in Entry
    BY <1>2, <2>2, <2>3 DEF Entry
  <2> QED BY <1>2, <2>2, <2>3, <2>4 DEF Counted
<1>3. ASSUME NEW j \in Job
      PROVE  /\ job'[j] \in Entry /\ Counted(job'[j]) /\ job'[j].state # "active"
             /\ job'[j] = job[j] \/ (job[j].state = "active" /\ job'[j].backup = job[j].backup)
  BY <1>1, <1>2 DEF WorkerInv, Active
<1>4. job' \in [Job -> Entry] /\ Active' = {} /\ \A c : ~Working(c)' /\ (Queued(c)' => Queued(c))
  BY <1>1, <1>3 DEF Active, Working, Queued
<1> QED BY <1>1, <1>3, <1>4, StepsOrdered DEF WorkerInv, OneActive

-----------------------------------------------------------------------------
(* The rows and the archives.                                               *)

Status == {"none", "PENDING", "IN_PROGRESS", "COMPLETED", "FAILED"}

Known(b)   == Row(b) \/ b \in removed
MidStep(b) == Working(b) /\ todo # <<>> /\ Head(todo) \in {"prepare", "pack", "stat", "upload", "save"}
AtSave(b)  == Working(b) /\ todo # <<>> /\ Head(todo) = "save"

\* The path of a row is that of an archive of one of its own attempts.
PathsKnown == \A b \in Backup : path[b] = NoPath \/ \E n \in 1 .. attempt[b] : path[b] = Base \o <<b, n>>

\* A backup with a job, or with a request under way, has a row or had one.
JobsKnown ==
  /\ pending \subseteq {"create", "delete"} \X Backup
  /\ \A b \in Backup : Queued(b) \/ <<"create", b>> \in pending \/ <<"delete", b>> \in pending => Known(b)

\* The attempt is counted before the archive is made.
Started == \A b \in Backup : MidStep(b) => attempt[b] >= 1

\* The archive is stored before the row is completed, and stays while the row is there.
StoredBeforeSaved == \A b \in Backup : AtSave(b) /\ Row(b) => Base \o Archive(b) \in store

RowsInv ==
  /\ status \in [Backup -> Status] /\ attempt \in [Backup -> Nat] /\ path = [b \in Backup |-> path[b]]
  /\ removed \subseteq Backup
  /\ PathsKnown /\ JobsKnown /\ Started /\ StoredBeforeSaved /\ CompletedHasArchive /\ RemovedStays

\* The directory of the storage before a path does not turn it into the archive of another
\* backup, whether the path has the directory already or not.
LEMMA PathsApart ==
  ASSUME NEW b \in Backup, NEW c \in Backup, b # c, NEW n \in Nat, NEW m \in Nat
  PROVE  /\ Base \o NoPath # Base \o <<c, m>>
         /\ Base \o (Base \o <<b, n>>) # Base \o <<c, m>>
<1>1. Base \in Seq(STRING) /\ Len(Base) \in Nat
  BY Constants
<1>2. Len(Base \o NoPath) = Len(Base) /\ Len(Base \o <<c, m>>) = Len(Base) + 2
  BY <1>1 DEF NoPath
<1>3. Len(Base \o <<b, n>>) = Len(Base) + 2 /\ Len(Base \o (Base \o <<b, n>>)) = Len(Base) + (Len(Base) + 2)
  BY <1>1
<1>4. CASE Len(Base) = 0
  <2>1. Base = <<>>
    BY <1>1, <1>4
  <2>2. Base \o (Base \o <<b, n>>) = <<b, n>> /\ Base \o <<c, m>> = <<c, m>>
    BY <2>1
  <2>3. <<b, n>> # <<c, m>>
    OBVIOUS
  <2> QED BY <1>2, <2>2, <2>3, <1>1
<1>5. CASE Len(Base) # 0
  <2>1. Len(Base) + (Len(Base) + 2) # Len(Base) + 2 /\ Len(Base) # Len(Base) + 2
    BY <1>1, <1>5
  <2> QED BY <1>2, <1>3, <2>1
<1> QED BY <1>4, <1>5

\* Nothing is stored or removed and no row changes; the worker may move, but not to "save".
LEMMA RowsUntouched ==
  ASSUME RowsInv, UNCHANGED <<rows, attempt, store, removed>>, pending' \subseteq pending,
         \A c \in Backup : /\ Queued(c)' => Queued(c) \/ <<"create", c>> \in pending \/ Row(c)
                           /\ MidStep(c)' => MidStep(c)
                           /\ AtSave(c)' => AtSave(c)
  PROVE  RowsInv'
<1>1. UNCHANGED <<status, path>> /\ \A c : (Row(c)' <=> Row(c)) /\ (Known(c)' <=> Known(c)) /\ Archive(c)' = Archive(c)
  BY DEF rows, Row, Known, Archive
<1>2. PathsKnown' /\ CompletedHasArchive'
  BY <1>1 DEF RowsInv, PathsKnown, CompletedHasArchive
<1>3. JobsKnown'
  BY <1>1 DEF RowsInv, JobsKnown, Known
<1>4. Started' /\ RemovedStays'
  BY <1>1 DEF RowsInv, Started, RemovedStays
<1>5. StoredBeforeSaved'
  BY <1>1 DEF RowsInv, StoredBeforeSaved
<1> QED BY <1>1, <1>2, <1>3, <1>4, <1>5 DEF RowsInv

LEMMA AttemptsCounted ==
  ASSUME RowsInv, NEW b \in Backup
  PROVE  attempt[b] \in Nat /\ \A n \in 1 .. attempt[b] : n \in Nat
<1>1. attempt[b] \in Nat
  BY DEF RowsInv
<1> QED BY <1>1

\* Update: no row appears or goes.
LEMMA UpdateFields ==
  ASSUME RowsInv, NEW b \in Backup, NEW s \in Status \ {"none"}, Update(b, s), UNCHANGED removed
  PROVE  /\ status' \in [Backup -> Status] /\ \A c \in Backup \ {b} : status'[c] = status[c]
         /\ status'[b] = IF Row(b) THEN s ELSE "none"
         /\ \A c \in Backup : (Row(c)' <=> Row(c)) /\ (Known(c)' <=> Known(c))
<1>1. status \in [Backup -> Status] /\ status' = [status EXCEPT ![b] = IF status[b] = "none" THEN status[b] ELSE s]
  BY DEF RowsInv, Update
<1>2. status' \in [Backup -> Status] /\ \A c \in Backup \ {b} : status'[c] = status[c]
  BY <1>1
<1>3. status'[b] = IF Row(b) THEN s ELSE "none"
  BY <1>1 DEF Row
<1> QED BY <1>2, <1>3 DEF Row, Known

LEMMA OneWorks ==
  ASSUME WorkerInv, NEW b, NEW c, Working(b), Working(c)
  PROVE  b = c /\ Queued(b)
BY DEF WorkerInv, OneActive, Working, Active, Queued

\* The requests.
LEMMA CreateRows == ASSUME RowsInv, NEW b \in Backup, Create(b) PROVE RowsInv'
<1>1. /\ ~Row(b) /\ b \notin removed /\ status' = [status EXCEPT ![b] = "PENDING"]
      /\ pending' = pending \cup {<<"create", b>>}
      /\ UNCHANGED <<path, job, todo, attempt, store, removed>>
  BY DEF Create
<1>2. /\ status' \in [Backup -> Status] /\ status'[b] = "PENDING"
      /\ \A c \in Backup \ {b} : status'[c] = status[c]
  BY <1>1 DEF RowsInv, Status
<1>3. /\ \A c : (Queued(c)' <=> Queued(c)) /\ (MidStep(c)' <=> MidStep(c)) /\ (AtSave(c)' <=> AtSave(c))
      /\ \A c : Archive(c)' = Archive(c)
  BY <1>1 DEF Queued, MidStep, AtSave, Working, Active, Archive
<1>4. Known(b)' /\ \A c \in Backup : Known(c) => Known(c)'
  BY <1>1, <1>2 DEF Known, Row
<1>5. JobsKnown'
  <2>1. pending' \subseteq {"create", "delete"} \X Backup
    BY <1>1 DEF RowsInv, JobsKnown
  <2>2. ASSUME NEW c \in Backup, c # b, Queued(c)' \/ <<"create", c>> \in pending' \/ <<"delete", c>> \in pending'
        PROVE  Known(c)'
    <3>1. Queued(c) \/ <<"create", c>> \in pending \/ <<"delete", c>> \in pending
      BY <1>1, <1>3, <2>2
    <3> QED BY <1>4, <3>1 DEF RowsInv, JobsKnown
  <2> QED BY <1>4, <2>1, <2>2 DEF JobsKnown
<1>6. ~Queued(b)
  BY <1>1 DEF RowsInv, JobsKnown, Known
<1>7. ~AtSave(b)
  BY <1>6 DEF AtSave, Working, Active, Queued
<1>8. StoredBeforeSaved'
  <2>1. \A c \in Backup : AtSave(c)' /\ Row(c)' => AtSave(c) /\ Row(c)
    BY <1>2, <1>3, <1>7 DEF Row
  <2> QED BY <1>1, <1>3, <2>1 DEF RowsInv, StoredBeforeSaved
<1>9. Started' /\ PathsKnown'
  BY <1>1, <1>3 DEF RowsInv, Started, PathsKnown
<1>10. CompletedHasArchive'
  BY <1>1, <1>2 DEF RowsInv, CompletedHasArchive
<1>11. RemovedStays'
  BY <1>1, <1>2 DEF RowsInv, RemovedStays, Row
<1> QED BY <1>1, <1>2, <1>5, <1>8, <1>9, <1>10, <1>11 DEF RowsInv

LEMMA CreateAddsRows == ASSUME WorkerInv, RowsInv, NEW b \in Backup, CreateAdds(b) PROVE WorkerInv' /\ RowsInv'
<1>1. /\ <<"create", b>> \in pending /\ pending' \subseteq pending
      /\ UNCHANGED <<rows, todo, attempt, store, removed>>
      /\ Enqueue(b, "create") \/ UNCHANGED job
  BY DEF CreateAdds
<1>2. CASE Enqueue(b, "create")
  <2>1. WorkerInv' /\ \A c : (Working(c)' <=> Working(c)) /\ (Queued(c)' => Queued(c) \/ c = b)
    BY <1>1, <1>2, EnqueueFields
  <2>2. \A c \in Backup : /\ Queued(c)' => Queued(c) \/ <<"create", c>> \in pending
                          /\ MidStep(c)' => MidStep(c)
                          /\ AtSave(c)' => AtSave(c)
    BY <1>1, <2>1 DEF MidStep, AtSave
  <2> QED BY <1>1, <2>1, <2>2, RowsUntouched
<1>3. CASE UNCHANGED job
  <2>1. \A c \in Backup : /\ Queued(c)' => Queued(c)
                          /\ MidStep(c)' => MidStep(c)
                          /\ AtSave(c)' => AtSave(c)
    BY <1>1, <1>3 DEF MidStep, AtSave, Queued, Working, Active
  <2>2. WorkerInv'
    BY <1>1, <1>3 DEF WorkerInv, OneActive, Active
  <2> QED BY <1>1, <2>1, <2>2, RowsUntouched
<1> QED BY <1>1, <1>2, <1>3

LEMMA RestoreRows == ASSUME WorkerInv, RowsInv, NEW b \in Backup, Restore(b) PROVE WorkerInv' /\ RowsInv'
<1>1. /\ Row(b) /\ Enqueue(b, "restore") /\ UNCHANGED <<rows, pending, todo, attempt, store, removed>>
  BY DEF Restore, Row
<1>2. WorkerInv' /\ \A c : (Working(c)' <=> Working(c)) /\ (Queued(c)' => Queued(c) \/ c = b)
  BY <1>1, EnqueueFields
<1>3. \A c \in Backup : /\ Queued(c)' => Queued(c) \/ Row(c)
                        /\ MidStep(c)' => MidStep(c)
                        /\ AtSave(c)' => AtSave(c)
  BY <1>1, <1>2 DEF MidStep, AtSave
<1> QED BY <1>1, <1>2, <1>3, RowsUntouched

LEMMA DeleteRows == ASSUME RowsInv, NEW b \in Backup, Delete(b) PROVE RowsInv'
<1>1. /\ Row(b) /\ pending' = pending \cup {<<"delete", b>>}
      /\ UNCHANGED <<status, path, job, todo, attempt, store, removed>>
  BY DEF Delete, rows
<1>2. \A c : /\ (Queued(c)' <=> Queued(c)) /\ (MidStep(c)' <=> MidStep(c)) /\ (AtSave(c)' <=> AtSave(c))
             /\ Archive(c)' = Archive(c) /\ (Row(c)' <=> Row(c)) /\ (Known(c)' <=> Known(c))
  BY <1>1 DEF Queued, MidStep, AtSave, Working, Active, Archive, Row, Known
<1>3. Known(b)
  BY <1>1 DEF Known
<1>4. JobsKnown'
  <2>1. pending' \subseteq {"create", "delete"} \X Backup
    BY <1>1 DEF RowsInv, JobsKnown
  <2>2. ASSUME NEW c \in Backup, c # b, Queued(c)' \/ <<"create", c>> \in pending' \/ <<"delete", c>> \in pending'
        PROVE  Known(c)'
    <3>1. Queued(c) \/ <<"create", c>> \in pending \/ <<"delete", c>> \in pending
      BY <1>1, <1>2, <2>2
    <3> QED BY <1>2, <3>1 DEF RowsInv, JobsKnown
  <2> QED BY <1>2, <1>3, <2>1, <2>2 DEF JobsKnown
<1>5. StoredBeforeSaved' /\ Started' /\ RemovedStays'
  BY <1>1, <1>2 DEF RowsInv, StoredBeforeSaved, Started, RemovedStays
<1>6. PathsKnown' /\ CompletedHasArchive'
  BY <1>1 DEF RowsInv, PathsKnown, CompletedHasArchive
<1> QED BY <1>1, <1>4, <1>5, <1>6 DEF RowsInv

\* A request takes the archive of its own backup away, if any, and no other.
LEMMA DeleteRemovesRows == ASSUME RowsInv, NEW b \in Backup, DeleteRemoves(b) PROVE RowsInv'
<1>1. /\ pending' \subseteq pending /\ store' = store \ {Base \o path[b]}
      /\ status' = [status EXCEPT ![b] = "none"] /\ path' = [path EXCEPT ![b] = NoPath]
      /\ removed' = removed \cup {b} /\ UNCHANGED <<job, todo, attempt>>
  BY DEF DeleteRemoves
<1>2. /\ status' \in [Backup -> Status] /\ status'[b] = "none"
      /\ \A c \in Backup \ {b} : status'[c] = status[c]
  BY <1>1 DEF RowsInv, Status
<1>3. /\ path' = [c \in Backup |-> path'[c]] /\ path'[b] = NoPath
      /\ \A c \in Backup \ {b} : path'[c] = path[c]
  BY <1>1 DEF RowsInv
<1>4. \A c : /\ (Queued(c)' <=> Queued(c)) /\ (MidStep(c)' <=> MidStep(c)) /\ (AtSave(c)' <=> AtSave(c))
             /\ Archive(c)' = Archive(c)
  BY <1>1 DEF Queued, MidStep, AtSave, Working, Active, Archive
<1>5. \A c \in Backup : Known(c) => Known(c)'
  BY <1>1, <1>2 DEF Known, Row
<1>6. JobsKnown'
  BY <1>1, <1>4, <1>5 DEF RowsInv, JobsKnown
<1>7. ASSUME NEW c \in Backup, c # b, NEW m \in Nat, Base \o <<c, m>> \in store
      PROVE  Base \o <<c, m>> \in store'
  <2>1. path[b] = NoPath \/ \E n \in Nat : path[b] = Base \o <<b, n>>
    BY AttemptsCounted DEF RowsInv, PathsKnown
  <2>2. Base \o path[b] # Base \o <<c, m>>
    BY <1>7, <2>1, PathsApart
  <2> QED BY <1>1, <1>7, <2>2
<1>8. PathsKnown'
  BY <1>1, <1>3 DEF RowsInv, PathsKnown
<1>9. CompletedHasArchive'
  <2>1. ASSUME NEW c \in Backup, status'[c] = "COMPLETED"
        PROVE  path'[c] \in store' /\ \E n \in 1 .. attempt'[c] : path'[c] = Base \o <<c, n>>
    <3>1. c # b /\ status[c] = "COMPLETED" /\ path'[c] = path[c]
      BY <1>2, <1>3, <2>1
    <3>2. PICK n \in 1 .. attempt[c] : path[c] = Base \o <<c, n>> /\ path[c] \in store
      BY <3>1 DEF RowsInv, CompletedHasArchive
    <3>3. path'[c] \in store'
      <4>1. n \in Nat
        BY <3>2, AttemptsCounted
      <4> QED BY <1>7, <3>1, <3>2, <4>1
    <3> QED BY <1>1, <3>1, <3>2, <3>3
  <2> QED BY <2>1 DEF CompletedHasArchive
<1>10. StoredBeforeSaved'
  <2>1. ASSUME NEW c \in Backup, AtSave(c)', Row(c)' PROVE Base \o Archive(c)' \in store'
    <3>1. c # b /\ AtSave(c) /\ Row(c) /\ attempt[c] \in Nat
      BY <1>2, <1>4, <2>1 DEF Row, RowsInv
    <3>2. Base \o <<c, attempt[c]>> \in store
      BY <3>1 DEF RowsInv, StoredBeforeSaved, Archive
    <3> QED BY <1>4, <1>7, <3>1, <3>2 DEF Archive
  <2> QED BY <2>1 DEF StoredBeforeSaved
<1>11. Started' /\ RemovedStays'
  BY <1>1, <1>2, <1>4 DEF RowsInv, Started, RemovedStays, Row
<1> QED BY <1>1, <1>2, <1>3, <1>6, <1>8, <1>9, <1>10, <1>11 DEF RowsInv

\* The steps of the handlers that change no row and store nothing.
LEMMA QuietHandlerRows ==
  ASSUME WorkerInv, RowsInv, NEW b \in Backup, Working(b),
         \/ Find(b) \/ Prepare(b) \/ Pack(b) \/ Stat(b) \/ Clean(b) \/ Missing(b) \/ StepFails(b)
         \/ FailedNotSaved(b) \/ Tidy(b) \/ Download(b)
  PROVE  WorkerInv' /\ RowsInv'
<1>1. UNCHANGED <<rows, attempt, store, removed, pending>>
  BY DEF Find, Prepare, Pack, Stat, Clean, Missing, StepFails, FailedNotSaved, Tidy, Download
<1>2. \/ Throws
      \/ Clean(b)
      \/ todo # <<>> /\ todo' = <<"failed", "tidy">> /\ UNCHANGED job
      \/ At("find") /\ Advance /\ UNCHANGED job
      \/ \E s \in {"prepare", "pack", "stat"} : At(s) /\ Advance /\ UNCHANGED job
  <2>1. CASE Find(b)
    BY <2>1 DEF Find
  <2>2. CASE Prepare(b) \/ Pack(b) \/ Stat(b)
    BY <2>2 DEF Prepare, Pack, Stat
  <2>3. CASE Missing(b)
    BY <2>3 DEF Missing, At, Caught, OnError
  <2>4. CASE StepFails(b)
    BY <2>4 DEF StepFails, Caught, OnError
  <2>5. CASE FailedNotSaved(b) \/ Tidy(b)
    BY <2>5 DEF FailedNotSaved, Tidy
  <2>6. CASE Download(b)
    BY <2>6 DEF Download, At, Caught, OnError
  <2> QED BY <2>1, <2>2, <2>3, <2>4, <2>5, <2>6
<1>3. CASE Throws \/ Clean(b)
  <2>1. WorkerInv' /\ \A c : ~Working(c)' /\ (Queued(c)' => Queued(c))
    BY <1>3, ThrowsFields, CleanFields
  <2>2. \A c \in Backup : ~MidStep(c)' /\ ~AtSave(c)'
    BY <2>1 DEF MidStep, AtSave
  <2> QED BY <1>1, <2>1, <2>2, RowsUntouched
<1>4. CASE todo # <<>> /\ todo' = <<"failed", "tidy">> /\ UNCHANGED job
  <2>1. WorkerInv' /\ Head(todo') = "failed" /\ \A c : Queued(c)' => Queued(c)
    BY <1>4, CaughtFields
  <2>2. \A c \in Backup : ~MidStep(c)' /\ ~AtSave(c)'
    BY <2>1 DEF MidStep, AtSave
  <2> QED BY <1>1, <2>1, <2>2, RowsUntouched
<1>5. CASE At("find") /\ Advance /\ UNCHANGED job
  <2>1. WorkerInv' /\ Follows("find", Head(todo')) /\ \A c : Queued(c)' => Queued(c)
    BY <1>5, AdvanceFields DEF LastStep
  <2>2. \A c \in Backup : ~MidStep(c)' /\ ~AtSave(c)'
    BY <2>1 DEF MidStep, AtSave, Follows
  <2> QED BY <1>1, <2>1, <2>2, RowsUntouched
<1>6. CASE \E s \in {"prepare", "pack", "stat"} : At(s) /\ Advance /\ UNCHANGED job
  <2>1. PICK s \in {"prepare", "pack", "stat"} : At(s) /\ Advance /\ UNCHANGED job
    BY <1>6
  <2>2. /\ WorkerInv' /\ Follows(s, Head(todo'))
        /\ \A c : (Working(c)' <=> Working(c)) /\ (Queued(c)' => Queued(c))
    BY <2>1, AdvanceFields DEF LastStep
  <2>3. \A c \in Backup : (MidStep(c)' => MidStep(c)) /\ ~AtSave(c)'
    BY <2>1, <2>2 DEF MidStep, AtSave, At, Follows
  <2> QED BY <1>1, <2>2, <2>3, RowsUntouched
<1> QED BY <1>2, <1>3, <1>4, <1>5, <1>6

\* The row of the backup is updated to a status that is not COMPLETED.
LEMMA UpdatedRows ==
  ASSUME WorkerInv, RowsInv, NEW b \in Backup, Working(b), NEW s \in {"IN_PROGRESS", "FAILED"}, Update(b, s),
         UNCHANGED <<path, pending, store, removed>>, WorkerInv',
         attempt' \in [Backup -> Nat], \A c \in Backup : attempt'[c] >= attempt[c],
         MidStep(b)' => attempt'[b] >= 1,
         \A c \in Backup : (Queued(c)' => Queued(c)) /\ (Working(c)' <=> Working(c)) /\ ~AtSave(c)'
  PROVE  RowsInv'
<1>1. /\ status' \in [Backup -> Status] /\ \A c \in Backup \ {b} : status'[c] = status[c]
      /\ status'[b] # "COMPLETED"
      /\ \A c \in Backup : (Row(c)' <=> Row(c)) /\ (Known(c)' <=> Known(c))
  <2>1. s \in Status \ {"none"}
    BY DEF Status
  <2> QED BY <2>1, UpdateFields
<1>2. \A c \in Backup : \A n \in 1 .. attempt[c] : n \in 1 .. attempt'[c]
  <2>1. \A x, y \in Nat : y >= x => \A n \in 1 .. x : n \in 1 .. y
    OBVIOUS
  <2>2. \A c \in Backup : attempt[c] \in Nat /\ attempt'[c] \in Nat
    BY DEF RowsInv
  <2> QED BY <2>1, <2>2
<1>3. PathsKnown'
  BY <1>2 DEF RowsInv, PathsKnown
<1>4. CompletedHasArchive'
  <2>1. ASSUME NEW c \in Backup, status'[c] = "COMPLETED"
        PROVE  path[c] \in store /\ \E n \in 1 .. attempt[c] : path[c] = Base \o <<c, n>>
    BY <1>1, <2>1 DEF RowsInv, CompletedHasArchive
  <2> QED BY <1>2, <2>1 DEF CompletedHasArchive
<1>5. JobsKnown'
  BY <1>1 DEF RowsInv, JobsKnown
<1>6. Started'
  <2>1. ASSUME NEW c \in Backup, MidStep(c)' PROVE c = b
    BY <2>1, OneWorks DEF MidStep
  <2> QED BY <2>1 DEF Started
<1>7. StoredBeforeSaved' /\ RemovedStays'
  <2>1. ASSUME NEW c \in removed' PROVE ~Row(c)'
    BY <1>1, <2>1 DEF RowsInv, RemovedStays
  <2> QED BY <2>1 DEF StoredBeforeSaved, RemovedStays
<1> QED BY <1>1, <1>3, <1>4, <1>5, <1>6, <1>7 DEF RowsInv

LEMMA StartRows ==
  ASSUME WorkerInv, RowsInv, NEW b \in Backup, Working(b), Start(b)
  PROVE  WorkerInv' /\ RowsInv'
<1>1. /\ At("start") /\ Update(b, "IN_PROGRESS") /\ attempt' = [attempt EXCEPT ![b] = attempt[b] + 1]
      /\ Advance /\ UNCHANGED <<path, pending, job, store, removed>>
  BY DEF Start
<1>2. /\ WorkerInv' /\ Follows("start", Head(todo'))
      /\ \A c : (Working(c)' <=> Working(c)) /\ (Queued(c)' => Queued(c))
  BY <1>1, AdvanceFields DEF LastStep
<1>3. \A c \in Backup : ~AtSave(c)'
  BY <1>2 DEF AtSave, Follows
<1>4. /\ attempt' \in [Backup -> Nat] /\ attempt'[b] >= 1
      /\ \A c \in Backup : attempt'[c] >= attempt[c]
  <2>1. attempt \in [Backup -> Nat] /\ attempt[b] \in Nat
    BY DEF RowsInv
  <2>2. \A n \in Nat : n + 1 \in Nat /\ n + 1 >= 1 /\ n + 1 >= n /\ n >= n
    OBVIOUS
  <2> QED BY <1>1, <2>1, <2>2
<1> QED BY <1>1, <1>2, <1>3, <1>4, UpdatedRows

LEMMA FailedRows ==
  ASSUME WorkerInv, RowsInv, NEW b \in Backup, Working(b), Failed(b)
  PROVE  WorkerInv' /\ RowsInv'
<1>1. /\ At("failed") /\ Update(b, "FAILED") /\ Advance
      /\ UNCHANGED <<path, pending, job, attempt, store, removed>>
  BY DEF Failed
<1>2. /\ WorkerInv' /\ Follows("failed", Head(todo'))
      /\ \A c : (Working(c)' <=> Working(c)) /\ (Queued(c)' => Queued(c))
  BY <1>1, AdvanceFields DEF LastStep
<1>3. \A c \in Backup : ~AtSave(c)' /\ ~MidStep(c)'
  BY <1>2 DEF AtSave, MidStep, Follows
<1>4. attempt' \in [Backup -> Nat] /\ \A c \in Backup : attempt'[c] >= attempt[c]
  <2>1. attempt \in [Backup -> Nat] /\ attempt' = attempt
    BY <1>1 DEF RowsInv
  <2>2. \A n \in Nat : n >= n
    OBVIOUS
  <2> QED BY <2>1, <2>2
<1> QED BY <1>1, <1>2, <1>3, <1>4, UpdatedRows

LEMMA UploadRows ==
  ASSUME WorkerInv, RowsInv, NEW b \in Backup, Working(b), Upload(b)
  PROVE  WorkerInv' /\ RowsInv'
<1>1. /\ At("upload") /\ store' = store \cup {Base \o Archive(b)} /\ Advance
      /\ UNCHANGED <<status, path, pending, job, attempt, removed>>
  BY DEF Upload, rows
<1>2. /\ WorkerInv' /\ Follows("upload", Head(todo'))
      /\ \A c : (Working(c)' <=> Working(c)) /\ (Queued(c)' => Queued(c))
  BY <1>1, AdvanceFields DEF LastStep
<1>3. \A c \in Backup : Archive(c)' = Archive(c) /\ (Row(c)' <=> Row(c)) /\ (Known(c)' <=> Known(c))
  BY <1>1 DEF Archive, Row, Known
<1>4. Started'
  <2>1. \A c \in Backup : MidStep(c)' => MidStep(c)
    BY <1>1, <1>2 DEF MidStep, At
  <2> QED BY <1>1, <2>1 DEF RowsInv, Started
<1>5. StoredBeforeSaved'
  <2>1. \A c \in Backup : AtSave(c)' => c = b
    BY <1>2, OneWorks DEF AtSave
  <2>2. Base \o Archive(b)' \in store'
    BY <1>1, <1>3
  <2> QED BY <2>1, <2>2 DEF StoredBeforeSaved
<1>6. PathsKnown' /\ CompletedHasArchive'
  BY <1>1 DEF RowsInv, PathsKnown, CompletedHasArchive
<1>7. JobsKnown' /\ RemovedStays'
  BY <1>1, <1>2, <1>3 DEF RowsInv, JobsKnown, RemovedStays, Row
<1> QED BY <1>1, <1>2, <1>4, <1>5, <1>6, <1>7 DEF RowsInv

LEMMA SaveRows ==
  ASSUME WorkerInv, RowsInv, NEW b \in Backup, Working(b), Save(b)
  PROVE  WorkerInv' /\ RowsInv'
<1>1. /\ At("save") /\ Update(b, "COMPLETED") /\ Advance
      /\ path' = IF Row(b) THEN [path EXCEPT ![b] = Base \o Archive(b)] ELSE path
      /\ UNCHANGED <<pending, job, attempt, store, removed>>
  BY DEF Save, Completed
<1>2. /\ WorkerInv' /\ Follows("save", Head(todo'))
      /\ \A c : (Working(c)' <=> Working(c)) /\ (Queued(c)' => Queued(c))
  BY <1>1, AdvanceFields DEF LastStep
<1>3. /\ status' \in [Backup -> Status] /\ \A c \in Backup \ {b} : status'[c] = status[c]
      /\ status'[b] = IF Row(b) THEN "COMPLETED" ELSE "none"
      /\ \A c \in Backup : (Row(c)' <=> Row(c)) /\ (Known(c)' <=> Known(c))
  <2>1. "COMPLETED" \in Status \ {"none"}
    BY DEF Status
  <2> QED BY <1>1, <2>1, UpdateFields
<1>4. /\ path' = [c \in Backup |-> path'[c]]
      /\ path'[b] = IF Row(b) THEN Base \o <<b, attempt[b]>> ELSE path[b]
      /\ \A c \in Backup \ {b} : path'[c] = path[c]
  BY <1>1 DEF RowsInv, Archive
<1>5. attempt[b] \in 1 .. attempt[b]
  <2>1. attempt[b] \in Nat /\ attempt[b] >= 1
    BY <1>1 DEF RowsInv, Started, MidStep, At
  <2> QED BY <2>1
<1>6. PathsKnown'
  BY <1>1, <1>4, <1>5 DEF RowsInv, PathsKnown
<1>7. Row(b) => Base \o <<b, attempt[b]>> \in store
  BY <1>1 DEF RowsInv, StoredBeforeSaved, AtSave, At, Archive
<1>8. CompletedHasArchive'
  <2>1. ASSUME NEW c \in Backup, status'[c] = "COMPLETED"
        PROVE  path'[c] \in store /\ \E n \in 1 .. attempt[c] : path'[c] = Base \o <<c, n>>
    <3>1. CASE c = b
      BY <1>3, <1>4, <1>5, <1>7, <2>1, <3>1
    <3>2. CASE c # b
      BY <1>3, <1>4, <2>1, <3>2 DEF RowsInv, CompletedHasArchive
    <3> QED BY <3>1, <3>2
  <2> QED BY <1>1, <2>1 DEF CompletedHasArchive
<1>9. \A c \in Backup : ~MidStep(c)' /\ ~AtSave(c)'
  BY <1>2 DEF MidStep, AtSave, Follows
<1>10. JobsKnown' /\ Started' /\ StoredBeforeSaved'
  BY <1>1, <1>2, <1>3, <1>9 DEF RowsInv, JobsKnown, Started, StoredBeforeSaved
<1>11. RemovedStays'
  BY <1>1, <1>3 DEF RowsInv, RemovedStays
<1> QED BY <1>1, <1>2, <1>3, <1>4, <1>6, <1>8, <1>10, <1>11 DEF RowsInv

\* The queue and the domain: no row changes.
LEMMA QuietRows ==
  ASSUME WorkerInv, RowsInv,
         \/ DomainGoes \/ Restart \/ UNCHANGED vars
         \/ \E j \in Job : TakeJob(j) \/ Backoff(j)
  PROVE  WorkerInv' /\ RowsInv'
<1>1. UNCHANGED <<rows, attempt, store, removed>> /\ pending' \subseteq pending
  BY DEF DomainGoes, Restart, vars, TakeJob, Backoff
<1>2. CASE DomainGoes \/ UNCHANGED vars
  <2>1. UNCHANGED <<job, todo>>
    BY <1>2 DEF DomainGoes, vars
  <2>2. \A c : (Queued(c)' => Queued(c)) /\ (MidStep(c)' => MidStep(c)) /\ (AtSave(c)' => AtSave(c))
    BY <2>1 DEF Queued, MidStep, AtSave, Working, Active
  <2>3. WorkerInv'
    BY <2>1 DEF WorkerInv, OneActive, Active
  <2> QED BY <1>1, <2>2, <2>3, RowsUntouched
<1>3. CASE Restart
  <2>1. WorkerInv' /\ \A c : ~Working(c)' /\ (Queued(c)' => Queued(c))
    BY <1>3, RestartFields
  <2>2. \A c \in Backup : ~MidStep(c)' /\ ~AtSave(c)'
    BY <2>1 DEF MidStep, AtSave
  <2> QED BY <1>1, <2>1, <2>2, RowsUntouched
<1>4. ASSUME NEW j \in Job, TakeJob(j) PROVE WorkerInv' /\ RowsInv'
  <2>1. WorkerInv' /\ Head(todo') = "find" /\ \A c : Queued(c)' => Queued(c)
    BY <1>4, TakeJobFields
  <2>2. \A c \in Backup : ~MidStep(c)' /\ ~AtSave(c)'
    BY <2>1 DEF MidStep, AtSave
  <2> QED BY <1>1, <2>1, <2>2, RowsUntouched
<1>5. ASSUME NEW j \in Job, Backoff(j) PROVE WorkerInv' /\ RowsInv'
  <2>1. UNCHANGED todo /\ WorkerInv' /\ \A c : (Working(c)' <=> Working(c)) /\ (Queued(c)' => Queued(c))
    BY <1>5, BackoffFields DEF Backoff
  <2>2. \A c \in Backup : (MidStep(c)' => MidStep(c)) /\ (AtSave(c)' => AtSave(c))
    BY <2>1 DEF MidStep, AtSave
  <2> QED BY <1>1, <2>1, <2>2, RowsUntouched
<1> QED BY <1>2, <1>3, <1>4, <1>5

-----------------------------------------------------------------------------
(* The temporary files.                                                     *)

\* No temporary files are due: the backup has no job in the worker's hands, or one whose
\* handler has not come to the steps that a failure cleans up after.
Due(b) == Working(b) => todo # <<>> /\ Head(todo) \in {"find", "start", "download"}

FilesInv == \A b \in Backup \ cut : Due(b) => OwnFiles(b) = {}

\* A backup that is not at work is not touched; that of the worker is cleaned up, cut off,
\* or past the steps at which no files are due.
LEMMA FilesOfOne ==
  ASSUME FilesInv, NEW b \in Backup, cut \subseteq cut',
         \A c \in Backup \ {b} : OwnFiles(c)' \subseteq OwnFiles(c) /\ Due(c),
         b \notin cut' /\ Due(b)' => OwnFiles(b)' = {}
  PROVE  FilesInv'
BY DEF FilesInv

LEMMA OthersAreDue ==
  ASSUME WorkerInv, NEW b \in Backup, Working(b)
  PROVE  \A c \in Backup \ {b} : Due(c)
BY OneWorks DEF Due

LEMMA HandlerFiles ==
  ASSUME WorkerInv, FilesInv, NEW b \in Backup, Working(b), Handler(b), WorkerInv'
  PROVE  FilesInv'
<1>0. \A c \in Backup \ {b} : Due(c)
  BY OthersAreDue
<1>1. CASE Find(b) \/ Start(b) \/ Download(b)
  <2>1. UNCHANGED <<temp, cut>> /\ Due(b)
    BY <1>1 DEF Find, Start, Download, At, Due
  <2>2. \A c : OwnFiles(c)' = OwnFiles(c)
    BY <2>1 DEF OwnFiles
  <2> QED BY <1>0, <2>1, <2>2, FilesOfOne DEF FilesInv
<1>2. ASSUME UNCHANGED cut, NEW k, temp' \subseteq temp \cup {Files(b, k)}, ~Due(b)'
      PROVE  FilesInv'
  <2>1. \A c \in Backup \ {b} : OwnFiles(c)' \subseteq OwnFiles(c)
    BY <1>2 DEF OwnFiles, Files
  <2> QED BY <1>0, <1>2, <2>1, FilesOfOne
<1>3. ASSUME NEW s \in {"prepare", "pack", "stat", "upload", "save", "failed"}, At(s), Advance, UNCHANGED job
      PROVE  ~Due(b)'
  <2>1. Working(b)' /\ Follows(s, Head(todo'))
    BY <1>3, AdvanceFields DEF LastStep
  <2> QED BY <2>1 DEF Due, Follows
<1>4. ASSUME todo # <<>>, todo' = <<"failed", "tidy">>, UNCHANGED job
      PROVE  ~Due(b)'
  <2>1. Working(b)' /\ Head(todo') = "failed"
    BY <1>4, CaughtFields
  <2> QED BY <2>1 DEF Due
<1>5. CASE Prepare(b)
  <2>1. temp' \subseteq temp \cup {Files(b, "directory")}
    BY <1>5 DEF Prepare
  <2> QED BY <1>2, <1>3, <1>5, <2>1 DEF Prepare
<1>6. CASE Pack(b)
  <2>1. temp' \subseteq temp \cup {Files(b, "archive")}
    BY <1>6 DEF Pack
  <2> QED BY <1>2, <1>3, <1>6, <2>1 DEF Pack
<1>7. CASE Stat(b) \/ Upload(b) \/ Save(b) \/ Failed(b)
  <2>1. temp' \subseteq temp \cup {Files(b, "none")} /\ UNCHANGED cut
    BY <1>7 DEF Stat, Upload, Save, Failed
  <2>2. ~Due(b)'
    BY <1>3, <1>7 DEF Stat, Upload, Save, Failed
  <2> QED BY <1>2, <2>1, <2>2
<1>8. CASE Missing(b)
  <2>1. temp' \subseteq temp \cup {Files(b, "none")} /\ UNCHANGED cut
    BY <1>8 DEF Missing
  <2>2. todo # <<>> /\ todo' = <<"failed", "tidy">> /\ UNCHANGED job
    BY <1>8 DEF Missing, At, Caught, OnError
  <2> QED BY <1>2, <1>4, <2>1, <2>2
<1>9. CASE StepFails(b)
  <2>1. temp' \subseteq temp /\ UNCHANGED cut /\ todo # <<>>
    BY <1>9 DEF StepFails
  <2>2. CASE Head(todo) \in {"find", "start", "download"}
    <3>1. \A c : OwnFiles(c)' \subseteq OwnFiles(c)
      BY <2>1 DEF OwnFiles
    <3>2. Due(b)
      BY <2>1, <2>2 DEF Due
    <3> QED BY <1>0, <2>1, <3>1, <3>2, FilesOfOne DEF FilesInv
  <2>3. CASE Head(todo) \notin {"find", "start", "download"}
    <3>1. todo' = <<"failed", "tidy">> /\ UNCHANGED job
      BY <1>9, <2>3 DEF StepFails, Caught, OnError
    <3>2. temp' \subseteq temp \cup {Files(b, "none")}
      BY <2>1
    <3> QED BY <1>2, <1>4, <2>1, <3>1, <3>2
  <2> QED BY <2>2, <2>3
<1>10. CASE Clean(b) \/ Tidy(b) \/ FailedNotSaved(b)
  <2>1. \/ temp' = temp \ OwnFiles(b) /\ UNCHANGED cut
        \/ UNCHANGED temp /\ cut' = cut \cup {b}
    BY <1>10 DEF Clean, Tidy, FailedNotSaved, Tidied
  <2>2. \A c : OwnFiles(c)' \subseteq OwnFiles(c)
    BY <2>1 DEF OwnFiles
  <2>3. b \notin cut' => OwnFiles(b)' = {}
    BY <2>1 DEF OwnFiles
  <2> QED BY <1>0, <2>1, <2>2, <2>3, FilesOfOne
<1> QED BY <1>1, <1>5, <1>6, <1>7, <1>8, <1>9, <1>10 DEF Handler

\* No handler moves: which backup is at work, and at what, stays, or the worker has just
\* taken a job, or the backend has stopped.
LEMMA OtherFiles ==
  ASSUME WorkerInv, FilesInv, UNCHANGED temp,
         \/ UNCHANGED cut /\ \A c \in Backup : (Working(c)' <=> Working(c)) /\ todo' = todo
         \/ UNCHANGED cut /\ \A c \in Backup : ~Working(c)
         \/ cut' = cut \cup {c \in Backup : Working(c)}
  PROVE  FilesInv'
<1>1. \A c : OwnFiles(c)' = OwnFiles(c)
  BY DEF OwnFiles
<1>2. \A c \in Backup \ cut' : c \notin cut /\ (Due(c)' => Due(c))
  BY DEF Due
<1> QED BY <1>1, <1>2 DEF FilesInv

-----------------------------------------------------------------------------
(* The inductive invariant and the theorems.                                *)

BackupsInv == WorkerInv /\ RowsInv /\ FilesInv

LEMMA BackupsInitially == Init => BackupsInv
<1> SUFFICES ASSUME Init PROVE BackupsInv
  OBVIOUS
<1>1. job \in [Job -> Entry] /\ (\A j \in Job : job[j].state = "unused" /\ job[j].failed = 0)
  BY DEF Init, Unused, Entry, Kind, State
<1>2. \A j \in Job : Counted(job[j])
  <2>1. 0 \in 0 .. Attempts
    BY Constants
  <2> QED BY <1>1, <2>1 DEF Counted
<1>3. Active = {} /\ \A c : ~Working(c) /\ ~Queued(c)
  BY <1>1 DEF Active, Working, Queued
<1>4. WorkerInv
  BY <1>1, <1>2, <1>3, StepsOrdered DEF Init, WorkerInv, OneActive
<1>5. FilesInv
  BY DEF Init, FilesInv, OwnFiles
<1>6. PathsKnown /\ JobsKnown
  BY <1>3 DEF Init, PathsKnown, JobsKnown
<1>7. Started /\ StoredBeforeSaved /\ CompletedHasArchive /\ RemovedStays
  BY <1>3 DEF Init, Started, StoredBeforeSaved, MidStep, AtSave, CompletedHasArchive, RemovedStays
<1>8. status \in [Backup -> Status] /\ attempt \in [Backup -> Nat] /\ path = [b \in Backup |-> path[b]]
  BY DEF Init, Status
<1> QED BY <1>4, <1>5, <1>6, <1>7, <1>8 DEF BackupsInv, RowsInv, Init

LEMMA BackupsNext == ASSUME BackupsInv, [Next]_vars PROVE BackupsInv'
<1>0. WorkerInv /\ RowsInv /\ FilesInv
  BY DEF BackupsInv
<1>1. ASSUME NEW b \in Backup, Create(b) \/ Delete(b) \/ DeleteRemoves(b) PROVE BackupsInv'
  <2>1. RowsInv'
    BY <1>0, <1>1, CreateRows, DeleteRows, DeleteRemovesRows
  <2>2. UNCHANGED <<job, todo, temp, cut>>
    BY <1>1 DEF Create, Delete, DeleteRemoves
  <2>3. WorkerInv' /\ \A c \in Backup : Working(c)' <=> Working(c)
    BY <1>0, <2>2 DEF WorkerInv, OneActive, Working, Active
  <2> QED BY <1>0, <2>1, <2>2, <2>3, OtherFiles DEF BackupsInv
<1>2. ASSUME NEW b \in Backup, CreateAdds(b) PROVE BackupsInv'
  <2>1. WorkerInv' /\ RowsInv'
    BY <1>0, <1>2, CreateAddsRows
  <2>2. UNCHANGED <<todo, temp, cut>> /\ (Enqueue(b, "create") \/ UNCHANGED job)
    BY <1>2 DEF CreateAdds
  <2>3. \A c \in Backup : Working(c)' <=> Working(c)
    <3>1. CASE Enqueue(b, "create")
      BY <1>0, <2>2, <3>1, EnqueueFields
    <3>2. CASE UNCHANGED job
      BY <3>2 DEF Working, Active
    <3> QED BY <2>2, <3>1, <3>2
  <2> QED BY <1>0, <2>1, <2>2, <2>3, OtherFiles DEF BackupsInv
<1>3. ASSUME NEW b \in Backup, Restore(b) PROVE BackupsInv'
  <2>1. WorkerInv' /\ RowsInv'
    BY <1>0, <1>3, RestoreRows
  <2>2. UNCHANGED <<todo, temp, cut>> /\ Enqueue(b, "restore")
    BY <1>3 DEF Restore
  <2>3. \A c \in Backup : Working(c)' <=> Working(c)
    BY <1>0, <2>2, EnqueueFields
  <2> QED BY <1>0, <2>1, <2>2, <2>3, OtherFiles DEF BackupsInv
<1>4. ASSUME NEW b \in Backup, Handler(b) PROVE BackupsInv'
  <2>1. Working(b)
    BY <1>4 DEF Handler
  <2>2. WorkerInv' /\ RowsInv'
    BY <1>0, <1>4, <2>1, QuietHandlerRows, StartRows, FailedRows, UploadRows, SaveRows DEF Handler
  <2> QED BY <1>0, <1>4, <2>1, <2>2, HandlerFiles DEF BackupsInv
<1>5. ASSUME NEW j \in Job, TakeJob(j) PROVE BackupsInv'
  <2>1. UNCHANGED <<temp, cut>> /\ \A c : ~Working(c)
    BY <1>0, <1>5, TakeJobFields DEF TakeJob
  <2> QED BY <1>0, <1>5, <2>1, QuietRows, OtherFiles DEF BackupsInv
<1>6. ASSUME NEW j \in Job, Backoff(j) PROVE BackupsInv'
  <2>1. UNCHANGED <<temp, cut, todo>> /\ \A c : Working(c)' <=> Working(c)
    BY <1>0, <1>6, BackoffFields DEF Backoff
  <2> QED BY <1>0, <1>6, <2>1, QuietRows, OtherFiles DEF BackupsInv
<1>7. CASE Restart
  <2>1. UNCHANGED temp /\ cut' = cut \cup {b \in Backup : Working(b)}
    BY <1>7 DEF Restart
  <2> QED BY <1>0, <1>7, <2>1, QuietRows, OtherFiles DEF BackupsInv
<1>8. CASE DomainGoes \/ UNCHANGED vars
  <2>1. UNCHANGED <<temp, cut, todo, job>>
    BY <1>8 DEF DomainGoes, vars
  <2>2. \A c : Working(c)' <=> Working(c)
    BY <2>1 DEF Working, Active
  <2> QED BY <1>0, <1>8, <2>1, <2>2, QuietRows, OtherFiles DEF BackupsInv
<1> QED BY <1>1, <1>2, <1>3, <1>4, <1>5, <1>6, <1>7, <1>8 DEF Next

LEMMA BackupsInvariant == Spec => []BackupsInv
BY BackupsInitially, BackupsNext, PTL DEF Spec

\* The queue, the worker and the rows are what the types say: the worker has at most one
\* job, and steps to do exactly while it has one; no job is tried more often than it may.
THEOREM BackupsTyped == Spec => []TypeOK
<1>1. ASSUME BackupsInv PROVE TypeOK
  <2>1. \A j \in Job : job[j].failed \in 0 .. Attempts /\ job[j].stalled \in 0 .. 1
    BY <1>1 DEF BackupsInv, WorkerInv, Counted, Entry
  <2>2. pending \subseteq {"create", "delete"} \X Backup
    BY <1>1 DEF BackupsInv, RowsInv, JobsKnown
  <2> QED BY <1>1, <2>1, <2>2 DEF BackupsInv, WorkerInv, RowsInv, TypeOK, OneActive, PathsKnown, Status
<1> QED BY <1>1, BackupsInvariant, PTL

\* A backup that says COMPLETED has its own archive in the storage, whatever fails, is
\* tried again or is deleted meanwhile, for any directory the storage is configured with.
THEOREM CompletedStored == Spec => []CompletedHasArchive
<1>1. BackupsInv => CompletedHasArchive
  BY DEF BackupsInv, RowsInv
<1> QED BY <1>1, BackupsInvariant, PTL

\* Between two jobs a backup has no temporary files, unless the backend stopped or the
\* cleaning itself failed.
THEOREM TempCleaned == Spec => []TempClean
<1>1. BackupsInv => TempClean
  BY DEF BackupsInv, FilesInv, Due, TempClean
<1> QED BY <1>1, BackupsInvariant, PTL

\* The row of a backup that was deleted does not come back.
THEOREM RemovedGone == Spec => []RemovedStays
<1>1. BackupsInv => RemovedStays
  BY DEF BackupsInv, RowsInv
<1> QED BY <1>1, BackupsInvariant, PTL
=============================================================================
