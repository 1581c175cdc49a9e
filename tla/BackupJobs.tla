----------------------------- MODULE BackupJobs -----------------------------
(***************************************************************************)
(* Backups of a domain (modules/backups): the rows, the BullMQ queue whose *)
(* one worker makes and restores them, the archives it leaves in temporary *)
(* files and in the local storage.  Requests of the API interleave with    *)
(* the worker between any two awaits.  What an archive holds is left out:  *)
(* it is made or it is missing.                                            *)
(***************************************************************************)
EXTENDS Naturals, Sequences, FiniteSets

CONSTANTS Backup,      \* backups that may be asked for
          Full,        \* those of type FULL: they gather files in a directory first
          Base,        \* the directory of the local storage, as a path
          Job,         \* jobs the queue will ever hold
          Attempts,    \* the attempts of a job that makes a backup
          Fragile,     \* steps that may fail
          MaxRequests, \* bound on requests
          MaxFaults,   \* bound on steps that fail
          MaxCrashes   \* bound on restarts of the backend

ASSUME FullAssumption  == Full \subseteq Backup
ASSUME BaseAssumption  == Base \in Seq(STRING)
ASSUME BoundAssumption == Attempts \in Nat \ {0} /\ {MaxRequests, MaxFaults, MaxCrashes} \subseteq Nat

VARIABLES
  status,   \* Backup.status, or none without a row
  path,     \* Backup.storagePath
  pending,  \* requests between two of their awaits
  job,      \* the queue
  todo,     \* the steps left of the job in the worker's hands
  attempt,  \* attempts made for a backup: they give its files their names
  temp,     \* temporary files of the worker
  store,    \* paths of the archives in the local storage
  domain,   \* the domain and its account are there
  cut,      \* history: backups whose temporary files could not be cleaned up
  removed,  \* history: backups whose row was removed
  requests, faults, crashes

counters == <<requests, faults, crashes>>
rows == <<status, path>>
vars == <<rows, pending, job, todo, attempt, temp, store, domain, cut, removed, counters>>

NoPath == <<>>
Unused == [backup |-> "none", kind |-> "none", state |-> "unused", failed |-> 0, stalled |-> 0]

Row(b)  == status[b] # "none"
At(s)   == todo # <<>> /\ Head(todo) = s
Active  == {j \in Job : job[j].state = "active"}
Working(b) == \E j \in Active : job[j].backup = b

\* Mutant: the row is completed before the archive is stored.
Steps_SaveFirst(kind) ==
  IF kind = "create"
    THEN <<"find", "start", "prepare", "pack", "stat", "save", "upload", "clean">>
    ELSE <<"find", "download">>

\* The handlers in the order of their awaits.
Steps(kind) ==
  IF kind = "create"
    THEN <<"find", "start", "prepare", "pack", "stat", "upload", "save", "clean">>
    ELSE <<"find", "download">>

\* The name of an archive: domain, type and time tell the attempts apart.
Archive(b)  == <<b, attempt[b]>>
Files(b, k) == [backup |-> b, file |-> k]

Init ==
  /\ status  = [b \in Backup |-> "none"]
  /\ path    = [b \in Backup |-> NoPath]
  /\ pending = {}
  /\ job     = [j \in Job |-> Unused]
  /\ todo    = <<>>
  /\ attempt = [b \in Backup |-> 0]
  /\ temp = {} /\ store = {} /\ domain = TRUE /\ cut = {} /\ removed = {}
  /\ requests = 0 /\ faults = 0 /\ crashes = 0

-----------------------------------------------------------------------------
(* Requests.                                                                *)

Ask == requests < MaxRequests /\ requests' = requests + 1

Fault == faults < MaxFaults /\ faults' = faults + 1

Enqueue(b, kind) ==
  \E j \in Job :
    /\ job[j] = Unused /\ \A i \in Job : i < j => job[i] # Unused
    /\ job' = [job EXCEPT ![j] = [Unused EXCEPT !.backup = b, !.kind = kind, !.state = "waiting"]]

Create(b) ==
  /\ Ask /\ domain
  /\ ~Row(b) /\ b \notin removed
  /\ status'  = [status EXCEPT ![b] = "PENDING"]
  /\ pending' = pending \cup {<<"create", b>>}
  /\ UNCHANGED <<path, job, todo, attempt, temp, store, domain, cut, removed, faults, crashes>>

\* The row is saved; now the job is added.  Nothing removes the row if that fails.
CreateAdds(b) ==
  /\ <<"create", b>> \in pending
  /\ pending' = pending \ {<<"create", b>>}
  /\ \/ Enqueue(b, "create") /\ UNCHANGED faults
     \/ "add" \in Fragile /\ Fault /\ UNCHANGED job
  /\ UNCHANGED <<rows, todo, attempt, temp, store, domain, cut, removed, requests, crashes>>

\* Only the state that was read before the first await counts.
Delete(b) ==
  /\ Ask /\ Row(b) /\ status[b] # "IN_PROGRESS"
  /\ pending' = pending \cup {<<"delete", b>>}
  /\ UNCHANGED <<rows, job, todo, attempt, temp, store, domain, cut, removed, faults, crashes>>

\* The storage puts its directory before the path it is given, also before one
\* that upload() returned; that the archive is not there is ignored.
DeleteRemoves(b) ==
  /\ <<"delete", b>> \in pending
  /\ pending' = pending \ {<<"delete", b>>}
  /\ store'   = store \ {Base \o path[b]}
  /\ status'  = [status EXCEPT ![b] = "none"]
  /\ path'    = [path EXCEPT ![b] = NoPath]
  /\ removed' = removed \cup {b}
  /\ UNCHANGED <<job, todo, attempt, temp, domain, cut, counters>>

Restore(b) ==
  /\ Ask /\ status[b] = "COMPLETED"
  /\ Enqueue(b, "restore")
  /\ UNCHANGED <<rows, pending, todo, attempt, temp, store, domain, cut, removed, faults, crashes>>

\* The domain is deleted: the row stays, hidden from every query.
DomainGoes ==
  /\ Ask /\ domain
  /\ domain' = FALSE
  /\ UNCHANGED <<rows, pending, job, todo, attempt, temp, store, cut, removed, faults, crashes>>

-----------------------------------------------------------------------------
(* The worker.                                                              *)

TakeJob(j) ==
  /\ job[j].state = "waiting" /\ Active = {}
  /\ job'  = [job EXCEPT ![j].state = "active"]
  /\ todo' = Steps(job[j].kind)
  /\ UNCHANGED <<rows, pending, attempt, temp, store, domain, cut, removed, counters>>

\* A job that throws waits for its next attempt; a restore has only one.
Throws ==
  /\ todo' = <<>>
  /\ job'  = [j \in Job |->
       IF j \notin Active THEN job[j]
       ELSE [job[j] EXCEPT !.failed = @ + 1,
               !.state = IF job[j].kind = "create" /\ job[j].failed + 1 < Attempts
                           THEN "delayed" ELSE "failed"]]

Advance == todo' = Tail(todo)

\* findOne() of the backup, then of its domain: outside of any try.
Find(b) ==
  /\ At("find")
  /\ IF Row(b) /\ domain /\ (todo[2] = "download" => path[b] # NoPath) THEN Advance /\ UNCHANGED job ELSE Throws
  /\ UNCHANGED <<rows, pending, attempt, temp, store, domain, cut, removed, counters>>

\* An update of a row that is gone does nothing.
Update(b, s) == status' = [status EXCEPT ![b] = IF @ = "none" THEN @ ELSE s]

\* Mutant: the entity is saved, which inserts a row that is gone.
Completed_Saves(b) == status' = [status EXCEPT ![b] = "COMPLETED"]

Completed(b) == Update(b, "COMPLETED")

Start(b) ==
  /\ At("start")
  /\ Update(b, "IN_PROGRESS")
  /\ attempt' = [attempt EXCEPT ![b] = @ + 1]
  /\ Advance
  /\ UNCHANGED <<path, pending, job, temp, store, domain, cut, removed, counters>>

\* The directory that a full backup fills; the others need only the common one.
Prepare(b) ==
  /\ At("prepare")
  /\ temp' = IF b \in Full THEN temp \cup {Files(b, "directory")} ELSE temp
  /\ Advance
  /\ UNCHANGED <<rows, pending, job, attempt, store, domain, cut, removed, counters>>

\* cp, mysqldump, tar: what they return is not looked at.
Pack(b) ==
  /\ At("pack")
  /\ \/ temp' = temp \cup {Files(b, "archive")} /\ UNCHANGED faults
     \/ "pack" \in Fragile /\ Fault /\ UNCHANGED temp
  /\ Advance
  /\ UNCHANGED <<rows, pending, job, attempt, store, domain, cut, removed, requests, crashes>>

Stat(b) ==
  /\ At("stat") /\ Files(b, "archive") \in temp
  /\ Advance
  /\ UNCHANGED <<rows, pending, job, attempt, temp, store, domain, cut, removed, counters>>

Upload(b) ==
  /\ At("upload")
  /\ store' = store \cup {Base \o Archive(b)}
  /\ Advance
  /\ UNCHANGED <<rows, pending, job, attempt, temp, domain, cut, removed, counters>>

Save(b) ==
  /\ At("save")
  /\ Completed(b)
  /\ path' = IF Row(b) THEN [path EXCEPT ![b] = Base \o Archive(b)] ELSE path
  /\ Advance
  /\ UNCHANGED <<pending, job, attempt, temp, store, domain, cut, removed, counters>>

OwnFiles(b) == {f \in temp : f.backup = b}

Clean(b) ==
  /\ At("clean")
  /\ temp' = temp \ OwnFiles(b)
  /\ job'  = [j \in Job |-> IF j \in Active THEN [job[j] EXCEPT !.state = "completed"] ELSE job[j]]
  /\ Advance
  /\ UNCHANGED <<rows, pending, attempt, store, domain, cut, removed, counters>>

\* What is left to do when a step throws: the catch of a handler, unless the
\* step is outside of its try.
OnError(s) == IF s \in {"find", "start", "download"} THEN <<>> ELSE <<"failed", "tidy">>

Caught(s) == IF OnError(s) = <<>> THEN Throws ELSE todo' = OnError(s) /\ UNCHANGED job

\* The archive is missing.
Missing(b) ==
  /\ At("stat") /\ Files(b, "archive") \notin temp
  /\ Caught("stat")
  /\ UNCHANGED <<rows, pending, attempt, temp, store, domain, cut, removed, counters>>

\* A query or a file operation fails.  Files of this attempt may be gone when
\* it was the cleaning, which runs after the row was completed.
StepFails(b) ==
  /\ todo # <<>> /\ Head(todo) \in Fragile \ {"pack", "failed", "tidy"} /\ Fault
  /\ Caught(Head(todo))
  /\ \/ temp' = temp
     \/ At("clean") /\ temp' = temp \ {Files(b, "directory")}
  /\ UNCHANGED <<rows, pending, attempt, store, domain, cut, removed, requests, crashes>>

Failed(b) ==
  /\ At("failed")
  /\ Update(b, "FAILED")
  /\ Advance
  /\ UNCHANGED <<path, pending, job, attempt, temp, store, domain, cut, removed, counters>>

\* The failure itself cannot be saved: nothing is cleaned up.
FailedNotSaved(b) ==
  /\ At("failed") /\ "failed" \in Fragile /\ Fault
  /\ Throws
  /\ cut' = cut \cup {b}
  /\ UNCHANGED <<rows, pending, attempt, temp, store, domain, removed, requests, crashes>>

\* Mutant: only the archive is removed.
Tidied_Archive(b) == temp \ {Files(b, "archive")}

Tidied(b) == temp \ OwnFiles(b)

\* Errors of this cleaning are ignored; the job throws in any case.
Tidy(b) ==
  /\ At("tidy")
  /\ Throws
  /\ \/ temp' = Tidied(b) /\ UNCHANGED <<cut, faults>>
     \/ "tidy" \in Fragile /\ Fault /\ UNCHANGED temp /\ cut' = cut \cup {b}
  /\ UNCHANGED <<rows, pending, attempt, store, domain, removed, requests, crashes>>

\* The storage puts its directory before a path that has it already, so the
\* file to download is not there; what follows in restoreBackup() is not reached.
Download(b) ==
  /\ At("download") /\ Base \o path[b] \notin store
  /\ Caught("download")
  /\ UNCHANGED <<rows, pending, attempt, temp, store, domain, cut, removed, counters>>

Backoff(j) ==
  /\ job[j].state = "delayed"
  /\ job' = [job EXCEPT ![j].state = "waiting"]
  /\ UNCHANGED <<rows, pending, todo, attempt, temp, store, domain, cut, removed, counters>>

\* Mutant: a job whose worker died fails at once.
Stalled_Fails(w) == [w EXCEPT !.state = "failed"]

\* BullMQ hands a job whose worker died out once more.
Stalled(w) == [w EXCEPT !.state = IF w.stalled = 0 THEN "waiting" ELSE "failed", !.stalled = 1]

\* The backend restarts: requests are cut off, temporary files stay.
Restart ==
  /\ crashes < MaxCrashes /\ crashes' = crashes + 1
  /\ cut' = cut \cup {b \in Backup : Working(b)}
  /\ pending' = {} /\ todo' = <<>>
  /\ job' = [j \in Job |-> IF j \in Active THEN Stalled(job[j]) ELSE job[j]]
  /\ UNCHANGED <<rows, attempt, temp, store, domain, removed, requests, faults>>

Handler(b) ==
  /\ Working(b)
  /\ \/ Find(b) \/ Start(b) \/ Prepare(b) \/ Pack(b) \/ Stat(b) \/ Upload(b) \/ Save(b) \/ Clean(b)
     \/ Missing(b) \/ StepFails(b) \/ Failed(b) \/ FailedNotSaved(b) \/ Tidy(b) \/ Download(b)

Next ==
  \/ \E b \in Backup : Create(b) \/ CreateAdds(b) \/ Delete(b) \/ DeleteRemoves(b) \/ Restore(b)
  \/ \E j \in Job : TakeJob(j) \/ Backoff(j)
  \/ \E b \in Backup : Handler(b)
  \/ DomainGoes
  \/ Restart

Spec == Init /\ [][Next]_vars

\* Awaited calls come back (every command has a timeout); the worker and the
\* timers of the queue go on.
Fairness ==
  /\ \A b \in Backup : WF_vars(Handler(b)) /\ WF_vars(CreateAdds(b)) /\ WF_vars(DeleteRemoves(b))
  /\ \A j \in Job : WF_vars(TakeJob(j)) /\ WF_vars(Backoff(j))

FairSpec == Spec /\ Fairness

-----------------------------------------------------------------------------
\* Types; the worker has steps to do exactly while it has a job, and only one.
TypeOK ==
  /\ status \in [Backup -> {"none", "PENDING", "IN_PROGRESS", "COMPLETED", "FAILED"}]
  /\ \A b \in Backup : path[b] = NoPath \/ \E n \in 1 .. attempt[b] : path[b] = Base \o <<b, n>>
  /\ pending \subseteq {"create", "delete"} \X Backup
  /\ \A j \in Job : job[j].failed \in 0 .. Attempts /\ job[j].stalled \in 0 .. 1
  /\ \A i, j \in Active : i = j
  /\ (todo = <<>>) <=> (Active = {})

\* A backup that says COMPLETED has its archive in the storage, its own and
\* under the path that the row gives, although completed rows fail and are tried
\* again, requests delete rows meanwhile and steps fail.
CompletedHasArchive ==
  \A b \in Backup : status[b] = "COMPLETED" =>
    path[b] \in store /\ \E n \in 1 .. attempt[b] : path[b] = Base \o <<b, n>>

\* Between two jobs a backup has no temporary files, however its attempts ended,
\* unless the backend stopped, or the cleaning itself failed.
TempClean == \A b \in Backup \ cut : ~Working(b) => OwnFiles(b) = {}

\* The row of a backup that was deleted while it waited, ran or was tried again
\* does not come back.
RemovedStays == \A b \in removed : ~Row(b)

\* A backup whose job is in the queue ends: completed, failed or deleted, unless
\* its domain goes.  Fewer steps fail than the job has attempts.
BackupEnds ==
  \A b \in Backup :
    (status[b] = "IN_PROGRESS" \/ (status[b] = "PENDING" /\ \E j \in Job : job[j].backup = b))
      ~> (status[b] \in {"none", "COMPLETED", "FAILED"} \/ ~domain)
=============================================================================
