---------------------------- MODULE AppDeployment ----------------------------
(***************************************************************************)
(* Applications of a domain (modules/apps): rows, PM2 processes, ports,    *)
(* and the BullMQ queue whose one worker deploys them.  Requests and the   *)
(* worker interleave between any two awaits, on one application too:       *)
(* nothing in the code keeps them apart.  An identifier is used once.      *)
(***************************************************************************)
EXTENDS Naturals, Sequences, FiniteSets

CONSTANTS App,         \* applications that may be created
          Node,        \* those of type NODEJS; the others are PHP
          Port,        \* the range ports are allocated from
          Reserved,    \* ports of other services in that range
          Foreign,     \* sets of ports on which other programs may listen
          Client,      \* requests that may be in flight at once
          Job,         \* jobs the queue will ever hold
          Attempts,    \* the attempts of a job
          MaxRequests, \* bound on requests
          MaxFaults,   \* bound on steps that fail
          MaxCrashes   \* bound on restarts of the backend

ASSUME NodeAssumption  == Node \subseteq App /\ "none" \notin App
ASSUME PortAssumption  == Port \subseteq Nat \ {0} /\ Reserved \subseteq Port
ASSUME ForeignAssumption == Foreign # {} /\ \A f \in Foreign : f \subseteq Port
ASSUME ClientAssumption  == Client \subseteq Nat \ {0}
ASSUME BoundAssumption == Attempts \in Nat \ {0} /\ {MaxRequests, MaxFaults, MaxCrashes} \subseteq Nat

VARIABLES
  status,  \* App.status, or new before the row is saved, or gone after it is deleted
  port,    \* App.port
  proc,    \* the PM2 process of an application
  op,      \* what a request or the worker has in flight
  job,     \* the queue
  foreign, \* ports other programs listen on
  mixed,   \* history: applications with operations, or port allocations, that overlapped
  cut,     \* history: applications a request on which was cut off or could not save
  requests, faults, crashes

counters == <<requests, faults, crashes>>
history  == <<mixed, cut>>
vars == <<status, port, proc, op, job, foreign, history, counters>>

Worker  == 0
Process == Client \cup {Worker}
NoPort  == 0
Idle    == [kind |-> "none", app |-> "none", todo |-> <<>>]
Unused  == [app |-> "none", state |-> "unused", failed |-> 0, stalled |-> 0]

Row(a)   == status[a] \notin {"new", "gone"}
Quiet(a) == \A p \in Process : op[p].app # a
At(p, s) == op[p].todo # <<>> /\ Head(op[p].todo) = s

Waiting == {"waiting", "delayed"}

\* The steps of each handler, in the order in which it awaits them.  Each part of
\* a deployment finds the application anew.
Steps(a, kind) ==
  IF a \in Node
    THEN CASE kind = "create"  -> <<"allocate", "insert", "ecosystem", "vhost">>
           [] kind = "start"   -> <<"ecosystem", "pm2start", "running">>
           [] kind = "stop"    -> <<"pm2stop", "stopped">>
           [] kind = "restart" -> <<"pm2restart", "running">>
           [] kind = "remove"  -> <<"pm2delete", "delete">>
           [] kind = "deploy"  -> <<"deploying", "find", "pull", "find", "deploying", "install",
                                    "find", "build", "find", "pm2restart", "running", "running">>
    ELSE CASE kind = "create"  -> <<"insert", "vhost", "running">>
           [] kind = "remove"  -> <<"delete">>
           [] kind = "deploy"  -> <<"deploying", "find", "pull", "find", "deploying", "composer",
                                    "composed", "find", "running">>

\* Mutant: the processor reports the error without saving it.
OnError_NoSave(kind, s) ==
  CASE kind = "create" -> <<"undo">>
    [] kind = "deploy" /\ s \in {"pull", "install", "build", "composer", "composed"} -> <<"note">>
    [] OTHER -> <<>>

\* The transaction of a creation rolls back; some parts of a deployment save the
\* error before the processor does; the other handlers only throw.
OnError(kind, s) ==
  CASE kind = "create" -> <<"undo">>
    [] kind = "deploy" -> IF s \in {"pull", "install", "build", "composer", "composed"}
                          THEN <<"note", "error">> ELSE <<"error">>
    [] OTHER           -> <<>>

Init ==
  /\ status = [a \in App |-> "new"]
  /\ port   = [a \in App |-> NoPort]
  /\ proc   = [a \in App |-> "none"]
  /\ op     = [p \in Process |-> Idle]
  /\ job    = [j \in Job |-> Unused]
  /\ foreign \in Foreign
  /\ mixed = {} /\ cut = {}
  /\ requests = 0 /\ faults = 0 /\ crashes = 0

-----------------------------------------------------------------------------
(* Requests.                                                                *)

\* Requests in flight are numbered: a new one takes the first number that is free.
Ask(p) ==
  /\ op[p] = Idle /\ \A q \in Client : q < p => op[q] # Idle
  /\ requests < MaxRequests /\ requests' = requests + 1

\* Operations in flight that another one of this kind on a interferes with.
Overlapped(a, kind) ==
  {op[p].app : p \in {q \in Process : op[q].app = a \/ (kind = "create" /\ op[q].kind = "create")}}

Open(p, a, kind) ==
  /\ op'    = [op EXCEPT ![p] = [kind |-> kind, app |-> a, todo |-> Steps(a, kind)]]
  /\ mixed' = IF Overlapped(a, kind) = {} THEN mixed ELSE mixed \cup Overlapped(a, kind) \cup {a}

Create(p, a) ==
  /\ Ask(p) /\ status[a] = "new" /\ Quiet(a)
  /\ Open(p, a, "create")
  /\ UNCHANGED <<foreign, status, port, proc, job, cut, faults, crashes>>

\* Start, stop and restart are of Node.js applications.
Control(p, a) ==
  /\ Ask(p) /\ Row(a) /\ a \in Node
  /\ \E kind \in {"start", "stop", "restart"} : Open(p, a, kind)
  /\ UNCHANGED <<foreign, status, port, proc, job, cut, faults, crashes>>

Remove(p, a) ==
  /\ Ask(p) /\ Row(a)
  /\ Open(p, a, "remove")
  /\ UNCHANGED <<foreign, status, port, proc, job, cut, faults, crashes>>

\* queueDeployment(): only that the application exists is checked.
QueueDeployment(p, a) ==
  /\ Ask(p) /\ Row(a)
  /\ \E j \in Job :
       /\ job[j] = Unused /\ \A i \in Job : i < j => job[i] # Unused
       /\ job' = [job EXCEPT ![j] = [Unused EXCEPT !.app = a, !.state = "waiting"]]
  /\ UNCHANGED <<foreign, status, port, proc, op, history, faults, crashes>>

\* cancelDeployment(): a job that waits is removed; its row is left alone.
CancelDeployment(p, j) ==
  /\ Ask(p) /\ job[j].state \in Waiting
  /\ job' = [job EXCEPT ![j].state = "removed"]
  /\ UNCHANGED <<foreign, status, port, proc, op, history, faults, crashes>>

-----------------------------------------------------------------------------
(* The steps of an operation.                                               *)

\* The worker's job ends with the last step of its operation.
Continue(p, steps) ==
  /\ op'  = [op EXCEPT ![p] = IF steps = <<>> THEN Idle ELSE [@ EXCEPT !.todo = steps]]
  /\ job' = [j \in Job |-> IF p = Worker /\ steps = <<>> /\ job[j].state = "active"
                              THEN [job[j] EXCEPT !.state = "completed"] ELSE job[j]]

Advance(p) == Continue(p, Tail(op[p].todo))

\* getAppWithDomain() within a deployment.
Find(p) ==
  /\ At(p, "find") /\ Row(op[p].app)
  /\ Advance(p)
  /\ UNCHANGED <<foreign, status, port, proc, history, counters>>

\* Mutant: an application that is stopped does not count.
UsedPorts_Running == {port[a] : a \in {b \in Node : status[b] = "RUNNING"}}

\* getUsedPorts(): those of all rows.
UsedPorts == {port[a] : a \in {b \in Node : Row(b)}}

\* isPortFree(): no process listens.
Listening == foreign \cup {port[a] : a \in {b \in Node : proc[b] = "online"}}

\* allocatePort(): the one asked for, or the first that is free.  When ss fails its
\* output is empty, and a port in use passes for free.
Allocate(p) ==
  LET a == op[p].app
      Choose(ports) == \E n \in ports : port' = [port EXCEPT ![a] = n]
      known == Reserved \cup UsedPorts
  IN
  /\ At(p, "allocate")
  /\ \/ Choose(Port \ (known \cup Listening)) /\ UNCHANGED faults
     \/ faults < MaxFaults /\ faults' = faults + 1 /\ Choose((Port \ known) \cap Listening)
  /\ Advance(p)
  /\ UNCHANGED <<foreign, status, proc, history, requests, crashes>>

\* What a step that saves writes into the status.
Saved ==
  [insert |-> "PENDING", running |-> "RUNNING", stopped |-> "STOPPED",
   deploying |-> "DEPLOYING", composed |-> "RUNNING", note |-> "ERROR", error |-> "ERROR"]

\* save() inserts the entity again when its row was deleted meanwhile.
Save(p) ==
  /\ \E s \in DOMAIN Saved :
       At(p, s) /\ status' = [status EXCEPT ![op[p].app] = Saved[s]]
  /\ Advance(p)
  /\ UNCHANGED <<foreign, port, proc, history, counters>>

\* What pm2 makes of a command: restart needs a process, stop and delete do not.
Pm2(p) ==
  LET a == op[p].app
      Makes(new) == proc' = [proc EXCEPT ![a] = new]
  IN
  /\ \/ At(p, "pm2start")   /\ Makes("online")
     \/ At(p, "pm2restart") /\ proc[a] # "none" /\ Makes("online")
     \/ At(p, "pm2stop")    /\ Makes(IF proc[a] = "none" THEN "none" ELSE "stopped")
     \/ At(p, "pm2delete")  /\ Makes("none")
  /\ Advance(p)
  /\ UNCHANGED <<foreign, status, port, history, counters>>

\* Commands and files the other steps are about: the ecosystem file, the
\* virtual host, git, npm and composer.
Command(p) ==
  /\ \E s \in {"ecosystem", "vhost", "pull", "install", "build", "composer"} : At(p, s)
  /\ Advance(p)
  /\ UNCHANGED <<foreign, status, port, proc, history, counters>>

\* The row goes, on a removal or when a creation is rolled back.
Delete(p) ==
  LET a == op[p].app IN
  /\ At(p, "delete") \/ At(p, "undo")
  /\ status' = [status EXCEPT ![a] = IF Row(a) THEN "gone" ELSE @]
  /\ Advance(p)
  /\ UNCHANGED <<foreign, port, proc, history, counters>>

\* Mutant: any failure of pm2 delete is taken for "not found".
Tolerated_Delete(a, s) == s \in {"undo", "pm2delete"}

\* stopApp() and deleteApp() go on when PM2 does not find the process; rollback()
\* collects its errors.
Tolerated(a, s) == s = "undo" \/ (s \in {"pm2stop", "pm2delete"} /\ proc[a] = "none")

\* No port is free, nothing is there to restart, the row is gone, or a step
\* fails.  A request that fails after its pm2 command leaves the row as it was.
StepFails(p) ==
  LET s == Head(op[p].todo)
      a == op[p].app
  IN
  /\ op[p] # Idle
  /\ \/ s = "allocate" /\ Port \subseteq Reserved \cup UsedPorts \cup Listening /\ UNCHANGED faults
     \/ s = "pm2restart" /\ proc[a] = "none" /\ UNCHANGED faults
     \/ s = "find" /\ ~Row(a) /\ UNCHANGED faults
     \/ s # "error" /\ faults < MaxFaults /\ faults' = faults + 1
  /\ IF Tolerated(a, s) THEN Advance(p) ELSE Continue(p, OnError(op[p].kind, s))
  /\ LET unsaved == op[p].kind \notin {"create", "deploy"} /\ s \in {"running", "stopped", "delete"}
     IN  cut' = IF unsaved \/ s = "undo" THEN cut \cup {a} ELSE cut
  /\ UNCHANGED <<foreign, status, port, proc, mixed, requests, crashes>>

-----------------------------------------------------------------------------
(* The worker.                                                              *)

\* Mutant: the processor does not look whether the application was found.
Known_Always(a) == TRUE

Known(a) == Row(a)

\* One job at a time; a job of an application that is gone does nothing.
TakeJob(j) ==
  /\ job[j].state = "waiting" /\ op[Worker] = Idle
  /\ IF Known(job[j].app)
       THEN /\ job' = [job EXCEPT ![j].state = "active"]
            /\ Open(Worker, job[j].app, "deploy")
       ELSE /\ job' = [job EXCEPT ![j].state = "completed"]
            /\ UNCHANGED <<op, mixed>>
  /\ UNCHANGED <<foreign, status, port, proc, cut, counters>>

\* The error cannot be saved: process() throws, and the job waits for its next
\* attempt, if it has one.
ErrorNotSaved ==
  /\ At(Worker, "error") /\ faults < MaxFaults
  /\ faults' = faults + 1
  /\ op' = [op EXCEPT ![Worker] = Idle]
  /\ job' = [j \in Job |->
       IF job[j].state # "active" THEN job[j]
       ELSE [job[j] EXCEPT !.failed = @ + 1,
                           !.state = IF job[j].failed + 1 < Attempts THEN "delayed" ELSE "failed"]]
  /\ UNCHANGED <<foreign, status, port, proc, history, requests, crashes>>

Backoff(j) ==
  /\ job[j].state = "delayed"
  /\ job' = [job EXCEPT ![j].state = "waiting"]
  /\ UNCHANGED <<foreign, status, port, proc, op, history, counters>>

\* BullMQ hands a job whose worker died out once more.
Stalled(w) ==
  [w EXCEPT !.state = IF w.stalled = 0 THEN "waiting" ELSE "failed", !.stalled = 1]

\* The backend restarts: what was in flight is cut off where it was.
Restart ==
  /\ crashes < MaxCrashes
  /\ crashes' = crashes + 1
  /\ cut' = cut \cup {op[p].app : p \in {q \in Client : op[q] # Idle}}
  /\ op'  = [p \in Process |-> Idle]
  /\ job' = [j \in Job |-> IF job[j].state = "active" THEN Stalled(job[j]) ELSE job[j]]
  /\ UNCHANGED <<foreign, status, port, proc, mixed, requests, faults>>

Handler(p) ==
  \/ Allocate(p) \/ Find(p) \/ Save(p) \/ Pm2(p) \/ Command(p) \/ Delete(p) \/ StepFails(p)

Queue == \E j \in Job : TakeJob(j) \/ Backoff(j)

Next ==
  \/ \E p \in Client, a \in App :
       Create(p, a) \/ Control(p, a) \/ Remove(p, a) \/ QueueDeployment(p, a)
  \/ \E p \in Client, j \in Job : CancelDeployment(p, j)
  \/ \E p \in Process : Handler(p)
  \/ ErrorNotSaved
  \/ Queue
  \/ Restart

Spec == Init /\ [][Next]_vars

\* Every command has a timeout, so the calls the worker awaits come back; it and
\* the timers of the queue go on.  Of requests nothing is assumed.
Fairness == WF_vars(Handler(Worker)) /\ WF_vars(Queue)

FairSpec == Spec /\ Fairness

-----------------------------------------------------------------------------
\* Types; the worker has at most one job, and an operation exactly while it has one.
TypeOK ==
  /\ status \in [App -> {"new", "PENDING", "DEPLOYING", "RUNNING", "STOPPED", "ERROR", "gone"}]
  /\ port \in [App -> Port \cup {NoPort}]
  /\ proc \in [App -> {"none", "online", "stopped"}]
  /\ \A j \in Job : job[j].failed \in 0 .. Attempts /\ job[j].stalled \in 0 .. 1
  /\ {op[Worker].app} \ {"none"} = {job[j].app : j \in {i \in Job : job[i].state = "active"}}
  /\ mixed \cup cut \subseteq App

\* Once no operation on an application is in flight, a row that says RUNNING is
\* right, whatever was deployed, restarted or stopped before and wherever it failed;
\* and one that was removed, or whose creation failed, has no process, which nobody
\* could reach any more.  Unless two operations on it overlapped, or one of them was
\* cut off between pm2 and the row.
ProcessesFollowRows ==
  \A a \in App \ (cut \cup mixed) : Quiet(a) =>
    /\ a \in Node /\ status[a] = "RUNNING" => proc[a] = "online"
    /\ ~Row(a) => proc[a] = "none"

\* No application has a reserved port, and no two have the same one, whatever ss
\* says and whatever was removed and stopped in between; unless their creations
\* overlapped, or one of them came back (see RemovedStays).
PortsDistinct ==
  \A a, b \in Node : Row(a) /\ Row(b) =>
    port[a] \notin Reserved /\ (port[a] = port[b] => a = b \/ {a, b} \cap mixed # {})

\* A deployment that was queued before its application was removed, delayed or
\* stalled, does not bring the row back; only what was in flight does.
RemovedStays ==
  [][\A a \in App : status[a] = "gone" /\ Row(a)' => a \in mixed]_vars

\* A deployment ends with a status that says how, though steps fail, the worker
\* dies or the error itself cannot be saved at first; only who cancels a job
\* between two attempts leaves the row as it is.
DeployEnds ==
  \A a \in App :
    (status[a] = "DEPLOYING") ~>
      (status[a] # "DEPLOYING" \/ \E j \in Job : job[j].app = a /\ job[j].state = "removed")
=============================================================================
