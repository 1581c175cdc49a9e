------------------------ MODULE AppDeploymentProofs ------------------------
(***************************************************************************)
(* Proofs about AppDeployment: for any number of applications, ports,      *)
(* requests in flight and jobs, wherever steps fail and the backend        *)
(* restarts.  First the steps of an operation and the queue, then what     *)
(* each operation in flight promises of the application it is about.       *)
(***************************************************************************)
EXTENDS AppDeployment, SequenceTheorems, TLAPS

-----------------------------------------------------------------------------
(* The steps of an operation.                                               *)

Kind == {"create", "start", "stop", "restart", "remove", "deploy"}

StepName ==
  {"allocate", "insert", "ecosystem", "vhost", "pm2start", "running", "pm2stop", "stopped",
   "pm2restart", "pm2delete", "delete", "deploying", "find", "pull", "install", "build",
   "composer", "composed", "undo", "note", "error"}

\* The step s may be one of an operation of this kind.
May(a, kind, s) ==
  /\ s \in {"allocate", "insert", "undo"} => kind = "create"
  /\ kind = "create" => s \in {"allocate", "insert", "ecosystem", "vhost", "running", "undo"}
  /\ kind = "create" /\ a \in Node => s # "running"
  /\ s \in {"deploying", "note", "error"} => kind = "deploy"
  /\ kind = "deploy" => s \notin {"delete", "stopped", "pm2stop", "pm2delete"}
  /\ s \in {"pm2start", "pm2restart", "pm2stop", "pm2delete"} => a \in Node
  /\ s = "composed" => a \notin Node

\* The step t may come after the step s.
After(a, s, t) ==
  /\ s \notin {"undo", "delete"} /\ t # "allocate"
  /\ t = "insert" => s = "allocate"
  /\ a \in Node /\ t = "running" => s \in {"pm2start", "pm2restart", "running"}
  /\ t = "stopped" <=> s = "pm2stop"
  /\ t = "delete" <=> s = "pm2delete"

Ordered(a, kind, steps) ==
  /\ steps \in Seq(StepName)
  /\ \A i \in 1 .. Len(steps) : May(a, kind, steps[i])
  /\ \A i \in 1 .. Len(steps) - 1 : After(a, steps[i], steps[i + 1])
  /\ steps # <<>> => steps[Len(steps)] \notin {"pm2stop", "pm2delete"}

Operation == [kind : Kind \cup {"none"}, app : App \cup {"none"}, todo : Seq(StepName)]

Going(p) ==
  /\ op[p].app \in App /\ op[p].kind \in Kind /\ op[p].todo # <<>>
  /\ Ordered(op[p].app, op[p].kind, op[p].todo)
  /\ op[p].kind = "deploy" <=> p = Worker

Operations ==
  /\ op \in [Process -> Operation]
  /\ \A p \in Process : op[p] = Idle \/ Going(p)

-----------------------------------------------------------------------------
(* The inductive invariant, by parts.                                        *)

\* Types of what is known of an application.
Rows ==
  /\ status \in [App -> {"new", "PENDING", "DEPLOYING", "RUNNING", "STOPPED", "ERROR", "gone"}]
  /\ port \in [App -> Port \cup {NoPort}]
  /\ proc \in [App -> {"none", "online", "stopped"}]
  /\ mixed \subseteq App /\ cut \subseteq App

Entry == [app : App \cup {"none"}, failed : Nat, stalled : 0 .. 1,
          state : {"unused", "waiting", "delayed", "active", "completed", "failed", "removed"}]

Active == {j \in Job : job[j].state = "active"}

\* A job that may still run has an attempt left; the worker is busy with the active one.
Jobs ==
  /\ job \in [Job -> Entry]
  /\ \A j \in Job : /\ job[j].failed \in 0 .. Attempts
                    /\ job[j].state \in {"unused", "waiting", "delayed", "active"} => job[j].failed < Attempts
                    /\ job[j].state # "unused" => job[j].app \in App
  /\ \A j \in Active : op[Worker] # Idle /\ op[Worker].app = job[j].app
  /\ op[Worker] # Idle => Active # {}

\* Two operations of an application, and two creations, are recorded as overlapping.
Overlaps ==
  \A p, q \in Process : p # q /\ op[p] # Idle /\ op[q] # Idle
    /\ (op[p].app = op[q].app \/ (op[p].kind = "create" /\ op[q].kind = "create"))
    => op[p].app \in mixed

\* Until its row is saved a creation is the only operation on its application.
Beginnings ==
  \A p \in Process : op[p] # Idle /\ Head(op[p].todo) \in {"allocate", "insert"} =>
    status[op[p].app] = "new" /\ \A q \in Process \ {p} : op[q].app # op[p].app

\* The others started with a row, which only an operation that overlapped deletes.
StartedWithRow ==
  \A p \in Process : op[p] # Idle =>
    /\ status[op[p].app] = "new" => op[p].kind = "create"
    /\ status[op[p].app] = "gone" => op[p].app \in mixed

\* The port of an application whose row is being saved is free.
PortIsFree ==
  \A p \in Process : op[p].app \in Node /\ At(p, "insert") =>
    /\ port[op[p].app] \notin Reserved
    /\ \A b \in Node : Row(b) /\ port[b] = port[op[p].app] => {op[p].app, b} \cap mixed # {}

NotReserved == \A a \in Node : status[a] # "new" => port[a] \notin Reserved

\* PM2 has nothing to do with applications that are not of type NODEJS.
NodeOnly == \A a \in App \ Node : proc[a] = "none"

RunningIsOnline(a, st, pr) == a \in Node /\ st = "RUNNING" => pr = "online"

There(st) == st \notin {"new", "gone"}

\* The status and the process of an application on which nothing is in flight.
Settled(a, st, pr) == RunningIsOnline(a, st, pr) /\ (~There(st) => pr = "none")

\* What status and process are when an operation comes to the step s.
Promise(a, kind, s, st, pr) ==
  IF kind = "create" THEN /\ pr = "none" /\ (s \in {"allocate", "insert"} => st = "new")
                          /\ st # "RUNNING" \/ a \notin Node
  ELSE /\ There(st)
       /\ s \notin {"delete", "stopped"} => RunningIsOnline(a, st, pr)
       /\ s = "running" /\ a \in Node => pr = "online"
       /\ s = "delete" => pr = "none"

Promises ==
  \A p \in Process : op[p] # Idle =>
    \A a \in App \ (mixed \cup cut) : op[p].app = a =>
      Promise(a, op[p].kind, Head(op[p].todo), status[a], proc[a])

AppInv ==
  /\ Operations /\ Rows /\ Jobs /\ Overlaps /\ Beginnings /\ StartedWithRow /\ PortIsFree
  /\ NotReserved /\ NodeOnly /\ Promises /\ ProcessesFollowRows /\ PortsDistinct

-----------------------------------------------------------------------------
LEMMA Constants ==
  /\ Node \subseteq App /\ "none" \notin App /\ Attempts \in Nat \ {0} /\ NoPort \notin Port
  /\ Worker \in Process /\ Worker \notin Client /\ Client \subseteq Process
BY NodeAssumption, BoundAssumption, PortAssumption, ClientAssumption DEF NoPort, Worker, Process

LEMMA NoSteps == ASSUME NEW a, NEW kind PROVE Ordered(a, kind, <<>>)
BY DEF Ordered

\* Each handler awaits its steps in an order that After allows.
LEMMA StepsOrdered ==
  ASSUME NEW a \in App, NEW kind \in Kind, kind \in {"start", "stop", "restart"} => a \in Node
  PROVE  /\ Ordered(a, kind, Steps(a, kind)) /\ Steps(a, kind) # <<>>
         /\ kind # "create" =>
              /\ Head(Steps(a, kind)) \notin {"allocate", "insert", "running", "stopped", "undo"}
              /\ Head(Steps(a, kind)) = "delete" => a \notin Node
         /\ kind = "create" /\ a \in Node => Head(Steps(a, kind)) = "allocate"
         /\ kind = "create" /\ a \notin Node => Head(Steps(a, kind)) = "insert"
<1>1. CASE kind = "create" /\ a \in Node
  <2>1. Steps(a, kind) = <<"allocate", "insert", "ecosystem", "vhost">>
    BY <1>1 DEF Steps
  <2> QED BY <1>1, <2>1 DEF Ordered, StepName, May, After
<1>2. CASE kind = "create" /\ a \notin Node
  <2>1. Steps(a, kind) = <<"insert", "vhost", "running">>
    BY <1>2 DEF Steps
  <2> QED BY <1>2, <2>1 DEF Ordered, StepName, May, After
<1>3. CASE kind = "start"
  <2>1. Steps(a, kind) = <<"ecosystem", "pm2start", "running">>
    BY <1>3 DEF Steps
  <2>2. Ordered(a, kind, Steps(a, kind))
    BY <1>3, <2>1 DEF Ordered, StepName, May, After
  <2>3. Steps(a, kind) # <<>> /\ Head(Steps(a, kind)) = "ecosystem"
    BY <2>1
  <2> QED BY <1>3, <2>2, <2>3
<1>4. CASE kind = "stop"
  <2>1. Steps(a, kind) = <<"pm2stop", "stopped">>
    BY <1>4 DEF Steps
  <2>2. Ordered(a, kind, Steps(a, kind))
    BY <1>4, <2>1 DEF Ordered, StepName, May, After
  <2>3. Steps(a, kind) # <<>> /\ Head(Steps(a, kind)) = "pm2stop"
    BY <2>1
  <2> QED BY <1>4, <2>2, <2>3
<1>5. CASE kind = "restart"
  <2>1. Steps(a, kind) = <<"pm2restart", "running">>
    BY <1>5 DEF Steps
  <2> QED BY <1>5, <2>1 DEF Ordered, StepName, May, After
<1>6. CASE kind = "remove" /\ a \in Node
  <2>1. Steps(a, kind) = <<"pm2delete", "delete">>
    BY <1>6 DEF Steps
  <2>2. Ordered(a, kind, Steps(a, kind))
    <3> DEFINE s == <<"pm2delete", "delete">>
    <3>1. Len(s) = 2 /\ s[1] = "pm2delete" /\ s[2] = "delete" /\ s \in Seq(StepName)
      BY DEF StepName
    <3> HIDE DEF s
    <3>2. May(a, kind, "pm2delete") /\ May(a, kind, "delete") /\ After(a, "pm2delete", "delete")
      BY <1>6 DEF May, After
    <3>3. \A i \in 1 .. 2 : May(a, kind, s[i])
      BY <3>1, <3>2
    <3>4. \A i \in 1 .. 2 - 1 : After(a, s[i], s[i + 1])
      BY <3>1, <3>2
    <3> QED BY <2>1, <3>1, <3>3, <3>4 DEF Ordered, s
  <2>3. Steps(a, kind) # <<>> /\ Head(Steps(a, kind)) = "pm2delete"
    BY <2>1
  <2> QED BY <1>6, <2>2, <2>3
<1>7. CASE kind = "remove" /\ a \notin Node
  <2>1. Steps(a, kind) = <<"delete">>
    BY <1>7 DEF Steps
  <2>2. Ordered(a, kind, Steps(a, kind))
    BY <1>7, <2>1 DEF Ordered, StepName, May, After
  <2>3. Steps(a, kind) # <<>> /\ Head(Steps(a, kind)) = "delete"
    BY <2>1
  <2> QED BY <1>7, <2>2, <2>3
<1>8. CASE kind = "deploy" /\ a \in Node
  <2> DEFINE s == <<"deploying", "find", "pull", "find", "deploying", "install", "find", "build",
                    "find", "pm2restart", "running", "running">>
  <2>1. Steps(a, kind) = s
    BY <1>8 DEF Steps
  <2>2. /\ Len(s) = 12 /\ s[1] = "deploying" /\ s[2] = "find" /\ s[3] = "pull" /\ s[4] = "find"
        /\ s[5] = "deploying" /\ s[6] = "install" /\ s[7] = "find" /\ s[8] = "build" /\ s[9] = "find"
        /\ s[10] = "pm2restart" /\ s[11] = "running" /\ s[12] = "running"
    OBVIOUS
  <2>3. s \in Seq(StepName) /\ s # <<>> /\ Head(s) = "deploying"
    BY DEF StepName
  <2> HIDE DEF s
  <2>4. ASSUME NEW i \in 1 .. 12 PROVE May(a, kind, s[i])
    <3>1. i = 1 \/ i = 2 \/ i = 3 \/ i = 4 \/ i = 5 \/ i = 6 \/ i = 7 \/ i = 8 \/ i = 9 \/ i = 10 \/ i = 11 \/ i = 12
      OBVIOUS
    <3> QED BY <1>8, <2>2, <3>1 DEF May
  <2>5. ASSUME NEW i \in 1 .. 11 PROVE After(a, s[i], s[i + 1])
    <3>1. i = 1 \/ i = 2 \/ i = 3 \/ i = 4 \/ i = 5 \/ i = 6 \/ i = 7 \/ i = 8 \/ i = 9 \/ i = 10 \/ i = 11
      OBVIOUS
    <3> QED BY <1>8, <2>2, <3>1 DEF After
  <2>6. Len(s) - 1 = 11 /\ s[Len(s)] \notin {"pm2stop", "pm2delete"}
    BY <2>2
  <2>7. Ordered(a, kind, s)
    BY <2>2, <2>3, <2>4, <2>5, <2>6 DEF Ordered
  <2> QED BY <1>8, <2>1, <2>3, <2>7
<1>9. CASE kind = "deploy" /\ a \notin Node
  <2> DEFINE s == <<"deploying", "find", "pull", "find", "deploying", "composer", "composed", "find", "running">>
  <2>1. Steps(a, kind) = s
    BY <1>9 DEF Steps
  <2>2. /\ Len(s) = 9 /\ s[1] = "deploying" /\ s[2] = "find" /\ s[3] = "pull" /\ s[4] = "find"
        /\ s[5] = "deploying" /\ s[6] = "composer" /\ s[7] = "composed" /\ s[8] = "find" /\ s[9] = "running"
    OBVIOUS
  <2>3. s \in Seq(StepName) /\ s # <<>> /\ Head(s) = "deploying"
    BY DEF StepName
  <2> HIDE DEF s
  <2>4. ASSUME NEW i \in 1 .. 9 PROVE May(a, kind, s[i])
    <3>1. i = 1 \/ i = 2 \/ i = 3 \/ i = 4 \/ i = 5 \/ i = 6 \/ i = 7 \/ i = 8 \/ i = 9
      OBVIOUS
    <3> QED BY <1>9, <2>2, <3>1 DEF May
  <2>5. ASSUME NEW i \in 1 .. 8 PROVE After(a, s[i], s[i + 1])
    <3>1. i = 1 \/ i = 2 \/ i = 3 \/ i = 4 \/ i = 5 \/ i = 6 \/ i = 7 \/ i = 8
      OBVIOUS
    <3> QED BY <1>9, <2>2, <3>1 DEF After
  <2>6. Len(s) - 1 = 8 /\ s[Len(s)] \notin {"pm2stop", "pm2delete"}
    BY <2>2
  <2>7. Ordered(a, kind, s)
    BY <2>2, <2>3, <2>4, <2>5, <2>6 DEF Ordered
  <2> QED BY <1>9, <2>1, <2>3, <2>7
<1> QED BY <1>1, <1>2, <1>3, <1>4, <1>5, <1>6, <1>7, <1>8, <1>9 DEF Kind

\* So are the steps left after a failure.
LEMMA OnErrorOrdered ==
  ASSUME NEW a \in App, NEW kind \in Kind, NEW s \in StepName
  PROVE  /\ Ordered(a, kind, OnError(kind, s))
         /\ kind = "create" => OnError(kind, s) # <<>> /\ Head(OnError(kind, s)) = "undo"
         /\ kind = "deploy" => OnError(kind, s) # <<>> /\ Head(OnError(kind, s)) \in {"note", "error"}
         /\ kind \notin {"create", "deploy"} => OnError(kind, s) = <<>>
<1>1. CASE kind = "create"
  <2>1. OnError(kind, s) = <<"undo">>
    BY <1>1 DEF OnError
  <2> QED BY <1>1, <2>1 DEF Ordered, StepName, May, After
<1>2. CASE kind = "deploy" /\ s \in {"pull", "install", "build", "composer", "composed"}
  <2>1. OnError(kind, s) = <<"note", "error">>
    BY <1>2 DEF OnError
  <2> QED BY <1>2, <2>1 DEF Ordered, StepName, May, After
<1>3. CASE kind = "deploy" /\ s \notin {"pull", "install", "build", "composer", "composed"}
  <2>1. OnError(kind, s) = <<"error">>
    BY <1>3 DEF OnError
  <2> QED BY <1>3, <2>1 DEF Ordered, StepName, May, After
<1>4. CASE kind \notin {"create", "deploy"}
  <2>1. OnError(kind, s) = <<>>
    BY <1>4 DEF OnError
  <2> QED BY <1>4, <2>1, NoSteps
<1> QED BY <1>1, <1>2, <1>3, <1>4

\* The steps that are left after the first one.
LEMMA TailOrdered ==
  ASSUME NEW a, NEW kind, NEW s, Ordered(a, kind, s), s # <<>>
  PROVE  /\ Ordered(a, kind, Tail(s)) /\ Head(s) \in StepName /\ May(a, kind, Head(s))
         /\ Tail(s) # <<>> => After(a, Head(s), Head(Tail(s))) /\ May(a, kind, Head(Tail(s)))
         /\ Tail(s) = <<>> => Head(s) \notin {"pm2stop", "pm2delete"}
<1>1. s \in Seq(StepName) /\ Len(s) \in Nat \ {0} /\ Head(s) = s[1] /\ Head(s) \in StepName
  BY DEF Ordered
<1>2. /\ Tail(s) \in Seq(StepName) /\ Len(Tail(s)) = Len(s) - 1
      /\ \A i \in 1 .. Len(s) - 1 : Tail(s)[i] = s[i + 1]
  BY <1>1, HeadTailProperties
<1>3. (Tail(s) = <<>>) <=> (Len(Tail(s)) = 0)
  BY <1>2, EmptySeq
<1>4. Ordered(a, kind, Tail(s))
  <2>1. \A n \in Nat \ {0} : \A i \in 1 .. n - 1 : i \in 1 .. n /\ i + 1 \in 1 .. n
    OBVIOUS
  <2>2. \A i \in 1 .. Len(Tail(s)) : May(a, kind, Tail(s)[i])
    BY <1>1, <1>2, <2>1 DEF Ordered
  <2>3. ASSUME NEW i \in 1 .. Len(Tail(s)) - 1 PROVE After(a, Tail(s)[i], Tail(s)[i + 1])
    <3>1. \A n \in Nat \ {0} : \A j \in 1 .. n - 1 - 1 : j \in 1 .. n - 1 /\ j + 1 \in 1 .. n - 1
      OBVIOUS
    <3>2. i \in 1 .. Len(s) - 1 /\ i + 1 \in 1 .. Len(s) - 1
      BY <1>1, <1>2, <3>1
    <3>3. Tail(s)[i] = s[i + 1] /\ Tail(s)[i + 1] = s[(i + 1) + 1]
      BY <1>2, <3>2
    <3>4. After(a, s[i + 1], s[(i + 1) + 1])
      BY <3>2 DEF Ordered
    <3> QED BY <3>3, <3>4
  <2>4. Tail(s) # <<>> => Tail(s)[Len(Tail(s))] \notin {"pm2stop", "pm2delete"}
    <3>1. \A n \in Nat \ {0} : n - 1 # 0 => n - 1 \in 1 .. n - 1 /\ (n - 1) + 1 = n
      OBVIOUS
    <3>2. ASSUME Tail(s) # <<>> PROVE Tail(s)[Len(s) - 1] = s[Len(s)]
      BY <1>1, <1>2, <1>3, <3>1, <3>2
    <3> QED BY <1>1, <1>2, <3>2 DEF Ordered
  <2> QED BY <1>2, <2>2, <2>3, <2>4 DEF Ordered
<1>5. May(a, kind, Head(s))
  <2>1. \A n \in Nat \ {0} : 1 \in 1 .. n
    OBVIOUS
  <2> QED BY <1>1, <2>1 DEF Ordered
<1>6. ASSUME Tail(s) # <<>> PROVE After(a, Head(s), Head(Tail(s))) /\ May(a, kind, Head(Tail(s)))
  <2>1. \A n \in Nat \ {0} : n - 1 # 0 => 1 \in 1 .. n - 1 /\ 2 \in 1 .. n
    OBVIOUS
  <2>2. 1 \in 1 .. Len(s) - 1 /\ 2 \in 1 .. Len(s)
    BY <1>1, <1>2, <1>3, <1>6, <2>1
  <2>3. Head(Tail(s)) = Tail(s)[1] /\ Tail(s)[1] = s[1 + 1] /\ 1 + 1 = 2
    BY <1>2, <1>6, <2>2
  <2> QED BY <1>1, <2>2, <2>3 DEF Ordered
<1>7. ASSUME Tail(s) = <<>> PROVE Head(s) \notin {"pm2stop", "pm2delete"}
  <2>1. \A n \in Nat \ {0} : n - 1 = 0 => n = 1
    OBVIOUS
  <2>2. Len(s) = 1
    BY <1>1, <1>2, <1>3, <1>7, <2>1
  <2> QED BY <1>1, <2>2 DEF Ordered
<1> QED BY <1>1, <1>4, <1>5, <1>6, <1>7

-----------------------------------------------------------------------------
(* What a step does to the operations in flight and to the queue.           *)

LEMMA IdleFields ==
  /\ Idle \in Operation /\ Idle.kind = "none" /\ Idle.app = "none" /\ Idle.todo = <<>>
  /\ \A p : Going(p) => op[p] # Idle
BY DEF Idle, Operation, Going

\* The operation has a step s to take.
LEMMA GoingFields ==
  ASSUME Operations, NEW p \in Process, op[p] # Idle
  PROVE  /\ Going(p) /\ op[p].app \in App /\ op[p].kind \in Kind /\ op[p].todo # <<>>
         /\ Head(op[p].todo) \in StepName /\ May(op[p].app, op[p].kind, Head(op[p].todo))
         /\ Ordered(op[p].app, op[p].kind, Tail(op[p].todo))
<1>1. Going(p)
  BY DEF Operations
<1> QED BY <1>1, TailOrdered DEF Going

LEMMA AtFields ==
  ASSUME Operations, NEW p \in Process, NEW s, At(p, s)
  PROVE  op[p] # Idle /\ Head(op[p].todo) = s
BY IdleFields DEF At

\* Nothing is in flight for an application on which no operation is.
LEMMA OthersApp ==
  ASSUME Operations, NEW p \in Process, op[p].app \in App
  PROVE  op[p] # Idle
BY IdleFields, Constants

LEMMA ContinueFields ==
  ASSUME Operations, Jobs, NEW p \in Process, op[p] # Idle, NEW steps,
         Ordered(op[p].app, op[p].kind, steps), Continue(p, steps)
  PROVE  /\ Operations' /\ Jobs'
         /\ \A q \in Process \ {p} : op'[q] = op[q]
         /\ steps = <<>> => op'[p] = Idle
         /\ steps # <<>> => /\ op'[p] # Idle /\ op'[p].app = op[p].app /\ op'[p].kind = op[p].kind
                            /\ op'[p].todo = steps
<1> DEFINE next == IF steps = <<>> THEN Idle ELSE [op[p] EXCEPT !.todo = steps]
<1>1. op[p] \in Operation /\ Going(p) /\ op \in [Process -> Operation]
  BY DEF Operations
<1>2. steps \in Seq(StepName)
  BY DEF Ordered
<1>3. /\ \A u \in Operation : [u EXCEPT !.todo = steps] \in Operation
      /\ \A u \in Operation : LET v == [u EXCEPT !.todo = steps]
                              IN  v.app = u.app /\ v.kind = u.kind /\ v.todo = steps
  BY <1>2 DEF Operation
<1>4. /\ next \in Operation
      /\ steps = <<>> => next = Idle
      /\ steps # <<>> => next.app = op[p].app /\ next.kind = op[p].kind /\ next.todo = steps
  BY <1>1, <1>3, IdleFields
<1>5. op' = [op EXCEPT ![p] = next]
  BY DEF Continue
<1> HIDE DEF next
<1>6. op' \in [Process -> Operation] /\ op'[p] = next /\ \A q \in Process \ {p} : op'[q] = op[q]
  BY <1>1, <1>4, <1>5
<1>7. steps # <<>> => op'[p] # Idle
  BY <1>4, <1>6, IdleFields
<1>8. Operations'
  <2>1. ASSUME NEW q \in Process, op'[q] # Idle PROVE Going(q)'
    <3>1. CASE q = p
      BY <1>1, <1>4, <1>6, <2>1, <3>1 DEF Going
    <3>2. CASE q # p
      BY <1>6, <2>1, <3>2 DEF Operations, Going
    <3> QED BY <3>1, <3>2
  <2> QED BY <1>6, <2>1 DEF Operations
<1>9. job' = [j \in Job |-> IF p = Worker /\ steps = <<>> /\ job[j].state = "active"
                              THEN [job[j] EXCEPT !.state = "completed"] ELSE job[j]]
  BY DEF Continue
<1>10. Jobs'
  <2>1. CASE p = Worker /\ steps = <<>>
    <3>1. \A u \in Entry : LET v == [u EXCEPT !.state = "completed"]
                           IN  v \in Entry /\ v.app = u.app /\ v.failed = u.failed /\ v.state = "completed"
      BY DEF Entry
    <3>2. \A j \in Job : job[j] \in Entry
      BY DEF Jobs
    <3>3. ASSUME NEW j \in Job
          PROVE  /\ job'[j] \in Entry /\ job'[j].app = job[j].app /\ job'[j].failed = job[j].failed
                 /\ job'[j].state # "active"
                 /\ job'[j].state = job[j].state \/ (job[j].state = "active" /\ job'[j].state = "completed")
      BY <1>9, <2>1, <3>1, <3>2
    <3>4. job' \in [Job -> Entry]
      BY <1>9, <3>3
    <3>5. op'[Worker] = Idle
      BY <1>4, <1>6, <2>1
    <3> QED BY <3>3, <3>4, <3>5 DEF Jobs, Active
  <2>2. CASE ~(p = Worker /\ steps = <<>>)
    <3>1. job' = job
      BY <1>9, <2>2 DEF Jobs
    <3>2. (op'[Worker] # Idle) <=> (op[Worker] # Idle)
      BY <1>6, <1>7, <2>2, Constants
    <3>3. op'[Worker].app = op[Worker].app
      BY <1>4, <1>6, <2>2, Constants
    <3> QED BY <3>1, <3>2, <3>3 DEF Jobs, Active
  <2> QED BY <2>1, <2>2
<1> QED BY <1>4, <1>6, <1>7, <1>8, <1>10

LEMMA OpenFields ==
  ASSUME Operations, NEW p \in Process, op[p] = Idle, NEW a \in App, NEW kind \in Kind,
         kind \in {"start", "stop", "restart"} => a \in Node, kind = "deploy" <=> p = Worker,
         Open(p, a, kind), mixed \subseteq App
  PROVE  /\ Operations'
         /\ \A q \in Process \ {p} : op'[q] = op[q]
         /\ op'[p] # Idle /\ op'[p].app = a /\ op'[p].kind = kind /\ op'[p].todo = Steps(a, kind)
         /\ mixed \subseteq mixed' /\ mixed' \subseteq App
         /\ \A q \in Process : op[q] # Idle /\ (op[q].app = a \/ (kind = "create" /\ op[q].kind = "create"))
              => a \in mixed' /\ op[q].app \in mixed'
<1> DEFINE next == [kind |-> kind, app |-> a, todo |-> Steps(a, kind)]
           over == Overlapped(a, kind)
<1>1. op' = [op EXCEPT ![p] = next] /\ mixed' = IF over = {} THEN mixed ELSE mixed \cup over \cup {a}
  BY DEF Open
<1>2. /\ Ordered(a, kind, Steps(a, kind)) /\ Steps(a, kind) # <<>>
  BY StepsOrdered
<1>3. next \in Operation /\ next.kind = kind /\ next.app = a /\ next.todo = Steps(a, kind)
  BY <1>2 DEF Ordered, Operation
<1> HIDE DEF next
<1>4. op' \in [Process -> Operation] /\ op'[p] = next /\ \A q \in Process \ {p} : op'[q] = op[q]
  BY <1>1, <1>3 DEF Operations
<1>5. op'[p] # Idle
  BY <1>3, <1>4, IdleFields, Constants
<1>6. Operations'
  <2>1. ASSUME NEW q \in Process, op'[q] # Idle PROVE Going(q)'
    <3>1. CASE q = p
      BY <1>2, <1>3, <1>4, <3>1 DEF Going
    <3>2. CASE q # p
      BY <1>4, <2>1, <3>2 DEF Operations, Going
    <3> QED BY <3>1, <3>2
  <2> QED BY <1>4, <2>1 DEF Operations
<1>7. ASSUME NEW q \in Process, op[q] # Idle, op[q].app = a \/ (kind = "create" /\ op[q].kind = "create")
      PROVE  op[q].app \in over
  BY <1>7 DEF Overlapped
<1>8. over \subseteq App
  <2>1. ASSUME NEW q \in Process, op[q].app = a \/ (kind = "create" /\ op[q].kind = "create")
        PROVE  op[q].app \in App
    <3>1. CASE op[q] = Idle
      BY <2>1, <3>1, IdleFields
    <3> QED BY <3>1, GoingFields
  <2> QED BY <2>1 DEF Overlapped
<1> HIDE DEF over
<1> QED BY <1>1, <1>3, <1>4, <1>5, <1>6, <1>7, <1>8

-----------------------------------------------------------------------------
(* A step of an operation keeps the invariant when it does to its own       *)
(* application what the kinds of steps allow.                               *)

\* What the invariant asks of the port that is about to be saved.
Free(a) ==
  /\ port[a] \notin Reserved
  /\ \A b \in Node : Row(b) /\ port[b] = port[a] => {a, b} \cap mixed # {}

\* The step only touches the application a, as far as rows, ports and PM2 go.
Within(a) ==
  /\ Rows' /\ mixed' = mixed /\ cut \subseteq cut'
  /\ \A b \in App \ {a} : status'[b] = status[b] /\ port'[b] = port[b] /\ proc'[b] = proc[b]

LEMMA OverlapsContinued ==
  ASSUME AppInv, NEW p \in Process, op[p] # Idle, NEW steps,
         Ordered(op[p].app, op[p].kind, steps), Continue(p, steps), mixed' = mixed
  PROVE  Overlaps'
<1>1. /\ \A q \in Process \ {p} : op'[q] = op[q]
      /\ op'[p] = Idle \/ (op'[p].app = op[p].app /\ op'[p].kind = op[p].kind)
  BY ContinueFields DEF AppInv
<1> SUFFICES ASSUME NEW q \in Process, NEW r \in Process, q # r, op'[q] # Idle, op'[r] # Idle,
                    op'[q].app = op'[r].app \/ (op'[q].kind = "create" /\ op'[r].kind = "create")
             PROVE  op'[q].app \in mixed
  BY DEF Overlaps
<1>2. op[q] # Idle /\ op'[q].app = op[q].app /\ op'[q].kind = op[q].kind
  BY <1>1
<1>3. op[r] # Idle /\ op'[r].app = op[r].app /\ op'[r].kind = op[r].kind
  BY <1>1
<1> QED BY <1>2, <1>3 DEF AppInv, Overlaps

\* No other operation is on an application that is not recorded as overlapping.
LEMMA Alone ==
  ASSUME AppInv, NEW p \in Process, op[p] # Idle, op[p].app \notin mixed,
         NEW q \in Process, q # p
  PROVE  op[q].app # op[p].app
<1>1. op[p].app \in App
  BY GoingFields DEF AppInv
<1>2. CASE op[q] = Idle
  BY <1>1, <1>2, IdleFields, Constants
<1>3. CASE op[q] # Idle
  BY <1>3 DEF AppInv, Overlaps
<1> QED BY <1>2, <1>3

LEMMA SettledWhenQuiet ==
  ASSUME AppInv, NEW a \in App \ (cut \cup mixed), Quiet(a)
  PROVE  Settled(a, status[a], proc[a])
BY DEF AppInv, ProcessesFollowRows, Settled, RunningIsOnline, There, Row

\* Process p, at step s on application a, goes on to the steps that follow.
Proceeds(p, steps, a, s) ==
  /\ op[p] # Idle /\ a = op[p].app /\ a \in App /\ s = Head(op[p].todo)
  /\ Ordered(a, op[p].kind, steps) /\ Continue(p, steps) /\ Within(a)
  /\ status'[a] = "new" => status[a] = "new"
  /\ status'[a] = "gone" => status[a] = "gone" \/ (steps = <<>> /\ Row(a))
  /\ a \in Node /\ Row(a)' => Row(a) \/ s = "insert" \/ status[a] = "gone"
  /\ port'[a] = port[a] \/ s = "allocate"
  /\ a \notin Node => proc'[a] = "none"
  /\ steps # <<>> /\ Head(steps) \in {"allocate", "insert"} => s = "allocate" /\ status'[a] = status[a]
  /\ steps # <<>> /\ Head(steps) = "insert" /\ a \in Node =>
       port'[a] \notin Reserved /\ \A b \in Node : Row(b) => port'[a] # port[b]
  /\ steps = <<>> /\ a \notin mixed \cup cut' => Settled(a, status'[a], proc'[a])
  /\ steps # <<>> /\ a \notin mixed \cup cut' =>
       Promise(a, op[p].kind, Head(steps), status'[a], proc'[a])

LEMMA Proceed ==
  ASSUME AppInv, NEW p \in Process, NEW steps, NEW a, NEW s, Proceeds(p, steps, a, s)
  PROVE  AppInv'
<1> USE DEF Proceeds
<1>1. /\ Operations' /\ Jobs'
      /\ \A q \in Process \ {p} : op'[q] = op[q]
      /\ steps = <<>> => op'[p] = Idle
      /\ steps # <<>> => op'[p] # Idle /\ op'[p].app = a /\ op'[p].kind = op[p].kind /\ op'[p].todo = steps
  BY ContinueFields DEF AppInv
<1>2. /\ Rows' /\ mixed' = mixed /\ cut \subseteq cut'
      /\ \A b \in App \ {a} : status'[b] = status[b] /\ port'[b] = port[b] /\ proc'[b] = proc[b]
  BY DEF Within
<1>3. Overlaps'
  BY <1>2, OverlapsContinued
<1>4. \A b \in App \ {a} : Row(b)' <=> Row(b)
  BY <1>2 DEF Row
<1>5. \A q \in Process \ {p} : op[q] # Idle /\ op[q].app = a => a \in mixed
  BY Alone
<1>6. \A q \in Process : op[q] # Idle => op[q].app \in App
  BY GoingFields DEF AppInv
<1>7. Beginnings'
  <2>1. ASSUME NEW q \in Process, op'[q] # Idle, Head(op'[q].todo) \in {"allocate", "insert"}
        PROVE  status'[op'[q].app] = "new" /\ \A r \in Process \ {q} : op'[r].app # op'[q].app
    <3>1. CASE q = p
      <4>1. op'[q].app = a /\ s = "allocate" /\ status'[a] = status[a]
        BY <1>1, <2>1, <3>1
      <4>2. status[a] = "new" /\ \A r \in Process \ {p} : op[r].app # a
        BY <4>1 DEF AppInv, Beginnings
      <4> QED BY <1>1, <3>1, <4>1, <4>2
    <3>2. CASE q # p
      <4>1. op'[q] = op[q] /\ op[q] # Idle /\ op[q].app \in App
        BY <1>1, <1>6, <2>1, <3>2
      <4>2. status[op[q].app] = "new" /\ \A r \in Process \ {q} : op[r].app # op[q].app
        BY <2>1, <4>1 DEF AppInv, Beginnings
      <4>3. op[q].app # a
        BY <3>2, <4>2
      <4>4. op'[p].app # op[q].app
        BY <1>1, <4>1, <4>3, IdleFields, Constants
      <4> QED BY <1>1, <1>2, <4>1, <4>2, <4>3, <4>4
    <3> QED BY <3>1, <3>2
  <2> QED BY <2>1 DEF Beginnings
<1>8. StartedWithRow'
  <2>1. ASSUME NEW q \in Process, op'[q] # Idle
        PROVE  /\ status'[op'[q].app] = "new" => op'[q].kind = "create"
               /\ status'[op'[q].app] = "gone" => op'[q].app \in mixed
    <3>1. op[q] # Idle /\ op'[q].app = op[q].app /\ op'[q].kind = op[q].kind /\ op[q].app \in App
      BY <1>1, <1>6, <2>1
    <3>2. /\ status[op[q].app] = "new" => op[q].kind = "create"
          /\ status[op[q].app] = "gone" => op[q].app \in mixed
      BY <3>1 DEF AppInv, StartedWithRow
    <3>3. CASE op[q].app # a
      BY <1>2, <3>1, <3>2, <3>3
    <3>4. CASE op[q].app = a
      <4>1. status'[a] = "new" => op'[q].kind = "create"
        BY <3>1, <3>2, <3>4
      <4>2. status'[a] = "gone" => a \in mixed
        BY <1>1, <1>5, <2>1, <3>1, <3>2, <3>4
      <4> QED BY <3>1, <3>4, <4>1, <4>2
    <3> QED BY <3>3, <3>4
  <2> QED BY <1>2, <2>1 DEF StartedWithRow
<1>9. s = "allocate" => status[a] = "new"
  BY DEF AppInv, Beginnings
<1>10. s = "insert" /\ a \in Node => Free(a) /\ port'[a] = port[a]
  <2>1. s = "insert" => At(p, "insert")
    BY GoingFields DEF AppInv, At
  <2> QED BY <2>1 DEF AppInv, PortIsFree, Free
<1>11. status[a] = "gone" => a \in mixed
  BY DEF AppInv, StartedWithRow
<1>12. ASSUME a \in Node, status'[a] # "new"
       PROVE  port'[a] = port[a] /\ port[a] \notin Reserved
  <2>1. CASE status[a] # "new"
    BY <1>9, <1>12, <2>1 DEF AppInv, NotReserved
  <2>2. CASE status[a] = "new"
    <3>1. s = "insert"
      BY <1>12, <2>2 DEF Row
    <3> QED BY <1>10, <1>12, <3>1 DEF Free
  <2> QED BY <2>1, <2>2
<1>13. NotReserved' /\ NodeOnly'
  <2>1. NotReserved'
    <3>1. ASSUME NEW b \in Node, status'[b] # "new" PROVE port'[b] \notin Reserved
      <4>1. CASE b = a
        BY <1>12, <3>1, <4>1
      <4>2. CASE b # a
        BY <1>2, <3>1, <4>2, Constants DEF AppInv, NotReserved
      <4> QED BY <4>1, <4>2
    <3> QED BY <3>1 DEF NotReserved
  <2>2. NodeOnly'
    BY <1>2 DEF AppInv, NodeOnly
  <2> QED BY <2>1, <2>2
\* The port of a row that is there now, seen from another application.
<1>14. ASSUME a \in Node, Row(a)', NEW b \in Node, b # a, Row(b), port'[a] = port[b], {a, b} \cap mixed = {}
       PROVE  FALSE
  <2>1. status'[a] # "new" /\ a \notin mixed /\ status[a] # "gone"
    BY <1>11, <1>14 DEF Row
  <2>2. port[a] = port[b]
    BY <1>12, <1>14, <2>1
  <2>3. CASE Row(a)
    BY <1>14, <2>2, <2>3 DEF AppInv, PortsDistinct
  <2>4. CASE s = "insert"
    BY <1>10, <1>14, <2>2, <2>4 DEF Free
  <2> QED BY <1>14, <2>1, <2>3, <2>4
<1>15. Node \subseteq App
  BY Constants
<1>16. PortsDistinct'
  <2>1. ASSUME NEW b \in Node, Row(b)' PROVE port'[b] \notin Reserved
    BY <1>2, <1>13, <1>15, <2>1 DEF NotReserved, Row
  <2>2. ASSUME NEW b \in Node, NEW c \in Node, Row(b)', Row(c)', port'[b] = port'[c], b # c
        PROVE  {b, c} \cap mixed # {}
    <3>1. CASE b = a
      BY <1>2, <1>4, <1>14, <1>15, <2>2, <3>1
    <3>2. CASE c = a
      <4>1. {a, b} \cap mixed # {}
        BY <1>2, <1>4, <1>14, <1>15, <2>2, <3>2
      <4> QED BY <3>2, <4>1
    <3>3. CASE b # a /\ c # a
      BY <1>2, <1>4, <1>15, <2>2, <3>3 DEF AppInv, PortsDistinct
    <3> QED BY <3>1, <3>2, <3>3
  <2> QED BY <1>2, <2>1, <2>2 DEF PortsDistinct
<1>17. PortIsFree'
  <2> SUFFICES ASSUME NEW q \in Process, op'[q].app \in Node, op'[q].todo # <<>>, Head(op'[q].todo) = "insert",
                      NEW d \in Node, op'[q].app = d
               PROVE  /\ port'[d] \notin Reserved
                      /\ \A c \in Node : Row(c)' /\ port'[c] = port'[d] => {d, c} \cap mixed # {}
    BY <1>2 DEF PortIsFree, At
  <2>1. op'[q] # Idle /\ op'[q].app \in App
    BY <1>15, IdleFields
  <2>2. CASE q = p
    <3>1. op'[q].app = a /\ steps # <<>> /\ Head(steps) = "insert" /\ a \in Node /\ s = "allocate"
      BY <1>1, <2>1, <2>2
    <3>2. port'[a] \notin Reserved /\ \A b \in Node : Row(b) => port'[a] # port[b]
      BY <3>1
    <3>3. ~Row(a)'
      BY <1>9, <3>1 DEF Row
    <3>4. ASSUME NEW b \in Node, Row(b)' PROVE port'[b] # port'[a]
      BY <1>2, <1>4, <1>15, <3>2, <3>3, <3>4
    <3> QED BY <3>1, <3>2, <3>4
  <2>3. CASE q # p
    <3> DEFINE b == op[q].app
    <3>1. op'[q] = op[q] /\ op[q] # Idle /\ b \in Node /\ At(q, "insert") /\ op'[q].app = b
      BY <1>1, <2>1, <2>3 DEF At
    <3>2. b # a
      BY <2>3, <3>1 DEF AppInv, Beginnings, At
    <3>3. Free(b)
      BY <3>1 DEF AppInv, PortIsFree, Free
    <3> HIDE DEF b
    <3>4. port'[b] = port[b]
      BY <1>2, <1>15, <3>1, <3>2
    <3>5. ASSUME NEW c \in Node, Row(c)', port'[c] = port[b] PROVE {b, c} \cap mixed # {}
      <4>1. CASE c # a
        BY <1>2, <1>4, <1>15, <3>3, <3>5, <4>1 DEF Free
      <4>2. CASE c = a
        <5>1. port[a] = port[b] /\ (Row(a) \/ s = "insert" \/ a \in mixed)
          BY <1>11, <1>12, <3>5, <4>2 DEF Row
        <5>2. s = "insert" => a \in mixed
          <6>1. s = "insert" => op[p].kind = "create"
            BY GoingFields DEF AppInv, May
          <6>2. op[q].kind = "create"
            BY <3>1, GoingFields DEF AppInv, At, May
          <6> QED BY <2>3, <3>1, <6>1, <6>2 DEF AppInv, Overlaps
        <5> QED BY <3>3, <4>2, <5>1, <5>2 DEF Free
      <4> QED BY <4>1, <4>2
    <3> QED BY <3>1, <3>3, <3>4, <3>5 DEF Free
  <2> QED BY <2>2, <2>3
<1>18. Promises'
  <2>1. ASSUME NEW q \in Process, op'[q] # Idle, NEW b \in App \ (mixed \cup cut'), op'[q].app = b
        PROVE  Promise(b, op'[q].kind, Head(op'[q].todo), status'[b], proc'[b])
    <3>1. CASE q = p
      BY <1>1, <2>1, <3>1
    <3>2. CASE q # p
      <4>1. op'[q] = op[q] /\ op[q] # Idle /\ op[q].app = b /\ b \notin mixed \cup cut
        BY <1>1, <1>2, <2>1, <3>2
      <4>2. b # a
        BY <1>5, <2>1, <3>2, <4>1
      <4>3. Promise(b, op[q].kind, Head(op[q].todo), status[b], proc[b])
        BY <2>1, <4>1 DEF AppInv, Promises
      <4>4. status'[b] = status[b] /\ proc'[b] = proc[b]
        BY <1>2, <2>1, <4>2
      <4> QED BY <4>1, <4>3, <4>4
    <3> QED BY <3>1, <3>2
  <2> QED BY <1>2, <2>1 DEF Promises
<1>19. ProcessesFollowRows'
  <2>1. ASSUME NEW b \in App \ (cut' \cup mixed), \A q \in Process : op'[q].app # b
        PROVE  Settled(b, status'[b], proc'[b])
    <3>1. CASE b = a
      BY <1>1, <2>1, <3>1
    <3>2. CASE b # a
      <4>1. \A q \in Process : op[q].app # b
        BY <1>1, <2>1, <3>2
      <4>2. Settled(b, status[b], proc[b])
        BY <1>2, <2>1, <4>1, SettledWhenQuiet DEF Quiet
      <4> QED BY <1>2, <2>1, <3>2, <4>2
    <3> QED BY <3>1, <3>2
  <2> QED BY <1>2, <2>1 DEF ProcessesFollowRows, Settled, RunningIsOnline, There, Row, Quiet
<1> QED BY <1>1, <1>2, <1>3, <1>7, <1>8, <1>13, <1>16, <1>17, <1>18, <1>19 DEF AppInv

-----------------------------------------------------------------------------
(* The steps of the handlers.                                               *)

\* What is known of an operation that is about to take the step s.
LEMMA StepFields ==
  ASSUME AppInv, NEW p \in Process, NEW s, At(p, s)
  PROVE  /\ op[p] # Idle /\ op[p].app \in App /\ op[p].kind \in Kind /\ Head(op[p].todo) = s
         /\ s \in StepName /\ May(op[p].app, op[p].kind, s)
         /\ Ordered(op[p].app, op[p].kind, Tail(op[p].todo))
         /\ Tail(op[p].todo) # <<>> => After(op[p].app, s, Head(Tail(op[p].todo)))
         /\ Tail(op[p].todo) = <<>> => s \notin {"pm2stop", "pm2delete"}
         /\ op[p].app \notin mixed \cup cut =>
              Promise(op[p].app, op[p].kind, s, status[op[p].app], proc[op[p].app])
<1>1. op[p] # Idle /\ Head(op[p].todo) = s /\ Operations
  BY AtFields DEF AppInv
<1>2. /\ Going(p) /\ op[p].app \in App /\ op[p].kind \in Kind /\ op[p].todo # <<>>
      /\ s \in StepName /\ May(op[p].app, op[p].kind, s)
      /\ Ordered(op[p].app, op[p].kind, Tail(op[p].todo))
  BY <1>1, GoingFields
<1>3. /\ Tail(op[p].todo) # <<>> => After(op[p].app, s, Head(Tail(op[p].todo)))
      /\ Tail(op[p].todo) = <<>> => s \notin {"pm2stop", "pm2delete"}
  BY <1>1, <1>2, TailOrdered DEF Going
<1>4. op[p].app \notin mixed \cup cut =>
        Promise(op[p].app, op[p].kind, s, status[op[p].app], proc[op[p].app])
  BY <1>1, <1>2 DEF AppInv, Promises
<1> QED BY <1>1, <1>2, <1>3, <1>4

\* A step whose commands and files the invariant is not about.
LEMMA UntouchedStep ==
  ASSUME AppInv, NEW p \in Process, Find(p) \/ Command(p)
  PROVE  AppInv'
<1>0. PICK a, k, rest : a = op[p].app /\ k = op[p].kind /\ rest = Tail(op[p].todo)
  OBVIOUS
<1>1. PICK s \in {"find", "ecosystem", "vhost", "pull", "install", "build", "composer"} : At(p, s)
  BY DEF Find, Command
<1>2. Continue(p, rest) /\ UNCHANGED <<status, port, proc, mixed, cut>>
  BY <1>0 DEF Find, Command, Advance, history
<1>3. /\ op[p] # Idle /\ a \in App /\ k \in Kind /\ Head(op[p].todo) = s /\ May(a, k, s) /\ Ordered(a, k, rest)
      /\ rest # <<>> => After(a, s, Head(rest))
      /\ a \notin mixed \cup cut => Promise(a, k, s, status[a], proc[a])
  BY <1>1, <1>0, StepFields
<1>4. Within(a)
  BY <1>2 DEF AppInv, Rows, Within
<1>5. rest # <<>> => Head(rest) \notin {"allocate", "insert", "stopped", "delete"}
                     /\ (a \in Node => Head(rest) # "running")
  BY <1>1, <1>3 DEF After
<1>6. ASSUME a \notin mixed \cup cut PROVE Settled(a, status[a], proc[a])
  BY <1>1, <1>3, <1>6 DEF Promise, Settled, RunningIsOnline, There
<1>7. ASSUME a \notin mixed \cup cut, rest # <<>> PROVE Promise(a, k, Head(rest), status[a], proc[a])
  BY <1>1, <1>3, <1>5, <1>7 DEF Promise, Settled, RunningIsOnline, There
<1>8. Row(a)' => Row(a)
  BY <1>2 DEF Row
<1>9. a \notin Node => proc[a] = "none"
  BY <1>3 DEF AppInv, NodeOnly
<1>10. Proceeds(p, rest, a, s)
  BY <1>2, <1>3, <1>4, <1>5, <1>6, <1>7, <1>8, <1>9, <1>0 DEF Proceeds
<1> QED BY <1>10, Proceed

LEMMA SavedFields ==
  /\ DOMAIN Saved = {"insert", "running", "stopped", "deploying", "composed", "note", "error"}
  /\ Saved["insert"] = "PENDING" /\ Saved["running"] = "RUNNING" /\ Saved["stopped"] = "STOPPED"
  /\ Saved["deploying"] = "DEPLOYING" /\ Saved["composed"] = "RUNNING"
  /\ Saved["note"] = "ERROR" /\ Saved["error"] = "ERROR"
BY DEF Saved

LEMMA SaveStep == ASSUME AppInv, NEW p \in Process, Save(p) PROVE AppInv'
<1>0. PICK a, k, rest : a = op[p].app /\ k = op[p].kind /\ rest = Tail(op[p].todo)
  OBVIOUS
<1>1. PICK s \in DOMAIN Saved : At(p, s) /\ status' = [status EXCEPT ![a] = Saved[s]]
  BY <1>0 DEF Save
<1> DEFINE st == Saved[s]
<1>2. Continue(p, rest) /\ UNCHANGED <<port, proc, mixed, cut>>
  BY <1>0 DEF Save, Advance, history
<1>3. /\ op[p] # Idle /\ a \in App /\ k \in Kind /\ Head(op[p].todo) = s /\ May(a, k, s) /\ Ordered(a, k, rest)
      /\ rest # <<>> => After(a, s, Head(rest))
      /\ a \notin mixed \cup cut => Promise(a, k, s, status[a], proc[a])
  BY <1>1, <1>0, StepFields
<1>4. s \in {"insert", "running", "stopped", "deploying", "composed", "note", "error"}
  BY SavedFields
<1>5. /\ There(st) /\ st \in {"PENDING", "DEPLOYING", "RUNNING", "STOPPED", "ERROR"}
      /\ st = "RUNNING" => s \in {"running", "composed"}
  BY <1>4, SavedFields DEF There
<1> HIDE DEF st
<1>6. /\ status' \in [App -> {"new", "PENDING", "DEPLOYING", "RUNNING", "STOPPED", "ERROR", "gone"}]
      /\ status'[a] = st /\ \A b \in App \ {a} : status'[b] = status[b]
  BY <1>1, <1>3, <1>5 DEF AppInv, Rows, st
<1>7. Within(a)
  BY <1>2, <1>6 DEF AppInv, Rows, Within
<1>8. rest # <<>> => Head(rest) \notin {"allocate", "insert", "stopped", "delete"}
                     /\ (a \in Node /\ Head(rest) = "running" => s = "running")
  BY <1>3, <1>4 DEF After
<1>9. ASSUME a \notin mixed \cup cut
      PROVE  /\ RunningIsOnline(a, st, proc[a])
             /\ k = "create" => proc[a] = "none" /\ (st # "RUNNING" \/ a \notin Node)
             /\ s = "running" /\ a \in Node => proc[a] = "online"
  <2>1. k = "create" => proc[a] = "none"
    BY <1>3, <1>9 DEF Promise
  <2>2. s = "composed" => a \notin Node
    BY <1>3 DEF May
  <2>3. s = "running" /\ a \in Node => proc[a] = "online"
    <3>1. s = "running" /\ a \in Node => k # "create"
      BY <1>3 DEF May
    <3> QED BY <1>3, <1>9, <3>1 DEF Promise
  <2>4. k = "create" /\ a \in Node => st # "RUNNING"
    BY <1>3, <1>5 DEF May
  <2> QED BY <1>5, <2>1, <2>2, <2>3, <2>4 DEF RunningIsOnline
<1>10. ASSUME a \notin mixed \cup cut PROVE Settled(a, st, proc[a])
  BY <1>5, <1>9, <1>10 DEF Settled
<1>11. ASSUME a \notin mixed \cup cut, rest # <<>> PROVE Promise(a, k, Head(rest), st, proc[a])
  BY <1>5, <1>8, <1>9, <1>11 DEF Promise
<1>12. a \in Node => Row(a) \/ s = "insert" \/ status[a] = "gone"
  <2>1. ASSUME a \in Node, status[a] = "new" PROVE s = "insert"
    <3>1. k = "create"
      BY <1>0, <1>3, <2>1 DEF AppInv, StartedWithRow
    <3> QED BY <1>3, <1>4, <2>1, <3>1 DEF May
  <2> QED BY <2>1 DEF Row
<1>13. a \notin Node => proc[a] = "none"
  BY <1>3 DEF AppInv, NodeOnly
<1>14. status'[a] # "new" /\ status'[a] # "gone"
  BY <1>5, <1>6 DEF There
<1>15. proc'[a] = proc[a] /\ port'[a] = port[a] /\ mixed' = mixed /\ cut' = cut /\ Continue(p, rest)
  BY <1>2
<1>16. rest # <<>> => Head(rest) \notin {"allocate", "insert"}
  BY <1>8
<1>17. a \notin mixed \cup cut' => Settled(a, status'[a], proc'[a])
  BY <1>6, <1>10, <1>15
<1>18. a \notin mixed \cup cut' /\ rest # <<>> => Promise(a, op[p].kind, Head(rest), status'[a], proc'[a])
  BY <1>0, <1>6, <1>11, <1>15
<1>19. Proceeds(p, rest, a, s)
  BY <1>0, <1>3, <1>7, <1>12, <1>13, <1>14, <1>15, <1>16, <1>17, <1>18 DEF Proceeds
<1> QED BY <1>19, Proceed

LEMMA Pm2Step == ASSUME AppInv, NEW p \in Process, Pm2(p) PROVE AppInv'
<1>0. PICK a, k, rest : a = op[p].app /\ k = op[p].kind /\ rest = Tail(op[p].todo)
  OBVIOUS
<1>1. PICK s \in {"pm2start", "pm2restart", "pm2stop", "pm2delete"} :
        /\ At(p, s)
        /\ \E new \in {"none", "online", "stopped"} :
             /\ proc' = [proc EXCEPT ![a] = new]
             /\ s \in {"pm2start", "pm2restart"} => new = "online"
             /\ s = "pm2delete" => new = "none"
  BY <1>0 DEF Pm2
<1>2. PICK new \in {"none", "online", "stopped"} :
             /\ proc' = [proc EXCEPT ![a] = new]
             /\ s \in {"pm2start", "pm2restart"} => new = "online"
             /\ s = "pm2delete" => new = "none"
  BY <1>1
<1>3. Continue(p, rest) /\ UNCHANGED <<status, port, mixed, cut>>
  BY <1>0 DEF Pm2, Advance, history
<1>4. /\ op[p] # Idle /\ a \in App /\ k \in Kind /\ Head(op[p].todo) = s /\ May(a, k, s) /\ Ordered(a, k, rest)
      /\ rest # <<>> => After(a, s, Head(rest))
      /\ rest = <<>> => s \notin {"pm2stop", "pm2delete"}
      /\ a \notin mixed \cup cut => Promise(a, k, s, status[a], proc[a])
  BY <1>1, <1>0, StepFields
<1>5. /\ proc' \in [App -> {"none", "online", "stopped"}]
      /\ proc'[a] = new /\ \A b \in App \ {a} : proc'[b] = proc[b]
  BY <1>2, <1>4 DEF AppInv, Rows
<1>6. Within(a)
  BY <1>3, <1>5 DEF AppInv, Rows, Within
<1>7. a \in Node /\ k # "create"
  BY <1>4 DEF May
<1>8. rest # <<>> => /\ Head(rest) \notin {"allocate", "insert"}
                     /\ Head(rest) = "stopped" <=> s = "pm2stop"
                     /\ Head(rest) = "delete" <=> s = "pm2delete"
                     /\ Head(rest) = "running" => s \in {"pm2start", "pm2restart"}
  BY <1>1, <1>4, <1>7 DEF After
<1>9. ASSUME a \notin mixed \cup cut PROVE There(status[a])
  BY <1>4, <1>7, <1>9 DEF Promise
<1>10. ASSUME a \notin mixed \cup cut, rest = <<>> PROVE Settled(a, status[a], new)
  BY <1>1, <1>2, <1>4, <1>9, <1>10 DEF Settled, RunningIsOnline
<1>11. ASSUME a \notin mixed \cup cut, rest # <<>> PROVE Promise(a, k, Head(rest), status[a], new)
  BY <1>1, <1>2, <1>7, <1>8, <1>9, <1>11 DEF Promise, RunningIsOnline
<1>12. Row(a)' => Row(a)
  BY <1>3 DEF Row
<1>13. status'[a] = status[a] /\ port'[a] = port[a] /\ mixed' = mixed /\ cut' = cut /\ Continue(p, rest)
  BY <1>3
<1>14. rest # <<>> => Head(rest) \notin {"allocate", "insert"}
  BY <1>8
<1>15. a \notin mixed \cup cut' /\ rest = <<>> => Settled(a, status'[a], proc'[a])
  BY <1>5, <1>10, <1>13
<1>16. a \notin mixed \cup cut' /\ rest # <<>> => Promise(a, op[p].kind, Head(rest), status'[a], proc'[a])
  BY <1>0, <1>5, <1>11, <1>13
<1>17. op[p] # Idle /\ a \in App /\ s = Head(op[p].todo) /\ Ordered(op[p].app, op[p].kind, rest)
  BY <1>0, <1>4, <1>7
<1>18. /\ status'[a] = "new" => status[a] = "new"
       /\ status'[a] = "gone" => status[a] = "gone" \/ (rest = <<>> /\ Row(a))
       /\ a \in Node /\ Row(a)' => Row(a) \/ s = "insert" \/ status[a] = "gone"
       /\ port'[a] = port[a] \/ s = "allocate"
       /\ a \notin Node => proc'[a] = "none"
  BY <1>7, <1>12, <1>13
<1>19. /\ rest # <<>> /\ Head(rest) \in {"allocate", "insert"} => s = "allocate" /\ status'[a] = status[a]
       /\ rest # <<>> /\ Head(rest) = "insert" /\ a \in Node =>
            port'[a] \notin Reserved /\ \A b \in Node : Row(b) => port'[a] # port[b]
  BY <1>14
<1>20. Proceeds(p, rest, a, s)
  BY <1>0, <1>6, <1>13, <1>15, <1>16, <1>17, <1>18, <1>19 DEF Proceeds
<1> QED BY <1>20, Proceed

LEMMA AllocateStep == ASSUME AppInv, NEW p \in Process, Allocate(p) PROVE AppInv'
<1>0. PICK a, k, rest : a = op[p].app /\ k = op[p].kind /\ rest = Tail(op[p].todo)
  OBVIOUS
<1>1. PICK n \in Port \ (Reserved \cup UsedPorts) : port' = [port EXCEPT ![a] = n]
  BY <1>0 DEF Allocate
<1>2. At(p, "allocate") /\ Continue(p, rest) /\ UNCHANGED <<status, proc, mixed, cut>>
  BY <1>0 DEF Allocate, Advance, history
<1>3. /\ op[p] # Idle /\ a \in App /\ k \in Kind /\ Head(op[p].todo) = "allocate" /\ May(a, k, "allocate")
      /\ Ordered(a, k, rest)
      /\ rest # <<>> => After(a, "allocate", Head(rest))
      /\ a \notin mixed \cup cut => Promise(a, k, "allocate", status[a], proc[a])
  BY <1>2, <1>0, StepFields
<1>4. /\ port' \in [App -> Port \cup {NoPort}]
      /\ port'[a] = n /\ \A b \in App \ {a} : port'[b] = port[b]
  BY <1>1, <1>3 DEF AppInv, Rows
<1>5. Within(a)
  BY <1>2, <1>4 DEF AppInv, Rows, Within
<1>6. k = "create"
  BY <1>3 DEF May
<1>7. n \notin Reserved /\ \A b \in Node : Row(b) => n # port[b]
  BY DEF UsedPorts
<1>8. ASSUME a \notin mixed \cup cut PROVE Settled(a, status[a], proc[a])
  BY <1>3, <1>6, <1>8 DEF Promise, Settled, RunningIsOnline
<1>9. ASSUME a \notin mixed \cup cut, rest # <<>> PROVE Promise(a, k, Head(rest), status[a], proc[a])
  BY <1>3, <1>6, <1>9 DEF Promise
<1>10. Row(a)' => Row(a)
  BY <1>2 DEF Row
<1>11. a \notin Node => proc[a] = "none"
  BY <1>3 DEF AppInv, NodeOnly
<1>12. rest # <<>> /\ Head(rest) = "insert" /\ a \in Node =>
         port'[a] \notin Reserved /\ \A b \in Node : Row(b) => port'[a] # port[b]
  BY <1>4, <1>7
<1>13. Settled(a, status[a], proc[a]) <=> Settled(a, status'[a], proc'[a])
  BY <1>2
<1>14. rest # <<>> => (Promise(a, k, Head(rest), status[a], proc[a]) <=> Promise(a, k, Head(rest), status'[a], proc'[a]))
  BY <1>2
<1>15. status'[a] = status[a] /\ proc'[a] = proc[a] /\ mixed' = mixed /\ cut' = cut
  BY <1>2
<1>16. Continue(p, rest)
  BY <1>2
<1>17. Proceeds(p, rest, a, "allocate")
  BY <1>0, <1>3, <1>5, <1>8, <1>9, <1>10, <1>11, <1>12, <1>13, <1>14, <1>15, <1>16 DEF Proceeds
<1> QED BY <1>17, Proceed

LEMMA DeleteStep == ASSUME AppInv, NEW p \in Process, Delete(p) PROVE AppInv'
<1>0. PICK a, k, rest : a = op[p].app /\ k = op[p].kind /\ rest = Tail(op[p].todo)
  OBVIOUS
<1>1. PICK s \in {"delete", "undo"} : At(p, s)
  BY DEF Delete
<1>2. /\ status' = [status EXCEPT ![a] = IF Row(a) THEN "gone" ELSE status[a]]
      /\ Continue(p, rest) /\ UNCHANGED <<port, proc, mixed, cut>>
  BY <1>0 DEF Delete, Advance, history
<1>3. /\ op[p] # Idle /\ a \in App /\ k \in Kind /\ Head(op[p].todo) = s /\ May(a, k, s) /\ Ordered(a, k, rest)
      /\ rest # <<>> => After(a, s, Head(rest))
      /\ a \notin mixed \cup cut => Promise(a, k, s, status[a], proc[a])
  BY <1>1, <1>0, StepFields
<1>4. /\ status' \in [App -> {"new", "PENDING", "DEPLOYING", "RUNNING", "STOPPED", "ERROR", "gone"}]
      /\ status'[a] = (IF Row(a) THEN "gone" ELSE status[a]) /\ \A b \in App \ {a} : status'[b] = status[b]
  BY <1>2, <1>3 DEF AppInv, Rows
<1>5. Within(a)
  BY <1>2, <1>4 DEF AppInv, Rows, Within
<1>6. rest = <<>>
  BY <1>1, <1>3 DEF After
<1>7. ASSUME a \notin mixed \cup cut PROVE proc[a] = "none"
  BY <1>1, <1>3, <1>7 DEF Promise, May
<1>8. status'[a] \in {"new", "gone"} /\ ~Row(a)'
  BY <1>4 DEF Row
<1>9. ASSUME a \notin mixed \cup cut PROVE Settled(a, status'[a], proc[a])
  BY <1>7, <1>8, <1>9 DEF Settled, RunningIsOnline
<1>10. status'[a] = "new" => status[a] = "new"
  BY <1>4
<1>11. status'[a] = "gone" => status[a] = "gone" \/ Row(a)
  BY <1>4
<1>12. a \notin Node => proc[a] = "none"
  BY <1>3 DEF AppInv, NodeOnly
<1>13. Proceeds(p, rest, a, s)
  BY <1>2, <1>3, <1>5, <1>6, <1>8, <1>9, <1>10, <1>11, <1>12, <1>0 DEF Proceeds
<1> QED BY <1>13, Proceed

LEMMA FailStep == ASSUME AppInv, NEW p \in Process, StepFails(p) PROVE AppInv'
<1>1. PICK a, k, s : a = op[p].app /\ k = op[p].kind /\ s = Head(op[p].todo)
  OBVIOUS
<1>2. op[p] # Idle
  BY DEF StepFails
<1>3. At(p, s)
  BY <1>1, <1>2, GoingFields DEF AppInv, At
<1>4. /\ a \in App /\ k \in Kind /\ s \in StepName /\ May(a, k, s)
      /\ Ordered(a, k, Tail(op[p].todo))
      /\ Tail(op[p].todo) # <<>> => After(a, s, Head(Tail(op[p].todo)))
      /\ Tail(op[p].todo) = <<>> => s \notin {"pm2stop", "pm2delete"}
      /\ a \notin mixed \cup cut => Promise(a, k, s, status[a], proc[a])
  BY <1>1, <1>3, StepFields
<1>5. /\ cut \subseteq cut' /\ cut' \subseteq cut \cup {a}
      /\ s = "undo" => a \in cut'
      /\ k \notin {"create", "deploy"} /\ s \in {"running", "stopped", "delete"} => a \in cut'
      /\ UNCHANGED <<status, port, proc, mixed>>
  BY <1>1 DEF StepFails
<1>6. Within(a)
  BY <1>4, <1>5 DEF AppInv, Rows, Within
<1>7. (Row(a)' => Row(a)) /\ status'[a] = status[a] /\ port'[a] = port[a] /\ proc'[a] = proc[a]
  BY <1>5 DEF Row
<1>8. a \notin Node => proc'[a] = "none"
  BY <1>4, <1>7 DEF AppInv, NodeOnly
<1>9. CASE Tolerated(a, s)
  <2>1. PICK rest : rest = Tail(op[p].todo)
    OBVIOUS
  <2>2. Continue(p, rest) /\ Ordered(a, k, rest)
    BY <1>1, <1>4, <1>9, <2>1 DEF StepFails, Advance
  <2>3. s = "undo" \/ (s \in {"pm2stop", "pm2delete"} /\ proc[a] = "none")
    BY <1>9 DEF Tolerated
  <2>4. s = "undo" => rest = <<>>
    BY <1>4, <2>1 DEF After
  <2>5. rest # <<>> => Head(rest) \in {"stopped", "delete"} /\ k # "create"
    BY <1>4, <2>1, <2>3, <2>4 DEF After, May
  <2>6. rest = <<>> => a \in cut'
    BY <1>4, <1>5, <2>1, <2>3
  <2>7. ASSUME a \notin mixed \cup cut', rest # <<>>
        PROVE  Promise(a, op[p].kind, Head(rest), status'[a], proc'[a])
    <3>1. There(status[a]) /\ proc[a] = "none"
      BY <1>4, <1>5, <2>3, <2>4, <2>5, <2>7 DEF Promise
    <3> QED BY <1>1, <1>7, <2>5, <2>7, <3>1 DEF Promise
  <2>8. rest # <<>> => Head(rest) \notin {"allocate", "insert"}
    BY <2>5
  <2>9. Proceeds(p, rest, a, s)
    BY <1>1, <1>2, <1>4, <1>6, <1>7, <1>8, <2>2, <2>6, <2>7, <2>8 DEF Proceeds
  <2> QED BY <2>9, Proceed
<1>10. CASE ~Tolerated(a, s)
  <2>1. PICK rest : rest = OnError(k, s)
    OBVIOUS
  <2>2. Continue(p, rest) /\ Ordered(a, k, rest)
    BY <1>1, <1>4, <1>10, <2>1, OnErrorOrdered DEF StepFails
  <2>3. /\ k = "create" => rest # <<>> /\ Head(rest) = "undo"
        /\ k = "deploy" => rest # <<>> /\ Head(rest) \in {"note", "error"}
        /\ k \notin {"create", "deploy"} => rest = <<>>
    BY <1>4, <2>1, OnErrorOrdered
  <2>4. ASSUME a \notin mixed \cup cut', k # "create"
        PROVE  There(status[a]) /\ RunningIsOnline(a, status[a], proc[a])
    <3>1. s \notin {"delete", "stopped"}
      BY <1>4, <1>5, <2>4 DEF May
    <3> QED BY <1>4, <1>5, <2>4, <3>1 DEF Promise
  <2>5. ASSUME a \notin mixed \cup cut', rest = <<>> PROVE Settled(a, status'[a], proc'[a])
    BY <1>7, <2>3, <2>4, <2>5 DEF Settled
  <2>6. ASSUME a \notin mixed \cup cut', rest # <<>>
        PROVE  Promise(a, op[p].kind, Head(rest), status'[a], proc'[a])
    <3>1. CASE k = "create"
      BY <1>1, <1>4, <1>5, <1>7, <2>3, <2>6, <3>1 DEF Promise
    <3>2. CASE k # "create"
      BY <1>1, <1>7, <2>3, <2>4, <2>6, <3>2 DEF Promise
    <3> QED BY <3>1, <3>2
  <2>7. rest # <<>> => Head(rest) \notin {"allocate", "insert"}
    BY <2>3
  <2>8. Proceeds(p, rest, a, s)
    BY <1>1, <1>2, <1>4, <1>6, <1>7, <1>8, <2>2, <2>5, <2>6, <2>7 DEF Proceeds
  <2> QED BY <2>8, Proceed
<1> QED BY <1>9, <1>10

-----------------------------------------------------------------------------
(* Requests, the queue and restarts.                                        *)

LEMMA OpenStep ==
  ASSUME AppInv, NEW p \in Process, op[p] = Idle, NEW a \in App, NEW kind \in Kind,
         kind \in {"start", "stop", "restart"} => a \in Node, kind = "deploy" <=> p = Worker,
         Open(p, a, kind), UNCHANGED <<status, port, proc, cut>>,
         kind = "create" => status[a] = "new" /\ Quiet(a), kind # "create" => Row(a), Jobs'
  PROVE  AppInv'
<1>1. /\ Operations' /\ \A q \in Process \ {p} : op'[q] = op[q]
      /\ op'[p] # Idle /\ op'[p].app = a /\ op'[p].kind = kind /\ op'[p].todo = Steps(a, kind)
      /\ mixed \subseteq mixed' /\ mixed' \subseteq App
      /\ \A q \in Process : op[q] # Idle /\ (op[q].app = a \/ (kind = "create" /\ op[q].kind = "create"))
           => a \in mixed' /\ op[q].app \in mixed'
  BY OpenFields DEF AppInv, Rows
<1>2. PICK t : t = Head(Steps(a, kind))
  OBVIOUS
<1>3. /\ kind # "create" => t \notin {"allocate", "insert", "running", "stopped", "undo"}
                            /\ (t = "delete" => a \notin Node)
      /\ kind = "create" => t = IF a \in Node THEN "allocate" ELSE "insert"
  BY <1>2, StepsOrdered
<1>4. Rows' /\ NotReserved' /\ NodeOnly'
  BY <1>1 DEF AppInv, Rows, NotReserved, NodeOnly
<1>5. \A q \in Process : op[q] # Idle => q # p /\ op[q].app \in App
  BY GoingFields DEF AppInv
<1>6. Overlaps'
  <2> SUFFICES ASSUME NEW q \in Process, NEW r \in Process, q # r, op'[q] # Idle, op'[r] # Idle,
                      op'[q].app = op'[r].app \/ (op'[q].kind = "create" /\ op'[r].kind = "create")
               PROVE  op'[q].app \in mixed'
    BY DEF Overlaps
  <2>1. CASE q = p
    BY <1>1, <2>1
  <2>2. CASE r = p
    BY <1>1, <2>2
  <2>3. CASE q # p /\ r # p
    BY <1>1, <2>3 DEF AppInv, Overlaps
  <2> QED BY <2>1, <2>2, <2>3
<1>7. Beginnings'
  <2>1. ASSUME NEW q \in Process, op'[q] # Idle, Head(op'[q].todo) \in {"allocate", "insert"}, NEW b, b = op'[q].app
        PROVE  status[b] = "new" /\ \A r \in Process \ {q} : op'[r].app # b
    <3>1. CASE q = p
      BY <1>1, <1>2, <1>3, <2>1, <3>1 DEF Quiet
    <3>2. CASE q # p
      <4>1. status[b] = "new" /\ \A r \in Process \ {q} : op[r].app # b
        BY <1>1, <2>1, <3>2 DEF AppInv, Beginnings
      <4>2. a # b
        BY <1>1, <2>1, <3>2, <4>1 DEF Row, Quiet
      <4> QED BY <1>1, <4>1, <4>2
    <3> QED BY <3>1, <3>2
  <2> QED BY <2>1 DEF Beginnings
<1>8. StartedWithRow'
  <2>1. ASSUME NEW q \in Process, op'[q] # Idle, NEW b, b = op'[q].app
        PROVE  (status[b] = "new" => op'[q].kind = "create") /\ (status[b] = "gone" => b \in mixed')
    <3>1. CASE q = p
      BY <1>1, <2>1, <3>1 DEF Row
    <3>2. CASE q # p
      BY <1>1, <2>1, <3>2 DEF AppInv, StartedWithRow
    <3> QED BY <3>1, <3>2
  <2> QED BY <2>1 DEF StartedWithRow
<1>9. PortIsFree'
  <2>1. ASSUME NEW q \in Process, op'[q].todo # <<>>, Head(op'[q].todo) = "insert", NEW b \in Node, b = op'[q].app
        PROVE  port[b] \notin Reserved /\ \A c \in Node : Row(c) /\ port[c] = port[b] => {b, c} \cap mixed' # {}
    <3>1. q # p
      BY <1>1, <1>2, <1>3, <2>1
    <3>2. port[b] \notin Reserved /\ \A c \in Node : Row(c) /\ port[c] = port[b] => {b, c} \cap mixed # {}
      BY <1>1, <2>1, <3>1 DEF AppInv, PortIsFree, At
    <3> QED BY <1>1, <3>2
  <2> QED BY <2>1 DEF PortIsFree, At, Row
<1>10. PortsDistinct'
  <2>1. ASSUME NEW b \in Node, NEW c \in Node, Row(b), Row(c)
        PROVE  port[b] \notin Reserved /\ (port[b] = port[c] => b = c \/ {b, c} \cap mixed' # {})
    BY <1>1, <2>1 DEF AppInv, PortsDistinct
  <2> QED BY <2>1 DEF PortsDistinct, Row
<1>11. ASSUME a \notin mixed' \cup cut PROVE Settled(a, status[a], proc[a])
  <2>1. Quiet(a)
    <3>1. ASSUME NEW q \in Process PROVE op[q].app # a
      <4>1. op[q] = Idle => op[q].app # a
        BY IdleFields, Constants
      <4> QED BY <1>1, <1>11, <4>1
    <3> QED BY <3>1 DEF Quiet
  <2> QED BY <1>1, <1>11, <2>1, SettledWhenQuiet
<1>12. Promises'
  <2>1. ASSUME NEW q \in Process, op'[q] # Idle, NEW b \in App \ (mixed' \cup cut), op'[q].app = b
        PROVE  Promise(b, op'[q].kind, Head(op'[q].todo), status[b], proc[b])
    <3>1. CASE q = p
      <4>1. Settled(a, status[a], proc[a]) /\ (kind # "create" => There(status[a]))
            /\ (kind = "create" => status[a] = "new") /\ (a \notin Node => proc[a] = "none")
        BY <1>1, <1>11, <2>1, <3>1 DEF Row, There, AppInv, NodeOnly
      <4>2. Promise(a, kind, t, status[a], proc[a])
        BY <1>3, <4>1 DEF Promise, Settled, There
      <4> QED BY <1>1, <1>2, <2>1, <3>1, <4>2
    <3>2. CASE q # p
      BY <1>1, <2>1, <3>2 DEF AppInv, Promises
    <3> QED BY <3>1, <3>2
  <2> QED BY <2>1 DEF Promises
<1>13. ProcessesFollowRows'
  <2>1. ASSUME NEW b \in App \ (cut \cup mixed'), \A q \in Process : op'[q].app # b
        PROVE  Settled(b, status[b], proc[b])
    <3>1. ASSUME NEW q \in Process PROVE op[q].app # b
      <4>1. op[q] = Idle => op[q].app # b
        BY <2>1, IdleFields, Constants
      <4> QED BY <1>1, <1>5, <2>1, <4>1
    <3> QED BY <1>1, <2>1, <3>1, SettledWhenQuiet DEF Quiet
  <2> QED BY <2>1 DEF ProcessesFollowRows, Settled, RunningIsOnline, There, Row, Quiet
<1> QED BY <1>1, <1>4, <1>6, <1>7, <1>8, <1>9, <1>10, <1>12, <1>13 DEF AppInv

\* Of a step that only changes the queue.
LEMMA QueueStep ==
  ASSUME AppInv, UNCHANGED <<status, port, proc, op, mixed, cut>>, Jobs'
  PROVE  AppInv'
<1>1. Operations' /\ Rows' /\ Overlaps' /\ Beginnings' /\ StartedWithRow'
  <2>1. Operations' <=> Operations
    BY DEF Operations, Going
  <2>2. (Rows' <=> Rows) /\ (Overlaps' <=> Overlaps)
    BY DEF Rows, Overlaps
  <2>3. (Beginnings' <=> Beginnings) /\ (StartedWithRow' <=> StartedWithRow)
    BY DEF Beginnings, StartedWithRow
  <2> QED BY <2>1, <2>2, <2>3 DEF AppInv
<1>2. PortIsFree' /\ NotReserved' /\ NodeOnly' /\ Promises' /\ ProcessesFollowRows' /\ PortsDistinct'
  <2>1. PortIsFree' <=> PortIsFree
    BY DEF PortIsFree, At, Row
  <2>2. (NotReserved' <=> NotReserved) /\ (NodeOnly' <=> NodeOnly) /\ (Promises' <=> Promises)
    BY DEF NotReserved, NodeOnly, Promises
  <2>3. (ProcessesFollowRows' <=> ProcessesFollowRows) /\ (PortsDistinct' <=> PortsDistinct)
    BY DEF ProcessesFollowRows, PortsDistinct, Row, Quiet
  <2> QED BY <2>1, <2>2, <2>3 DEF AppInv
<1> QED BY <1>1, <1>2 DEF AppInv

\* The worker is not busy: nothing is active.
LEMMA NothingActive == ASSUME Jobs, op[Worker] = Idle PROVE Active = {}
BY DEF Jobs

\* A request does not touch the queue.
LEMMA RequestJobs ==
  ASSUME AppInv, NEW p \in Client, UNCHANGED job, \A q \in Process \ {p} : op'[q] = op[q]
  PROVE  Jobs'
<1>1. op'[Worker] = op[Worker]
  BY Constants
<1> QED BY <1>1 DEF AppInv, Jobs, Active

LEMMA RequestStep ==
  ASSUME AppInv, NEW p \in Client, NEW a \in App, Create(p, a) \/ Control(p, a) \/ Remove(p, a)
  PROVE  AppInv'
<1>1. p \in Process /\ p # Worker /\ op[p] = Idle
  BY Constants DEF Create, Control, Remove, Ask
<1>2. PICK kind \in Kind \ {"deploy"} :
        /\ kind \in {"start", "stop", "restart"} => a \in Node
        /\ Open(p, a, kind) /\ UNCHANGED <<status, port, proc, cut, job>>
        /\ kind = "create" => status[a] = "new" /\ Quiet(a)
        /\ kind # "create" => Row(a)
  <2>1. CASE Create(p, a)
    BY <2>1 DEF Create, Kind
  <2>2. CASE Control(p, a)
    BY <2>2 DEF Control, Kind
  <2>3. CASE Remove(p, a)
    BY <2>3 DEF Remove, Kind
  <2> QED BY <2>1, <2>2, <2>3
<1>3. \A q \in Process \ {p} : op'[q] = op[q]
  BY <1>1, <1>2, OpenFields DEF AppInv, Rows
<1>4. Jobs'
  BY <1>2, <1>3, RequestJobs
<1> QED BY <1>1, <1>2, <1>4, OpenStep

\* A job changes that is not active.
LEMMA OneJob ==
  ASSUME Jobs, NEW j \in Job, job[j].state # "active", NEW w \in Entry, w.state # "active",
         w.failed \in 0 .. Attempts, w.state \in {"unused", "waiting", "delayed"} => w.failed < Attempts,
         w.state # "unused" => w.app \in App, job' = [job EXCEPT ![j] = w], UNCHANGED op
  PROVE  Jobs'
<1>1. job' \in [Job -> Entry] /\ job'[j] = w /\ \A i \in Job \ {j} : job'[i] = job[i]
  BY DEF Jobs
<1>2. Active' = Active
  BY <1>1 DEF Active
<1>3. \A i \in Active : i # j
  BY DEF Active
<1> QED BY <1>1, <1>2, <1>3 DEF Jobs, Active

LEMMA StateFields ==
  ASSUME NEW w \in Entry, NEW v,
         NEW st \in {"unused", "waiting", "delayed", "active", "completed", "failed", "removed"},
         v = [w EXCEPT !.state = st]
  PROVE  v \in Entry /\ v.state = st /\ v.failed = w.failed /\ v.app = w.app
BY DEF Entry

LEMMA RetriedFields ==
  ASSUME NEW w \in Entry, NEW v, NEW n, NEW st, v = [w EXCEPT !.failed = n, !.state = st]
  PROVE  v = [app |-> w.app, failed |-> n, stalled |-> w.stalled, state |-> st]
BY DEF Entry

LEMMA StalledFields ==
  ASSUME NEW w \in Entry, NEW v, v = Stalled(w)
  PROVE  v \in Entry /\ v.state \in {"waiting", "failed"} /\ v.failed = w.failed /\ v.app = w.app
<1>1. PICK st \in {"waiting", "failed"} : v = [w EXCEPT !.state = st, !.stalled = 1]
  BY DEF Stalled
<1>2. v = [app |-> w.app, failed |-> w.failed, stalled |-> 1, state |-> st]
  BY <1>1 DEF Entry
<1> QED BY <1>2 DEF Entry

LEMMA EnqueueStep ==
  ASSUME AppInv, NEW p \in Client, NEW a \in App, QueueDeployment(p, a)
  PROVE  AppInv'
<1>1. PICK j \in Job : job[j] = Unused
                       /\ job' = [job EXCEPT ![j] = [Unused EXCEPT !.app = a, !.state = "waiting"]]
  BY DEF QueueDeployment
<1>2. UNCHANGED <<status, port, proc, op, mixed, cut>>
  BY DEF QueueDeployment, history
<1> DEFINE w == [Unused EXCEPT !.app = a, !.state = "waiting"]
<1>3. Unused \in Entry /\ Unused.failed = 0
  BY DEF Unused, Entry
<1>4. w \in Entry /\ w.state = "waiting" /\ w.failed = 0 /\ w.app = a
  <2>1. \A u \in Entry : LET v == [u EXCEPT !.app = a, !.state = "waiting"]
                         IN  v \in Entry /\ v.state = "waiting" /\ v.failed = u.failed /\ v.app = a
    BY DEF Entry
  <2> QED BY <1>3, <2>1
<1>5. job[j].state = "unused"
  BY <1>1 DEF Unused
<1>6. 0 \in 0 .. Attempts /\ 0 < Attempts
  BY Constants
<1>7. job' = [job EXCEPT ![j] = w]
  BY <1>1
<1> HIDE DEF w
<1>8. Jobs'
  BY <1>2, <1>4, <1>5, <1>6, <1>7, OneJob DEF AppInv
<1> QED BY <1>2, <1>8, QueueStep

\* A job is cancelled, waits again, or is of an application that has gone.
LEMMA JobStateStep ==
  ASSUME AppInv, NEW j \in Job, NEW st \in {"removed", "waiting", "completed"},
         job[j].state \in {"waiting", "delayed"}, job' = [job EXCEPT ![j].state = st],
         UNCHANGED <<status, port, proc, op, mixed, cut>>
  PROVE  AppInv'
<1>1. job[j] \in Entry /\ job[j].failed \in 0 .. Attempts /\ job[j].failed < Attempts /\ job[j].app \in App
  BY DEF AppInv, Jobs
<1>2. PICK w : w = [job[j] EXCEPT !.state = st]
  OBVIOUS
<1>3. w \in Entry /\ w.state = st /\ w.failed = job[j].failed /\ w.app = job[j].app
  <2>1. PICK u \in Entry : u = job[j]
    BY <1>1
  <2>2. w = [u EXCEPT !.state = st]
    BY <1>2, <2>1
  <2> QED BY <2>1, <2>2, StateFields
<1>4. job' = [job EXCEPT ![j] = w]
  BY <1>2
<1>5. Jobs'
  BY <1>1, <1>3, <1>4, OneJob DEF AppInv
<1> QED BY <1>5, QueueStep

LEMMA TakeStep == ASSUME AppInv, NEW j \in Job, TakeJob(j) PROVE AppInv'
<1>1. job[j].state = "waiting" /\ op[Worker] = Idle /\ UNCHANGED <<status, port, proc, cut>>
  BY DEF TakeJob
<1>2. CASE ~Known(job[j].app)
  <2>1. job' = [job EXCEPT ![j].state = "completed"] /\ UNCHANGED <<op, mixed>>
    BY <1>2 DEF TakeJob
  <2> QED BY <1>1, <2>1, JobStateStep
<1>3. CASE Known(job[j].app)
  <2>1. PICK a, w : a = job[j].app /\ w = [job[j] EXCEPT !.state = "active"]
    OBVIOUS
  <2>2. job[j] \in Entry /\ job[j].failed \in 0 .. Attempts /\ job[j].failed < Attempts /\ a \in App
    BY <1>1, <2>1 DEF AppInv, Jobs
  <2>3. w \in Entry /\ w.state = "active" /\ w.failed = job[j].failed /\ w.app = a
    BY <2>1, <2>2, StateFields
  <2>4. job' = [job EXCEPT ![j] = w] /\ Open(Worker, a, "deploy") /\ Row(a)
    BY <1>3, <2>1 DEF TakeJob, Known
  <2>5. op'[Worker] # Idle /\ op'[Worker].app = a /\ Worker \in Process /\ "deploy" \in Kind
    BY <1>1, <2>2, <2>4, OpenFields, Constants DEF AppInv, Rows, Kind
  <2>6. job' \in [Job -> Entry] /\ job'[j] = w /\ \A i \in Job \ {j} : job'[i] = job[i]
    BY <2>3, <2>4 DEF AppInv, Jobs
  <2>7. Active' = {j}
    BY <1>1, <2>3, <2>6, NothingActive DEF AppInv, Active
  <2>8. Jobs'
    <3>1. \A i \in Job : /\ job'[i].failed \in 0 .. Attempts
                         /\ job'[i].state \in {"unused", "waiting", "delayed", "active"} => job'[i].failed < Attempts
                         /\ job'[i].state # "unused" => job'[i].app \in App
      BY <2>2, <2>3, <2>6 DEF AppInv, Jobs
    <3> QED BY <2>3, <2>5, <2>6, <2>7, <3>1 DEF Jobs
  <2> QED BY <1>1, <2>2, <2>4, <2>5, <2>8, OpenStep
<1> QED BY <1>2, <1>3

\* What is cut off at no step that must be saved leaves its application settled.
LEMMA SettledInDeploy ==
  ASSUME AppInv, op[Worker] # Idle, NEW a \in App \ (mixed \cup cut), a = op[Worker].app
  PROVE  Settled(a, status[a], proc[a])
<1>1. PICK s : s = Head(op[Worker].todo)
  OBVIOUS
<1>2. op[Worker].kind = "deploy" /\ May(a, "deploy", s) /\ Worker \in Process
  BY <1>1, GoingFields, Constants DEF AppInv, Going
<1>3. Promise(a, "deploy", s, status[a], proc[a])
  BY <1>1, <1>2 DEF AppInv, Promises
<1> QED BY <1>2, <1>3 DEF Promise, May, Settled

\* Of a step that only ends operations.
LEMMA EndsStep ==
  ASSUME AppInv, Operations', Jobs', UNCHANGED <<status, port, proc, mixed>>,
         cut \subseteq cut', cut' \subseteq App,
         \A q \in Process : op'[q] = op[q] \/ op'[q] = Idle,
         \A a \in App \ (mixed \cup cut') : (\A q \in Process : op'[q].app # a) => Settled(a, status[a], proc[a])
  PROVE  AppInv'
<1>1. Rows' /\ NotReserved' /\ NodeOnly'
  BY DEF AppInv, Rows, NotReserved, NodeOnly
<1>2. \A q \in Process : op'[q] # Idle => op'[q] = op[q] /\ op[q] # Idle
  OBVIOUS
<1>3. Overlaps'
  BY <1>2 DEF AppInv, Overlaps
<1>4. Beginnings'
  <2>1. ASSUME NEW q \in Process, op'[q] # Idle, Head(op'[q].todo) \in {"allocate", "insert"}, NEW b, b = op'[q].app
        PROVE  status[b] = "new" /\ \A r \in Process \ {q} : op'[r].app # b
    <3>1. b \in App /\ status[b] = "new" /\ \A r \in Process \ {q} : op[r].app # b
      BY <1>2, <2>1, GoingFields DEF AppInv, Beginnings
    <3>2. Idle.app # b
      BY <3>1, IdleFields, Constants
    <3> QED BY <3>1, <3>2
  <2> QED BY <2>1 DEF Beginnings
<1>5. StartedWithRow'
  BY <1>2 DEF AppInv, StartedWithRow
<1>6. PortIsFree'
  <2>1. ASSUME NEW q \in Process, op'[q].todo # <<>>, Head(op'[q].todo) = "insert", NEW b \in Node, b = op'[q].app
        PROVE  port[b] \notin Reserved /\ \A c \in Node : Row(c) /\ port[c] = port[b] => {b, c} \cap mixed # {}
    <3>1. op'[q] = op[q]
      BY <2>1, IdleFields
    <3> QED BY <2>1, <3>1 DEF AppInv, PortIsFree, At
  <2> QED BY <2>1 DEF PortIsFree, At, Row
<1>7. PortsDistinct'
  <2>1. PortsDistinct' <=> PortsDistinct
    BY DEF PortsDistinct, Row
  <2> QED BY <2>1 DEF AppInv
<1>8. Promises'
  <2>1. ASSUME NEW q \in Process, op'[q] # Idle, NEW b \in App \ (mixed \cup cut'), op'[q].app = b
        PROVE  Promise(b, op'[q].kind, Head(op'[q].todo), status[b], proc[b])
    BY <1>2, <2>1 DEF AppInv, Promises
  <2> QED BY <2>1 DEF Promises
<1>9. ProcessesFollowRows'
  BY DEF ProcessesFollowRows, Settled, RunningIsOnline, There, Row, Quiet
<1> QED BY <1>1, <1>3, <1>4, <1>5, <1>6, <1>7, <1>8, <1>9 DEF AppInv

LEMMA ErrorStep == ASSUME AppInv, ErrorNotSaved PROVE AppInv'
<1>1. /\ op' = [op EXCEPT ![Worker] = Idle] /\ UNCHANGED <<status, port, proc, mixed, cut>>
      /\ job' = [j \in Job |->
           IF job[j].state # "active" THEN job[j]
           ELSE [job[j] EXCEPT !.failed = job[j].failed + 1,
                               !.state = IF job[j].failed + 1 < Attempts THEN "delayed" ELSE "failed"]]
  BY DEF ErrorNotSaved, history
<1>2. op[Worker] # Idle
  BY AtFields, Constants DEF ErrorNotSaved, AppInv
<1>3. op' \in [Process -> Operation] /\ op'[Worker] = Idle /\ \A q \in Process \ {Worker} : op'[q] = op[q]
  BY <1>1, IdleFields, Constants DEF AppInv, Operations
<1>4. Operations'
  <2>1. ASSUME NEW q \in Process, op'[q] # Idle PROVE Going(q)'
    BY <1>3, <2>1 DEF AppInv, Operations, Going
  <2> QED BY <1>3, <2>1 DEF Operations
<1>5. Jobs'
  <2>2. \A n \in 0 .. Attempts : n < Attempts => n + 1 \in 0 .. Attempts /\ n + 1 \in Nat
    BY Constants
  <2>3. ASSUME NEW j \in Job
        PROVE  /\ job'[j] \in Entry /\ job'[j].state # "active" /\ job'[j].failed \in 0 .. Attempts
               /\ job'[j].state \in {"unused", "waiting", "delayed", "active"} => job'[j].failed < Attempts
               /\ job'[j].state # "unused" => job'[j].app \in App
    <3>1. /\ job[j] \in Entry /\ job[j].failed \in 0 .. Attempts
          /\ job[j].state \in {"unused", "waiting", "delayed", "active"} => job[j].failed < Attempts
          /\ job[j].state # "unused" => job[j].app \in App
      BY DEF AppInv, Jobs
    <3>2. CASE job[j].state # "active"
      BY <1>1, <3>1, <3>2
    <3>3. CASE job[j].state = "active"
      <4>1. PICK n, st : n = job[j].failed + 1 /\ st = (IF n < Attempts THEN "delayed" ELSE "failed")
        OBVIOUS
      <4>2. n \in 0 .. Attempts /\ n \in Nat /\ job[j].app \in App
        BY <2>2, <3>1, <3>3, <4>1
      <4>3. job'[j] = [job[j] EXCEPT !.failed = n, !.state = st]
        BY <1>1, <3>3, <4>1
      <4>4. job'[j] \in Entry /\ job'[j].app = job[j].app /\ job'[j].failed = n /\ job'[j].state = st
        <5>1. st \in {"delayed", "failed"}
          BY <4>1
        <5>2. PICK u, v : u = job[j] /\ v = job'[j]
          OBVIOUS
        <5>3. u \in Entry /\ v = [u EXCEPT !.failed = n, !.state = st]
          BY <3>1, <4>3, <5>2
        <5>4. v \in Entry /\ v.state = st /\ v.failed = n /\ v.app = u.app
          <6>1. v = [app |-> u.app, failed |-> n, stalled |-> u.stalled, state |-> st]
            BY <5>3, RetriedFields
          <6> QED BY <4>2, <5>1, <5>3, <6>1 DEF Entry
        <5> QED BY <5>2, <5>4
      <4> QED BY <4>1, <4>2, <4>4
    <3> QED BY <3>2, <3>3
  <2>4. job' \in [Job -> Entry]
    BY <1>1, <2>3
  <2> QED BY <1>3, <2>3, <2>4 DEF Jobs, Active
<1>6. ASSUME NEW a \in App \ (mixed \cup cut), \A q \in Process : op'[q].app # a
      PROVE  Settled(a, status[a], proc[a])
  <2>1. CASE op[Worker].app = a
    BY <1>2, <1>6, <2>1, SettledInDeploy
  <2>2. CASE op[Worker].app # a
    BY <1>3, <1>6, <2>2, SettledWhenQuiet DEF Quiet
  <2> QED BY <2>1, <2>2
<1>7. cut' = cut /\ cut \subseteq App
  BY <1>1 DEF AppInv, Rows
<1> QED BY <1>1, <1>3, <1>4, <1>5, <1>6, <1>7, EndsStep

LEMMA RestartStep == ASSUME AppInv, Restart PROVE AppInv'
<1>1. /\ op' = [p \in Process |-> Idle] /\ UNCHANGED <<status, port, proc, mixed>>
      /\ cut' = cut \cup {op[p].app : p \in {q \in Client : op[q] # Idle}}
      /\ job' = [j \in Job |-> IF job[j].state = "active" THEN Stalled(job[j]) ELSE job[j]]
  BY DEF Restart
<1>2. Operations' /\ \A q \in Process : op'[q] = Idle
  BY <1>1, IdleFields DEF Operations
<1>3. \A q \in Client : op[q] # Idle => op[q].app \in App
  BY GoingFields, Constants DEF AppInv
<1>4. cut \subseteq cut' /\ cut' \subseteq App
  BY <1>1, <1>3 DEF AppInv, Rows
<1>5. Jobs'
  <2>2. ASSUME NEW j \in Job
        PROVE  /\ job'[j] \in Entry /\ job'[j].state # "active" /\ job'[j].failed \in 0 .. Attempts
               /\ job'[j].state \in {"unused", "waiting", "delayed", "active"} => job'[j].failed < Attempts
               /\ job'[j].state # "unused" => job'[j].app \in App
    <3>1. /\ job[j] \in Entry /\ job[j].failed \in 0 .. Attempts
          /\ job[j].state \in {"unused", "waiting", "delayed", "active"} => job[j].failed < Attempts
          /\ job[j].state # "unused" => job[j].app \in App
      BY DEF AppInv, Jobs
    <3>2. CASE job[j].state # "active"
      BY <1>1, <3>1, <3>2
    <3>3. CASE job[j].state = "active"
      <4>1. job'[j] = Stalled(job[j])
        BY <1>1, <3>3
      <4> QED BY <3>1, <3>3, <4>1, StalledFields
    <3> QED BY <3>2, <3>3
  <2>3. job' \in [Job -> Entry]
    BY <1>1, <2>2
  <2>4. op'[Worker] = Idle
    BY <1>2, Constants
  <2> QED BY <2>2, <2>3, <2>4 DEF Jobs, Active
<1>6. ASSUME NEW a \in App \ (mixed \cup cut') PROVE Settled(a, status[a], proc[a])
  <2>1. \A q \in Client : op[q].app # a
    <3>1. \A q \in Client : op[q] # Idle => op[q].app \in cut'
      BY <1>1
    <3> QED BY <1>6, <3>1, IdleFields, Constants
  <2>2. CASE op[Worker].app = a
    <3>1. op[Worker] # Idle
      BY <2>2, IdleFields, Constants
    <3> QED BY <1>4, <1>6, <2>2, <3>1, SettledInDeploy
  <2>3. CASE op[Worker].app # a
    <3>1. Quiet(a)
      BY <2>1, <2>3 DEF Quiet, Process
    <3> QED BY <1>4, <1>6, <3>1, SettledWhenQuiet
  <2> QED BY <2>2, <2>3
<1> QED BY <1>1, <1>2, <1>4, <1>5, <1>6, EndsStep

-----------------------------------------------------------------------------
LEMMA InitInv == ASSUME Init PROVE AppInv
<1>1. /\ \A a \in App : status[a] = "new" /\ port[a] = NoPort /\ proc[a] = "none"
      /\ \A p \in Process : op[p] = Idle
      /\ \A j \in Job : job[j] = Unused
      /\ mixed = {} /\ cut = {}
  BY DEF Init
<1>2. Operations /\ Rows
  BY IdleFields DEF Init, Operations, Rows
<1>3. Unused \in Entry /\ Unused.state = "unused" /\ Unused.failed = 0
  BY DEF Unused, Entry
<1>4. 0 \in 0 .. Attempts /\ 0 < Attempts
  BY Constants
<1>5. Jobs
  <2>1. job \in [Job -> Entry]
    BY <1>3 DEF Init
  <2> QED BY <1>1, <1>3, <1>4, <2>1, Constants DEF Jobs, Active
<1>6. Overlaps /\ Beginnings /\ StartedWithRow /\ NotReserved /\ NodeOnly /\ Promises
  BY <1>1, Constants DEF Overlaps, Beginnings, StartedWithRow, NotReserved, NodeOnly, Promises
<1>7. PortIsFree
  BY <1>1, IdleFields DEF PortIsFree, At
<1>8. ProcessesFollowRows /\ PortsDistinct
  BY <1>1, Constants DEF ProcessesFollowRows, PortsDistinct, Row
<1> QED BY <1>2, <1>5, <1>6, <1>7, <1>8 DEF AppInv

LEMMA NextInv == ASSUME AppInv, [Next]_vars PROVE AppInv'
<1>1. ASSUME NEW p \in Client, NEW a \in App,
             Create(p, a) \/ Control(p, a) \/ Remove(p, a) \/ QueueDeployment(p, a)
      PROVE  AppInv'
  BY <1>1, RequestStep, EnqueueStep
<1>2. ASSUME NEW p \in Client, NEW j \in Job, CancelDeployment(p, j) PROVE AppInv'
  <2>1. /\ job[j].state \in {"waiting", "delayed"} /\ job' = [job EXCEPT ![j].state = "removed"]
        /\ UNCHANGED <<status, port, proc, op, mixed, cut>>
    BY <1>2 DEF CancelDeployment, Waiting, history
  <2> QED BY <2>1, JobStateStep
<1>3. ASSUME NEW p \in Process, Handler(p) PROVE AppInv'
  BY <1>3, AllocateStep, UntouchedStep, SaveStep, Pm2Step, DeleteStep, FailStep DEF Handler
<1>4. ASSUME NEW j \in Job, Backoff(j) PROVE AppInv'
  <2>1. /\ job[j].state \in {"waiting", "delayed"} /\ job' = [job EXCEPT ![j].state = "waiting"]
        /\ UNCHANGED <<status, port, proc, op, mixed, cut>>
    BY <1>4 DEF Backoff, history
  <2> QED BY <2>1, JobStateStep
<1>5. CASE Queue
  BY <1>4, <1>5, TakeStep DEF Queue
<1>6. CASE UNCHANGED vars
  <2>1. UNCHANGED <<status, port, proc, op, job, mixed, cut>>
    BY <1>6 DEF vars, history
  <2>2. Jobs' <=> Jobs
    BY <2>1 DEF Jobs, Active
  <2> QED BY <2>1, <2>2, QueueStep DEF AppInv
<1> QED BY <1>1, <1>2, <1>3, <1>5, <1>6, ErrorStep, RestartStep DEF Next

\* The inductive invariant holds in every state.
THEOREM AppInvariant == Spec => []AppInv
<1>1. Init => AppInv
  BY InitInv
<1>2. AppInv /\ [Next]_vars => AppInv'
  BY NextInv
<1> QED BY <1>1, <1>2, PTL DEF Spec

\* The variables have their types, and the worker an operation exactly while it has a job.
THEOREM AppsTyped == Spec => []TypeOK
<1>1. AppInv => TypeOK
  <2> SUFFICES ASSUME AppInv PROVE TypeOK
    OBVIOUS
  <2>1. \A j \in Job : job[j].failed \in 0 .. Attempts /\ job[j].stalled \in 0 .. 1
    BY DEF AppInv, Jobs, Entry
  <2>2. {op[Worker].app} \ {"none"} = {job[j].app : j \in Active}
    <3>1. CASE op[Worker] = Idle
      BY <3>1, IdleFields, NothingActive DEF AppInv
    <3>2. CASE op[Worker] # Idle
      <4>1. op[Worker].app \in App /\ Active # {} /\ \A j \in Active : job[j].app = op[Worker].app
        BY <3>2, GoingFields, Constants DEF AppInv, Jobs
      <4> QED BY <4>1, Constants
    <3> QED BY <3>1, <3>2
  <2> QED BY <2>1, <2>2 DEF AppInv, Rows, TypeOK, Active
<1> QED BY <1>1, AppInvariant, PTL

\* A row that says RUNNING is right and one that has gone has no process, once
\* nothing is in flight for the application.
THEOREM ProcessesKnown == Spec => []ProcessesFollowRows
<1>1. AppInv => ProcessesFollowRows
  BY DEF AppInv
<1> QED BY <1>1, AppInvariant, PTL

\* No two applications have the same port.
THEOREM PortsApart == Spec => []PortsDistinct
<1>1. AppInv => PortsDistinct
  BY DEF AppInv
<1> QED BY <1>1, AppInvariant, PTL

\* No step brings back the row of an application, unless operations on it overlapped.
THEOREM RowsStayGone == Spec => RemovedStays
<1>1. ASSUME AppInv, [Next]_vars, NEW a \in App, status[a] = "gone", Row(a)' PROVE a \in mixed
  <2>1. status'[a] # status[a]
    BY <1>1 DEF Row
  <2>2. PICK p \in Process : Save(p) \/ Delete(p)
    BY <1>1, <2>1 DEF Next, vars, Create, Control, Remove, QueueDeployment, CancelDeployment, Handler,
       Allocate, Find, Pm2, Command, StepFails, ErrorNotSaved, Queue, TakeJob, Backoff, Restart
  <2>3. op[p] # Idle /\ op[p].app = a
    <3>1. op[p] # Idle
      BY <2>2, IdleFields DEF Save, Delete, At
    <3>2. PICK st : status' = [status EXCEPT ![op[p].app] = st]
      BY <2>2 DEF Save, Delete
    <3> QED BY <1>1, <2>1, <3>1, <3>2 DEF AppInv, Rows
  <2> QED BY <1>1, <2>3 DEF AppInv, StartedWithRow
<1>2. AppInv /\ [Next]_vars => [\A a \in App : status[a] = "gone" /\ Row(a)' => a \in mixed]_vars
  BY <1>1
<1> QED BY <1>2, AppInvariant, PTL DEF RemovedStays, Spec

=============================================================================
