---------------------- MODULE DomainProvisioningProofs ----------------------
(***************************************************************************)
(* Proofs about DomainProvisioning: a domain shown as active is on the     *)
(* server, one suspended or deleted is not, and a creation keeps the       *)
(* account it made; for any number of requests, domains, versions of PHP   *)
(* and failures, and any mapping of domains to system users.               *)
(***************************************************************************)
EXTENDS DomainProvisioning, SequenceTheorems, TLAPS

-----------------------------------------------------------------------------
(* The inductive invariant, by parts.                                      *)

Ops     == {"create", "update", "suspend", "unsuspend", "delete"}
StepName ==
  {"findDomain", "findUser", "id", "useradd", "insertUser", "insertDomain", "writePool",
   "reloadFpm", "writeVhost", "enable", "configtest", "reloadApache", "activate", "audit",
   "saveVersion", "commit", "disable", "lock", "saveLocked", "saveSuspended", "unlock",
   "saveUnlocked", "deleteVhost", "deletePool", "userdel", "deleteUser", "deleteDomain"}
Undoes  == [kind : {"userdel", "deleteUser", "pool", "vhost"}, old : Config]
Left(r) == Len(todo[r])
Creates(r) == job[r].op = "create"

Control ==
  /\ job   \in [Request -> Job]
  /\ seen  \in [Request -> [status : LiveRow \cup {"none"}, version : Version]]
  /\ state \in [Request -> {"idle", "running", "rolling", "done", "refused", "failed"}]
  /\ todo  \in [Request -> Seq(StepName)]
  /\ undo  \in [Request -> Seq(Undoes)]
  /\ mixed \subseteq Domain /\ skipped \subseteq Request /\ faults \in 0..MaxFaults

Data ==
  /\ row     \in [Domain -> LiveRow \cup {"none", "deleted"}]
  /\ version \in [Domain -> Version]
  /\ user    \in [Name -> LiveUser \cup {"none", "deleted"}]
  /\ account \in [Name -> {"none", "unlocked", "locked"}]
  /\ pools   \subseteq Name \X Version
  /\ vhost   \in [Domain -> Config] /\ served \in [Domain -> Config]
  /\ links   \subseteq Domain

\* A running request has the last steps of its handler before it.
Course(r) ==
  LET all == Steps[job[r].op] IN
  /\ state[r] = "running" <=> todo[r] # <<>>
  /\ Left(r) <= Len(all)
  /\ \A i \in 1..Left(r) : todo[r][i] = all[Len(all) - Left(r) + i]

\* What is registered to be undone: of a creation first its account, or the account
\* with its row once that is made, of the others nothing but files.
Registered(r) ==
  /\ state[r] = "idle" => undo[r] = <<>>
  /\ state[r] = "rolling" => undo[r] # <<>>
  /\ job[r].op \in {"suspend", "unsuspend", "delete"} => undo[r] = <<>>
  /\ \A i \in 1..Len(undo[r]) :
       undo[r][i].kind \in {"userdel", "deleteUser"} <=> Creates(r) /\ i = 1
  /\ undo[r] # <<>> /\ undo[r][1].kind = "userdel" => Len(undo[r]) = 1
  /\ Creates(r) /\ state[r] = "running" =>
       /\ Left(r) > 10 <=> undo[r] = <<>>
       /\ Left(r) = 10 => undo[r][1].kind = "userdel"
       /\ Left(r) < 10 => undo[r][1].kind = "deleteUser"

Courses == \A r \in Request : Course(r) /\ Registered(r)

\* A creation that made the account of its domain; one that made the user's row too.
Holds(r) == Running(r) /\ Creates(r) /\ undo[r] # <<>>
Named(r) == Holds(r) /\ undo[r][1].kind = "deleteUser"

\* A request that changes its domain: every one but a creation that has no user yet.
Main(r) == Running(r) /\ (Creates(r) => Named(r))

\* Of two requests for a domain only creations may overlap unnoticed.
Exclusive ==
  \A r, q \in Request : Running(r) /\ Running(q) /\ Dom(r) = Dom(q) /\ r # q =>
    (Creates(r) /\ Creates(q)) \/ Dom(r) \in mixed

\* A row that was found or inserted never goes altogether.
RowsFound ==
  \A r \in Request :
    /\ ~Creates(r) /\ state[r] # "idle" => seen[r].status \in LiveRow /\ row[Dom(r)] # "none"
    /\ Creates(r) /\ state[r] = "running" /\ Left(r) < 9 => row[Dom(r)] # "none"

\* One domain of a user at most ever has a row: the rows of users are inserted once.
OneOwner ==
  /\ \A d \in Domain : row[d] # "none" => user[NameOf[d]] # "none"
  /\ \A d, e \in Domain :
       row[d] # "none" /\ row[e] # "none" /\ NameOf[d] = NameOf[e] => d = e
  /\ \A r \in Request : Named(r) =>
       /\ user[User(r)] # "none"
       /\ \A e \in Domain : row[e] # "none" /\ NameOf[e] = User(r) => e = Dom(r)
       /\ \A q \in Request : Named(q) /\ User(r) = User(q) => r = q

\* A domain of which nothing was left half done; a user that has no other.
Kept(d)  == d \notin Torn \cup mixed
Sound(n) == \A e \in Domain : NameOf[e] = n /\ row[e] # "none" => Kept(e)

\* A domain whose account has been deleted, or may have been.
Going(d) == \/ row[d] = "deleted"
            \/ \E s \in Request : /\ Running(s) /\ Dom(s) = d
                                   /\ job[s].op = "delete" /\ Left(s) < 4

\* An account belongs to the one creation that made it, or to a domain with a row.
Accounts ==
  /\ \A r \in Request : Holds(r) /\ Sound(User(r)) =>
       /\ account[User(r)] = "unlocked"
       /\ \A q \in Request : Holds(q) /\ User(r) = User(q) => r = q
       /\ \A e \in Domain :
            ~Named(r) /\ row[e] # "none" /\ NameOf[e] = User(r) => Going(e)
  /\ \A d \in Domain :
       row[d] # "none" /\ Kept(d) => account[NameOf[d]] # "none" \/ Going(d)

Down(d) == d \notin links /\ served[d] = None

\* What a deletion has done, and what is true once it is done.
Removing(r) ==
  /\ Left(r) < 9 => Dom(r) \notin links
  /\ Left(r) < 5 => served[Dom(r)] = None
  /\ Left(r) < 3 => user[User(r)] \notin LiveUser
  /\ Left(r) < 2 => row[Dom(r)] = "deleted"

Removed ==
  /\ \A d \in Domain \ mixed : row[d] = "deleted" =>
       /\ Down(d) /\ user[NameOf[d]] \notin LiveUser
       /\ \A r \in Request : Main(r) /\ Dom(r) = d => job[r].op = "delete" /\ Left(r) = 1
  /\ \A r \in Request :
       state[r] = "running" /\ job[r].op = "delete" /\ Dom(r) \notin mixed => Removing(r)

Unlocked(d) == user[NameOf[d]] = "live" /\ account[NameOf[d]] = "unlocked"
Locked(d)   == user[NameOf[d]] = "suspended" /\ account[NameOf[d]] = "locked"
HasFiles(d) == <<NameOf[d], version[d]>> \in pools /\ vhost[d] = version[d]

\* All there is of a domain says the same.
Active(d)    == row[d] = "active" /\ Unlocked(d) /\ d \in links
Suspended(d) == row[d] = "suspended" /\ Locked(d) /\ Down(d)
Whole(d) == HasFiles(d) /\ (Suspended(d) \/ (Active(d) /\ served[d] = version[d]))

\* What each handler has done where it is, of a domain nothing else disturbs.
Creating(r) ==
  LET d == Dom(r) IN
  /\ Unlocked(d)
  /\ Left(r) = 9 => row[d] = "none"
  /\ Left(r) < 9 => version[d] = seen[r].version /\ (Left(r) > 1 => row[d] = "pending")
  /\ Left(r) < 8 => <<User(r), seen[r].version>> \in pools
  /\ Left(r) < 6 => vhost[d] = seen[r].version
  /\ Left(r) < 5 => d \in links
  /\ Left(r) < 3 => served[d] = seen[r].version
  /\ Left(r) < 2 => row[d] = "active"
Updating(r) ==
  LET d == Dom(r) IN
  /\ row[d] = seen[r].status
  /\ Active(d) \/ Suspended(d)
  /\ Left(r) = 9 => Whole(d)
  /\ Left(r) < 9 => version[d] = seen[r].version
  /\ Left(r) < 8 => <<User(r), seen[r].version>> \in pools
  /\ Left(r) < 5 => vhost[d] = seen[r].version
  /\ Left(r) < 3 /\ Active(d) => served[d] = seen[r].version
Suspending(r) ==
  LET d == Dom(r) IN
  /\ HasFiles(d) /\ version[d] = seen[r].version /\ row[d] \in {"active", "suspended"}
  /\ Left(r) > 4 => Whole(d)
  /\ Left(r) < 5 => d \notin links
  /\ Left(r) < 4 => served[d] = None
  /\ Left(r) > 2 => Unlocked(d) \/ Locked(d)
  /\ Left(r) < 3 => account[User(r)] = "locked"
  /\ Left(r) < 2 => user[User(r)] = "suspended"
Unsuspending(r) ==
  LET d == Dom(r) IN
  /\ HasFiles(d) /\ version[d] = seen[r].version /\ row[d] \in {"active", "suspended"}
  /\ Left(r) > 4 => Whole(d)
  /\ Left(r) < 5 => account[User(r)] = "unlocked"
  /\ Left(r) < 4 => user[User(r)] = "live"
  /\ Left(r) < 3 => d \in links
  /\ Left(r) < 2 => served[d] = version[d]
Deleting(r) == Left(r) = 9 => Whole(Dom(r))

Doing(r) ==
  /\ job[r].op = "create"    => Creating(r)
  /\ job[r].op = "update"    => Updating(r)
  /\ job[r].op = "suspend"   => Suspending(r)
  /\ job[r].op = "unsuspend" => Unsuspending(r)
  /\ job[r].op = "delete"    => Deleting(r)

\* A domain nothing was left half done of is whole, or one request is at work on it.
Sites ==
  \A d \in Domain : Kept(d) =>
    /\ \/ row[d] \in {"none", "deleted"} \/ Whole(d)
       \/ \E r \in Request : Main(r) /\ Dom(r) = d
    /\ \A r \in Request : Main(r) /\ Dom(r) = d /\ state[r] = "running" => Doing(r)

DomainInv ==
  /\ Control /\ Data /\ Courses /\ Exclusive /\ RowsFound /\ OneOwner /\ Accounts
  /\ Removed /\ Sites

-----------------------------------------------------------------------------
(* Where a request is when its next step is known.                         *)

LEMMA Ahead ==
  ASSUME Control, Courses, NEW r \in Request, state[r] = "running"
  PROVE  /\ job[r].op \in Ops /\ Left(r) \in Nat \ {0} /\ Left(r) <= Len(Steps[job[r].op])
         /\ Head(todo[r]) = Steps[job[r].op][Len(Steps[job[r].op]) - Left(r) + 1]
<1>1. todo[r] \in Seq(StepName) /\ todo[r] # <<>> /\ job[r].op \in Op
  BY DEF Control, Courses, Course, Job
<1>2. Left(r) \in Nat \ {0} /\ Head(todo[r]) = todo[r][1]
  BY <1>1 DEF Left
<1>3. Left(r) <= Len(Steps[job[r].op])
      /\ \A i \in 1..Left(r) : todo[r][i] = Steps[job[r].op][Len(Steps[job[r].op]) - Left(r) + i]
  BY DEF Courses, Course
<1>4. 1 \in 1..Left(r)
  BY <1>2
<1> QED BY <1>1, <1>2, <1>3, <1>4, OpAssumption DEF Ops

\* Request r runs operation o and has n steps before it.
Place(r, o, n) == job[r].op = o /\ Left(r) = n

LEMMA CreateAt ==
  ASSUME Control, Courses, NEW r \in Request, state[r] = "running", job[r].op = "create"
  PROVE  /\ Left(r) \in 1..14
         /\ Head(todo[r]) = CreateSteps[15 - Left(r)]
<1>1. Steps[job[r].op] = CreateSteps
  BY DEF Steps
<1>2. Len(CreateSteps) = 14
  BY DEF CreateSteps
<1>3. Left(r) \in Nat \ {0} /\ Left(r) <= 14 /\ Head(todo[r]) = CreateSteps[14 - Left(r) + 1]
  BY <1>1, <1>2, Ahead
<1>4. \A n \in Nat \ {0} : n <= 14 => n \in 1..14 /\ 14 - n + 1 = 15 - n
  OBVIOUS
<1> QED BY <1>3, <1>4

LEMMA UpdateAt ==
  ASSUME Control, Courses, NEW r \in Request, state[r] = "running", job[r].op = "update"
  PROVE  /\ Left(r) \in 1..9
         /\ Head(todo[r]) = UpdateSteps[10 - Left(r)]
<1>1. Steps[job[r].op] = UpdateSteps
  BY DEF Steps
<1>2. Len(UpdateSteps) = 9
  BY DEF UpdateSteps
<1>3. Left(r) \in Nat \ {0} /\ Left(r) <= 9 /\ Head(todo[r]) = UpdateSteps[9 - Left(r) + 1]
  BY <1>1, <1>2, Ahead
<1>4. \A n \in Nat \ {0} : n <= 9 => n \in 1..9 /\ 9 - n + 1 = 10 - n
  OBVIOUS
<1> QED BY <1>3, <1>4

LEMMA SuspendAt ==
  ASSUME Control, Courses, NEW r \in Request, state[r] = "running", job[r].op = "suspend"
  PROVE  /\ Left(r) \in 1..6
         /\ Head(todo[r]) = SuspendSteps[7 - Left(r)]
<1>1. Steps[job[r].op] = SuspendSteps
  BY DEF Steps
<1>2. Len(SuspendSteps) = 6
  BY DEF SuspendSteps
<1>3. Left(r) \in Nat \ {0} /\ Left(r) <= 6 /\ Head(todo[r]) = SuspendSteps[6 - Left(r) + 1]
  BY <1>1, <1>2, Ahead
<1>4. \A n \in Nat \ {0} : n <= 6 => n \in 1..6 /\ 6 - n + 1 = 7 - n
  OBVIOUS
<1> QED BY <1>3, <1>4

LEMMA UnsuspendAt ==
  ASSUME Control, Courses, NEW r \in Request, state[r] = "running", job[r].op = "unsuspend"
  PROVE  /\ Left(r) \in 1..6
         /\ Head(todo[r]) = UnsuspendSteps[7 - Left(r)]
<1>1. Steps[job[r].op] = UnsuspendSteps
  BY DEF Steps
<1>2. Len(UnsuspendSteps) = 6
  BY DEF UnsuspendSteps
<1>3. Left(r) \in Nat \ {0} /\ Left(r) <= 6 /\ Head(todo[r]) = UnsuspendSteps[6 - Left(r) + 1]
  BY <1>1, <1>2, Ahead
<1>4. \A n \in Nat \ {0} : n <= 6 => n \in 1..6 /\ 6 - n + 1 = 7 - n
  OBVIOUS
<1> QED BY <1>3, <1>4

LEMMA DeleteAt ==
  ASSUME Control, Courses, NEW r \in Request, state[r] = "running", job[r].op = "delete"
  PROVE  /\ Left(r) \in 1..9
         /\ Head(todo[r]) = DeleteSteps[10 - Left(r)]
<1>1. Steps[job[r].op] = DeleteSteps
  BY DEF Steps
<1>2. Len(DeleteSteps) = 9
  BY DEF DeleteSteps
<1>3. Left(r) \in Nat \ {0} /\ Left(r) <= 9 /\ Head(todo[r]) = DeleteSteps[9 - Left(r) + 1]
  BY <1>1, <1>2, Ahead
<1>4. \A n \in Nat \ {0} : n <= 9 => n \in 1..9 /\ 9 - n + 1 = 10 - n
  OBVIOUS
<1> QED BY <1>3, <1>4

LEMMA Places ==
  ASSUME Control, Courses, NEW r \in Request
  PROVE  /\ At(r, "findDomain")    => Place(r, "create", 14)
         /\ At(r, "findUser")      => Place(r, "create", 13)
         /\ At(r, "id")            => Place(r, "create", 12)
         /\ At(r, "useradd")       => Place(r, "create", 11)
         /\ At(r, "insertUser")    => Place(r, "create", 10)
         /\ At(r, "insertDomain")  => Place(r, "create", 9)
         /\ At(r, "writePool")     => Place(r, "create", 8) \/ Place(r, "update", 8)
         /\ At(r, "reloadFpm")     => \/ Place(r, "create", 7) \/ Place(r, "update", 7)
                                      \/ Place(r, "delete", 6)
         /\ At(r, "writeVhost")    => Place(r, "create", 6) \/ Place(r, "update", 5)
         /\ At(r, "enable")        => Place(r, "create", 5) \/ Place(r, "unsuspend", 3)
         /\ At(r, "configtest")    => Place(r, "create", 4) \/ Place(r, "update", 4)
         /\ At(r, "reloadApache")  => \/ Place(r, "create", 3) \/ Place(r, "update", 3)
                                      \/ Place(r, "suspend", 4) \/ Place(r, "unsuspend", 2)
                                      \/ Place(r, "delete", 5)
         /\ At(r, "activate")      => Place(r, "create", 2) \/ Place(r, "unsuspend", 1)
         /\ At(r, "audit")         => \/ Place(r, "create", 1) \/ Place(r, "update", 1)
                                      \/ Place(r, "suspend", 6) \/ Place(r, "unsuspend", 6)
                                      \/ Place(r, "delete", 1)
         /\ At(r, "saveVersion")   => Place(r, "update", 9)
         /\ At(r, "commit")        => Place(r, "update", 6) \/ Place(r, "update", 2)
         /\ At(r, "disable")       => Place(r, "suspend", 5) \/ Place(r, "delete", 9)
         /\ At(r, "lock")          => Place(r, "suspend", 3)
         /\ At(r, "saveLocked")    => Place(r, "suspend", 2)
         /\ At(r, "saveSuspended") => Place(r, "suspend", 1)
         /\ At(r, "unlock")        => Place(r, "unsuspend", 5)
         /\ At(r, "saveUnlocked")  => Place(r, "unsuspend", 4)
         /\ At(r, "deleteVhost")   => Place(r, "delete", 8)
         /\ At(r, "deletePool")    => Place(r, "delete", 7)
         /\ At(r, "userdel")       => Place(r, "delete", 4)
         /\ At(r, "deleteUser")    => Place(r, "delete", 3)
         /\ At(r, "deleteDomain")  => Place(r, "delete", 2)
<1>1. CASE state[r] # "running"
  BY <1>1 DEF At
<1>2. CASE state[r] = "running"
  <2>1. job[r].op \in Ops
    BY <1>2, Ahead
  <2>2. CASE job[r].op = "create"
    <3>1. Left(r) \in 1..14 /\ Head(todo[r]) = CreateSteps[15 - Left(r)]
      BY <1>2, <2>2, CreateAt
    <3>2. ASSUME Left(r) \in 1..7
          PROVE  \/ Left(r) = 1 /\ Head(todo[r]) = "audit"
                 \/ Left(r) = 2 /\ Head(todo[r]) = "activate"
                 \/ Left(r) = 3 /\ Head(todo[r]) = "reloadApache"
                 \/ Left(r) = 4 /\ Head(todo[r]) = "configtest"
                 \/ Left(r) = 5 /\ Head(todo[r]) = "enable"
                 \/ Left(r) = 6 /\ Head(todo[r]) = "writeVhost"
                 \/ Left(r) = 7 /\ Head(todo[r]) = "reloadFpm"
      BY <3>1, <3>2 DEF CreateSteps
    <3>3. ASSUME Left(r) \in 8..14
          PROVE  \/ Left(r) = 8 /\ Head(todo[r]) = "writePool"
                 \/ Left(r) = 9 /\ Head(todo[r]) = "insertDomain"
                 \/ Left(r) = 10 /\ Head(todo[r]) = "insertUser"
                 \/ Left(r) = 11 /\ Head(todo[r]) = "useradd"
                 \/ Left(r) = 12 /\ Head(todo[r]) = "id"
                 \/ Left(r) = 13 /\ Head(todo[r]) = "findUser"
                 \/ Left(r) = 14 /\ Head(todo[r]) = "findDomain"
      BY <3>1, <3>3 DEF CreateSteps
    <3>4. /\ Head(todo[r]) \in {"findDomain", "findUser", "id", "useradd", "insertUser", "insertDomain", "writePool",
                               "reloadFpm", "writeVhost", "enable", "configtest", "reloadApache", "activate", "audit"}
          /\ Head(todo[r]) = "audit" => Left(r) = 1
          /\ Head(todo[r]) = "activate" => Left(r) = 2
          /\ Head(todo[r]) = "reloadApache" => Left(r) = 3
          /\ Head(todo[r]) = "configtest" => Left(r) = 4
          /\ Head(todo[r]) = "enable" => Left(r) = 5
          /\ Head(todo[r]) = "writeVhost" => Left(r) = 6
          /\ Head(todo[r]) = "reloadFpm" => Left(r) = 7
          /\ Head(todo[r]) = "writePool" => Left(r) = 8
          /\ Head(todo[r]) = "insertDomain" => Left(r) = 9
          /\ Head(todo[r]) = "insertUser" => Left(r) = 10
          /\ Head(todo[r]) = "useradd" => Left(r) = 11
          /\ Head(todo[r]) = "id" => Left(r) = 12
          /\ Head(todo[r]) = "findUser" => Left(r) = 13
          /\ Head(todo[r]) = "findDomain" => Left(r) = 14
      BY <3>1, <3>2, <3>3
    <3> QED BY <1>2, <2>2, <3>4 DEF Place, At
  <2>3. CASE job[r].op = "update"
    BY <1>2, <2>3, UpdateAt DEF Place, At, UpdateSteps
  <2>4. CASE job[r].op = "suspend"
    BY <1>2, <2>4, SuspendAt DEF Place, At, SuspendSteps
  <2>5. CASE job[r].op = "unsuspend"
    BY <1>2, <2>5, UnsuspendAt DEF Place, At, UnsuspendSteps
  <2>6. CASE job[r].op = "delete"
    BY <1>2, <2>6, DeleteAt DEF Place, At, DeleteSteps
  <2> QED BY <2>1, <2>2, <2>3, <2>4, <2>5, <2>6 DEF Ops
<1> QED BY <1>1, <1>2
-----------------------------------------------------------------------------
(* The course of the requests.                                             *)

\* A step that succeeded leaves one step less, and other requests where they are.
LEMMA Advanced ==
  ASSUME Control, Courses, NEW r \in Request, state[r] = "running", Advance(r)
  PROVE  /\ \A q \in Request \ {r} : todo'[q] = todo[q] /\ state'[q] = state[q]
         /\ state'[r] = IF Left(r) = 1 THEN "done" ELSE "running"
         /\ Left(r)' = Left(r) - 1
         /\ todo' \in [Request -> Seq(StepName)]
         /\ state' \in [Request -> {"idle", "running", "rolling", "done", "refused", "failed"}]
         /\ job' = job => Course(r)'
<1>1. PICK old : old = todo[r]
  OBVIOUS
<1>2. old \in Seq(StepName) /\ old # <<>>
  BY <1>1 DEF Control, Courses, Course
<1>3. PICK n \in Nat \ {0} : n = Len(old)
  BY <1>2
<1>4. /\ Tail(old) \in Seq(StepName) /\ Len(Tail(old)) = n - 1
      /\ \A i \in 1..(n - 1) : Tail(old)[i] = old[i + 1]
  BY <1>2, <1>3
<1>5. todo'[r] = Tail(old)
  BY <1>1 DEF Control, Advance
<1>6. /\ \A q \in Request \ {r} : todo'[q] = todo[q] /\ state'[q] = state[q]
      /\ state'[r] = IF n = 1 THEN "done" ELSE "running"
  BY <1>1, <1>3 DEF Control, Advance
<1>7. /\ todo' \in [Request -> Seq(StepName)]
      /\ state' \in [Request -> {"idle", "running", "rolling", "done", "refused", "failed"}]
  BY <1>1, <1>4 DEF Control, Advance
<1>8. Left(r) = n /\ Left(r)' = n - 1
  BY <1>1, <1>3, <1>4, <1>5 DEF Left
<1>9. ASSUME job' = job
      PROVE  Course(r)'
  <2>1. PICK all : all = Steps[job[r].op]
    OBVIOUS
  <2>2. PICK m \in Nat : m = Len(all)
    BY <2>1, Ahead, OpAssumption DEF Ops, Steps, CreateSteps, UpdateSteps, SuspendSteps,
      UnsuspendSteps, DeleteSteps
  <2>3. n <= m /\ \A i \in 1..n : old[i] = all[m - n + i]
    BY <1>1, <1>8, <2>1, <2>2 DEF Courses, Course
  <2>4. \A i \in 1..(n - 1) : Tail(old)[i] = all[m - (n - 1) + i]
    <3>1. \A i \in 1..(n - 1) : i + 1 \in 1..n /\ m - n + (i + 1) = m - (n - 1) + i
      OBVIOUS
    <3> QED BY <1>4, <2>3, <3>1
  <2>5. state'[r] = "running" <=> todo'[r] # <<>>
    <3>1. PICK rest \in Seq(StepName) : rest = Tail(old)
      BY <1>4
    <3>2. rest = <<>> <=> n = 1
      BY <3>1, <1>4
    <3> QED BY <3>1, <3>2, <1>5, <1>6
  <2>6. Steps[job'[r].op] = all
    BY <1>9, <2>1
  <2>7. n - 1 <= m
    BY <2>2, <2>3
  <2>8. \A i \in 1..(n - 1) : todo'[r][i] = all[m - (n - 1) + i]
    BY <1>5, <2>4
  <2>9. Course(r)' <=>
          /\ state'[r] = "running" <=> todo'[r] # <<>>
          /\ Left(r)' <= Len(Steps[job'[r].op])
          /\ \A i \in 1..Left(r)' :
               todo'[r][i] = Steps[job'[r].op][Len(Steps[job'[r].op]) - Left(r)' + i]
    BY DEF Course
  <2> QED BY <1>8, <2>2, <2>5, <2>6, <2>7, <2>8, <2>9
<1> QED BY <1>6, <1>7, <1>8, <1>9

LEMMA OthersCourse ==
  ASSUME Courses, NEW q \in Request, UNCHANGED job,
         todo'[q] = todo[q], state'[q] = state[q], undo'[q] = undo[q]
  PROVE  Course(q)' /\ Registered(q)'
<1>1. Course(q)'
  <2>1. Course(q)
    BY DEF Courses
  <2>2. Left(q)' = Left(q)
    BY DEF Left
  <2> QED BY <2>1, <2>2 DEF Course
<1>2. Registered(q)'
  BY DEF Courses, Registered, Left, Creates
<1> QED BY <1>1, <1>2

\* A step of a handler, which keeps the course if what is registered is right.
LEMMA HandlerStep ==
  ASSUME Control, Courses, NEW r \in Request, state[r] = "running", Advance(r),
         UNCHANGED startVars, undo' \in [Request -> Seq(Undoes)],
         \A q \in Request \ {r} : undo'[q] = undo[q],
         skipped' \subseteq Request, faults' \in 0..MaxFaults, Registered(r)'
  PROVE  Control' /\ Courses'
<1>1. Control'
  BY Advanced DEF Control, startVars
<1>2. Course(r)'
  BY Advanced DEF startVars
<1>3. \A q \in Request \ {r} : Course(q)' /\ Registered(q)'
  BY Advanced, OthersCourse DEF startVars
<1> QED BY <1>1, <1>2, <1>3 DEF Courses

\* Most steps register nothing.
LEMMA PlainStep ==
  ASSUME Control, Courses, NEW r \in Request, state[r] = "running", Advance(r),
         UNCHANGED <<startVars, undo>>, ~Place(r, "create", 11), ~Place(r, "create", 10),
         skipped' \subseteq Request, faults' \in 0..MaxFaults
  PROVE  Control' /\ Courses'
<1>1. Left(r) \in Nat \ {0} /\ Left(r)' = Left(r) - 1 /\ state'[r] \in {"running", "done"}
      /\ job' = job /\ undo' = undo
  BY Ahead, Advanced DEF startVars
<1>2. Registered(r)
  BY DEF Courses
<1>3. Creates(r) /\ state'[r] = "running" =>
       /\ Left(r)' > 10 <=> undo'[r] = <<>>
       /\ Left(r)' = 10 => undo'[r][1].kind = "userdel"
       /\ Left(r)' < 10 => undo'[r][1].kind = "deleteUser"
  BY <1>1, <1>2 DEF Registered, Place, Creates
<1>4. Registered(r)'
  BY <1>1, <1>2, <1>3 DEF Registered, Creates
<1> QED BY <1>1, <1>4, HandlerStep DEF Control

\* A file that is made is registered.
LEMMA FileStep ==
  ASSUME Control, Courses, NEW r \in Request, state[r] = "running", Advance(r),
         NEW kind \in {"pool", "vhost"}, NEW old \in Config, Register(r, kind, old),
         UNCHANGED <<startVars, skipped, faults>>,
         Creates(r) => Left(r) < 10, job[r].op \in {"create", "update"}
  PROVE  Control' /\ Courses'
<1>1. Left(r) \in Nat \ {0} /\ Left(r)' = Left(r) - 1 /\ state'[r] \in {"running", "done"}
      /\ job' = job
  BY Ahead, Advanced DEF startVars
<1>2. PICK list \in Seq(Undoes) : list = undo[r]
  BY DEF Control
<1>3. PICK entry \in Undoes : entry = [kind |-> kind, old |-> old]
  BY DEF Undoes
<1>4. PICK more : more = Append(list, entry)
  OBVIOUS
<1>5. undo' = [undo EXCEPT ![r] = more]
  BY <1>2, <1>3, <1>4 DEF Register
<1>6. PICK n \in Nat : n = Len(list)
  BY <1>2
<1>7. /\ more \in Seq(Undoes) /\ Len(more) = n + 1 /\ more # <<>>
      /\ more[n + 1] = entry /\ \A i \in 1..n : more[i] = list[i]
  BY <1>2, <1>3, <1>4, <1>6
<1>8. undo' \in [Request -> Seq(Undoes)] /\ undo'[r] = more
      /\ \A q \in Request \ {r} : undo'[q] = undo[q]
  BY <1>5, <1>7 DEF Control
<1>9. Creates(r) => n # 0 /\ list[1].kind = "deleteUser" /\ Left(r) < 10
  <2>1. Registered(r) /\ Left(r) \in Nat
    BY <1>1 DEF Courses
  <2>2. Creates(r) => list # <<>> /\ list[1].kind = "deleteUser"
    BY <1>2, <2>1 DEF Registered
  <2> QED BY <1>2, <1>6, <2>2
<1>10. \A i \in 1..Len(more) :
         more[i].kind \in {"userdel", "deleteUser"} <=> Creates(r) /\ i = 1
  <2>1. \A i \in 1..n : list[i].kind \in {"userdel", "deleteUser"} <=> Creates(r) /\ i = 1
    BY <1>2, <1>6 DEF Courses, Registered
  <2>2. entry.kind \notin {"userdel", "deleteUser"}
    BY <1>3
  <2>3. \A i \in 1..(n + 1) : i \in 1..n \/ i = n + 1
    BY <1>6
  <2> QED BY <1>7, <1>9, <2>1, <2>2, <2>3
<1>11. Registered(r)'
  <2>1. (Creates(r) => more[1].kind = "deleteUser") /\ more[1].kind # "userdel"
    <3>1. 1 \in 1..Len(more)
      BY <1>6, <1>7
    <3>2. Creates(r) => more[1].kind = "deleteUser"
      BY <1>6, <1>7, <1>9
    <3> QED BY <1>10, <3>1, <3>2
  <2>2. job'[r].op \notin {"suspend", "unsuspend", "delete"} /\ (Creates(r)' <=> Creates(r))
    BY <1>1 DEF Creates
  <2> QED BY <1>1, <1>7, <1>8, <1>9, <1>10, <2>1, <2>2 DEF Registered
<1> QED BY <1>8, <1>11, HandlerStep DEF Control

\* A request that throws has nothing more to do than its rollback.
LEMMA ThrowCourse ==
  ASSUME Control, Courses, NEW r \in Request, Throw(r)
  PROVE  Control' /\ Courses'
<1>1. /\ \A q \in Request \ {r} : todo'[q] = todo[q] /\ state'[q] = state[q]
      /\ todo'[r] = <<>> /\ undo' = undo /\ job' = job
      /\ state'[r] = IF undo[r] # <<>> THEN "rolling" ELSE
                     IF Unchanged(r) THEN "refused" ELSE "failed"
  BY DEF Throw, Control, startVars
<1>2. faults' \in 0..MaxFaults
  <2>1. PICK n \in 0..MaxFaults : n = faults
    BY DEF Control
  <2>2. faults' = faults \/ (n < MaxFaults /\ faults' = n + 1)
    BY <2>1 DEF Throw
  <2> QED BY <2>1, <2>2, FaultAssumption
<1>3. Control'
  <2>1. <<>> \in Seq(StepName)
    OBVIOUS
  <2>2. /\ todo' \in [Request -> Seq(StepName)]
        /\ state' \in [Request -> {"idle", "running", "rolling", "done", "refused", "failed"}]
    BY <2>1 DEF Throw, Control
  <2> QED BY <1>2, <2>2 DEF Control, Throw, startVars
<1>4. Course(r)'
  <2>1. Left(r)' = 0
    BY <1>1 DEF Left
  <2>2. Course(r)' <=>
          /\ state'[r] = "running" <=> todo'[r] # <<>>
          /\ Left(r)' <= Len(Steps[job'[r].op])
          /\ \A i \in 1..Left(r)' :
               todo'[r][i] = Steps[job'[r].op][Len(Steps[job'[r].op]) - Left(r)' + i]
    BY DEF Course
  <2>3. Len(Steps[job'[r].op]) \in Nat
    <3>1. job'[r].op \in Ops
      BY <1>1, Ahead DEF Throw
    <3> QED BY <3>1 DEF Ops, Steps, CreateSteps, UpdateSteps, SuspendSteps, UnsuspendSteps,
          DeleteSteps
  <2>4. state'[r] # "running"
    BY <1>1
  <2> QED BY <1>1, <2>1, <2>2, <2>3, <2>4
<1>5. Registered(r)'
  <2>1. state'[r] \in {"rolling", "refused", "failed"} /\ (state'[r] = "rolling" => undo[r] # <<>>)
    BY <1>1
  <2> QED BY <1>1, <2>1 DEF Courses, Registered, Creates
<1>6. \A q \in Request \ {r} : Course(q)' /\ Registered(q)'
  BY <1>1, OthersCourse
<1> QED BY <1>3, <1>4, <1>5, <1>6 DEF Courses

\* What a request that rolls back undoes next.
LEMMA LastOf ==
  ASSUME NEW S, NEW list \in Seq(S), list # <<>>
  PROVE  /\ Len(list) \in Nat \ {0} /\ Last(list) = list[Len(list)] /\ Last(list) \in S
         /\ Front(list) \in Seq(S) /\ Len(Front(list)) = Len(list) - 1
         /\ Front(list) = <<>> <=> Len(list) = 1
         /\ \A i \in 1..(Len(list) - 1) : Front(list)[i] = list[i]
<1>1. PICK n \in Nat \ {0} : n = Len(list)
  OBVIOUS
<1>2. PICK rest : rest = SubSeq(list, 1, n - 1)
  OBVIOUS
<1>3. rest \in Seq(S) /\ Len(rest) = n - 1 /\ \A i \in 1..(n - 1) : rest[i] = list[i]
  BY <1>1, <1>2
<1>4. rest = <<>> <=> n = 1
  BY <1>3
<1>5. Front(list) = rest /\ Last(list) = list[n]
  BY <1>1, <1>2 DEF Front, Last
<1>6. list[n] \in S
  BY <1>1
<1> QED BY <1>1, <1>3, <1>4, <1>5, <1>6

LEMMA UndoCourse ==
  ASSUME Control, Courses, NEW r \in Request, state[r] = "rolling", Undone(r),
         skipped' \subseteq Request, faults' \in 0..MaxFaults
  PROVE  Control' /\ Courses'
<1>1. PICK list \in Seq(Undoes) : list = undo[r] /\ list # <<>>
  BY DEF Control, Courses, Registered
<1>2. PICK n \in Nat \ {0} : n = Len(list)
  BY <1>1
<1>3. PICK rest \in Seq(Undoes) : rest = Front(list)
  BY <1>1, LastOf
<1>4. Len(rest) = n - 1 /\ (rest = <<>> <=> n = 1) /\ \A i \in 1..(n - 1) : rest[i] = list[i]
  BY <1>1, <1>2, <1>3, LastOf
<1>5. undo' = [undo EXCEPT ![r] = rest]
      /\ state' = [state EXCEPT ![r] = IF n = 1 THEN "failed" ELSE @]
  BY <1>1, <1>2, <1>3 DEF Undone
<1>6. /\ undo'[r] = rest /\ state'[r] = IF n = 1 THEN "failed" ELSE "rolling"
      /\ \A q \in Request \ {r} : undo'[q] = undo[q] /\ state'[q] = state[q]
      /\ todo' = todo /\ job' = job
  BY <1>5 DEF Control, Undone, startVars
<1>7. Control'
  <2>1. /\ undo' \in [Request -> Seq(Undoes)]
        /\ state' \in [Request -> {"idle", "running", "rolling", "done", "refused", "failed"}]
    BY <1>5 DEF Control
  <2> QED BY <2>1 DEF Control, Undone, startVars
<1>8. Course(r)'
  <2>1. Course(r) /\ Left(r)' = Left(r) /\ state'[r] # "running"
    BY <1>6 DEF Left, Courses
  <2> QED BY <1>6, <2>1 DEF Course
<1>9. Registered(r)'
  <2>1. \A i \in 1..n : list[i].kind \in {"userdel", "deleteUser"} <=> Creates(r) /\ i = 1
    BY <1>1, <1>2 DEF Courses, Registered
  <2>2. \A i \in 1..(n - 1) : rest[i].kind \in {"userdel", "deleteUser"} <=> Creates(r) /\ i = 1
    BY <1>4, <2>1
  <2>3. job[r].op \notin {"suspend", "unsuspend", "delete"}
    BY <1>1 DEF Courses, Registered
  <2>4. state'[r] \in {"failed", "rolling"} /\ (state'[r] = "rolling" => rest # <<>>)
    BY <1>4, <1>6
  <2>5. rest # <<>> => rest[1].kind # "userdel"
    <3>1. list[1].kind = "userdel" => n = 1
      BY <1>1, <1>2 DEF Courses, Registered
    <3>2. n # 1 => rest[1] = list[1]
      BY <1>4
    <3> QED BY <1>4, <3>1, <3>2
  <2> QED BY <1>4, <1>6, <2>2, <2>3, <2>4, <2>5 DEF Registered, Creates
<1>10. \A q \in Request \ {r} : Course(q)' /\ Registered(q)'
  BY <1>6, OthersCourse
<1> QED BY <1>7, <1>8, <1>9, <1>10 DEF Courses

LEMMA StartCourse ==
  ASSUME Control, Data, Courses, NEW r \in Request, Start(r)
  PROVE  Control' /\ Courses'
<1>1. job[r] \in Job /\ job[r].op \in Ops /\ Dom(r) \in Domain /\ Ver(r) \in Version
  <2>1. job[r] \in Job
    BY DEF Control
  <2>2. job[r].op \in Op /\ job[r].dom \in Domain /\ job[r].ver \in Version
    BY <2>1 DEF Job
  <2> QED BY <2>1, <2>2, OpAssumption DEF Ops, Dom, Ver
<1>2. /\ Steps[job[r].op] \in Seq(StepName) /\ Len(Steps[job[r].op]) \in Nat \ {0}
      /\ job[r].op = "create" => Len(Steps[job[r].op]) = 14
  <2>1. CreateSteps \in Seq(StepName) /\ Len(CreateSteps) = 14
    BY DEF CreateSteps, StepName
  <2>2. UpdateSteps \in Seq(StepName) /\ Len(UpdateSteps) = 9
    BY DEF UpdateSteps, StepName
  <2>3. SuspendSteps \in Seq(StepName) /\ Len(SuspendSteps) = 6
    BY DEF SuspendSteps, StepName
  <2>4. UnsuspendSteps \in Seq(StepName) /\ Len(UnsuspendSteps) = 6
    BY DEF UnsuspendSteps, StepName
  <2>5. DeleteSteps \in Seq(StepName) /\ Len(DeleteSteps) = 9
    BY DEF DeleteSteps, StepName
  <2>7. PICK o \in Ops : o = job[r].op
    BY <1>1
  <2>8. /\ Steps[o] \in Seq(StepName) /\ Len(Steps[o]) \in Nat \ {0}
        /\ o = "create" => Len(Steps[o]) = 14
    <3>1. CASE o = "create"
      <4>1. Steps[o] = CreateSteps
        BY <3>1 DEF Steps
      <4>2. CreateSteps \in Seq(StepName) /\ Len(CreateSteps) \in Nat \ {0}
        BY <2>1
      <4> QED BY <2>1, <3>1, <4>1, <4>2
    <3>2. CASE o = "update"
      <4>1. Steps[o] = UpdateSteps
        BY <3>2 DEF Steps
      <4>2. UpdateSteps \in Seq(StepName) /\ Len(UpdateSteps) \in Nat \ {0}
        BY <2>2
      <4> QED BY <2>2, <3>2, <4>1, <4>2
    <3>3. CASE o = "suspend"
      <4>1. Steps[o] = SuspendSteps
        BY <3>3 DEF Steps
      <4>2. SuspendSteps \in Seq(StepName) /\ Len(SuspendSteps) \in Nat \ {0}
        BY <2>3
      <4> QED BY <2>3, <3>3, <4>1, <4>2
    <3>4. CASE o = "unsuspend"
      <4>1. Steps[o] = UnsuspendSteps
        BY <3>4 DEF Steps
      <4>2. UnsuspendSteps \in Seq(StepName) /\ Len(UnsuspendSteps) \in Nat \ {0}
        BY <2>4
      <4> QED BY <2>4, <3>4, <4>1, <4>2
    <3>5. CASE o = "delete"
      <4>1. Steps[o] = DeleteSteps
        BY <3>5 DEF Steps
      <4>2. DeleteSteps \in Seq(StepName) /\ Len(DeleteSteps) \in Nat \ {0}
        BY <2>5
      <4> QED BY <2>5, <3>5, <4>1, <4>2
    <3> QED BY <2>7, <3>1, <3>2, <3>3, <3>4, <3>5 DEF Ops
  <2> QED BY <2>7, <2>8
<1>3. PICK all \in Seq(StepName) : all = Steps[job[r].op] /\ Len(all) \in Nat \ {0}
  BY <1>2
<1>4. state' = [state EXCEPT ![r] = "running"] /\ todo' = [todo EXCEPT ![r] = all]
      /\ undo' = undo /\ job' = job /\ skipped' = skipped /\ faults' = faults
  BY <1>3 DEF Start
<1>5. /\ todo'[r] = all /\ state'[r] = "running" /\ undo[r] = <<>>
      /\ \A q \in Request \ {r} : todo'[q] = todo[q] /\ state'[q] = state[q]
  BY <1>4 DEF Control, Start, Courses, Registered
<1>6. Control'
  <2>1. todo' \in [Request -> Seq(StepName)]
        /\ state' \in [Request -> {"idle", "running", "rolling", "done", "refused", "failed"}]
    BY <1>4 DEF Control
  <2>2. mixed' \subseteq Domain
    BY <1>1 DEF Control, Start
  <2>3. row[Dom(r)] \in LiveRow \cup {"none", "deleted"} /\ version[Dom(r)] \in Version
    BY <1>1 DEF Data
  <2>4. PICK e : e = [status  |-> IF Creates(r) THEN "pending" ELSE row[Dom(r)],
                      version |-> IF job[r].op \in {"create", "update"}
                                  THEN Ver(r) ELSE version[Dom(r)]]
    OBVIOUS
  <2>5. seen' = [seen EXCEPT ![r] = e]
    BY <2>4 DEF Start, Creates
  <2>6. Creates(r) \/ row[Dom(r)] \in LiveRow
    BY DEF Start, Creates
  <2>7. e \in [status : LiveRow \cup {"none"}, version : Version]
    BY <1>1, <2>3, <2>4, <2>6 DEF LiveRow
  <2> QED BY <1>4, <2>1, <2>2, <2>5, <2>7 DEF Control
<1>7. Course(r)'
  <2>1. PICK m \in Nat \ {0} : m = Len(all)
    BY <1>3
  <2>2. Left(r)' = m /\ all # <<>>
    BY <1>5, <2>1 DEF Left
  <2>3. Course(r)' <=>
          /\ state'[r] = "running" <=> todo'[r] # <<>>
          /\ Left(r)' <= Len(Steps[job'[r].op])
          /\ \A i \in 1..Left(r)' :
               todo'[r][i] = Steps[job'[r].op][Len(Steps[job'[r].op]) - Left(r)' + i]
    BY DEF Course
  <2>4. Steps[job'[r].op] = all
    BY <1>3, <1>4
  <2>5. \A i \in 1..m : m - m + i = i
    OBVIOUS
  <2> QED BY <1>5, <2>1, <2>2, <2>3, <2>4, <2>5
<1>8. Registered(r)'
  <2>1. Creates(r)' => Left(r)' = 14
    BY <1>2, <1>3, <1>4, <1>5 DEF Left, Creates
  <2>2. undo'[r] = <<>> /\ Len(<<>>) = 0
    BY <1>4, <1>5
  <2> QED BY <1>5, <2>1, <2>2 DEF Registered
<1>9. \A q \in Request \ {r} : Course(q)' /\ Registered(q)'
  BY <1>4, <1>5, OthersCourse
<1> QED BY <1>6, <1>7, <1>8, <1>9 DEF Courses

\* The account is made, then its row: each is what the creation would undo first.
LEMMA AccountCourse ==
  ASSUME Control, Courses, NEW r \in Request, state[r] = "running", Advance(r),
         UNCHANGED <<startVars, skipped, faults>>, NEW kind \in {"userdel", "deleteUser"},
         undo' = [undo EXCEPT ![r] = <<[kind |-> kind, old |-> None]>>],
         \/ Place(r, "create", 11) /\ kind = "userdel"
         \/ Place(r, "create", 10) /\ kind = "deleteUser"
  PROVE  Control' /\ Courses'
<1>1. PICK entry \in Undoes : entry = [kind |-> kind, old |-> None]
  BY DEF Undoes, Config
<1>2. PICK list \in Seq(Undoes) : list = <<entry>>
  <2>1. <<entry>> \in Seq(Undoes)
    OBVIOUS
  <2> QED BY <2>1
<1>3. Len(list) = 1 /\ list[1].kind = kind /\ list # <<>>
  BY <1>1, <1>2
<1>4. undo' \in [Request -> Seq(Undoes)] /\ undo'[r] = list
      /\ \A q \in Request \ {r} : undo'[q] = undo[q]
  BY <1>1, <1>2 DEF Control
<1>5. Left(r)' = Left(r) - 1 /\ state'[r] = "running" /\ Creates(r)'
  BY Ahead, Advanced DEF Place, startVars, Creates
<1>6. Registered(r)'
  <2>1. job'[r].op = "create"
    BY <1>5 DEF Creates
  <2>2. \A i \in 1..Len(list) : i = 1
    BY <1>3
  <2>3. \/ Left(r)' = 10 /\ kind = "userdel"
        \/ Left(r)' = 9 /\ kind = "deleteUser"
    BY <1>5 DEF Place
  <2> QED BY <1>3, <1>4, <1>5, <2>1, <2>2, <2>3 DEF Registered
<1> QED BY <1>4, <1>6, HandlerStep DEF Control

LEMMA CommitCourse ==
  ASSUME Control, Courses, NEW r \in Request, Commit(r)
  PROVE  Control' /\ Courses'
<1>1. state[r] = "running" /\ job[r].op = "update" /\ Advance(r) /\ UNCHANGED startVars
  BY Places DEF Commit, Place, At
<1>2. /\ undo' \in [Request -> Seq(Undoes)] /\ undo'[r] = <<>>
      /\ \A q \in Request \ {r} : undo'[q] = undo[q]
  BY DEF Commit, Control
<1>3. Registered(r)'
  <2>1. state'[r] \in {"running", "done"} /\ job'[r].op = "update" /\ Len(<<>>) = 0
    BY <1>1, Advanced DEF startVars
  <2> QED BY <1>2, <2>1 DEF Registered, Creates
<1> QED BY <1>1, <1>2, <1>3, HandlerStep DEF Control, Commit

\* The steps of a handler that register nothing, those of the creation of the account
\* apart.
Plain(r) == \/ Pass(r) \/ Skip(r) \/ SetLock(r) \/ SaveUser(r) \/ Userdel(r) \/ SaveDomain(r)
            \/ DeletePool(r) \/ DeleteVhost(r) \/ SetLink(r) \/ ReloadApache(r)
Makes(r) == Useradd(r) \/ InsertUser(r)
Files(r) == WritePool(r) \/ WriteVhost(r)
Undoing(r) == UndoUseradd(r) \/ UndoUser(r) \/ UndoPool(r) \/ UndoVhost(r) \/ UndoFileFails(r)

LEMMA Counting ==
  ASSUME Control, NEW r \in Request, faults' = faults \/ (faults < MaxFaults /\ faults' = faults + 1),
         skipped' = skipped \/ skipped' = skipped \cup {r}
  PROVE  skipped' \subseteq Request /\ faults' \in 0..MaxFaults
<1>1. PICK n \in 0..MaxFaults : n = faults
  BY DEF Control
<1> QED BY <1>1, FaultAssumption DEF Control

LEMMA PlainCourse ==
  ASSUME Control, Courses, NEW r \in Request, Plain(r)
  PROVE  Control' /\ Courses'
<1>1. state[r] = "running" /\ Advance(r) /\ UNCHANGED <<startVars, undo>>
  BY DEF Plain, Pass, Skip, SetLock, SaveUser, Userdel, SaveDomain, DeletePool, DeleteVhost,
    SetLink, ReloadApache, At
<1>2. \A s : At(r, s) => Head(todo[r]) = s
  BY DEF At
<1>3. \E s \in StepName \ {"useradd", "insertUser"} : At(r, s)
  BY DEF Plain, Pass, Skip, SetLock, SaveUser, Userdel, SaveDomain, DeletePool, DeleteVhost,
    SetLink, ReloadApache, StepName, Ignored
<1>4. ~At(r, "useradd") /\ ~At(r, "insertUser")
  BY <1>2, <1>3
<1>5. ~Place(r, "create", 11) /\ ~Place(r, "create", 10)
  <2>1. todo[r] # <<>>
    BY <1>1 DEF Courses, Course
  <2>2. Place(r, "create", 11) => Head(todo[r]) = "useradd"
    BY <1>1, CreateAt DEF Place, CreateSteps
  <2>3. Place(r, "create", 10) => Head(todo[r]) = "insertUser"
    BY <1>1, CreateAt DEF Place, CreateSteps
  <2> QED BY <1>1, <1>4, <2>1, <2>2, <2>3 DEF At
<1>6. /\ faults' = faults \/ (faults < MaxFaults /\ faults' = faults + 1)
      /\ skipped' = skipped \/ skipped' = skipped \cup {r}
  BY DEF Plain, Pass, Skip, SetLock, SaveUser, Userdel, SaveDomain, DeletePool, DeleteVhost,
    SetLink, ReloadApache
<1>7. skipped' \subseteq Request /\ faults' \in 0..MaxFaults
  BY <1>6, Counting
<1> QED BY <1>1, <1>5, <1>7, PlainStep

LEMMA MakesCourse ==
  ASSUME Control, Courses, NEW r \in Request, Makes(r)
  PROVE  Control' /\ Courses'
<1>1. CASE Useradd(r)
  <2>1. Place(r, "create", 11) /\ state[r] = "running" /\ Advance(r)
        /\ UNCHANGED <<startVars, skipped, faults>>
    BY <1>1, Places DEF Useradd, At
  <2>2. undo[r] = <<>>
    BY <2>1 DEF Courses, Registered, Place, Creates
  <2>3. PICK entry : entry = [kind |-> "userdel", old |-> None]
    OBVIOUS
  <2>4. undo' = [undo EXCEPT ![r] = Append(undo[r], entry)]
    BY <1>1, <2>3 DEF Useradd, Register
  <2>5. Append(<<>>, entry) = <<entry>>
    OBVIOUS
  <2>6. undo' = [undo EXCEPT ![r] = <<[kind |-> "userdel", old |-> None]>>]
    BY <2>2, <2>3, <2>4, <2>5
  <2> QED BY <2>1, <2>6, AccountCourse
<1>2. CASE InsertUser(r)
  <2>1. Place(r, "create", 10) /\ state[r] = "running" /\ Advance(r)
        /\ UNCHANGED <<startVars, skipped, faults>>
    BY <1>2, Places DEF InsertUser, At
  <2>2. undo' = [undo EXCEPT ![r] = <<[kind |-> "deleteUser", old |-> None]>>]
    BY <1>2 DEF InsertUser
  <2> QED BY <2>1, <2>2, AccountCourse
<1> QED BY <1>1, <1>2 DEF Makes

LEMMA UnauditedCourse ==
  ASSUME Control, Courses, NEW r \in Request, InsertUserUnaudited(r)
  PROVE  Control' /\ Courses'
<1>1. Place(r, "create", 10) /\ state[r] = "running"
  BY Places DEF InsertUserUnaudited, At
<1>2. /\ \A q \in Request \ {r} : todo'[q] = todo[q] /\ state'[q] = state[q]
      /\ todo'[r] = <<>> /\ state'[r] = "rolling" /\ undo' = undo /\ job' = job
  BY DEF InsertUserUnaudited, Control, startVars
<1>3. Control'
  <2>1. <<>> \in Seq(StepName) /\ skipped' \subseteq Request /\ faults' \in 0..MaxFaults
    BY Counting DEF InsertUserUnaudited
  <2>2. /\ todo' \in [Request -> Seq(StepName)]
        /\ state' \in [Request -> {"idle", "running", "rolling", "done", "refused", "failed"}]
    BY <2>1 DEF InsertUserUnaudited, Control
  <2> QED BY <2>1, <2>2 DEF Control, InsertUserUnaudited, startVars
<1>4. Course(r)'
  <2>1. Left(r)' = 0 /\ Len(Steps[job'[r].op]) = 14
    BY <1>1, <1>2 DEF Left, Place, Steps, CreateSteps
  <2> QED BY <1>2, <2>1 DEF Course
<1>5. Registered(r)'
  <2>1. undo[r] # <<>> /\ job[r].op = "create"
    BY <1>1 DEF Courses, Registered, Place, Creates
  <2> QED BY <1>2, <2>1 DEF Courses, Registered, Creates
<1>6. \A q \in Request \ {r} : Course(q)' /\ Registered(q)'
  BY <1>2, OthersCourse
<1> QED BY <1>3, <1>4, <1>5, <1>6 DEF Courses

LEMMA FilesCourse ==
  ASSUME Control, Data, Courses, NEW r \in Request, Files(r)
  PROVE  Control' /\ Courses'
<1>1. Dom(r) \in Domain /\ seen[r].version \in Version
  <2>1. job[r] \in Job /\ seen[r] \in [status : LiveRow \cup {"none"}, version : Version]
    BY DEF Control
  <2> QED BY <2>1 DEF Job, Dom
<1>2. CASE WritePool(r)
  <2>1. Place(r, "create", 8) \/ Place(r, "update", 8)
    BY <1>2, Places DEF WritePool
  <2>2. state[r] = "running" /\ Advance(r) /\ UNCHANGED <<startVars, skipped, faults>>
    BY <1>2 DEF WritePool, At
  <2>3. (Creates(r) => Left(r) < 10) /\ job[r].op \in {"create", "update"}
    BY <2>1 DEF Place, Creates
  <2>4. CASE Register(r, "pool", seen[r].version)
    BY <1>1, <2>2, <2>3, <2>4, FileStep DEF Config
  <2>5. CASE UNCHANGED undo
    <3>1. ~Place(r, "create", 11) /\ ~Place(r, "create", 10)
      BY <2>1 DEF Place
    <3> QED BY <2>2, <2>5, <3>1, PlainStep DEF Control
  <2> QED BY <1>2, <2>4, <2>5 DEF WritePool
<1>3. CASE WriteVhost(r)
  <2>1. Place(r, "create", 6) \/ Place(r, "update", 5)
    BY <1>3, Places DEF WriteVhost
  <2>2. state[r] = "running" /\ Advance(r) /\ UNCHANGED <<startVars, skipped, faults>>
        /\ Register(r, "vhost", vhost[Dom(r)])
    BY <1>3 DEF WriteVhost, At
  <2>3. (Creates(r) => Left(r) < 10) /\ job[r].op \in {"create", "update"}
    BY <2>1 DEF Place, Creates
  <2>4. vhost[Dom(r)] \in Config
    BY <1>1 DEF Data
  <2> QED BY <2>2, <2>3, <2>4, FileStep
<1> QED BY <1>2, <1>3 DEF Files

LEMMA UndoingCourse ==
  ASSUME Control, Courses, NEW r \in Request, Undoing(r)
  PROVE  Control' /\ Courses'
<1>1. state[r] = "rolling" /\ Undone(r)
  BY DEF Undoing, UndoUseradd, UndoUser, UndoPool, UndoVhost, UndoFileFails, Rolling
<1>2. /\ faults' = faults \/ (faults < MaxFaults /\ faults' = faults + 1)
      /\ skipped' = skipped \/ skipped' = skipped \cup {r}
  BY DEF Undoing, UndoUseradd, UndoUser, UndoPool, UndoVhost, UndoFileFails
<1>3. skipped' \subseteq Request /\ faults' \in 0..MaxFaults
  BY <1>2, Counting
<1> QED BY <1>1, <1>3, UndoCourse

\* Of whom a request is.
LEMMA Subject ==
  ASSUME Control, NEW r \in Request
  PROVE  /\ Dom(r) \in Domain /\ User(r) \in Name /\ User(r) = NameOf[Dom(r)]
         /\ seen[r].version \in Version /\ seen[r].status \in LiveRow \cup {"none"}
<1>1. job[r] \in Job /\ seen[r] \in [status : LiveRow \cup {"none"}, version : Version]
  BY DEF Control
<1>2. job[r].dom \in Domain
  BY <1>1 DEF Job
<1> QED BY <1>1, <1>2, NameAssumption DEF Dom, User

LEMMA PlainData ==
  ASSUME Control, Data, NEW r \in Request, Plain(r),
         At(r, "saveVersion") => seen[r].status \in LiveRow
  PROVE  Data'
<1>1. CASE Pass(r)
  BY <1>1 DEF Pass, Data, dbVars, serverVars
<1>2. CASE Skip(r)
  BY <1>2 DEF Skip, Data, dbVars, serverVars
<1>3. CASE SetLock(r)
  <2>1. account' \in [Name -> {"none", "unlocked", "locked"}]
    BY <1>3 DEF SetLock, Data
  <2> QED BY <1>3, <2>1 DEF SetLock, Data, dbVars
<1>4. CASE SaveUser(r)
  <2>1. user' \in [Name -> LiveUser \cup {"none", "deleted"}]
    BY <1>4 DEF SaveUser, Data, LiveUser
  <2> QED BY <1>4, <2>1 DEF SaveUser, Data, serverVars
<1>5. CASE Userdel(r)
  <2>1. account' \in [Name -> {"none", "unlocked", "locked"}]
    BY <1>5 DEF Userdel, Data
  <2> QED BY <1>5, <2>1 DEF Userdel, Data, dbVars
<1>6. CASE SaveDomain(r)
  <2>1. \E status \in LiveRow \cup {"deleted"} : row' = [row EXCEPT ![Dom(r)] = status]
    BY <1>6 DEF SaveDomain, LiveRow
  <2>2. version' = [version EXCEPT ![Dom(r)] = seen[r].version] \/ version' = version
    BY <1>6 DEF SaveDomain
  <2>3. row' \in [Domain -> LiveRow \cup {"none", "deleted"}]
    BY <2>1 DEF Data
  <2>4. version' \in [Domain -> Version]
    BY <2>2, Subject DEF Data
  <2> QED BY <1>6, <2>3, <2>4 DEF SaveDomain, Data, serverVars
<1>7. CASE DeletePool(r)
  <2>1. pools' \subseteq Name \X Version
    BY <1>7 DEF DeletePool, Data
  <2> QED BY <1>7, <2>1 DEF DeletePool, Data, dbVars
<1>8. CASE DeleteVhost(r)
  <2>1. vhost' \in [Domain -> Config] /\ links' \subseteq Domain
    BY <1>8 DEF DeleteVhost, Data, Config
  <2> QED BY <1>8, <2>1 DEF DeleteVhost, Data, dbVars
<1>9. CASE SetLink(r)
  <2>1. links' \subseteq Domain
    BY <1>9, Subject DEF SetLink, Data
  <2> QED BY <1>9, <2>1 DEF SetLink, Data, dbVars
<1>10. CASE ReloadApache(r)
  <2>1. served' \in [Domain -> Config]
    BY <1>10 DEF ReloadApache, Data, Config
  <2> QED BY <1>10, <2>1 DEF ReloadApache, Data, dbVars
<1> QED BY <1>1, <1>2, <1>3, <1>4, <1>5, <1>6, <1>7, <1>8, <1>9, <1>10 DEF Plain

LEMMA OtherData ==
  ASSUME Control, Data, Courses, NEW r \in Request,
         Makes(r) \/ InsertUserUnaudited(r) \/ Files(r) \/ Undoing(r)
  PROVE  Data'
<1>1. CASE Useradd(r)
  <2>1. account' \in [Name -> {"none", "unlocked", "locked"}]
    BY <1>1 DEF Useradd, Data
  <2> QED BY <1>1, <2>1 DEF Useradd, Data, dbVars
<1>2. CASE InsertUser(r)
  <2>1. user' \in [Name -> LiveUser \cup {"none", "deleted"}]
    BY <1>2 DEF InsertUser, Data, LiveUser
  <2> QED BY <1>2, <2>1 DEF InsertUser, Data, serverVars
<1>3. CASE InsertUserUnaudited(r)
  <2>1. user' \in [Name -> LiveUser \cup {"none", "deleted"}]
    BY <1>3 DEF InsertUserUnaudited, Data, LiveUser
  <2> QED BY <1>3, <2>1 DEF InsertUserUnaudited, Data, serverVars
<1>4. CASE WritePool(r)
  <2>1. <<User(r), seen[r].version>> \in Name \X Version
    BY Subject
  <2>2. pools' \subseteq Name \X Version
    BY <1>4, <2>1 DEF WritePool, Data
  <2> QED BY <1>4, <2>2 DEF WritePool, Data, dbVars
<1>5. CASE WriteVhost(r)
  <2>1. vhost' \in [Domain -> Config]
    BY <1>5, Subject DEF WriteVhost, Data, Config
  <2> QED BY <1>5, <2>1 DEF WriteVhost, Data, dbVars
<1>6. CASE UndoUseradd(r)
  <2>1. account' \in [Name -> {"none", "unlocked", "locked"}]
    BY <1>6 DEF UndoUseradd, Data
  <2> QED BY <1>6, <2>1 DEF UndoUseradd, Undone, Data
<1>7. CASE UndoUser(r)
  <2>1. user' \in [Name -> LiveUser \cup {"none", "deleted"}]
    BY <1>7 DEF UndoUser, Data
  <2>2. account' \in [Name -> {"none", "unlocked", "locked"}]
    BY <1>7 DEF UndoUser, Data
  <2> QED BY <1>7, <2>1, <2>2 DEF UndoUser, Undone, Data
<1>8. CASE UndoPool(r)
  <2>1. pools' \subseteq Name \X Version
    BY <1>8 DEF UndoPool, Data
  <2> QED BY <1>8, <2>1 DEF UndoPool, Undone, Data
<1>9. CASE UndoVhost(r)
  <2>1. undo[r] \in Seq(Undoes) /\ undo[r] # <<>>
    BY <1>9 DEF UndoVhost, Rolling, Control, Courses, Registered
  <2>2. Last(undo[r]) \in Undoes
    BY <2>1, LastOf
  <2>3. Last(undo[r]).old \in Config
    BY <2>2 DEF Undoes
  <2>4. vhost' \in [Domain -> Config]
    BY <1>9, <2>3 DEF UndoVhost, Data
  <2> QED BY <1>9, <2>4 DEF UndoVhost, Undone, Data
<1>10. CASE UndoFileFails(r)
  BY <1>10 DEF UndoFileFails, Undone, Data
<1> QED BY <1>1, <1>2, <1>3, <1>4, <1>5, <1>6, <1>7, <1>8, <1>9, <1>10 DEF Makes, Files, Undoing

-----------------------------------------------------------------------------
(* What a step of request r leaves alone.                                  *)

Step(r) == \/ Plain(r) \/ Makes(r) \/ InsertUserUnaudited(r) \/ Files(r) \/ Undoing(r)
           \/ Throw(r) \/ Commit(r)

LEMMA StepTypes ==
  ASSUME Control, Data, Courses, RowsFound, NEW r \in Request, Step(r)
  PROVE  Control' /\ Data' /\ Courses'
<1>1. CASE Plain(r)
  <2>1. At(r, "saveVersion") => seen[r].status \in LiveRow
    BY Places DEF RowsFound, Place, Creates, At
  <2> QED BY <1>1, <2>1, PlainCourse, PlainData
<1>2. CASE Makes(r)
  BY <1>2, MakesCourse, OtherData
<1>3. CASE InsertUserUnaudited(r)
  BY <1>3, UnauditedCourse, OtherData
<1>4. CASE Files(r)
  BY <1>4, FilesCourse, OtherData
<1>5. CASE Undoing(r)
  BY <1>5, UndoingCourse, OtherData
<1>6. CASE Throw(r)
  <2>1. Data'
    BY <1>6 DEF Throw, Data, dbVars, serverVars
  <2> QED BY <1>6, <2>1, ThrowCourse
<1>7. CASE Commit(r)
  <2>1. Data'
    BY <1>7 DEF Commit, Data, dbVars, serverVars
  <2> QED BY <1>7, <2>1, CommitCourse
<1> QED BY <1>1, <1>2, <1>3, <1>4, <1>5, <1>6, <1>7 DEF Step

LEMMA OtherRequests ==
  ASSUME Control, NEW r \in Request, Step(r)
  PROVE  /\ UNCHANGED startVars /\ Running(r) /\ skipped \subseteq skipped'
         /\ \A q \in Request \ {r} :
              todo'[q] = todo[q] /\ state'[q] = state[q] /\ undo'[q] = undo[q]
<1>1. CASE Plain(r)
  <2>1. state[r] = "running" /\ Advance(r) /\ UNCHANGED <<startVars, undo>>
        /\ skipped \subseteq skipped'
    BY <1>1 DEF Plain, Pass, Skip, SetLock, SaveUser, Userdel, SaveDomain, DeletePool,
      DeleteVhost, SetLink, ReloadApache, At
  <2> QED BY <2>1 DEF Advance, Control, Running
<1>2. CASE Makes(r)
  BY <1>2 DEF Makes, Useradd, InsertUser, Register, At, Advance, Control, Running
<1>3. CASE InsertUserUnaudited(r)
  BY <1>3 DEF InsertUserUnaudited, At, Control, Running
<1>4. CASE Files(r)
  BY <1>4 DEF Files, WritePool, WriteVhost, Register, At, Advance, Control, Running
<1>5. CASE Undoing(r)
  <2>1. state[r] = "rolling" /\ Undone(r) /\ skipped \subseteq skipped'
    BY <1>5 DEF Undoing, UndoUseradd, UndoUser, UndoPool, UndoVhost, UndoFileFails, Rolling
  <2> QED BY <2>1 DEF Undone, Control, Running
<1>6. CASE Throw(r)
  BY <1>6 DEF Throw, Control, Running
<1>7. CASE Commit(r)
  BY <1>7 DEF Commit, Advance, At, Control, Running
<1> QED BY <1>1, <1>2, <1>3, <1>4, <1>5, <1>6, <1>7 DEF Step

LEMMA OtherDomains ==
  ASSUME Control, Data, NEW r \in Request, Step(r), NEW d \in Domain, d # Dom(r)
  PROVE  /\ row'[d] = row[d] /\ version'[d] = version[d] /\ vhost'[d] = vhost[d]
         /\ d \in links' <=> d \in links
<1>1. CASE Plain(r)
  <2>1. CASE Pass(r) \/ Skip(r)
    BY <2>1 DEF Pass, Skip, dbVars, serverVars
  <2>2. CASE SetLock(r) \/ SaveUser(r) \/ Userdel(r)
    BY <2>2 DEF SetLock, SaveUser, Userdel, dbVars, serverVars
  <2>3. CASE SaveDomain(r)
    BY <2>3 DEF SaveDomain, serverVars, Data
  <2>4. CASE DeletePool(r) \/ ReloadApache(r)
    BY <2>4 DEF DeletePool, ReloadApache, dbVars
  <2>5. CASE DeleteVhost(r) \/ SetLink(r)
    BY <2>5 DEF DeleteVhost, SetLink, dbVars, Data
  <2> QED BY <1>1, <2>1, <2>2, <2>3, <2>4, <2>5 DEF Plain
<1>2. CASE Makes(r)
  BY <1>2 DEF Makes, Useradd, InsertUser, dbVars, serverVars
<1>3. CASE InsertUserUnaudited(r)
  BY <1>3 DEF InsertUserUnaudited, serverVars
<1>4. CASE Files(r)
  BY <1>4 DEF Files, WritePool, WriteVhost, dbVars, Data
<1>5. CASE Undoing(r)
  BY <1>5 DEF Undoing, UndoUseradd, UndoUser, UndoPool, UndoVhost, UndoFileFails, Undone, Data
<1>6. CASE Throw(r)
  BY <1>6 DEF Throw, dbVars, serverVars
<1>7. CASE Commit(r)
  BY <1>7 DEF Commit, dbVars, serverVars
<1> QED BY <1>1, <1>2, <1>3, <1>4, <1>5, <1>6, <1>7 DEF Step

LEMMA OtherNames ==
  ASSUME Control, Data, NEW r \in Request, Step(r), NEW n \in Name, n # User(r)
  PROVE  /\ user'[n] = user[n] /\ account'[n] = account[n]
         /\ \A v : <<n, v>> \in pools' <=> <<n, v>> \in pools
<1>1. CASE Plain(r)
  <2>1. CASE Pass(r) \/ Skip(r)
    BY <2>1 DEF Pass, Skip, dbVars, serverVars
  <2>2. CASE SetLock(r) \/ SaveUser(r) \/ Userdel(r)
    BY <2>2 DEF SetLock, SaveUser, Userdel, dbVars, serverVars, Data
  <2>3. CASE SaveDomain(r)
    BY <2>3 DEF SaveDomain, serverVars
  <2>4. CASE DeletePool(r) \/ ReloadApache(r)
    BY <2>4 DEF DeletePool, ReloadApache, dbVars
  <2>5. CASE DeleteVhost(r) \/ SetLink(r)
    BY <2>5 DEF DeleteVhost, SetLink, dbVars
  <2> QED BY <1>1, <2>1, <2>2, <2>3, <2>4, <2>5 DEF Plain
<1>2. CASE Makes(r)
  BY <1>2 DEF Makes, Useradd, InsertUser, dbVars, serverVars, Data
<1>3. CASE InsertUserUnaudited(r)
  BY <1>3 DEF InsertUserUnaudited, serverVars, Data
<1>4. CASE Files(r)
  BY <1>4 DEF Files, WritePool, WriteVhost, dbVars
<1>5. CASE Undoing(r)
  BY <1>5 DEF Undoing, UndoUseradd, UndoUser, UndoPool, UndoVhost, UndoFileFails, Undone, Data
<1>6. CASE Throw(r)
  BY <1>6 DEF Throw, dbVars, serverVars
<1>7. CASE Commit(r)
  BY <1>7 DEF Commit, dbVars, serverVars
<1> QED BY <1>1, <1>2, <1>3, <1>4, <1>5, <1>6, <1>7 DEF Step

\* Whoever has Apache reloaded, a site is served as it was or as it is on disk.
Refreshed(d) == served'[d] = served[d] \/ served'[d] = (IF d \in links THEN vhost[d] ELSE None)

LEMMA ServedAfter ==
  ASSUME NEW r \in Request, Step(r), NEW d \in Domain
  PROVE  /\ Refreshed(d)
         /\ ReloadApache(r) \/ served' = served
<1>1. ReloadApache(r) => Refreshed(d)
  BY DEF ReloadApache, Refreshed
<1>2. ReloadApache(r) \/ served' = served
  BY DEF Step, Plain, Pass, Skip, SetLock, SaveUser, Userdel, SaveDomain, DeletePool, DeleteVhost,
    SetLink, Makes, Useradd, InsertUser, InsertUserUnaudited, Files, WritePool, WriteVhost,
    Undoing, UndoUseradd, UndoUser, UndoPool, UndoVhost, UndoFileFails, Undone, Throw, Commit,
    dbVars, serverVars
<1> QED BY <1>1, <1>2 DEF Refreshed

\* What was left half done stays so, and a row stays in its table.
LEMMA TornStays ==
  ASSUME Control, NEW r \in Request, Step(r), NEW d \in Domain
  PROVE  /\ Kept(d)' => Kept(d)
         /\ d = Dom(r) /\ (state'[r] = "failed" \/ r \in skipped') => ~Kept(d)'
<1>1. \A q \in Request : state[q] = "failed" => state'[q] = "failed"
  BY OtherRequests DEF Running
<1>2. \A q \in Request : Dom(q)' = Dom(q)
  BY OtherRequests DEF Dom, startVars
<1>3. skipped \subseteq skipped' /\ mixed' = mixed
  BY OtherRequests DEF startVars
<1>4. d \in Torn => d \in Torn'
  <2>1. SUFFICES ASSUME NEW q \in skipped \cup {p \in Request : state[p] = "failed"}, d = Dom(q)
                 PROVE  d \in Torn'
    BY DEF Torn
  <2>2. q \in skipped' \cup {p \in Request : state'[p] = "failed"} /\ q \in Request
    BY <1>1, <1>3, <2>1 DEF Control
  <2> QED BY <1>2, <2>1, <2>2 DEF Torn
<1>5. d = Dom(r) /\ (state'[r] = "failed" \/ r \in skipped') => d \in Torn'
  BY <1>2 DEF Torn
<1> QED BY <1>3, <1>4, <1>5 DEF Kept

LEMMA RowStays ==
  ASSUME Control, Data, Courses, RowsFound, NEW r \in Request, Step(r), NEW d \in Domain
  PROVE  /\ row[d] # "none" => row'[d] # "none"
         /\ row'[d] = row[d] \/ (SaveDomain(r) /\ d = Dom(r))
<1>1. CASE SaveDomain(r)
  <2>1. At(r, "saveVersion") => seen[r].status \in LiveRow
    BY Places DEF RowsFound, Place, Creates, At
  <2>2. \E status \in LiveRow \cup {"deleted"} : row' = [row EXCEPT ![Dom(r)] = status]
    BY <1>1, <2>1 DEF SaveDomain, LiveRow
  <2>3. row'[d] = row[d] \/ (d = Dom(r) /\ row'[d] \in LiveRow \cup {"deleted"})
    BY <2>2 DEF Data
  <2> QED BY <1>1, <2>3 DEF LiveRow
<1>2. CASE ~SaveDomain(r)
  <2>1. row' = row
    BY <1>2 DEF Step, Plain, Pass, Skip, SetLock, SaveUser, Userdel, DeletePool, DeleteVhost,
      SetLink, ReloadApache, Makes, Useradd, InsertUser, InsertUserUnaudited, Files, WritePool,
      WriteVhost, Undoing, UndoUseradd, UndoUser, UndoPool, UndoVhost, UndoFileFails, Undone,
      Throw, Commit, dbVars
  <2> QED BY <2>1
<1> QED BY <1>1, <1>2

LEMMA SoundStays ==
  ASSUME Control, Data, Courses, RowsFound, NEW r \in Request, Step(r), NEW n, Sound(n)'
  PROVE  Sound(n)
<1>1. \A d \in Domain : (row[d] # "none" => row'[d] # "none") /\ (Kept(d)' => Kept(d))
  BY RowStays, TornStays
<1> QED BY <1>1 DEF Sound

\* A creation that has no user yet does nothing but ask, make the account, make the
\* user's row, or take the account back.
LEMMA NotMain ==
  ASSUME Control, Courses, NEW r \in Request, Step(r), ~Main(r)
  PROVE  /\ Creates(r) /\ ~Named(r)
         /\ \/ Pass(r) \/ Throw(r) \/ Useradd(r) \/ InsertUser(r) \/ InsertUserUnaudited(r)
            \/ UndoUseradd(r)
<1>1. Running(r)
  BY OtherRequests
<1>2. Creates(r) /\ ~Named(r)
  BY <1>1 DEF Main
<1>3. CASE state[r] = "running"
  <2>1. Left(r) > 9
    <3>1. Left(r) \in Nat /\ (Left(r) < 10 => undo[r] # <<>> /\ undo[r][1].kind = "deleteUser")
      BY <1>2, <1>3, Ahead DEF Courses, Registered
    <3> QED BY <1>1, <1>2, <3>1 DEF Named, Holds
  <2>2. \A s : At(r, s) => s \in {"findDomain", "findUser", "id", "useradd", "insertUser"}
    <3>1. Left(r) \in 10..14 /\ Head(todo[r]) = CreateSteps[15 - Left(r)]
      BY <1>2, <1>3, <2>1, CreateAt DEF Creates
    <3>2. Head(todo[r]) \in {"findDomain", "findUser", "id", "useradd", "insertUser"}
      BY <3>1 DEF CreateSteps
    <3> QED BY <3>2 DEF At
  <2>3. ~Undoing(r)
    BY <1>3 DEF Undoing, UndoUseradd, UndoUser, UndoPool, UndoVhost, UndoFileFails, Rolling
  <2>4. ~Files(r) /\ ~Commit(r)
    BY <2>2 DEF Files, WritePool, WriteVhost, Commit
  <2>5. Plain(r) => Pass(r)
    BY <2>2 DEF Plain, Skip, SetLock, SaveUser, Userdel, SaveDomain, DeletePool, DeleteVhost,
      SetLink, ReloadApache, Ignored
  <2> QED BY <1>2, <2>3, <2>4, <2>5 DEF Step, Makes
<1>4. CASE state[r] = "rolling"
  <2>1. undo[r] \in Seq(Undoes) /\ undo[r] # <<>> /\ Registered(r)
    BY <1>4 DEF Control, Courses, Registered
  <2>2. undo[r][1].kind = "userdel"
    <3>1. Len(undo[r]) \in Nat \ {0}
      BY <2>1
    <3>2. undo[r][1].kind \in {"userdel", "deleteUser"}
      BY <1>2, <2>1, <3>1 DEF Registered
    <3> QED BY <1>1, <1>2, <2>1, <3>2 DEF Named, Holds
  <2>3. Last(undo[r]).kind = "userdel"
    <3>1. Last(undo[r]) = undo[r][Len(undo[r])]
      BY <2>1, LastOf
    <3> QED BY <2>1, <2>2, <3>1 DEF Registered
  <2>4. ~UndoUser(r) /\ ~UndoPool(r) /\ ~UndoVhost(r) /\ ~UndoFileFails(r)
    BY <2>3 DEF UndoUser, UndoPool, UndoVhost, UndoFileFails, Rolling
  <2>5. ~Plain(r) /\ ~Makes(r) /\ ~InsertUserUnaudited(r) /\ ~Files(r) /\ ~Throw(r) /\ ~Commit(r)
    BY <1>4 DEF Plain, Pass, Skip, SetLock, SaveUser, Userdel, SaveDomain, DeletePool,
      DeleteVhost, SetLink, ReloadApache, Makes, Useradd, InsertUser, InsertUserUnaudited,
      Files, WritePool, WriteVhost, Throw, Commit, At
  <2> QED BY <1>2, <2>4, <2>5 DEF Step, Undoing
<1> QED BY <1>1, <1>3, <1>4 DEF Running

\* Only making the account or the user's row changes what a creation has.
LEMMA FirstStays ==
  ASSUME Control, Courses, NEW r \in Request, Step(r), ~Makes(r), Creates(r), undo'[r] # <<>>
  PROVE  undo[r] # <<>> /\ undo'[r][1] = undo[r][1]
<1>1. PICK list \in Seq(Undoes) : list = undo[r]
  BY DEF Control
<1>2. CASE undo' = undo
  BY <1>2
<1>3. CASE Files(r) /\ undo' # undo
  <2>1. \E k, o : Register(r, k, o)
    BY <1>3 DEF Files, WritePool, WriteVhost
  <2>2. PICK entry : undo' = [undo EXCEPT ![r] = Append(@, entry)]
    BY <2>1 DEF Register
  <2>3. undo'[r] = Append(list, entry)
    BY <1>1, <2>2 DEF Control
  <2>4. list # <<>>
    <3>1. state[r] = "running" /\ Left(r) < 10
      BY <1>3, Places DEF Files, WritePool, WriteVhost, At, Place, Creates
    <3> QED BY <1>1, <3>1, Ahead DEF Courses, Registered
  <2>5. Append(list, entry)[1] = list[1]
    BY <1>1, <2>4
  <2> QED BY <1>1, <2>3, <2>4, <2>5
<1>4. CASE Undoing(r)
  <2>1. state[r] = "rolling" /\ Undone(r)
    BY <1>4 DEF Undoing, UndoUseradd, UndoUser, UndoPool, UndoVhost, UndoFileFails, Rolling
  <2>2. list # <<>>
    BY <1>1, <2>1 DEF Courses, Registered
  <2>3. undo'[r] = Front(list)
    BY <1>1, <2>1 DEF Undone, Control
  <2>4. PICK n \in Nat \ {0} : n = Len(list)
    BY <1>1, <2>2
  <2>5. n # 1 /\ Front(list)[1] = list[1]
    <3>1. n # 1
      BY <1>1, <2>2, <2>3, <2>4, LastOf
    <3>2. 1 \in 1..(n - 1)
      BY <3>1
    <3> QED BY <1>1, <2>2, <2>4, <3>1, <3>2, LastOf
  <2> QED BY <1>1, <2>2, <2>3, <2>5
<1>5. ~Commit(r)
  BY Places DEF Commit, Place, Creates
<1>6. Plain(r) \/ InsertUserUnaudited(r) \/ Throw(r) => undo' = undo
  BY DEF Plain, Pass, Skip, SetLock, SaveUser, Userdel, SaveDomain, DeletePool, DeleteVhost,
    SetLink, ReloadApache, InsertUserUnaudited, Throw
<1> QED BY <1>2, <1>3, <1>4, <1>5, <1>6 DEF Step

LEMMA Standing ==
  ASSUME Control, Courses, NEW r \in Request, Step(r), NEW q \in Request, q # r \/ ~Makes(r)
  PROVE  /\ Running(q)' => Running(q)
         /\ Holds(q)' => Holds(q) /\ (Named(q)' <=> Named(q))
         /\ Main(q)' => Main(q)
<1>1. job' = job /\ Running(r)
  BY OtherRequests DEF startVars
<1>2. CASE q # r
  <2>1. state'[q] = state[q] /\ undo'[q] = undo[q]
    BY <1>2, OtherRequests
  <2> QED BY <1>1, <2>1 DEF Running, Holds, Named, Main, Creates
<1>3. CASE q = r /\ ~Makes(r)
  <2>1. Creates(r) /\ undo'[r] # <<>> => undo[r] # <<>> /\ undo'[r][1] = undo[r][1]
    BY <1>3, FirstStays
  <2> QED BY <1>1, <1>3, <2>1 DEF Running, Holds, Named, Main, Creates
<1> QED BY <1>2, <1>3

LEMMA OthersStand ==
  ASSUME Control, NEW r \in Request, Step(r), NEW q \in Request \ {r}
  PROVE  /\ Left(q)' = Left(q) /\ state'[q] = state[q]
         /\ Running(q)' <=> Running(q)
         /\ Holds(q)' <=> Holds(q)
         /\ Named(q)' <=> Named(q)
         /\ Main(q)' <=> Main(q)
BY OtherRequests DEF Left, Running, Holds, Named, Main, Creates, startVars

\* The creation that has just made the account has no user yet, and the one that has just
\* made the user's row has.
LEMMA Made ==
  ASSUME Control, Courses, NEW r \in Request, Makes(r)
  PROVE  /\ Creates(r) /\ ~Named(r) /\ Running(r)' /\ state'[r] = "running"
         /\ Useradd(r) => ~Holds(r) /\ ~Named(r)' /\ ~Main(r)'
         /\ InsertUser(r) => Holds(r) /\ Named(r)' /\ Left(r)' = 9
<1>1. CASE Useradd(r)
  <2>1. Place(r, "create", 11) /\ state[r] = "running" /\ Advance(r) /\ job' = job
    BY <1>1, Places DEF Useradd, At, startVars
  <2>2. undo[r] = <<>>
    BY <2>1 DEF Courses, Registered, Place, Creates
  <2>3. Left(r)' = 10 /\ state'[r] = "running" /\ Creates(r) /\ Creates(r)'
    BY <2>1, Advanced DEF Place, Creates
  <2>4. undo'[r][1].kind = "userdel"
    BY <1>1, <2>3, MakesCourse DEF Makes, Courses, Registered
  <2>5. ~InsertUser(r)
    BY <1>1 DEF Useradd, InsertUser, At
  <2> QED BY <2>2, <2>3, <2>4, <2>5 DEF Running, Holds, Named, Main
<1>2. CASE InsertUser(r)
  <2>1. Place(r, "create", 10) /\ state[r] = "running" /\ Advance(r) /\ job' = job
    BY <1>2, Places DEF InsertUser, At, startVars
  <2>2. undo[r] # <<>> /\ undo[r][1].kind = "userdel"
    BY <2>1 DEF Courses, Registered, Place, Creates
  <2>3. Left(r)' = 9 /\ state'[r] = "running" /\ Creates(r) /\ Creates(r)'
    BY <2>1, Advanced DEF Place, Creates
  <2>4. undo'[r][1].kind = "deleteUser" /\ undo'[r] # <<>>
    BY <1>2, <2>3, MakesCourse DEF Makes, Courses, Registered
  <2>5. ~Useradd(r)
    BY <1>2 DEF Useradd, InsertUser, At
  <2> QED BY <2>1, <2>2, <2>3, <2>4, <2>5 DEF Running, Holds, Named, Main
<1> QED BY <1>1, <1>2 DEF Makes

LEMMA Started ==
  ASSUME Control, Data, Courses, NEW r \in Request, Start(r)
  PROVE  /\ job' = job /\ UNCHANGED <<undo, dbVars, serverVars, skipped>> /\ mixed \subseteq mixed'
         /\ ~Running(r) /\ state[r] = "idle" /\ state'[r] = "running" /\ todo'[r] = Steps[job[r].op]
         /\ ~Holds(r)' /\ (Main(r)' <=> ~Creates(r)) /\ ~Main(r)
         /\ \A q \in Request \ {r} :
              /\ Left(q)' = Left(q) /\ state'[q] = state[q] /\ seen'[q] = seen[q]
              /\ Running(q)' <=> Running(q)
              /\ Holds(q)' <=> Holds(q)
              /\ Named(q)' <=> Named(q)
              /\ Main(q)' <=> Main(q)
         /\ \A d : Kept(d)' => Kept(d)
<1>1. /\ job' = job /\ UNCHANGED <<undo, dbVars, serverVars, skipped>> /\ mixed \subseteq mixed'
      /\ state[r] = "idle" /\ state'[r] = "running" /\ todo'[r] = Steps[job[r].op]
      /\ \A q \in Request \ {r} : todo'[q] = todo[q] /\ state'[q] = state[q] /\ seen'[q] = seen[q]
  BY DEF Start, Control
<1>2. undo[r] = <<>>
  BY <1>1 DEF Courses, Registered
<1>3. /\ ~Running(r) /\ ~Holds(r)' /\ (Main(r)' <=> ~Creates(r)) /\ ~Main(r)
  BY <1>1, <1>2 DEF Running, Holds, Named, Main, Creates
<1>4. \A q \in Request \ {r} :
        /\ Left(q)' = Left(q)
        /\ Running(q)' <=> Running(q)
        /\ Holds(q)' <=> Holds(q)
        /\ Named(q)' <=> Named(q)
        /\ Main(q)' <=> Main(q)
  BY <1>1 DEF Left, Running, Holds, Named, Main, Creates
<1>5. ASSUME NEW d
      PROVE  Kept(d)' => Kept(d)
  <2>1. \A q \in Request : state[q] = "failed" => state'[q] = "failed"
    BY <1>1
  <2>2. \A q : Dom(q)' = Dom(q)
    BY <1>1 DEF Dom
  <2>3. skipped' = skipped
    BY <1>1
  <2>4. d \in Torn => d \in Torn'
    BY <2>1, <2>2, <2>3 DEF Torn
  <2> QED BY <1>1, <2>4 DEF Kept
<1> QED BY <1>1, <1>3, <1>4, <1>5

-----------------------------------------------------------------------------
(* Requests that overlap, rows that were found.                            *)

LEMMA ExclusiveStart ==
  ASSUME Control, Data, Courses, Exclusive, NEW r \in Request, Start(r)
  PROVE  Exclusive'
<1>1. job' = job /\ mixed \subseteq mixed' /\ Running(r)' /\ Dom(r) \in Domain
      /\ \A q \in Request \ {r} : Running(q)' <=> Running(q)
  BY Started, Subject DEF Running
<1>2. \A q \in Request \ {r} : Running(q) /\ Dom(q) = Dom(r) /\ ~(Creates(r) /\ Creates(q))
        => Dom(r) \in mixed'
  BY DEF Start, Creates
<1>3. \A q \in Request : Dom(q)' = Dom(q) /\ (Creates(q)' <=> Creates(q))
  BY <1>1 DEF Dom, Creates
<1> QED BY <1>1, <1>2, <1>3 DEF Exclusive

LEMMA ExclusiveStep ==
  ASSUME Control, Exclusive, NEW r \in Request, Step(r)
  PROVE  Exclusive'
<1>1. job' = job /\ mixed' = mixed /\ \A q \in Request : Running(q)' => Running(q)
  BY OtherRequests DEF startVars, Running
<1>2. \A q \in Request : Dom(q)' = Dom(q) /\ (Creates(q)' <=> Creates(q))
  BY <1>1 DEF Dom, Creates
<1> QED BY <1>1, <1>2 DEF Exclusive

LEMMA RowsFoundStart ==
  ASSUME Control, Data, Courses, RowsFound, NEW r \in Request, Start(r)
  PROVE  RowsFound'
<1>1. /\ job' = job /\ row' = row /\ todo'[r] = Steps[job[r].op]
      /\ \A q \in Request \ {r} :
           Left(q)' = Left(q) /\ state'[q] = state[q] /\ seen'[q] = seen[q]
  BY Started DEF dbVars
<1>2. \A q \in Request : Dom(q)' = Dom(q) /\ (Creates(q)' <=> Creates(q))
  BY <1>1 DEF Dom, Creates
<1>3. Creates(r) => Left(r)' = 14
  BY <1>1 DEF Creates, Left, Steps, CreateSteps
<1>4. ~Creates(r) => seen'[r].status \in LiveRow /\ row[Dom(r)] \in LiveRow
  BY DEF Creates, Start, Control
<1>5. "none" \notin LiveRow
  BY DEF LiveRow
<1> QED BY <1>1, <1>2, <1>3, <1>4, <1>5 DEF RowsFound

LEMMA RowsFoundStep ==
  ASSUME Control, Data, Courses, RowsFound, NEW r \in Request, Step(r)
  PROVE  RowsFound'
<1>1. /\ job' = job /\ seen' = seen /\ Running(r)
      /\ \A q \in Request \ {r} : state'[q] = state[q] /\ Left(q)' = Left(q)
  BY OtherRequests, OthersStand DEF startVars
<1>2. \A q \in Request : Dom(q)' = Dom(q) /\ (Creates(q)' <=> Creates(q)) /\ Dom(q) \in Domain
  BY <1>1, Subject DEF Dom, Creates
<1>3. \A d \in Domain : row[d] # "none" => row'[d] # "none"
  BY RowStays
<1>4. state[r] # "idle"
  BY <1>1 DEF Running
<1>5. ASSUME Creates(r), state'[r] = "running", Left(r)' < 9
      PROVE  row'[Dom(r)] # "none"
  <2>1. state[r] = "running" /\ Advance(r)
    <3>1. ~Undoing(r) /\ ~Throw(r) /\ ~InsertUserUnaudited(r)
      BY <1>5 DEF Undoing, UndoUseradd, UndoUser, UndoPool, UndoVhost, UndoFileFails, Rolling,
        Undone, Throw, InsertUserUnaudited, Control
    <3>2. Plain(r) => state[r] = "running" /\ Advance(r)
      BY DEF Plain, Pass, Skip, SetLock, SaveUser, Userdel, SaveDomain, DeletePool,
        DeleteVhost, SetLink, ReloadApache, At
    <3>3. Makes(r) \/ Files(r) \/ Commit(r) => state[r] = "running" /\ Advance(r)
      BY DEF Makes, Useradd, InsertUser, Files, WritePool, WriteVhost, Commit, At
    <3> QED BY <3>1, <3>2, <3>3 DEF Step
  <2>2. Left(r) < 10
    BY <1>5, <2>1, Advanced, Ahead
  <2>3. CASE Left(r) < 9
    BY <1>2, <1>3, <1>5, <2>1, <2>3 DEF RowsFound
  <2>4. CASE Left(r) = 9
    <3>1. Head(todo[r]) = "insertDomain"
      BY <1>5, <2>1, <2>4, CreateAt DEF Creates, CreateSteps
    <3>2. SaveDomain(r)
      <4>1. \A s : At(r, s) => s = "insertDomain"
        BY <3>1 DEF At
      <4>2. ~Makes(r) /\ ~Files(r) /\ ~Commit(r)
        BY <4>1 DEF Makes, Useradd, InsertUser, Files, WritePool, WriteVhost, Commit
      <4>3. Plain(r) => SaveDomain(r)
        BY <4>1 DEF Plain, Pass, Skip, SetLock, SaveUser, Userdel, SaveDomain, DeletePool,
          DeleteVhost, SetLink, ReloadApache, Ignored
      <4>4. ~Undoing(r) /\ ~Throw(r) /\ ~InsertUserUnaudited(r)
        BY <1>5, <2>1 DEF Undoing, UndoUseradd, UndoUser, UndoPool, UndoVhost, UndoFileFails,
          Rolling, Throw, InsertUserUnaudited, Control
      <4> QED BY <4>2, <4>3, <4>4 DEF Step
    <3>3. row' = [row EXCEPT ![Dom(r)] = "pending"]
      BY <3>1, <3>2 DEF SaveDomain, At
    <3> QED BY <1>2, <3>3 DEF Data
  <2>5. Left(r) \in Nat
    BY <2>1, Ahead
  <2> QED BY <2>2, <2>3, <2>4, <2>5
<1> QED BY <1>1, <1>2, <1>3, <1>4, <1>5 DEF RowsFound

-----------------------------------------------------------------------------
(* The users of the domains.                                               *)

\* The row of a user is never removed altogether, nor made anew.
LEMMA UserStays ==
  ASSUME Control, Data, NEW r \in Request, Step(r), NEW n \in Name
  PROVE  /\ user[n] # "none" => user'[n] # "none"
         /\ user'[n] = user[n] \/ SaveUser(r) \/ InsertUser(r) \/ InsertUserUnaudited(r) \/ UndoUser(r)
         /\ (InsertUser(r) \/ InsertUserUnaudited(r)) => user[User(r)] = "none"
<1>1. CASE SaveUser(r)
  <2>1. \E s \in {"live", "suspended", "deleted"} : user' = [user EXCEPT ![User(r)] = s]
    BY <1>1 DEF SaveUser
  <2>2. ~InsertUser(r) /\ ~InsertUserUnaudited(r)
    BY <1>1 DEF SaveUser, InsertUser, InsertUserUnaudited, At
  <2> QED BY <1>1, <2>1, <2>2 DEF Data
<1>2. CASE InsertUser(r) \/ InsertUserUnaudited(r)
  <2>1. user' = [user EXCEPT ![User(r)] = "live"] /\ user[User(r)] = "none"
    BY <1>2 DEF InsertUser, InsertUserUnaudited, Refused
  <2> QED BY <1>2, <2>1 DEF Data
<1>3. CASE UndoUser(r)
  <2>1. user' = [user EXCEPT ![User(r)] = "deleted"] \/ user' = user
    BY <1>3 DEF UndoUser
  <2>2. ~InsertUser(r) /\ ~InsertUserUnaudited(r)
    BY <1>3 DEF UndoUser, Rolling, InsertUser, InsertUserUnaudited, At
  <2> QED BY <1>3, <2>1, <2>2 DEF Data
<1>4. CASE ~SaveUser(r) /\ ~InsertUser(r) /\ ~InsertUserUnaudited(r) /\ ~UndoUser(r)
  <2>1. user' = user
    BY <1>4 DEF Step, Plain, Pass, Skip, SetLock, Userdel, SaveDomain, DeletePool, DeleteVhost,
      SetLink, ReloadApache, Makes, Useradd, Files, WritePool, WriteVhost, Undoing, UndoUseradd,
      UndoPool, UndoVhost, UndoFileFails, Throw, Commit, dbVars
  <2> QED BY <1>4, <2>1
<1> QED BY <1>1, <1>2, <1>3, <1>4

LEMMA OneOwnerStart ==
  ASSUME Control, Data, Courses, OneOwner, NEW r \in Request, Start(r)
  PROVE  OneOwner'
<1>1. /\ job' = job /\ row' = row /\ user' = user
      /\ \A q \in Request : Named(q)' => Named(q)
  BY Started DEF dbVars, Named
<1>2. \A q \in Request : User(q)' = User(q) /\ Dom(q)' = Dom(q)
  BY <1>1 DEF User, Dom
<1> QED BY <1>1, <1>2 DEF OneOwner

\* Another domain gets a row only from the creation that made the user's row.
LEMMA FirstRow ==
  ASSUME Control, Data, Courses, RowsFound, NEW r \in Request, Step(r), NEW d \in Domain,
         row[d] = "none", row'[d] # "none"
  PROVE  /\ Named(r) /\ d = Dom(r) /\ Place(r, "create", 9) /\ state[r] = "running"
         /\ At(r, "insertDomain") /\ SaveDomain(r) /\ ~Makes(r)
<1>1. SaveDomain(r) /\ d = Dom(r)
  BY RowStays
<1>2. ~Creates(r) => row[d] # "none"
  BY <1>1 DEF RowsFound, SaveDomain, At
<1>3. Creates(r) /\ state[r] = "running" /\ Left(r) \in Nat
  BY <1>1, <1>2, Ahead DEF SaveDomain, At
<1>4. ~(Left(r) < 9)
  BY <1>1, <1>3 DEF RowsFound
<1>5. At(r, "insertDomain")
  BY <1>1, <1>3, <1>4, Places DEF SaveDomain, Place, Creates
<1>6. Place(r, "create", 9)
  BY <1>5, Places
<1>7. Named(r)
  <2>1. undo[r] # <<>> /\ undo[r][1].kind = "deleteUser"
    BY <1>3, <1>6 DEF Courses, Registered, Place
  <2> QED BY <1>3, <2>1 DEF Named, Holds, Running
<1>8. ~Makes(r)
  BY <1>5 DEF Makes, Useradd, InsertUser, At
<1> QED BY <1>1, <1>3, <1>5, <1>6, <1>7, <1>8

LEMMA OneOwnerStep ==
  ASSUME Control, Data, Courses, RowsFound, OneOwner, NEW r \in Request, Step(r)
  PROVE  OneOwner'
<1>1. \A q \in Request : User(q)' = User(q) /\ Dom(q)' = Dom(q) /\ Dom(q) \in Domain
                         /\ User(q) \in Name /\ User(q) = NameOf[Dom(q)]
  BY OtherRequests, Subject DEF User, Dom, startVars
<1>2. \A n \in Name : user[n] # "none" => user'[n] # "none"
  BY UserStays
<1>3. \A d \in Domain : NameOf[d] \in Name
  BY NameAssumption
<1>4. CASE InsertUser(r)
  <2>1. user[User(r)] = "none" /\ user'[User(r)] # "none"
    <3>1. user' = [user EXCEPT ![User(r)] = "live"]
      BY <1>4 DEF InsertUser
    <3> QED BY <1>1, <1>4, <3>1, UserStays DEF Data
  <2>2. row' = row
    BY <1>4 DEF InsertUser
  <2>3. \A q \in Request \ {r} : Named(q)' <=> Named(q)
    BY OthersStand
  <2>4. \A q \in Request : Named(q) => User(q) # User(r)
    BY <2>1 DEF OneOwner
  <2>5. \A d \in Domain : row[d] # "none" => NameOf[d] # User(r)
    BY <2>1 DEF OneOwner
  <2>6. \A d \in Domain : row'[d] # "none" => user'[NameOf[d]] # "none"
    BY <1>2, <1>3, <2>2 DEF OneOwner
  <2>7. \A d, e \in Domain :
          row'[d] # "none" /\ row'[e] # "none" /\ NameOf[d] = NameOf[e] => d = e
    BY <2>2 DEF OneOwner
  <2>8. \A q \in Request : Named(q)' =>
          /\ user'[User(q)] # "none"
          /\ \A e \in Domain : row'[e] # "none" /\ NameOf[e] = User(q) => e = Dom(q)
          /\ \A p \in Request : Named(p)' /\ User(q) = User(p) => q = p
    BY <1>1, <1>2, <2>1, <2>2, <2>3, <2>4, <2>5 DEF OneOwner
  <2> QED BY <1>1, <2>6, <2>7, <2>8 DEF OneOwner
<1>5. CASE ~InsertUser(r)
  <2>1. \A q \in Request : Named(q)' => Named(q)
    BY <1>5, Standing, OthersStand, Made DEF Makes, Named
  <2>2. \A d \in Domain : row[d] = "none" /\ row'[d] # "none" => Named(r) /\ d = Dom(r)
    BY FirstRow
  <2>3. \A d \in Domain : row'[d] # "none" => user'[NameOf[d]] # "none"
    BY <1>1, <1>2, <1>3, <2>2 DEF OneOwner
  <2>4. \A d, e \in Domain :
          row'[d] # "none" /\ row'[e] # "none" /\ NameOf[d] = NameOf[e] => d = e
    BY <1>1, <2>2 DEF OneOwner
  <2>5. \A q \in Request : Named(q)' =>
          /\ user'[User(q)] # "none"
          /\ \A e \in Domain : row'[e] # "none" /\ NameOf[e] = User(q) => e = Dom(q)
          /\ \A p \in Request : Named(p)' /\ User(q) = User(p) => q = p
    BY <1>1, <1>2, <2>1, <2>2 DEF OneOwner
  <2> QED BY <1>1, <2>3, <2>4, <2>5 DEF OneOwner
<1> QED BY <1>4, <1>5

\* A step that is not of the request at work on a domain leaves it alone, but for the
\* account: a creation that has no user yet may still make one or take it back.
LEMMA Aside ==
  ASSUME Control, Data, Courses, RowsFound, OneOwner, NEW r \in Request, Step(r),
         NEW d \in Domain, ~(Main(r) /\ Dom(r) = d),
         row[d] # "none" \/ (\E q \in Request \ {r} : Named(q) /\ Dom(q) = d)
  PROVE  /\ row'[d] = row[d] /\ version'[d] = version[d] /\ vhost'[d] = vhost[d]
         /\ d \in links' <=> d \in links
         /\ user'[NameOf[d]] = user[NameOf[d]]
         /\ \A v : <<NameOf[d], v>> \in pools' <=> <<NameOf[d], v>> \in pools
         /\ \/ account'[NameOf[d]] = account[NameOf[d]]
            \/ User(r) = NameOf[d] /\ ~Main(r) /\ (Useradd(r) \/ UndoUseradd(r))
<1>1. NameOf[d] \in Name /\ User(r) = NameOf[Dom(r)] /\ Dom(r) \in Domain
  BY NameAssumption, Subject
<1>2. user[NameOf[d]] # "none"
  BY Subject DEF OneOwner
<1>3. CASE Main(r)
  <2>1. Dom(r) # d
    BY <1>3
  <2>2. User(r) # NameOf[d]
    <3>1. SUFFICES ASSUME User(r) = NameOf[d]
                   PROVE  FALSE
      OBVIOUS
    <3>2. CASE Creates(r)
      <4>1. Named(r)
        BY <1>3, <3>2 DEF Main
      <4>2. CASE row[d] # "none"
        BY <1>1, <2>1, <3>1, <4>1, <4>2 DEF OneOwner
      <4>3. CASE \E q \in Request \ {r} : Named(q) /\ Dom(q) = d
        <5>1. PICK q \in Request \ {r} : Named(q) /\ Dom(q) = d
          BY <4>3
        <5>2. User(q) = User(r)
          BY <1>1, <3>1, <5>1, Subject
        <5> QED BY <4>1, <5>1, <5>2 DEF OneOwner
      <4> QED BY <4>2, <4>3
    <3>3. CASE ~Creates(r)
      <4>1. row[Dom(r)] # "none"
        BY <1>3, <3>3 DEF RowsFound, Main, Running
      <4>2. CASE row[d] # "none"
        BY <1>1, <2>1, <3>1, <4>1, <4>2 DEF OneOwner
      <4>3. CASE \E q \in Request \ {r} : Named(q) /\ Dom(q) = d
        <5>1. PICK q \in Request \ {r} : Named(q) /\ Dom(q) = d
          BY <4>3
        <5>2. User(q) = NameOf[Dom(r)]
          BY <1>1, <3>1, <5>1, Subject
        <5> QED BY <1>1, <2>1, <4>1, <5>1, <5>2 DEF OneOwner
      <4> QED BY <4>2, <4>3
    <3> QED BY <3>2, <3>3
  <2> QED BY <1>1, <2>1, <2>2, OtherDomains, OtherNames
<1>4. CASE ~Main(r)
  <2>1. Pass(r) \/ Throw(r) \/ Useradd(r) \/ InsertUser(r) \/ InsertUserUnaudited(r) \/ UndoUseradd(r)
    BY <1>4, NotMain
  <2>2. CASE User(r) # NameOf[d]
    <3>1. Dom(r) # d
      BY <1>1, <2>2
    <3> QED BY <1>1, <2>2, <3>1, OtherDomains, OtherNames
  <2>3. CASE User(r) = NameOf[d]
    <3>1. ~InsertUser(r) /\ ~InsertUserUnaudited(r)
      BY <1>1, <1>2, <2>3, UserStays
    <3>2. /\ UNCHANGED <<row, version, vhost, links, user, pools>>
          /\ account' = account \/ Useradd(r) \/ UndoUseradd(r)
      BY <2>1, <3>1 DEF Pass, Throw, Useradd, UndoUseradd, Undone, dbVars, serverVars
    <3> QED BY <1>4, <2>3, <3>2
  <2> QED BY <2>2, <2>3
<1> QED BY <1>3, <1>4

-----------------------------------------------------------------------------
(* Accounts.                                                               *)

LEMMA AccountStays ==
  ASSUME Control, Data, NEW r \in Request, Step(r), NEW n \in Name
  PROVE  account'[n] = account[n] \/
           (/\ n = User(r)
            /\ \/ SetLock(r) \/ Userdel(r) \/ Useradd(r) \/ UndoUseradd(r) \/ UndoUser(r))
<1>1. CASE n # User(r)
  BY <1>1, OtherNames
<1>2. CASE ~SetLock(r) /\ ~Userdel(r) /\ ~Useradd(r) /\ ~UndoUseradd(r) /\ ~UndoUser(r)
  <2>1. account' = account
    BY <1>2 DEF Step, Plain, Pass, Skip, SaveUser, SaveDomain, DeletePool, DeleteVhost,
      SetLink, ReloadApache, Makes, InsertUser, InsertUserUnaudited, Files, WritePool,
      WriteVhost, Undoing, UndoPool, UndoVhost, UndoFileFails, Throw, Commit, serverVars
  <2> QED BY <2>1
<1> QED BY <1>1, <1>2

\* A deletion goes on to its end, or leaves its domain half done.
LEMMA GoingStays ==
  ASSUME Control, Data, Courses, Exclusive, RowsFound, OneOwner, Removed, NEW r \in Request, Step(r),
         NEW d \in Domain, Going(d), Kept(d)'
  PROVE  Going(d)'
<1>1. Kept(d) /\ d \notin mixed
  BY TornStays DEF Kept
<1>2. job' = job /\ (\A q \in Request : Dom(q)' = Dom(q)) /\ Running(r)
  BY OtherRequests DEF startVars, Dom
<1>3. CASE row[d] = "deleted"
  <2>1. CASE Main(r) /\ Dom(r) = d
    <3>1. job[r].op = "delete" /\ Left(r) = 1
      BY <1>1, <1>3, <2>1 DEF Removed
    <3>2. ~SaveDomain(r)
      BY <3>1, Places DEF SaveDomain, Place
    <3> QED BY <1>3, <3>2, RowStays DEF Going
  <2>2. CASE ~(Main(r) /\ Dom(r) = d)
    BY <1>3, <2>2, Aside DEF Going
  <2> QED BY <2>1, <2>2
<1>4. CASE \E s \in Request : Running(s) /\ Dom(s) = d /\ job[s].op = "delete" /\ Left(s) < 4
  <2>1. PICK s \in Request : Running(s) /\ Dom(s) = d /\ job[s].op = "delete" /\ Left(s) < 4
    BY <1>4
  <2>2. CASE s # r
    <3>1. Running(s)' /\ Left(s)' = Left(s)
      BY <2>1, <2>2, OthersStand
    <3> QED BY <1>2, <2>1, <3>1 DEF Going
  <2>3. CASE s = r
    <3>1. state[r] = "running" /\ undo[r] = <<>> /\ Left(r) \in 1..3 /\ Head(todo[r]) = DeleteSteps[10 - Left(r)]
      <4>1. undo[r] = <<>>
        BY <2>1, <2>3 DEF Courses, Registered
      <4>2. state[r] = "running"
        BY <2>1, <2>3, <4>1 DEF Running, Courses, Registered
      <4>3. Left(r) \in 1..9 /\ Left(r) < 4 /\ Head(todo[r]) = DeleteSteps[10 - Left(r)]
        BY <2>1, <2>3, <4>2, DeleteAt
      <4> QED BY <4>1, <4>2, <4>3
    <3>2. Head(todo[r]) \notin {"findUser", "id", "useradd"} /\ todo[r] # Steps[job[r].op]
      <4>1. Len(Steps[job[r].op]) = 9
        BY <2>1, <2>3 DEF Steps, DeleteSteps
      <4>2. todo[r] # Steps[job[r].op]
        <5>1. todo[r] = Steps[job[r].op] => Left(r) = 9
          BY <4>1 DEF Left
        <5> QED BY <3>1, <5>1
      <4>3. PICK n \in 1..3 : n = Left(r)
        BY <3>1
      <4>4. DeleteSteps[10 - n] \in {"deleteUser", "deleteDomain", "audit"}
        BY DEF DeleteSteps
      <4> QED BY <3>1, <4>2, <4>3, <4>4
    <3>3. ~Throw(r)
      <4>1. Throw(r) => state'[r] = "failed"
        BY <3>1, <3>2 DEF Throw, Unchanged, Control
      <4> QED BY <2>1, <2>3, <4>1, TornStays
    <3>4. Advance(r)
      <4>1. ~Undoing(r)
        BY <3>1 DEF Undoing, UndoUseradd, UndoUser, UndoPool, UndoVhost, UndoFileFails, Rolling
      <4>2. ~InsertUserUnaudited(r)
        BY <2>1, <2>3, Places DEF InsertUserUnaudited, Place
      <4>3. Plain(r) \/ Makes(r) \/ Files(r) \/ Commit(r) => Advance(r)
        BY DEF Plain, Pass, Skip, SetLock, SaveUser, Userdel, SaveDomain, DeletePool, DeleteVhost,
          SetLink, ReloadApache, Makes, Useradd, InsertUser, Files, WritePool, WriteVhost, Commit
      <4> QED BY <3>3, <4>1, <4>2, <4>3 DEF Step
    <3>5. Left(r)' = Left(r) - 1 /\ state'[r] = IF Left(r) = 1 THEN "done" ELSE "running"
      BY <3>1, <3>4, Advanced
    <3>6. CASE Left(r) = 1
      <4>1. row[d] = "deleted"
        BY <1>1, <2>1, <2>3, <3>1, <3>6 DEF Removed, Removing
      <4> QED BY <1>3, <4>1
    <3>7. CASE Left(r) # 1
      <4>1. Running(r)' /\ Left(r)' < 4
        BY <3>1, <3>5, <3>7 DEF Running
      <4> QED BY <1>2, <2>1, <2>3, <4>1 DEF Going
    <3> QED BY <3>6, <3>7
  <2> QED BY <2>2, <2>3
<1> QED BY <1>3, <1>4 DEF Going

\* What a creation undoes last is its account.
LEMMA TakenBack ==
  ASSUME Control, Courses, NEW r \in Request, UndoUseradd(r) \/ UndoUser(r)
  PROVE  /\ Holds(r) /\ Creates(r) /\ state'[r] = "failed" /\ undo'[r] = <<>> /\ ~Holds(r)'
         /\ Named(r) <=> UndoUser(r)
<1>1. state[r] = "rolling" /\ Undone(r) /\ Last(undo[r]).kind \in {"userdel", "deleteUser"}
      /\ (Last(undo[r]).kind = "deleteUser" <=> UndoUser(r))
  BY DEF UndoUseradd, UndoUser, Rolling
<1>2. PICK list \in Seq(Undoes) : list = undo[r] /\ list # <<>>
  BY <1>1 DEF Control, Courses, Registered
<1>3. PICK n \in Nat \ {0} : n = Len(list)
  BY <1>2
<1>4. Last(list) = list[n] /\ (Front(list) = <<>> <=> n = 1)
  BY <1>2, <1>3, LastOf
<1>5. Creates(r) /\ n = 1
  <2>1. n \in 1..n
    BY <1>3
  <2> QED BY <1>1, <1>2, <1>3, <1>4, <2>1 DEF Courses, Registered
<1>6. state'[r] = "failed" /\ undo'[r] = <<>>
  BY <1>1, <1>2, <1>3, <1>4, <1>5 DEF Undone, Control
<1> QED BY <1>1, <1>2, <1>4, <1>5, <1>6 DEF Holds, Named, Running

\* A domain with a row speaks for its user.
LEMMA Speaks ==
  ASSUME OneOwner, NEW d \in Domain, row[d] # "none", Kept(d)
  PROVE  Sound(NameOf[d])
BY DEF OneOwner, Sound

\* While a request changes a domain nothing was left half done of, no creation has its
\* account, unless the request is a deletion that has removed the account.
LEMMA NoHolder ==
  ASSUME Control, Data, Courses, Exclusive, RowsFound, OneOwner, Accounts, Removed,
         NEW r \in Request, Running(r), ~Creates(r), Sound(User(r)),
         NEW q \in Request, Holds(q), User(q) = User(r)
  PROVE  job[r].op = "delete" /\ Left(r) < 4
<1>1. Dom(r) \in Domain /\ User(r) = NameOf[Dom(r)] /\ row[Dom(r)] # "none"
  BY Subject DEF RowsFound, Running
<1>2. Kept(Dom(r)) /\ Dom(r) \notin mixed
  BY <1>1 DEF Sound, Kept
<1>3. q # r /\ Running(q) /\ Creates(q)
  BY DEF Holds
<1>4. Dom(q) # Dom(r)
  BY <1>2, <1>3 DEF Exclusive
<1>5. ~Named(q)
  BY <1>1, <1>4 DEF OneOwner
<1>6. Going(Dom(r))
  BY <1>1, <1>5 DEF Accounts
<1>7. CASE row[Dom(r)] = "deleted"
  <2>1. Main(r)
    BY DEF Main
  <2> QED BY <1>1, <1>2, <1>7, <2>1 DEF Removed
<1>8. CASE row[Dom(r)] # "deleted"
  <2>1. PICK s \in Request : /\ Running(s) /\ Dom(s) = Dom(r)
                             /\ job[s].op = "delete" /\ Left(s) < 4
    BY <1>6, <1>8 DEF Going
  <2>2. s = r
    BY <1>2, <2>1 DEF Exclusive
  <2> QED BY <2>1, <2>2
<1> QED BY <1>7, <1>8

LEMMA AccountsStart ==
  ASSUME Control, Data, Courses, Accounts, NEW r \in Request, Start(r)
  PROVE  Accounts'
<1>1. /\ job' = job /\ row' = row /\ account' = account /\ ~Running(r) /\ ~Holds(r)'
      /\ \A q \in Request \ {r} :
           /\ Left(q)' = Left(q)
           /\ Running(q)' <=> Running(q)
           /\ Holds(q)' <=> Holds(q)
           /\ Named(q)' <=> Named(q)
      /\ \A d \in Domain : Kept(d)' => Kept(d)
  BY Started DEF dbVars, serverVars
<1>2. \A q : User(q)' = User(q) /\ Dom(q)' = Dom(q)
  BY <1>1 DEF User, Dom
<1>3. \A n : Sound(n)' => Sound(n)
  BY <1>1 DEF Sound
<1>4. \A d : Going(d) => Going(d)'
  BY <1>1, <1>2 DEF Going
<1>5. \A q \in Request : Holds(q)' => Holds(q) /\ q # r /\ (Named(q)' <=> Named(q))
  BY <1>1
<1>6. \A q \in Request : Holds(q)' /\ Sound(User(q))' =>
       /\ account'[User(q)] = "unlocked"
       /\ \A p \in Request : Holds(p)' /\ User(q) = User(p) => q = p
       /\ \A e \in Domain : ~Named(q)' /\ row'[e] # "none" /\ NameOf[e] = User(q) => Going(e)'
  BY <1>1, <1>2, <1>3, <1>4, <1>5 DEF Accounts
<1>7. \A d \in Domain :
       row'[d] # "none" /\ Kept(d)' => account'[NameOf[d]] # "none" \/ Going(d)'
  BY <1>1, <1>4 DEF Accounts
<1> QED BY <1>2, <1>6, <1>7 DEF Accounts

LEMMA HolderStep ==
  ASSUME Control, Data, Courses, Exclusive, RowsFound, OneOwner, Accounts, Removed,
         NEW r \in Request, Step(r), NEW q \in Request, Holds(q)', Sound(User(q))'
  PROVE  /\ account'[User(q)] = "unlocked"
         /\ \A p \in Request : Holds(p)' /\ User(q) = User(p) => q = p
         /\ \A e \in Domain :
              ~Named(q)' /\ row'[e] # "none" /\ NameOf[e] = User(q) => Going(e)'
<1>1. job' = job /\ (\A p : User(p)' = User(p) /\ Dom(p)' = Dom(p)) /\ User(q) \in Name
  BY OtherRequests, Subject DEF startVars, User, Dom
<1>2. Sound(User(q)) /\ \A e \in Domain : NameOf[e] = User(q) /\ row'[e] # "none" => Kept(e)'
  BY <1>1, SoundStays DEF Sound
<1>3. \A e \in Domain : NameOf[e] = User(q) /\ row'[e] # "none" /\ Going(e) => Going(e)'
  BY <1>2, GoingStays
<1>4. CASE Useradd(r) /\ q = r
  <2>1. /\ account[User(r)] = "none" /\ account'[User(r)] = "unlocked" /\ row' = row
    BY <1>1, <1>4 DEF Useradd, Refused, Data, dbVars
  <2>2. \A p \in Request : Holds(p)' /\ User(r) = User(p) => r = p
    <3>1. SUFFICES ASSUME NEW p \in Request \ {r}, Holds(p)', User(r) = User(p)
                   PROVE  FALSE
      OBVIOUS
    <3>2. Holds(p) /\ Sound(User(p))
      BY <1>2, <1>4, <3>1, OthersStand
    <3> QED BY <2>1, <3>1, <3>2 DEF Accounts
  <2>3. \A e \in Domain : row'[e] # "none" /\ NameOf[e] = User(r) => Going(e)'
    <3>1. \A e \in Domain : row[e] # "none" /\ NameOf[e] = User(r) => Going(e)
      BY <1>2, <1>4, <2>1 DEF Sound, Accounts
    <3> QED BY <1>3, <1>4, <2>1, <3>1
  <2> QED BY <1>4, <2>1, <2>2, <2>3
<1>5. CASE ~(Useradd(r) /\ q = r)
  <2>1. Holds(q) /\ (~Named(q)' => ~Named(q))
    BY <1>5, Standing, Made DEF Makes
  <2>2. account[User(q)] = "unlocked"
    BY <1>2, <2>1 DEF Accounts
  <2>3. ~(Useradd(r) /\ User(r) = User(q))
    BY <2>2 DEF Useradd, Refused
  <2>4. account'[User(q)] = "unlocked"
    <3>1. SUFFICES ASSUME User(r) = User(q),
                          SetLock(r) \/ Userdel(r) \/ UndoUseradd(r) \/ UndoUser(r)
                   PROVE  FALSE
      BY <1>1, <2>2, <2>3, AccountStays
    <3>2. CASE SetLock(r) \/ Userdel(r)
      <4>1. Place(r, "suspend", 3) \/ Place(r, "unsuspend", 5) \/ Place(r, "delete", 4)
        BY <3>2, Places DEF SetLock, Userdel
      <4>2. Running(r) /\ ~Creates(r)
        BY <3>2, <4>1 DEF SetLock, Userdel, At, Running, Place, Creates
      <4>3. job[r].op = "delete" /\ Left(r) < 4
        BY <1>2, <2>1, <3>1, <4>2, NoHolder
      <4> QED BY <4>1, <4>3 DEF Place
    <3>3. CASE UndoUseradd(r) \/ UndoUser(r)
      <4>1. Holds(r) /\ ~Holds(r)'
        BY <3>3, TakenBack
      <4>2. q = r
        BY <1>2, <2>1, <3>1, <4>1 DEF Accounts
      <4> QED BY <4>1, <4>2
    <3> QED BY <3>1, <3>2, <3>3
  <2>5. \A p \in Request : Holds(p)' /\ User(q) = User(p) => q = p
    <3>1. SUFFICES ASSUME NEW p \in Request, Holds(p)', User(q) = User(p)
                   PROVE  q = p
      OBVIOUS
    <3>2. ~(Useradd(r) /\ p = r)
      BY <2>3, <3>1
    <3>3. Holds(p)
      BY <3>1, <3>2, Standing, Made DEF Makes
    <3> QED BY <1>2, <2>1, <3>1, <3>3 DEF Accounts
  <2>6. \A e \in Domain :
          ~Named(q)' /\ row'[e] # "none" /\ NameOf[e] = User(q) => Going(e)'
    <3>1. SUFFICES ASSUME NEW e \in Domain, ~Named(q)', row'[e] # "none", NameOf[e] = User(q)
                   PROVE  Going(e)'
      OBVIOUS
    <3>2. CASE row[e] # "none"
      BY <1>2, <1>3, <2>1, <3>1, <3>2 DEF Accounts
    <3>3. CASE row[e] = "none"
      <4>1. Named(r) /\ e = Dom(r)
        BY <3>1, <3>3, FirstRow
      <4>2. Holds(r) /\ User(r) = User(q)
        BY <3>1, <4>1, Subject DEF Named
      <4>3. q = r
        BY <1>2, <2>1, <4>2 DEF Accounts
      <4> QED BY <2>1, <3>1, <4>1, <4>3
    <3> QED BY <3>2, <3>3
  <2> QED BY <2>4, <2>5, <2>6
<1> QED BY <1>4, <1>5

LEMMA RowAccountStep ==
  ASSUME Control, Data, Courses, Exclusive, RowsFound, OneOwner, Accounts, Removed,
         NEW r \in Request, Step(r), NEW d \in Domain, row'[d] # "none", Kept(d)'
  PROVE  account'[NameOf[d]] # "none" \/ Going(d)'
<1>1. /\ job' = job /\ (\A p : User(p)' = User(p) /\ Dom(p)' = Dom(p))
      /\ NameOf[d] \in Name /\ Kept(d) /\ User(r) = NameOf[Dom(r)] /\ Dom(r) \in Domain
  BY OtherRequests, Subject, NameAssumption, TornStays DEF startVars, User, Dom
<1>2. CASE row[d] = "none"
  <2>1. Named(r) /\ d = Dom(r) /\ SaveDomain(r)
    BY <1>2, FirstRow
  <2>2. Sound(User(r))
    BY <1>1, <1>2, <2>1 DEF OneOwner, Sound
  <2>3. account[User(r)] = "unlocked" /\ account' = account
    BY <2>1, <2>2 DEF Accounts, Named, SaveDomain, serverVars
  <2> QED BY <1>1, <2>1, <2>3
<1>3. CASE row[d] # "none" /\ Going(d)
  BY <1>3, GoingStays
<1>4. CASE row[d] # "none" /\ ~Going(d)
  <2>1. account[NameOf[d]] # "none" /\ Sound(NameOf[d])
    BY <1>1, <1>4, Speaks DEF Accounts
  <2>2. CASE account'[NameOf[d]] = account[NameOf[d]]
    BY <2>1, <2>2
  <2>3. CASE User(r) = NameOf[d] /\ (SetLock(r) \/ Useradd(r))
    <3>1. account'[NameOf[d]] \in {account[NameOf[d]], "locked", "unlocked"}
      BY <1>1, <2>3 DEF SetLock, Useradd, Data
    <3> QED BY <2>1, <3>1
  <2>4. CASE User(r) = NameOf[d] /\ Userdel(r)
    <3>1. Place(r, "delete", 4) /\ state[r] = "running" /\ Advance(r)
      BY <2>4, Places DEF Userdel, At
    <3>2. row[Dom(r)] # "none"
      BY <3>1 DEF RowsFound, Place, Creates
    <3>3. d = Dom(r)
      BY <1>1, <1>4, <2>4, <3>2 DEF OneOwner
    <3>4. Running(r)' /\ Left(r)' = 3
      BY <3>1, Advanced DEF Place, Running
    <3> QED BY <1>1, <3>1, <3>3, <3>4 DEF Going, Place
  <2>5. CASE User(r) = NameOf[d] /\ (UndoUseradd(r) \/ UndoUser(r))
    <3>1. Holds(r) /\ state'[r] = "failed"
      BY <2>5, TakenBack
    <3>2. CASE Named(r)
      <4>1. d = Dom(r)
        BY <1>4, <2>5, <3>2 DEF OneOwner
      <4> QED BY <3>1, <4>1, TornStays
    <3>3. CASE ~Named(r)
      BY <1>4, <2>1, <2>5, <3>1, <3>3 DEF Accounts
    <3> QED BY <3>2, <3>3
  <2> QED BY <1>1, <2>2, <2>3, <2>4, <2>5, AccountStays
<1> QED BY <1>2, <1>3, <1>4

LEMMA AccountsStep ==
  ASSUME Control, Data, Courses, Exclusive, RowsFound, OneOwner, Accounts, Removed,
         NEW r \in Request, Step(r)
  PROVE  Accounts'
<1>1. \A q : User(q)' = User(q)
  BY OtherRequests DEF startVars, User, Dom
<1>2. \A q \in Request : Holds(q)' /\ Sound(User(q))' =>
       /\ account'[User(q)] = "unlocked"
       /\ \A p \in Request : Holds(p)' /\ User(q) = User(p) => q = p
       /\ \A e \in Domain : ~Named(q)' /\ row'[e] # "none" /\ NameOf[e] = User(q) => Going(e)'
  BY HolderStep
<1>3. \A d \in Domain :
       row'[d] # "none" /\ Kept(d)' => account'[NameOf[d]] # "none" \/ Going(d)'
  BY RowAccountStep
<1> QED BY <1>1, <1>2, <1>3 DEF Accounts

-----------------------------------------------------------------------------
(* Deletions.                                                              *)

\* A step of a handler that is still running afterwards.
LEMMA GoesOn ==
  ASSUME Control, Courses, NEW r \in Request, Step(r), state'[r] = "running"
  PROVE  state[r] = "running" /\ Advance(r) /\ (Plain(r) \/ Makes(r) \/ Files(r) \/ Commit(r))
<1>1. ~Undoing(r) /\ ~Throw(r) /\ ~InsertUserUnaudited(r)
  BY DEF Undoing, UndoUseradd, UndoUser, UndoPool, UndoVhost, UndoFileFails, Rolling,
    Undone, Throw, InsertUserUnaudited, Control
<1>2. Plain(r) => state[r] = "running" /\ Advance(r)
  BY DEF Plain, Pass, Skip, SetLock, SaveUser, Userdel, SaveDomain, DeletePool,
    DeleteVhost, SetLink, ReloadApache, At
<1>3. Makes(r) \/ Files(r) \/ Commit(r) => state[r] = "running" /\ Advance(r)
  BY DEF Makes, Useradd, InsertUser, Files, WritePool, WriteVhost, Commit, At
<1> QED BY <1>1, <1>2, <1>3 DEF Step

LEMMA RemovedStart ==
  ASSUME Control, Data, Courses, Removed, NEW r \in Request, Start(r)
  PROVE  Removed'
<1>1. /\ job' = job /\ UNCHANGED <<dbVars, serverVars>> /\ mixed \subseteq mixed'
      /\ state'[r] = "running" /\ todo'[r] = Steps[job[r].op] /\ (Main(r)' <=> ~Creates(r))
      /\ \A q \in Request \ {r} :
           Left(q)' = Left(q) /\ state'[q] = state[q] /\ (Main(q)' <=> Main(q))
  BY Started
<1>2. \A q : User(q)' = User(q) /\ Dom(q)' = Dom(q)
  BY <1>1 DEF User, Dom
<1>3. Main(r)' => row[Dom(r)] # "deleted"
  BY <1>1 DEF Start, Creates, LiveRow
<1>4. job[r].op = "delete" => Left(r)' = 9
  BY <1>1 DEF Left, Steps, DeleteSteps
<1>5. UNCHANGED <<row, user, links, served>>
  BY <1>1 DEF dbVars, serverVars
<1>6. \A d \in Domain \ mixed' : row'[d] = "deleted" =>
        /\ Down(d)' /\ user'[NameOf[d]] \notin LiveUser
        /\ \A q \in Request : Main(q)' /\ Dom(q) = d => job[q].op = "delete" /\ Left(q)' = 1
  BY <1>1, <1>3, <1>5 DEF Removed, Down
<1>7. \A q \in Request :
        state'[q] = "running" /\ job[q].op = "delete" /\ Dom(q) \notin mixed' => Removing(q)'
  <2>1. job[r].op = "delete" => Removing(r)'
    BY <1>4 DEF Removing
  <2>2. \A q \in Request \ {r} : Removing(q) => Removing(q)'
    BY <1>1, <1>2, <1>5 DEF Removing
  <2> QED BY <1>1, <2>1, <2>2 DEF Removed
<1> QED BY <1>1, <1>2, <1>6, <1>7 DEF Removed

LEMMA DeletedStep ==
  ASSUME Control, Data, Courses, Exclusive, RowsFound, OneOwner, Removed,
         NEW r \in Request, Step(r), NEW d \in Domain \ mixed, row'[d] = "deleted"
  PROVE  /\ Down(d)' /\ user'[NameOf[d]] \notin LiveUser
         /\ \A q \in Request : Main(q)' /\ Dom(q) = d => job[q].op = "delete" /\ Left(q)' = 1
<1>1. Running(r) /\ (\A q \in Request \ {r} : (Main(q)' <=> Main(q)) /\ Left(q)' = Left(q))
  BY OtherRequests, OthersStand
<1>2. CASE row[d] = "deleted" /\ Main(r) /\ Dom(r) = d
  <2>1. Place(r, "delete", 1)
    BY <1>2 DEF Removed, Place
  <2>2. undo[r] = <<>> /\ state[r] = "running"
    BY <1>1, <2>1 DEF Courses, Registered, Place, Running
  <2>3. Head(todo[r]) = "audit"
    BY <2>1, <2>2, DeleteAt DEF Place, DeleteSteps
  <2>4. Pass(r) \/ Throw(r)
    <3>1. \A s : At(r, s) => s = "audit"
      BY <2>3 DEF At
    <3>2. ~Undoing(r)
      BY <2>2 DEF Undoing, UndoUseradd, UndoUser, UndoPool, UndoVhost, UndoFileFails, Rolling
    <3> QED BY <3>1, <3>2 DEF Step, Plain, Skip, SetLock, SaveUser, Userdel, SaveDomain, DeletePool,
      DeleteVhost, SetLink, ReloadApache, Ignored, Makes, Useradd, InsertUser,
      InsertUserUnaudited, Files, WritePool, WriteVhost, Commit
  <2>5. UNCHANGED <<links, served, user>>
    BY <2>4 DEF Pass, Throw, dbVars, serverVars
  <2>6. ~Main(r)'
    <3>1. CASE Pass(r)
      BY <2>1, <2>2, <3>1, Advanced DEF Pass, Place, Main, Running
    <3>2. CASE Throw(r)
      BY <2>2, <3>2 DEF Throw, Control, Main, Running
    <3> QED BY <2>4, <3>1, <3>2
  <2> QED BY <1>1, <1>2, <2>5, <2>6 DEF Removed, Down
<1>3. CASE row[d] = "deleted" /\ ~(Main(r) /\ Dom(r) = d)
  <2>1. (d \in links' <=> d \in links) /\ user'[NameOf[d]] = user[NameOf[d]]
    BY <1>3, Aside
  <2>2. Refreshed(d) /\ Down(d) /\ user[NameOf[d]] \notin LiveUser
    BY <1>3, ServedAfter DEF Removed
  <2>3. ~(Main(r)' /\ Dom(r) = d)
    <3>1. CASE ~Makes(r)
      BY <1>3, <3>1, Standing
    <3>2. CASE Useradd(r)
      BY <3>2, Made DEF Makes
    <3>3. CASE InsertUser(r)
      <4>1. user[User(r)] = "none"
        BY <3>3 DEF InsertUser, Refused
      <4>2. user[NameOf[d]] # "none"
        BY <1>3 DEF OneOwner
      <4> QED BY <4>1, <4>2, Subject
    <3> QED BY <3>1, <3>2, <3>3 DEF Makes
  <2> QED BY <1>1, <1>3, <2>1, <2>2, <2>3 DEF Down, Refreshed, Removed
<1>4. CASE row[d] # "deleted"
  <2>1. SaveDomain(r) /\ d = Dom(r)
    BY <1>4, RowStays
  <2>2. At(r, "deleteDomain")
    <3>1. At(r, "saveVersion") => seen[r].status \in LiveRow
      BY Places DEF RowsFound, Place, Creates, At
    <3> QED BY <1>4, <2>1, <3>1 DEF SaveDomain, Data, LiveRow
  <2>3. Place(r, "delete", 2) /\ state[r] = "running" /\ Advance(r) /\ UNCHANGED <<user, serverVars>>
    BY <2>1, <2>2, Places DEF SaveDomain, At
  <2>4. Removing(r) /\ Left(r) = 2
    BY <2>1, <2>3 DEF Removed, Place
  <2>5. Down(d) /\ user[NameOf[d]] \notin LiveUser
    BY <2>1, <2>4, Subject DEF Removing, Down
  <2>6. Left(r)' = 1 /\ job[r].op = "delete"
    BY <2>3, Advanced DEF Place
  <2>7. \A q \in Request \ {r} : ~(Running(q) /\ Dom(q) = d)
    BY <1>1, <2>1, <2>6 DEF Exclusive, Creates
  <2> QED BY <1>1, <2>1, <2>3, <2>5, <2>6, <2>7 DEF Down, serverVars, Main
<1> QED BY <1>2, <1>3, <1>4

LEMMA RemovingStep ==
  ASSUME Control, Data, Courses, Exclusive, RowsFound, OneOwner, Removed,
         NEW r \in Request, Step(r), NEW q \in Request, state'[q] = "running",
         job[q].op = "delete", Dom(q) \notin mixed
  PROVE  Removing(q)'
<1>1. job' = job /\ (\A p : User(p)' = User(p) /\ Dom(p)' = Dom(p)) /\ Running(r)
      /\ Dom(q) \in Domain /\ User(q) = NameOf[Dom(q)] /\ User(q) \in Name
  BY OtherRequests, Subject DEF startVars, User, Dom
<1>2. CASE q # r
  <2>1. state[q] = "running" /\ Left(q)' = Left(q)
    BY <1>2, OthersStand
  <2>2. Dom(r) # Dom(q)
    BY <1>1, <1>2, <2>1 DEF Exclusive, Running, Creates
  <2>3. row[Dom(q)] # "none" /\ Removing(q)
    BY <2>1 DEF RowsFound, Creates, Removed
  <2>4. /\ row'[Dom(q)] = row[Dom(q)] /\ user'[User(q)] = user[User(q)]
        /\ Dom(q) \in links' <=> Dom(q) \in links
    BY <1>1, <2>2, <2>3, Aside
  <2>5. Refreshed(Dom(q))
    BY <1>1, ServedAfter
  <2>6. PICK d : d = Dom(q) /\ Dom(q)' = d
    BY <1>1
  <2>7. PICK n : n = User(q) /\ User(q)' = n
    BY <1>1
  <2>8. Left(q) \in Nat
    BY <2>1, Ahead
  <2>9. Left(q) < 5 => d \notin links /\ served'[d] = None
    BY <2>3, <2>5, <2>6, <2>8 DEF Removing, Refreshed
  <2> QED BY <2>1, <2>3, <2>4, <2>6, <2>7, <2>9 DEF Removing
<1>3. CASE q = r
  <2>1. state[r] = "running" /\ Advance(r) /\ (Plain(r) \/ Makes(r) \/ Files(r) \/ Commit(r))
    BY <1>3, GoesOn
  <2>2. Removing(r) /\ Left(r) \in 1..9 /\ Left(r)' = Left(r) - 1
    BY <1>3, <2>1, DeleteAt, Advanced DEF Removed
  <2>3. Plain(r)
    BY <1>3, <2>1, Places DEF Makes, Useradd, InsertUser, Files, WritePool, WriteVhost, Commit, Place
  <2>4. CASE Pass(r) \/ Skip(r) \/ SetLock(r) \/ Userdel(r) \/ DeletePool(r)
    <3>1. UNCHANGED <<row, user, links, served>>
      BY <2>4 DEF Pass, Skip, SetLock, Userdel, DeletePool, dbVars, serverVars
    <3>2. \/ Left(r) \in {8, 7, 6, 4, 1}
      BY <1>3, <2>4, Places DEF Pass, Skip, SetLock, Userdel, DeletePool, Ignored, Place
    <3> QED BY <1>1, <1>3, <2>2, <3>1, <3>2 DEF Removing
  <2>5. CASE SaveUser(r)
    <3>1. At(r, "deleteUser") /\ Left(r) = 3
      BY <1>3, <2>5, Places DEF SaveUser, Place
    <3>2. user' = [user EXCEPT ![User(r)] = "deleted"] /\ UNCHANGED <<row, links, served>>
      BY <2>5, <3>1 DEF SaveUser, serverVars, At
    <3>3. user'[User(r)] \notin LiveUser
      BY <1>1, <1>3, <3>2 DEF Data, LiveUser
    <3> QED BY <1>1, <1>3, <2>2, <3>1, <3>2, <3>3 DEF Removing
  <2>6. CASE SaveDomain(r)
    <3>1. At(r, "deleteDomain") /\ Left(r) = 2
      BY <1>3, <2>6, Places DEF SaveDomain, Place
    <3>2. row' = [row EXCEPT ![Dom(r)] = "deleted"] /\ UNCHANGED <<user, links, served>>
      BY <2>6, <3>1 DEF SaveDomain, serverVars, At
    <3>3. row'[Dom(r)] = "deleted"
      BY <1>1, <1>3, <3>2 DEF Data
    <3> QED BY <1>1, <1>3, <2>2, <3>1, <3>2, <3>3 DEF Removing
  <2>7. CASE DeleteVhost(r)
    <3>1. Left(r) = 8
      BY <2>7, Places DEF DeleteVhost, Place
    <3>2. links' = links \ {Dom(r)} /\ UNCHANGED <<row, user, served>>
      BY <2>7 DEF DeleteVhost, dbVars
    <3> QED BY <1>1, <1>3, <2>2, <3>1, <3>2 DEF Removing
  <2>8. CASE SetLink(r)
    <3>1. At(r, "disable") /\ Left(r) = 9
      BY <1>3, <2>8, Places DEF SetLink, Place
    <3>2. links' = links \ {Dom(r)} /\ UNCHANGED <<row, user, served>>
      BY <2>8, <3>1 DEF SetLink, dbVars, At
    <3> QED BY <1>1, <1>3, <2>2, <3>1, <3>2 DEF Removing
  <2>9. CASE ReloadApache(r)
    <3>1. Left(r) = 5
      BY <1>3, <2>9, Places DEF ReloadApache, Place
    <3>2. /\ served' = [d \in Domain |-> IF d \in links THEN vhost[d] ELSE None]
          /\ UNCHANGED <<row, user, links>>
      BY <2>9 DEF ReloadApache, dbVars
    <3>3. served'[Dom(r)] = None
      BY <1>1, <1>3, <2>2, <3>1, <3>2 DEF Removing
    <3> QED BY <1>1, <1>3, <2>2, <3>1, <3>2, <3>3 DEF Removing
  <2> QED BY <2>3, <2>4, <2>5, <2>6, <2>7, <2>8, <2>9 DEF Plain
<1> QED BY <1>2, <1>3

LEMMA RemovedStep ==
  ASSUME Control, Data, Courses, Exclusive, RowsFound, OneOwner, Removed, NEW r \in Request, Step(r)
  PROVE  Removed'
<1>1. job' = job /\ mixed' = mixed /\ (\A q : Dom(q)' = Dom(q))
  BY OtherRequests DEF startVars, Dom
<1>2. \A d \in Domain \ mixed : row'[d] = "deleted" =>
         /\ Down(d)' /\ user'[NameOf[d]] \notin LiveUser
         /\ \A q \in Request : Main(q)' /\ Dom(q) = d => job[q].op = "delete" /\ Left(q)' = 1
  BY DeletedStep
<1>3. \A q \in Request :
        state'[q] = "running" /\ job[q].op = "delete" /\ Dom(q) \notin mixed => Removing(q)'
  BY RemovingStep
<1> QED BY <1>1, <1>2, <1>3 DEF Removed

-----------------------------------------------------------------------------
(* Sites.                                                                  *)

\* A step that leaves a domain as it is, though Apache may load it again.
Same(d) ==
  /\ row'[d] = row[d] /\ version'[d] = version[d] /\ vhost'[d] = vhost[d]
  /\ d \in links' <=> d \in links
  /\ user'[NameOf[d]] = user[NameOf[d]] /\ account'[NameOf[d]] = account[NameOf[d]]
  /\ \A v : <<NameOf[d], v>> \in pools' <=> <<NameOf[d], v>> \in pools
  /\ Refreshed(d)

LEMMA WholeStays ==
  ASSUME NEW d \in Domain, Same(d), Whole(d)
  PROVE  Whole(d)'
<1>1. HasFiles(d)' /\ (Unlocked(d) => Unlocked(d)') /\ (Locked(d) => Locked(d)')
  BY DEF Same, Whole, HasFiles, Unlocked, Locked
<1>2. CASE Suspended(d)
  BY <1>1, <1>2 DEF Same, Whole, Suspended, Down, Refreshed
<1>3. CASE Active(d) /\ served[d] = version[d]
  <2>1. served'[d] = version'[d]
    BY <1>3 DEF Same, Whole, Active, HasFiles, Refreshed
  <2> QED BY <1>1, <1>3, <2>1 DEF Same, Whole, Active
<1> QED BY <1>2, <1>3 DEF Whole

LEMMA DoingStays ==
  ASSUME NEW q \in Request, Dom(q) \in Domain, Same(Dom(q)), Doing(q), User(q) = NameOf[Dom(q)],
         job' = job, seen'[q] = seen[q], Left(q)' = Left(q), Left(q) \in Nat
  PROVE  Doing(q)'
<1>1. PICK d \in Domain : d = Dom(q) /\ Dom(q)' = d /\ Same(d) /\ User(q) = NameOf[d]
                          /\ User(q)' = NameOf[d]
  BY DEF Dom, User
<1>2. /\ Whole(d) => Whole(d)'
      /\ Unlocked(d) => Unlocked(d)'
      /\ Locked(d) => Locked(d)'
      /\ HasFiles(d) => HasFiles(d)'
      /\ Suspended(d) => Suspended(d)'
      /\ Active(d) <=> Active(d)'
  <2>1. Whole(d) => Whole(d)'
    BY <1>1, WholeStays
  <2>2. /\ Unlocked(d) <=> Unlocked(d)'
        /\ Locked(d) <=> Locked(d)'
        /\ HasFiles(d) <=> HasFiles(d)'
    BY <1>1 DEF Same, Unlocked, Locked, HasFiles
  <2>3. Active(d) <=> Active(d)'
    BY <1>1, <2>2 DEF Same, Active
  <2>4. Suspended(d) => Suspended(d)'
    BY <1>1, <2>2 DEF Same, Suspended, Down, Refreshed
  <2> QED BY <2>1, <2>2, <2>3, <2>4
<1>3. CASE job[q].op = "create"
  <2>1. Creating(q)
    BY <1>3 DEF Doing
  <2>2. Left(q) < 3 => Left(q) < 6 /\ Left(q) < 5
    OBVIOUS
  <2>3. Left(q) < 3 => served'[d] = seen[q].version
    BY <1>1, <2>1, <2>2 DEF Same, Creating, Refreshed
  <2>4. Creating(q)'
    BY <1>1, <1>2, <2>1, <2>3 DEF Same, Creating
  <2> QED BY <1>3, <2>4 DEF Doing
<1>4. CASE job[q].op = "update"
  <2>1. Updating(q)
    BY <1>4 DEF Doing
  <2>2. Left(q) < 3 => Left(q) < 5
    OBVIOUS
  <2>3. Left(q) < 3 /\ Active(d) => served'[d] = seen[q].version
    BY <1>1, <2>1, <2>2 DEF Same, Updating, Refreshed, Active
  <2>4. Updating(q)'
    BY <1>1, <1>2, <2>1, <2>3 DEF Same, Updating
  <2> QED BY <1>4, <2>4 DEF Doing
<1>5. CASE job[q].op = "suspend"
  <2>1. Suspending(q)
    BY <1>5 DEF Doing
  <2>2. Left(q) < 4 => Left(q) < 5
    OBVIOUS
  <2>3. Left(q) < 4 => served'[d] = None
    BY <1>1, <2>1, <2>2 DEF Same, Suspending, Refreshed
  <2>4. Suspending(q)'
    BY <1>1, <1>2, <2>1, <2>3 DEF Same, Suspending
  <2> QED BY <1>5, <2>4 DEF Doing
<1>6. CASE job[q].op = "unsuspend"
  <2>1. Unsuspending(q)
    BY <1>6 DEF Doing
  <2>2. Left(q) < 2 => Left(q) < 3
    OBVIOUS
  <2>3. Left(q) < 2 => served'[d] = version'[d]
    BY <1>1, <2>1, <2>2 DEF Same, Unsuspending, Refreshed, HasFiles
  <2>4. Unsuspending(q)'
    BY <1>1, <1>2, <2>1, <2>3 DEF Same, Unsuspending
  <2> QED BY <1>6, <2>4 DEF Doing
<1>7. CASE job[q].op = "delete"
  <2>1. Deleting(q)'
    BY <1>1, <1>2, <1>7 DEF Doing, Deleting
  <2> QED BY <1>7, <2>1 DEF Doing
<1> QED BY <1>3, <1>4, <1>5, <1>6, <1>7 DEF Doing

\* Nothing but the request at work on a domain changes it, or the account of its user.
LEMMA AsideKept ==
  ASSUME Control, Data, Courses, RowsFound, OneOwner, Accounts, NEW r \in Request, Step(r),
         NEW d \in Domain, Kept(d), ~Going(d), ~(Main(r) /\ Dom(r) = d),
         row[d] # "none" \/ (\E q \in Request \ {r} : Named(q) /\ Dom(q) = d)
  PROVE  Same(d)
<1>1. /\ row'[d] = row[d] /\ version'[d] = version[d] /\ vhost'[d] = vhost[d]
      /\ d \in links' <=> d \in links
      /\ user'[NameOf[d]] = user[NameOf[d]]
      /\ \A v : <<NameOf[d], v>> \in pools' <=> <<NameOf[d], v>> \in pools
      /\ \/ account'[NameOf[d]] = account[NameOf[d]]
         \/ User(r) = NameOf[d] /\ ~Main(r) /\ (Useradd(r) \/ UndoUseradd(r))
  BY Aside
<1>2. Refreshed(d)
  BY ServedAfter
<1>3. Sound(NameOf[d])
  <2>1. CASE row[d] # "none"
    BY <2>1, Speaks
  <2>2. CASE \E q \in Request \ {r} : Named(q) /\ Dom(q) = d
    <3>1. PICK q \in Request \ {r} : Named(q) /\ Dom(q) = d /\ User(q) = NameOf[d]
      BY <2>2, Subject
    <3>2. \A e \in Domain : row[e] # "none" /\ NameOf[e] = NameOf[d] => e = d
      BY <3>1 DEF OneOwner
    <3> QED BY <3>2 DEF Sound
  <2> QED BY <2>1, <2>2
<1>4. CASE User(r) = NameOf[d] /\ Useradd(r)
  <2>1. account[NameOf[d]] = "none"
    BY <1>4 DEF Useradd, Refused
  <2>2. CASE row[d] # "none"
    BY <2>1, <2>2 DEF Accounts
  <2>3. CASE \E q \in Request \ {r} : Named(q) /\ Dom(q) = d
    <3>1. PICK q \in Request \ {r} : Named(q) /\ Dom(q) = d /\ User(q) = NameOf[d]
      BY <2>3, Subject
    <3> QED BY <1>3, <2>1, <3>1 DEF Accounts, Named
  <2> QED BY <2>2, <2>3
<1>5. CASE User(r) = NameOf[d] /\ UndoUseradd(r)
  <2>1. Holds(r) /\ ~Named(r)
    <3>1. ~UndoUser(r)
      BY <1>5 DEF UndoUseradd, UndoUser, Rolling
    <3> QED BY <1>5, <3>1, TakenBack
  <2>2. CASE row[d] # "none"
    BY <1>3, <1>5, <2>1, <2>2 DEF Accounts
  <2>3. CASE \E q \in Request \ {r} : Named(q) /\ Dom(q) = d
    <3>1. PICK q \in Request \ {r} : Named(q) /\ Dom(q) = d /\ User(q) = NameOf[d]
      BY <2>3, Subject
    <3> QED BY <1>3, <1>5, <2>1, <3>1 DEF Accounts, Named
  <2> QED BY <2>2, <2>3
<1> QED BY <1>1, <1>2, <1>4, <1>5 DEF Same

\* The action of a handler is that of the step it is at.
LEMMA Acts ==
  ASSUME NEW r \in Request, Plain(r) \/ Makes(r) \/ Files(r) \/ Commit(r), ~Skip(r)
  PROVE  /\ At(r, "reloadFpm") \/ At(r, "configtest") \/ At(r, "audit") => Pass(r)
         /\ At(r, "commit") => Commit(r)
         /\ At(r, "lock") \/ At(r, "unlock") => SetLock(r)
         /\ At(r, "saveLocked") \/ At(r, "saveUnlocked") => SaveUser(r)
         /\ At(r, "insertDomain") \/ At(r, "saveVersion") => SaveDomain(r)
         /\ At(r, "activate") \/ At(r, "saveSuspended") => SaveDomain(r)
         /\ At(r, "writePool") => WritePool(r)
         /\ At(r, "writeVhost") => WriteVhost(r)
         /\ At(r, "enable") \/ At(r, "disable") => SetLink(r)
         /\ At(r, "reloadApache") => ReloadApache(r)
<1>1. CASE Pass(r) \/ Commit(r) \/ Makes(r)
  BY <1>1 DEF Pass, Commit, Makes, Useradd, InsertUser, At
<1>2. CASE SetLock(r) \/ SaveUser(r) \/ Userdel(r)
  BY <1>2 DEF SetLock, SaveUser, Userdel, At
<1>3. CASE SaveDomain(r) \/ DeletePool(r) \/ DeleteVhost(r)
  BY <1>3 DEF SaveDomain, DeletePool, DeleteVhost, At
<1>4. CASE SetLink(r) \/ ReloadApache(r) \/ Files(r)
  BY <1>4 DEF SetLink, ReloadApache, Files, WritePool, WriteVhost, At
<1> QED BY <1>1, <1>2, <1>3, <1>4 DEF Plain

\* What the steps of a handler write, each at one place.
LEMMA Writes ==
  ASSUME Control, Data, NEW r \in Request, NEW d, d = Dom(r), NEW n, n = User(r)
  PROVE  /\ Pass(r) \/ Commit(r) => UNCHANGED <<row, version, user, account, pools, vhost, links, served>>
         /\ SaveDomain(r) =>
              /\ UNCHANGED <<user, account, pools, vhost, links, served>>
              /\ ~At(r, "deleteDomain") => version'[d] = seen[r].version
              /\ At(r, "insertDomain")  => row'[d] = "pending"
              /\ At(r, "saveVersion")   => row'[d] = seen[r].status
              /\ At(r, "activate")      => row'[d] = "active"
              /\ At(r, "saveSuspended") => row'[d] = "suspended"
         /\ WritePool(r) =>
              /\ UNCHANGED <<row, version, user, account, vhost, links, served>>
              /\ pools' = pools \cup {<<n, seen[r].version>>}
         /\ WriteVhost(r) =>
              /\ UNCHANGED <<row, version, user, account, pools, links, served>>
              /\ vhost'[d] = seen[r].version
         /\ SetLink(r) =>
              /\ UNCHANGED <<row, version, user, account, pools, vhost, served>>
              /\ At(r, "enable")  => d \in links'
              /\ At(r, "disable") => d \notin links'
         /\ ReloadApache(r) =>
              /\ UNCHANGED <<row, version, user, account, pools, vhost, links>>
              /\ served'[d] = IF d \in links THEN vhost[d] ELSE None
         /\ SetLock(r) =>
              /\ UNCHANGED <<row, version, user, pools, vhost, links, served>>
              /\ At(r, "lock") /\ user[n] = "live" /\ account[n] = "unlocked" => account'[n] = "locked"
              /\ At(r, "lock") /\ user[n] # "live" => account'[n] = account[n]
              /\ At(r, "unlock") /\ user[n] = "suspended" /\ account[n] = "locked"
                   => account'[n] = "unlocked"
              /\ At(r, "unlock") /\ user[n] # "suspended" => account'[n] = account[n]
         /\ SaveUser(r) =>
              /\ UNCHANGED <<row, version, account, pools, vhost, links, served>>
              /\ At(r, "saveLocked")   => user'[n] = "suspended"
              /\ At(r, "saveUnlocked") => user'[n] = "live"
<1>1. d \in Domain /\ n \in Name /\ n = NameOf[d] /\ seen[r].version \in Version
  BY Subject
<1>2. Pass(r) \/ Commit(r) => UNCHANGED <<row, version, user, account, pools, vhost, links, served>>
  BY DEF Pass, Commit, dbVars, serverVars
<1>3. ASSUME SaveDomain(r)
      PROVE  /\ UNCHANGED <<user, account, pools, vhost, links, served>>
             /\ ~At(r, "deleteDomain") => version'[d] = seen[r].version
             /\ At(r, "insertDomain")  => row'[d] = "pending"
             /\ At(r, "saveVersion")   => row'[d] = seen[r].status
             /\ At(r, "activate")      => row'[d] = "active"
             /\ At(r, "saveSuspended") => row'[d] = "suspended"
  BY <1>1, <1>3 DEF SaveDomain, serverVars, Data, At
<1>4. WritePool(r) =>
              /\ UNCHANGED <<row, version, user, account, vhost, links, served>>
              /\ pools' = pools \cup {<<n, seen[r].version>>}
  BY DEF WritePool, dbVars
<1>5. WriteVhost(r) =>
              /\ UNCHANGED <<row, version, user, account, pools, links, served>>
              /\ vhost'[d] = seen[r].version
  BY <1>1 DEF WriteVhost, dbVars, Data
<1>6. ASSUME SetLink(r)
      PROVE  /\ UNCHANGED <<row, version, user, account, pools, vhost, served>>
             /\ At(r, "enable")  => d \in links'
             /\ At(r, "disable") => d \notin links'
  BY <1>6 DEF SetLink, dbVars, At
<1>7. ReloadApache(r) =>
              /\ UNCHANGED <<row, version, user, account, pools, vhost, links>>
              /\ served'[d] = IF d \in links THEN vhost[d] ELSE None
  BY <1>1 DEF ReloadApache, dbVars
<1>8. ASSUME SetLock(r)
      PROVE  /\ UNCHANGED <<row, version, user, pools, vhost, links, served>>
             /\ At(r, "lock") /\ user[n] = "live" /\ account[n] = "unlocked" => account'[n] = "locked"
             /\ At(r, "lock") /\ user[n] # "live" => account'[n] = account[n]
             /\ At(r, "unlock") /\ user[n] = "suspended" /\ account[n] = "locked"
                  => account'[n] = "unlocked"
             /\ At(r, "unlock") /\ user[n] # "suspended" => account'[n] = account[n]
  <2>1. At(r, "lock") => account' = IF user[n] = "live" /\ account[n] # "none"
                                    THEN [account EXCEPT ![n] = "locked"] ELSE account
    BY <1>8 DEF SetLock, At
  <2>2. At(r, "unlock") => account' = IF user[n] = "suspended" /\ account[n] # "none"
                                      THEN [account EXCEPT ![n] = "unlocked"] ELSE account
    BY <1>8 DEF SetLock, At
  <2>3. UNCHANGED <<row, version, user, pools, vhost, links, served>>
    BY <1>8 DEF SetLock, dbVars
  <2> QED BY <1>1, <2>1, <2>2, <2>3 DEF Data
<1>9. ASSUME SaveUser(r)
      PROVE  /\ UNCHANGED <<row, version, account, pools, vhost, links, served>>
             /\ At(r, "saveLocked")   => user'[n] = "suspended"
             /\ At(r, "saveUnlocked") => user'[n] = "live"
  BY <1>1, <1>9 DEF SaveUser, serverVars, Data, At
<1> QED BY <1>2, <1>3, <1>4, <1>5, <1>6, <1>7, <1>8, <1>9

\* The handler of r goes on or has come to its end, and no command failed unnoticed.
Moves(r) == /\ state[r] = "running" /\ Advance(r)
            /\ Plain(r) \/ Makes(r) \/ Files(r) \/ Commit(r)
            /\ ~Skip(r)

LEMMA CreatingStep ==
  ASSUME Control, Data, Courses, NEW r \in Request, Step(r), Moves(r), Creates(r), Named(r), Creating(r)
  PROVE  /\ Left(r) > 1 => Creating(r)'
         /\ Left(r) = 1 => Whole(Dom(r))'
<1>1. PICK d \in Domain : d = Dom(r) /\ Dom(r)' = d
  BY Subject, OtherRequests DEF startVars, Dom
<1>2. PICK n \in Name : n = User(r) /\ User(r)' = n /\ n = NameOf[d]
  BY <1>1, Subject, OtherRequests DEF startVars, User, Dom
<1>3. PICK v \in Version : v = seen[r].version /\ seen'[r].version = v
  BY Subject, OtherRequests DEF startVars
<1>4. PICK k \in 1..9 : k = Left(r) /\ Left(r)' = k - 1 /\ Head(todo[r]) = CreateSteps[15 - k]
  <2>1. Left(r) \in 1..14 /\ Head(todo[r]) = CreateSteps[15 - Left(r)] /\ Left(r)' = Left(r) - 1
    BY CreateAt, Advanced DEF Moves, Creates
  <2>2. ~(Left(r) > 10) /\ Left(r) # 10
    BY DEF Named, Holds, Courses, Registered, Moves
  <2> QED BY <2>1, <2>2
<1>5. At(r, CreateSteps[15 - k])
  BY <1>4 DEF At, Moves, Courses, Course
<1>6. CASE k = 9
  <2>1. SaveDomain(r) /\ At(r, "insertDomain")
    BY <1>5, <1>6, Acts DEF CreateSteps, Moves
  <2>2. /\ UNCHANGED <<user, account, pools, vhost, links, served>>
        /\ version'[d] = v /\ row'[d] = "pending"
    BY <1>1, <1>3, <2>1, Writes DEF At
  <2> QED BY <1>1, <1>2, <1>3, <1>4, <1>6, <2>2 DEF Creating, Unlocked
<1>7. CASE k = 8
  <2>1. WritePool(r)
    BY <1>5, <1>7, Acts DEF CreateSteps, Moves
  <2>2. /\ UNCHANGED <<row, version, user, account, vhost, links, served>>
        /\ pools' = pools \cup {<<n, v>>}
    BY <1>2, <1>3, <2>1, Writes
  <2> QED BY <1>1, <1>2, <1>3, <1>4, <1>7, <2>2 DEF Creating, Unlocked
<1>8. CASE k \in {7, 4, 1}
  <2>1. Pass(r)
    BY <1>5, <1>8, Acts DEF CreateSteps, Moves
  <2>2. UNCHANGED <<row, version, user, account, pools, vhost, links, served>>
    BY <2>1, Writes
  <2>3. k = 1 => Whole(d)'
    BY <1>1, <1>2, <1>3, <1>4, <2>2 DEF Creating, Unlocked, Whole, HasFiles, Active
  <2> QED BY <1>1, <1>2, <1>3, <1>4, <1>8, <2>2, <2>3 DEF Creating, Unlocked
<1>9. CASE k = 6
  <2>1. WriteVhost(r)
    BY <1>5, <1>9, Acts DEF CreateSteps, Moves
  <2>2. /\ UNCHANGED <<row, version, user, account, pools, links, served>>
        /\ vhost'[d] = v
    BY <1>1, <1>3, <2>1, Writes
  <2> QED BY <1>1, <1>2, <1>3, <1>4, <1>9, <2>2 DEF Creating, Unlocked
<1>10. CASE k = 5
  <2>1. SetLink(r) /\ At(r, "enable")
    BY <1>5, <1>10, Acts DEF CreateSteps, Moves
  <2>2. /\ UNCHANGED <<row, version, user, account, pools, vhost, served>>
        /\ d \in links'
    BY <1>1, <2>1, Writes
  <2> QED BY <1>1, <1>2, <1>3, <1>4, <1>10, <2>2 DEF Creating, Unlocked
<1>11. CASE k = 3
  <2>1. ReloadApache(r)
    BY <1>5, <1>11, Acts DEF CreateSteps, Moves
  <2>2. /\ UNCHANGED <<row, version, user, account, pools, vhost, links>>
        /\ served'[d] = IF d \in links THEN vhost[d] ELSE None
    BY <1>1, <2>1, Writes
  <2> QED BY <1>1, <1>2, <1>3, <1>4, <1>11, <2>2 DEF Creating, Unlocked
<1>12. CASE k = 2
  <2>1. SaveDomain(r) /\ At(r, "activate")
    BY <1>5, <1>12, Acts DEF CreateSteps, Moves
  <2>2. /\ UNCHANGED <<user, account, pools, vhost, links, served>>
        /\ version'[d] = v /\ row'[d] = "active"
    BY <1>1, <1>3, <2>1, Writes DEF At
  <2> QED BY <1>1, <1>2, <1>3, <1>4, <1>12, <2>2 DEF Creating, Unlocked
<1> QED BY <1>4, <1>6, <1>7, <1>8, <1>9, <1>10, <1>11, <1>12

LEMMA UpdatingStep ==
  ASSUME Control, Data, Courses, NEW r \in Request, Step(r), Moves(r), job[r].op = "update", Updating(r)
  PROVE  /\ Left(r) > 1 => Updating(r)'
         /\ Left(r) = 1 => Whole(Dom(r))'
<1>1. PICK d \in Domain : d = Dom(r) /\ Dom(r)' = d
  BY Subject, OtherRequests DEF startVars, Dom
<1>2. PICK n \in Name : n = User(r) /\ User(r)' = n /\ n = NameOf[d]
  BY <1>1, Subject, OtherRequests DEF startVars, User, Dom
<1>3. PICK v \in Version : v = seen[r].version /\ seen'[r] = seen[r]
  BY Subject, OtherRequests DEF startVars
<1>4. PICK k \in 1..9 : k = Left(r) /\ Left(r)' = k - 1 /\ Head(todo[r]) = UpdateSteps[10 - k]
  BY UpdateAt, Advanced DEF Moves
<1>5. At(r, UpdateSteps[10 - k])
  BY <1>4 DEF At, Moves, Courses, Course
<1>6. None # v
  BY VersionAssumption
<1>7. CASE k = 9
  <2>1. SaveDomain(r) /\ At(r, "saveVersion")
    BY <1>5, <1>7, Acts DEF UpdateSteps, Moves
  <2>2. /\ UNCHANGED <<user, account, pools, vhost, links, served>>
        /\ version'[d] = v /\ row'[d] = row[d]
    BY <1>1, <1>3, <2>1, Writes DEF At, Updating
  <2>3. (Active(d) => Active(d)') /\ (Suspended(d) => Suspended(d)')
    BY <2>2 DEF Active, Suspended, Unlocked, Locked, Down
  <2> QED BY <1>1, <1>2, <1>3, <1>4, <1>7, <2>2, <2>3 DEF Updating
<1>8. CASE k = 8
  <2>1. WritePool(r)
    BY <1>5, <1>8, Acts DEF UpdateSteps, Moves
  <2>2. /\ UNCHANGED <<row, version, user, account, vhost, links, served>>
        /\ pools' = pools \cup {<<n, v>>}
    BY <1>2, <1>3, <2>1, Writes
  <2>3. (Active(d) => Active(d)') /\ (Suspended(d) => Suspended(d)')
    BY <2>2 DEF Active, Suspended, Unlocked, Locked, Down
  <2> QED BY <1>1, <1>2, <1>3, <1>4, <1>8, <2>2, <2>3 DEF Updating
<1>9. CASE k \in {7, 6, 4, 2, 1}
  <2>1. Pass(r) \/ Commit(r)
    BY <1>5, <1>9, Acts DEF UpdateSteps, Moves
  <2>2. UNCHANGED <<row, version, user, account, pools, vhost, links, served>>
    BY <2>1, Writes
  <2>3. (Active(d) <=> Active(d)') /\ (Suspended(d) <=> Suspended(d)')
    BY <2>2 DEF Active, Suspended, Unlocked, Locked, Down
  <2>4. k = 1 => Whole(d)'
    BY <1>1, <1>2, <1>3, <1>4, <2>2, <2>3 DEF Updating, Whole, HasFiles
  <2> QED BY <1>1, <1>2, <1>3, <1>4, <1>9, <2>2, <2>3, <2>4 DEF Updating
<1>10. CASE k = 5
  <2>1. WriteVhost(r)
    BY <1>5, <1>10, Acts DEF UpdateSteps, Moves
  <2>2. /\ UNCHANGED <<row, version, user, account, pools, links, served>>
        /\ vhost'[d] = v
    BY <1>1, <1>3, <2>1, Writes
  <2>3. (Active(d) => Active(d)') /\ (Suspended(d) => Suspended(d)')
    BY <2>2 DEF Active, Suspended, Unlocked, Locked, Down
  <2> QED BY <1>1, <1>2, <1>3, <1>4, <1>10, <2>2, <2>3 DEF Updating
<1>11. CASE k = 3
  <2>1. ReloadApache(r)
    BY <1>5, <1>11, Acts DEF UpdateSteps, Moves
  <2>2. /\ UNCHANGED <<row, version, user, account, pools, vhost, links>>
        /\ served'[d] = IF d \in links THEN vhost[d] ELSE None
    BY <1>1, <2>1, Writes
  <2>3. (Active(d) => Active(d)') /\ (Suspended(d) => Suspended(d)')
    BY <2>2 DEF Active, Suspended, Unlocked, Locked, Down
  <2>4. Active(d)' => served'[d] = v
    BY <1>1, <1>3, <1>4, <1>11, <2>2 DEF Active, Updating
  <2> QED BY <1>1, <1>2, <1>3, <1>4, <1>11, <2>2, <2>3, <2>4 DEF Updating
<1> QED BY <1>1, <1>4, <1>7, <1>8, <1>9, <1>10, <1>11

LEMMA SuspendingStep ==
  ASSUME Control, Data, Courses, NEW r \in Request, Step(r), Moves(r), job[r].op = "suspend", Suspending(r)
  PROVE  /\ Left(r) > 1 => Suspending(r)'
         /\ Left(r) = 1 => Whole(Dom(r))'
<1>1. PICK d \in Domain : d = Dom(r) /\ Dom(r)' = d
  BY Subject, OtherRequests DEF startVars, Dom
<1>2. PICK n \in Name : n = User(r) /\ User(r)' = n /\ n = NameOf[d]
  BY <1>1, Subject, OtherRequests DEF startVars, User, Dom
<1>3. PICK v \in Version : v = seen[r].version /\ seen'[r].version = v
  BY Subject, OtherRequests DEF startVars
<1>4. PICK k \in 1..6 : k = Left(r) /\ Left(r)' = k - 1 /\ Head(todo[r]) = SuspendSteps[7 - k]
  BY SuspendAt, Advanced DEF Moves
<1>5. At(r, SuspendSteps[7 - k])
  BY <1>4 DEF At, Moves, Courses, Course
<1>6. CASE k = 6
  <2>1. Pass(r)
    BY <1>5, <1>6, Acts DEF SuspendSteps, Moves
  <2>2. UNCHANGED <<row, version, user, account, pools, vhost, links, served>>
    BY <2>1, Writes
  <2>3. (Whole(d) => Whole(d)') /\ (HasFiles(d) => HasFiles(d)')
    BY <2>2 DEF Whole, HasFiles, Active, Suspended, Unlocked, Locked, Down
  <2>4. Unlocked(d)' \/ Locked(d)'
    BY <1>1, <1>4, <1>6, <2>2 DEF Suspending, Unlocked, Locked
  <2> QED BY <1>1, <1>2, <1>3, <1>4, <1>6, <2>2, <2>3, <2>4 DEF Suspending
<1>7. CASE k = 5
  <2>1. SetLink(r) /\ At(r, "disable")
    BY <1>5, <1>7, Acts DEF SuspendSteps, Moves
  <2>2. /\ UNCHANGED <<row, version, user, account, pools, vhost, served>>
        /\ d \notin links'
    BY <1>1, <2>1, Writes
  <2>3. HasFiles(d) => HasFiles(d)'
    BY <2>2 DEF HasFiles
  <2>4. Unlocked(d)' \/ Locked(d)'
    BY <1>1, <1>4, <1>7, <2>2 DEF Suspending, Unlocked, Locked
  <2> QED BY <1>1, <1>2, <1>3, <1>4, <1>7, <2>2, <2>3, <2>4 DEF Suspending
<1>8. CASE k = 4
  <2>1. ReloadApache(r)
    BY <1>5, <1>8, Acts DEF SuspendSteps, Moves
  <2>2. /\ UNCHANGED <<row, version, user, account, pools, vhost, links>>
        /\ served'[d] = IF d \in links THEN vhost[d] ELSE None
    BY <1>1, <2>1, Writes
  <2>3. HasFiles(d) => HasFiles(d)'
    BY <2>2 DEF HasFiles
  <2>4. Unlocked(d)' \/ Locked(d)'
    BY <1>1, <1>4, <1>8, <2>2 DEF Suspending, Unlocked, Locked
  <2> QED BY <1>1, <1>2, <1>3, <1>4, <1>8, <2>2, <2>3, <2>4 DEF Suspending
<1>9. CASE k = 3
  <2>1. SetLock(r) /\ At(r, "lock")
    BY <1>5, <1>9, Acts DEF SuspendSteps, Moves
  <2>2. UNCHANGED <<row, version, user, pools, vhost, links, served>>
    BY <2>1, Writes
  <2>3. account'[n] = "locked"
    <3>1. \/ user[n] = "live" /\ account[n] = "unlocked"
          \/ user[n] = "suspended" /\ account[n] = "locked"
      BY <1>1, <1>2, <1>4, <1>9 DEF Suspending, Unlocked, Locked
    <3>2. n = User(r) /\ d = Dom(r)
      BY <1>1, <1>2
    <3>3. SetLock(r) =>
            /\ At(r, "lock") /\ user[n] = "live" /\ account[n] = "unlocked" => account'[n] = "locked"
            /\ At(r, "lock") /\ user[n] # "live" => account'[n] = account[n]
            /\ At(r, "unlock") /\ user[n] = "suspended" /\ account[n] = "locked"
                 => account'[n] = "unlocked"
            /\ At(r, "unlock") /\ user[n] # "suspended" => account'[n] = account[n]
      BY <3>2, Writes
    <3> QED BY <2>1, <3>1, <3>3
  <2>4. HasFiles(d) => HasFiles(d)'
    BY <2>2 DEF HasFiles
  <2> QED BY <1>1, <1>2, <1>3, <1>4, <1>9, <2>2, <2>3, <2>4 DEF Suspending
<1>10. CASE k = 2
  <2>1. SaveUser(r) /\ At(r, "saveLocked")
    BY <1>5, <1>10, Acts DEF SuspendSteps, Moves
  <2>2. UNCHANGED <<row, version, account, pools, vhost, links, served>> /\ user'[n] = "suspended"
    <3>1. n = User(r) /\ d = Dom(r)
      BY <1>1, <1>2
    <3>2. SaveUser(r) =>
            /\ UNCHANGED <<row, version, account, pools, vhost, links, served>>
            /\ At(r, "saveLocked") => user'[n] = "suspended"
      BY <3>1, Writes
    <3> QED BY <2>1, <3>2
  <2>3. HasFiles(d) => HasFiles(d)'
    BY <2>2 DEF HasFiles
  <2> QED BY <1>1, <1>2, <1>3, <1>4, <1>10, <2>2, <2>3 DEF Suspending
<1>11. CASE k = 1
  <2>1. SaveDomain(r) /\ At(r, "saveSuspended")
    BY <1>5, <1>11, Acts DEF SuspendSteps, Moves
  <2>2. /\ UNCHANGED <<user, account, pools, vhost, links, served>>
        /\ version'[d] = version[d] /\ row'[d] = "suspended"
    BY <1>1, <1>3, <2>1, Writes DEF At, Suspending
  <2>3. Suspended(d)'
    BY <1>1, <1>2, <1>4, <1>11, <2>2 DEF Suspending, Suspended, Locked, Down
  <2>4. HasFiles(d)'
    BY <1>1, <2>2 DEF Suspending, HasFiles
  <2> QED BY <1>1, <1>4, <1>11, <2>3, <2>4 DEF Whole
<1> QED BY <1>1, <1>4, <1>6, <1>7, <1>8, <1>9, <1>10, <1>11

LEMMA UnsuspendingStep ==
  ASSUME Control, Data, Courses, NEW r \in Request, Step(r), Moves(r), job[r].op = "unsuspend",
         Unsuspending(r)
  PROVE  /\ Left(r) > 1 => Unsuspending(r)'
         /\ Left(r) = 1 => Whole(Dom(r))'
<1>1. PICK d \in Domain : d = Dom(r) /\ Dom(r)' = d
  BY Subject, OtherRequests DEF startVars, Dom
<1>2. PICK n \in Name : n = User(r) /\ User(r)' = n /\ n = NameOf[d]
  BY <1>1, Subject, OtherRequests DEF startVars, User, Dom
<1>3. PICK v \in Version : v = seen[r].version /\ seen'[r].version = v
  BY Subject, OtherRequests DEF startVars
<1>4. PICK k \in 1..6 : k = Left(r) /\ Left(r)' = k - 1 /\ Head(todo[r]) = UnsuspendSteps[7 - k]
  BY UnsuspendAt, Advanced DEF Moves
<1>5. At(r, UnsuspendSteps[7 - k])
  BY <1>4 DEF At, Moves, Courses, Course
<1>6. CASE k = 6
  <2>1. Pass(r)
    BY <1>5, <1>6, Acts DEF UnsuspendSteps, Moves
  <2>2. UNCHANGED <<row, version, user, account, pools, vhost, links, served>>
    BY <2>1, Writes
  <2>3. (Whole(d) => Whole(d)') /\ (HasFiles(d) => HasFiles(d)')
    BY <2>2 DEF Whole, HasFiles, Active, Suspended, Unlocked, Locked, Down
  <2> QED BY <1>1, <1>2, <1>3, <1>4, <1>6, <2>2, <2>3 DEF Unsuspending
<1>7. CASE k = 5
  <2>1. SetLock(r) /\ At(r, "unlock")
    BY <1>5, <1>7, Acts DEF UnsuspendSteps, Moves
  <2>2. UNCHANGED <<row, version, user, pools, vhost, links, served>>
    BY <2>1, Writes
  <2>3. account'[n] = "unlocked"
    <3>1. \/ user[n] = "live" /\ account[n] = "unlocked"
          \/ user[n] = "suspended" /\ account[n] = "locked"
      BY <1>1, <1>2, <1>4, <1>7 DEF Unsuspending, Whole, Active, Suspended, Unlocked, Locked
    <3>2. n = User(r) /\ d = Dom(r)
      BY <1>1, <1>2
    <3>3. SetLock(r) =>
            /\ At(r, "lock") /\ user[n] = "live" /\ account[n] = "unlocked" => account'[n] = "locked"
            /\ At(r, "lock") /\ user[n] # "live" => account'[n] = account[n]
            /\ At(r, "unlock") /\ user[n] = "suspended" /\ account[n] = "locked"
                 => account'[n] = "unlocked"
            /\ At(r, "unlock") /\ user[n] # "suspended" => account'[n] = account[n]
      BY <3>2, Writes
    <3> QED BY <2>1, <3>1, <3>3
  <2>4. HasFiles(d) => HasFiles(d)'
    BY <2>2 DEF HasFiles
  <2> QED BY <1>1, <1>2, <1>3, <1>4, <1>7, <2>2, <2>3, <2>4 DEF Unsuspending
<1>8. CASE k = 4
  <2>1. SaveUser(r) /\ At(r, "saveUnlocked")
    BY <1>5, <1>8, Acts DEF UnsuspendSteps, Moves
  <2>2. /\ UNCHANGED <<row, version, account, pools, vhost, links, served>>
        /\ user'[n] = "live"
    BY <1>1, <1>2, <2>1, Writes
  <2>3. HasFiles(d) => HasFiles(d)'
    BY <2>2 DEF HasFiles
  <2> QED BY <1>1, <1>2, <1>3, <1>4, <1>8, <2>2, <2>3 DEF Unsuspending
<1>9. CASE k = 3
  <2>1. SetLink(r) /\ At(r, "enable")
    BY <1>5, <1>9, Acts DEF UnsuspendSteps, Moves
  <2>2. /\ UNCHANGED <<row, version, user, account, pools, vhost, served>>
        /\ d \in links'
    BY <1>1, <2>1, Writes
  <2>3. HasFiles(d) => HasFiles(d)'
    BY <2>2 DEF HasFiles
  <2> QED BY <1>1, <1>2, <1>3, <1>4, <1>9, <2>2, <2>3 DEF Unsuspending
<1>10. CASE k = 2
  <2>1. ReloadApache(r)
    BY <1>5, <1>10, Acts DEF UnsuspendSteps, Moves
  <2>2. /\ UNCHANGED <<row, version, user, account, pools, vhost, links>>
        /\ served'[d] = IF d \in links THEN vhost[d] ELSE None
    BY <1>1, <2>1, Writes
  <2>3. HasFiles(d)' /\ served'[d] = version'[d]
    BY <1>1, <1>4, <1>10, <2>2 DEF HasFiles, Unsuspending
  <2> QED BY <1>1, <1>2, <1>3, <1>4, <1>10, <2>2, <2>3 DEF Unsuspending
<1>11. CASE k = 1
  <2>1. SaveDomain(r) /\ At(r, "activate")
    BY <1>5, <1>11, Acts DEF UnsuspendSteps, Moves
  <2>2. /\ UNCHANGED <<user, account, pools, vhost, links, served>>
        /\ version'[d] = version[d] /\ row'[d] = "active"
    BY <1>1, <1>3, <2>1, Writes DEF At, Unsuspending
  <2>3. Active(d)' /\ served'[d] = version'[d]
    BY <1>1, <1>2, <1>4, <1>11, <2>2 DEF Unsuspending, Active, Unlocked
  <2>4. HasFiles(d)'
    BY <1>1, <2>2 DEF Unsuspending, HasFiles
  <2> QED BY <1>1, <1>4, <1>11, <2>3, <2>4 DEF Whole
<1> QED BY <1>1, <1>4, <1>6, <1>7, <1>8, <1>9, <1>10, <1>11

LEMMA SitesStart ==
  ASSUME Control, Data, Courses, Sites, NEW r \in Request, Start(r)
  PROVE  Sites'
<1>1. /\ job' = job /\ UNCHANGED <<dbVars, serverVars>> /\ mixed \subseteq mixed'
      /\ state'[r] = "running" /\ todo'[r] = Steps[job[r].op] /\ (Main(r)' <=> ~Creates(r))
      /\ ~Main(r)
      /\ \A q \in Request \ {r} :
           /\ Left(q)' = Left(q) /\ state'[q] = state[q] /\ seen'[q] = seen[q]
           /\ Main(q)' <=> Main(q)
      /\ \A d : Kept(d)' => Kept(d)
  BY Started
<1>2. \A q : Dom(q)' = Dom(q)
  BY <1>1 DEF Dom
<1>3. UNCHANGED <<row, version, user, account, pools, vhost, links, served>>
  BY <1>1 DEF dbVars, serverVars
<1>4. SUFFICES ASSUME NEW d \in Domain, Kept(d)'
               PROVE  /\ \/ row'[d] \in {"none", "deleted"} \/ Whole(d)'
                         \/ \E q \in Request : Main(q)' /\ Dom(q) = d
                      /\ \A q \in Request : Main(q)' /\ Dom(q) = d /\ state'[q] = "running"
                           => Doing(q)'
  BY <1>2 DEF Sites
<1>5. Kept(d) /\ Same(d)
  BY <1>1, <1>3, <1>4 DEF Same, Refreshed
<1>6. \/ row'[d] \in {"none", "deleted"} \/ Whole(d)'
      \/ \E q \in Request : Main(q)' /\ Dom(q) = d
  <2>1. \/ row[d] \in {"none", "deleted"} \/ Whole(d)
        \/ \E q \in Request : Main(q) /\ Dom(q) = d
    BY <1>5 DEF Sites
  <2>2. Whole(d) => Whole(d)'
    BY <1>5, WholeStays
  <2> QED BY <1>1, <1>3, <2>1, <2>2
<1>7. ASSUME NEW q \in Request \ {r}, Main(q)', Dom(q) = d, state'[q] = "running"
      PROVE  Doing(q)'
  <2>1. Main(q) /\ state[q] = "running" /\ Doing(q)
    BY <1>1, <1>5, <1>7 DEF Sites
  <2>2. Left(q) \in Nat
    BY <2>1, Ahead
  <2>3. User(q) = NameOf[Dom(q)] /\ Dom(q) \in Domain /\ Same(Dom(q))
    BY <1>5, <1>7, Subject
  <2>4. job' = job /\ seen'[q] = seen[q] /\ Left(q)' = Left(q)
    BY <1>1
  <2> QED BY <2>1, <2>2, <2>3, <2>4, DoingStays
<1>8. ASSUME Main(r)', Dom(r) = d
      PROVE  Doing(r)'
  <2>1. ~Creates(r) /\ row[d] \in LiveRow
    BY <1>1, <1>8 DEF Start, Creates
  <2>2. \A q \in Request : ~(Main(q) /\ Dom(q) = d)
    <3>1. SUFFICES ASSUME NEW q \in Request, Main(q), Dom(q) = d
                   PROVE  FALSE
      OBVIOUS
    <3>2. Dom(r) \in mixed'
      BY <1>8, <2>1, <3>1 DEF Start, Main, Creates
    <3> QED BY <1>4, <1>8, <3>2 DEF Kept
  <2>3. Whole(d)
    BY <1>5, <2>1, <2>2 DEF Sites, LiveRow
  <2>4. Whole(d)' /\ Dom(r)' = d /\ User(r)' = NameOf[d]
    BY <1>2, <1>5, <1>8, <2>3, WholeStays DEF User
  <2>5. HasFiles(d)' /\ (Active(d)' \/ Suspended(d)') /\ (Unlocked(d)' \/ Locked(d)')
        /\ row'[d] \in {"active", "suspended"}
    BY <2>4 DEF Whole, Active, Suspended
  <2>6. seen'[r].status = row'[d]
        /\ (job[r].op # "update" => seen'[r].version = version'[d])
    BY <1>3, <1>8, <2>1 DEF Start, Control, Creates
  <2>7. CASE job[r].op = "update"
    <3>1. Left(r)' = 9
      BY <1>1, <2>7 DEF Left, Steps, UpdateSteps
    <3>2. Updating(r)'
      BY <2>4, <2>5, <2>6, <3>1 DEF Updating
    <3> QED BY <1>1, <2>7, <3>2 DEF Doing
  <2>8. CASE job[r].op = "suspend"
    <3>1. Left(r)' = 6
      BY <1>1, <2>8 DEF Left, Steps, SuspendSteps
    <3>2. Suspending(r)'
      BY <2>4, <2>5, <2>6, <2>8, <3>1 DEF Suspending
    <3> QED BY <1>1, <2>8, <3>2 DEF Doing
  <2>9. CASE job[r].op = "unsuspend"
    <3>1. Left(r)' = 6
      BY <1>1, <2>9 DEF Left, Steps, UnsuspendSteps
    <3>2. Unsuspending(r)'
      BY <2>4, <2>5, <2>6, <2>9, <3>1 DEF Unsuspending
    <3> QED BY <1>1, <2>9, <3>2 DEF Doing
  <2>10. CASE job[r].op = "delete"
    BY <1>1, <2>4, <2>10 DEF Deleting, Doing
  <2> QED BY <1>1, <2>1, <2>7, <2>8, <2>9, <2>10 DEF Doing, Creates
<1> QED BY <1>6, <1>7, <1>8

\* How a step leaves its request.
LEMMA Ends ==
  ASSUME Control, Courses, NEW r \in Request, Step(r)
  PROVE  /\ state'[r] \in {"running", "rolling", "done", "refused", "failed"}
         /\ state'[r] = "done" =>
              /\ state[r] = "running" /\ Advance(r) /\ Left(r) = 1
              /\ Plain(r) \/ Makes(r) \/ Files(r) \/ Commit(r)
         /\ state'[r] = "refused" => Throw(r) /\ state[r] = "running" /\ undo[r] = <<>> /\ Unchanged(r)
<1>1. CASE Plain(r) \/ Makes(r) \/ Files(r) \/ Commit(r)
  <2>1. state[r] = "running" /\ Advance(r)
    BY <1>1 DEF Plain, Pass, Skip, SetLock, SaveUser, Userdel, SaveDomain, DeletePool,
      DeleteVhost, SetLink, ReloadApache, Makes, Useradd, InsertUser, Files, WritePool,
      WriteVhost, Commit, At
  <2>2. state'[r] = IF Left(r) = 1 THEN "done" ELSE "running"
    BY <2>1, Advanced
  <2> QED BY <1>1, <2>1, <2>2
<1>2. CASE InsertUserUnaudited(r)
  BY <1>2 DEF InsertUserUnaudited, Control
<1>3. CASE Undoing(r)
  <2>1. state[r] = "rolling" /\ Undone(r)
    BY <1>3 DEF Undoing, UndoUseradd, UndoUser, UndoPool, UndoVhost, UndoFileFails, Rolling
  <2>2. state'[r] \in {"rolling", "failed"}
    BY <2>1 DEF Undone, Control
  <2> QED BY <2>2
<1>4. CASE Throw(r)
  BY <1>4 DEF Throw, Control
<1> QED BY <1>1, <1>2, <1>3, <1>4 DEF Step

\* A request that works on a domain goes on with it, and leaves it whole or deleted.
LEMMA Works ==
  ASSUME Control, Data, Courses, Removed, NEW r \in Request, Step(r), Main(r), Kept(Dom(r))',
         state[r] = "running", Advance(r), Plain(r) \/ Makes(r) \/ Files(r) \/ Commit(r), Doing(r)
  PROVE  /\ Left(r) > 1 => Doing(r)'
         /\ Left(r) = 1 => row'[Dom(r)] = "deleted" \/ Whole(Dom(r))'
<1>1. job' = job /\ Dom(r) \in Domain
  BY OtherRequests, Subject DEF startVars
<1>2. Moves(r)
  <2>1. Skip(r) => r \in skipped'
    BY DEF Skip
  <2>2. ~Skip(r)
    <3>1. PICK d \in Domain : d = Dom(r) /\ Dom(r)' = d
      BY <1>1 DEF Dom
    <3>2. (state'[r] = "failed" \/ r \in skipped') => ~Kept(d)'
      BY <3>1, TornStays
    <3>3. Kept(d)'
      BY <3>1 DEF Kept
    <3> QED BY <2>1, <3>2, <3>3
  <2> QED BY <2>2 DEF Moves
<1>3. job[r].op \in Ops
  BY Ahead
<1>4. CASE job[r].op = "create"
  <2>1. Creates(r) /\ Named(r) /\ Creating(r)
    BY <1>4 DEF Creates, Main, Doing
  <2>2. (Left(r) > 1 => Creating(r)') /\ (Left(r) = 1 => Whole(Dom(r))')
    BY <1>2, <2>1, CreatingStep
  <2> QED BY <1>1, <1>4, <2>2 DEF Doing
<1>5. CASE job[r].op = "update"
  <2>1. (Left(r) > 1 => Updating(r)') /\ (Left(r) = 1 => Whole(Dom(r))')
    BY <1>2, <1>5, UpdatingStep DEF Doing
  <2> QED BY <1>1, <1>5, <2>1 DEF Doing
<1>6. CASE job[r].op = "suspend"
  <2>1. (Left(r) > 1 => Suspending(r)') /\ (Left(r) = 1 => Whole(Dom(r))')
    BY <1>2, <1>6, SuspendingStep DEF Doing
  <2> QED BY <1>1, <1>6, <2>1 DEF Doing
<1>7. CASE job[r].op = "unsuspend"
  <2>1. (Left(r) > 1 => Unsuspending(r)') /\ (Left(r) = 1 => Whole(Dom(r))')
    BY <1>2, <1>7, UnsuspendingStep DEF Doing
  <2> QED BY <1>1, <1>7, <2>1 DEF Doing
<1>8. CASE job[r].op = "delete"
  <2>1. Left(r) \in 1..9 /\ Left(r)' = Left(r) - 1
    BY <1>8, DeleteAt, Advanced
  <2>2. Deleting(r)'
    BY <2>1 DEF Deleting
  <2>3. ASSUME Left(r) = 1
        PROVE  row'[Dom(r)] = "deleted"
    <3>1. Dom(r) \notin mixed
      BY OtherRequests DEF Kept, startVars, Dom
    <3>2. row[Dom(r)] = "deleted"
      BY <1>8, <2>3, <3>1 DEF Removed, Removing
    <3>3. ~SaveDomain(r)
      BY <1>8, <2>3, Places DEF SaveDomain, Place
    <3>4. CASE Plain(r)
      <4>1. UNCHANGED row
        BY <3>3, <3>4 DEF Plain, Pass, Skip, SetLock, SaveUser, Userdel, DeletePool, DeleteVhost,
          SetLink, ReloadApache, dbVars
      <4> QED BY <3>2, <4>1
    <3>5. CASE Makes(r) \/ Files(r) \/ Commit(r)
      <4>1. UNCHANGED row
        BY <3>5 DEF Makes, Useradd, InsertUser, Files, WritePool, WriteVhost, Commit, dbVars
      <4> QED BY <3>2, <4>1
    <3> QED BY <3>4, <3>5
  <2> QED BY <1>1, <1>8, <2>2, <2>3 DEF Doing
<1> QED BY <1>3, <1>4, <1>5, <1>6, <1>7, <1>8 DEF Ops

\* A domain whose account has been deleted stays deleted, or its deletion goes on.
LEMMA SitesGoing ==
  ASSUME Control, Data, Courses, Exclusive, RowsFound, OneOwner, Removed,
         NEW r \in Request, Step(r), NEW d \in Domain, Kept(d), Going(d),
         ~(Main(r) /\ Dom(r) = d), ~(Main(r)' /\ Dom(r) = d)
  PROVE  /\ row'[d] = "deleted" \/ \E q \in Request : Main(q)' /\ Dom(q) = d
         /\ \A q \in Request : Main(q)' /\ Dom(q) = d /\ state'[q] = "running" => Doing(q)'
<1>1. job' = job /\ d \notin mixed
  BY OtherRequests DEF startVars, Kept
<1>2. \A q \in Request \ {r} :
        Left(q)' = Left(q) /\ state'[q] = state[q] /\ (Main(q)' <=> Main(q))
  BY OthersStand
<1>3. CASE row[d] = "deleted"
  <2>1. row'[d] = "deleted"
    BY <1>3, RowStays, Aside
  <2>2. ASSUME NEW q \in Request, Main(q)', Dom(q) = d
        PROVE  Doing(q)'
    <3>1. q # r /\ Main(q) /\ Left(q)' = Left(q)
      BY <1>2, <2>2
    <3>2. job[q].op = "delete" /\ Left(q) = 1
      BY <1>1, <1>3, <2>2, <3>1 DEF Removed
    <3> QED BY <1>1, <3>1, <3>2 DEF Doing, Deleting
  <2> QED BY <2>1, <2>2
<1>4. CASE row[d] # "deleted"
  <2>1. PICK s \in Request : /\ Running(s) /\ Dom(s) = d
                             /\ job[s].op = "delete" /\ Left(s) < 4
    BY <1>4 DEF Going
  <2>2. Main(s) /\ s # r /\ Main(s)'
    BY <1>2, <2>1 DEF Main, Creates
  <2>3. ASSUME NEW q \in Request, Main(q)', Dom(q) = d
        PROVE  Doing(q)'
    <3>1. q # r /\ Running(q)
      BY <1>2, <2>3 DEF Main
    <3>2. q = s
      BY <1>1, <2>1, <2>3, <3>1 DEF Exclusive, Creates
    <3>3. Left(s)' = Left(s) /\ Left(s) # 9
      BY <1>2, <2>1, <2>2
    <3> QED BY <1>1, <2>1, <3>2, <3>3 DEF Doing, Deleting
  <2> QED BY <2>1, <2>2, <2>3
<1> QED BY <1>3, <1>4

\* Steps of requests that were not at work on the domain.
LEMMA SitesAside ==
  ASSUME Control, Data, Courses, Exclusive, RowsFound, OneOwner, Accounts, Removed, Sites,
         NEW r \in Request, Step(r), NEW d \in Domain, Kept(d), ~(Main(r) /\ Dom(r) = d)
  PROVE  /\ \/ row'[d] \in {"none", "deleted"} \/ Whole(d)'
            \/ \E q \in Request : Main(q)' /\ Dom(q) = d
         /\ \A q \in Request : Main(q)' /\ Dom(q) = d /\ state'[q] = "running" => Doing(q)'
<1>1. job' = job /\ seen' = seen /\ User(r) = NameOf[Dom(r)] /\ User(r) \in Name
  BY OtherRequests, Subject DEF startVars
<1>2. \A q \in Request \ {r} :
        Left(q)' = Left(q) /\ state'[q] = state[q] /\ (Main(q)' <=> Main(q))
  BY OthersStand
<1>3. Main(r)' /\ Dom(r) = d => InsertUser(r)
  BY Standing, Made DEF Makes
<1>4. InsertUser(r) /\ Dom(r) = d
      => user[NameOf[d]] = "none" /\ row[d] = "none"
         /\ \A q \in Request \ {r} : ~(Main(q) /\ Dom(q) = d)
  <2>1. SUFFICES ASSUME InsertUser(r), Dom(r) = d
                 PROVE  /\ user[NameOf[d]] = "none" /\ row[d] = "none"
                        /\ \A q \in Request \ {r} : ~(Main(q) /\ Dom(q) = d)
    OBVIOUS
  <2>2. user[NameOf[d]] = "none"
    BY <1>1, <2>1 DEF InsertUser, Refused
  <2>3. row[d] = "none"
    BY <2>2 DEF OneOwner
  <2>4. ASSUME NEW q \in Request, Main(q), Dom(q) = d
        PROVE  FALSE
    <3>1. CASE Creates(q)
      BY <2>2, <2>4, <3>1, Subject DEF OneOwner, Main
    <3>2. CASE ~Creates(q)
      BY <2>3, <2>4, <3>2 DEF RowsFound, Main, Running
    <3> QED BY <3>1, <3>2
  <2> QED BY <2>2, <2>3, <2>4
<1>5. CASE InsertUser(r) /\ Dom(r) = d
  <2>1. row' = row /\ account' = account /\ user' = [user EXCEPT ![User(r)] = "live"]
    BY <1>5 DEF InsertUser, serverVars
  <2>2. row'[d] = "none" /\ \A q \in Request \ {r} : ~(Main(q)' /\ Dom(q) = d)
    BY <1>2, <1>4, <1>5, <2>1
  <2>3. Holds(r) /\ Left(r)' = 9 /\ Creates(r)
    BY <1>5, Made DEF Makes
  <2>4. Sound(User(r))
    <3>1. \A e \in Domain : NameOf[e] = User(r) => row[e] = "none"
      BY <1>1, <1>4, <1>5 DEF OneOwner
    <3> QED BY <3>1 DEF Sound
  <2>5. Unlocked(d)'
    <3>1. account[User(r)] = "unlocked"
      BY <2>3, <2>4 DEF Accounts
    <3> QED BY <1>1, <1>5, <2>1, <3>1 DEF Unlocked, Data
  <2>6. Dom(r)' = d
    BY <1>1, <1>5 DEF Dom
  <2>7. Creating(r)'
    BY <2>2, <2>3, <2>5, <2>6 DEF Creating
  <2>8. Doing(r)'
    BY <1>1, <2>3, <2>7 DEF Doing, Creates
  <2> QED BY <2>2, <2>8
<1>6. CASE ~(Main(r)' /\ Dom(r) = d)
  <2>1. CASE row[d] = "none" /\ ~\E q \in Request \ {r} : Named(q) /\ Dom(q) = d
    <3>1. row'[d] = "none"
      BY <2>1, FirstRow DEF Main, Named, Holds
    <3>2. ASSUME NEW q \in Request, Main(q)', Dom(q) = d
          PROVE  FALSE
      <4>1. q # r /\ Main(q)
        BY <1>2, <1>6, <3>2
      <4>2. ~Creates(q)
        BY <2>1, <3>2, <4>1 DEF Main
      <4> QED BY <2>1, <3>2, <4>1, <4>2 DEF RowsFound, Main, Running
    <3> QED BY <3>1, <3>2
  <2>2. CASE Going(d)
    BY <1>6, <2>2, SitesGoing
  <2>3. CASE ~Going(d) /\ (row[d] # "none" \/ \E q \in Request \ {r} : Named(q) /\ Dom(q) = d)
    <3>1. Same(d)
      BY <2>3, AsideKept
    <3>2. \/ row'[d] \in {"none", "deleted"} \/ Whole(d)'
          \/ \E q \in Request : Main(q)' /\ Dom(q) = d
      <4>1. \/ row[d] \in {"none", "deleted"} \/ Whole(d)
            \/ \E q \in Request : Main(q) /\ Dom(q) = d
        BY DEF Sites
      <4>2. (Whole(d) => Whole(d)') /\ row'[d] = row[d]
        BY <3>1, WholeStays DEF Same
      <4> QED BY <1>2, <4>1, <4>2
    <3>3. ASSUME NEW q \in Request, Main(q)', Dom(q) = d, state'[q] = "running"
          PROVE  Doing(q)'
      <4>1. q # r /\ Main(q) /\ state[q] = "running" /\ Left(q)' = Left(q)
        BY <1>2, <1>6, <3>3
      <4>2. Doing(q)
        BY <3>3, <4>1 DEF Sites
      <4>3. Left(q) \in Nat /\ User(q) = NameOf[Dom(q)] /\ Same(Dom(q)) /\ Dom(q) \in Domain
        BY <3>1, <3>3, <4>1, Ahead, Subject
      <4>4. seen'[q] = seen[q]
        BY <1>1
      <4> QED BY <1>1, <4>1, <4>2, <4>3, <4>4, DoingStays
    <3> QED BY <3>2, <3>3
  <2> QED BY <2>1, <2>2, <2>3
<1> QED BY <1>3, <1>5, <1>6

\* Steps of the request at work on the domain.
LEMMA SitesAtWork ==
  ASSUME Control, Data, Courses, Exclusive, RowsFound, OneOwner, Accounts, Removed, Sites,
         NEW r \in Request, Step(r), NEW d \in Domain, Kept(d)', Main(r), Dom(r) = d
  PROVE  /\ \/ row'[d] \in {"none", "deleted"} \/ Whole(d)'
            \/ \E q \in Request : Main(q)' /\ Dom(q) = d
         /\ \A q \in Request : Main(q)' /\ Dom(q) = d /\ state'[q] = "running" => Doing(q)'
<1>1. job' = job /\ Kept(d) /\ d \notin mixed /\ Dom(r)' = d /\ Kept(Dom(r))'
  BY OtherRequests, TornStays DEF startVars, Kept, Dom
<1>2. ASSUME NEW q \in Request \ {r}, Main(q)', Dom(q) = d
      PROVE  FALSE
  <2>1. Main(q)
    BY <1>2, OthersStand
  <2>2. Creates(q) /\ Creates(r)
    BY <1>1, <1>2, <2>1 DEF Exclusive, Main
  <2>3. Named(q) /\ Named(r) /\ User(q) = User(r)
    BY <1>2, <2>1, <2>2 DEF Main, User
  <2> QED BY <2>3 DEF OneOwner
<1>3. Control' /\ Courses'
  BY StepTypes
<1>4. state'[r] \in {"running", "rolling", "done", "refused"}
  BY Ends, TornStays
<1>5. CASE state'[r] = "running"
  <2>1. state[r] = "running" /\ Advance(r) /\ (Plain(r) \/ Makes(r) \/ Files(r) \/ Commit(r))
    BY <1>5, GoesOn
  <2>2. Doing(r) /\ Left(r) \in Nat \ {0} /\ Left(r)' = Left(r) - 1
    BY <1>1, <2>1, Ahead, Advanced DEF Sites
  <2>3. Left(r) # 1
    BY <1>5, <2>1, Advanced
  <2>4. Doing(r)'
    BY <1>1, <2>1, <2>2, <2>3, Works
  <2>5. Main(r)'
    <3>1. CASE Creates(r)
      <4>1. Left(r) < 10
        BY <2>1, <2>2, <3>1 DEF Main, Named, Holds, Courses, Registered
      <4>2. Left(r)' < 10 /\ Creates(r)'
        BY <1>1, <2>2, <3>1, <4>1 DEF Creates
      <4>3. Left(r)' \in Nat
        BY <2>2
      <4>4. undo'[r] # <<>> /\ undo'[r][1].kind = "deleteUser"
        BY <1>3, <1>5, <4>2, <4>3 DEF Courses, Registered
      <4> QED BY <1>5, <4>2, <4>4 DEF Main, Named, Holds, Running
    <3>2. CASE ~Creates(r)
      BY <1>1, <1>5, <3>2 DEF Main, Running, Creates
    <3> QED BY <3>1, <3>2
  <2> QED BY <1>2, <2>4, <2>5
<1>6. CASE state'[r] = "rolling"
  <2>1. undo'[r] # <<>>
    BY <1>3, <1>6 DEF Courses, Registered
  <2>2. Creates(r) => undo'[r][1] = undo[r][1]
    <3>1. ~Makes(r)
      BY <1>6, Made
    <3> QED BY <2>1, <3>1, FirstStays
  <2>3. Main(r)'
    BY <1>1, <1>6, <2>1, <2>2 DEF Main, Named, Holds, Running, Creates
  <2> QED BY <1>2, <1>6, <2>3
<1>7. CASE state'[r] = "done"
  <2>1. /\ state[r] = "running" /\ Advance(r) /\ Left(r) = 1
        /\ Plain(r) \/ Makes(r) \/ Files(r) \/ Commit(r)
    BY <1>7, Ends
  <2>2. Doing(r)
    BY <1>1, <2>1 DEF Sites
  <2>3. row'[d] = "deleted" \/ Whole(d)'
    <3>1. row'[Dom(r)] = "deleted" \/ Whole(Dom(r))'
      BY <1>1, <2>1, <2>2, Works
    <3> QED BY <1>1, <3>1 DEF Whole, HasFiles, Suspended, Active, Locked, Unlocked, Down
  <2> QED BY <1>2, <1>7, <2>3
<1>8. CASE state'[r] = "refused"
  <2>1. Throw(r) /\ state[r] = "running" /\ undo[r] = <<>> /\ Unchanged(r)
    BY <1>8, Ends
  <2>2. ~Creates(r)
    BY <2>1 DEF Main, Named, Holds
  <2>3. todo[r] = Steps[job[r].op]
    <3>1. \A s \in {"findUser", "id", "useradd"} : ~At(r, s)
      BY <2>2, Places DEF Place, Creates
    <3> QED BY <2>1, <3>1 DEF Unchanged, At, Courses, Course
  <2>4. Doing(r) /\ job[r].op \in Ops
    BY <1>1, <2>1, Ahead DEF Sites
  <2>5. Whole(d)
    <3>1. CASE job[r].op = "update"
      <4>1. Left(r) = 9
        BY <2>3, <3>1 DEF Left, Steps, UpdateSteps
      <4> QED BY <2>4, <3>1, <4>1 DEF Doing, Updating
    <3>2. CASE job[r].op = "suspend"
      <4>1. Left(r) = 6
        BY <2>3, <3>2 DEF Left, Steps, SuspendSteps
      <4> QED BY <2>4, <3>2, <4>1 DEF Doing, Suspending
    <3>3. CASE job[r].op = "unsuspend"
      <4>1. Left(r) = 6
        BY <2>3, <3>3 DEF Left, Steps, UnsuspendSteps
      <4> QED BY <2>4, <3>3, <4>1 DEF Doing, Unsuspending
    <3>4. CASE job[r].op = "delete"
      <4>1. Left(r) = 9
        BY <2>3, <3>4 DEF Left, Steps, DeleteSteps
      <4> QED BY <2>4, <3>4, <4>1 DEF Doing, Deleting
    <3> QED BY <2>2, <2>4, <3>1, <3>2, <3>3, <3>4 DEF Ops, Creates
  <2>6. Whole(d)'
    <3>1. UNCHANGED <<row, version, user, account, pools, vhost, links, served>>
      BY <2>1 DEF Throw, dbVars, serverVars
    <3>2. Same(d)
      BY <3>1 DEF Same, Refreshed
    <3> QED BY <2>5, <3>2, WholeStays
  <2> QED BY <1>2, <1>8, <2>6
<1> QED BY <1>4, <1>5, <1>6, <1>7, <1>8

LEMMA SitesStep ==
  ASSUME Control, Data, Courses, Exclusive, RowsFound, OneOwner, Accounts, Removed, Sites,
         NEW r \in Request, Step(r)
  PROVE  Sites'
<1>1. \A q : Dom(q)' = Dom(q)
  BY OtherRequests DEF startVars, Dom
<1>2. ASSUME NEW d \in Domain, Kept(d)'
      PROVE  /\ \/ row'[d] \in {"none", "deleted"} \/ Whole(d)'
                \/ \E q \in Request : Main(q)' /\ Dom(q) = d
             /\ \A q \in Request : Main(q)' /\ Dom(q) = d /\ state'[q] = "running" => Doing(q)'
  <2>1. Kept(d)
    BY <1>2, TornStays
  <2> QED BY <1>2, <2>1, SitesAside, SitesAtWork
<1> QED BY <1>1, <1>2 DEF Sites

-----------------------------------------------------------------------------
(* The invariant, and what it says of the properties.                      *)

LEMMA InitControl ==
  ASSUME Init
  PROVE  /\ Control /\ Data /\ Courses
         /\ \A r \in Request : ~Running(r) /\ state[r] = "idle"
         /\ \E old \in SUBSET Domain :
              /\ \A d, e \in old : NameOf[d] = NameOf[e] => d = e
              /\ \A d \in Domain :
                   /\ d \in old => row[d] = "active" /\ Unlocked(d) /\ HasFiles(d) /\ d \in links
                                   /\ served[d] = version[d]
                   /\ d \notin old => row[d] = "none"
<1>1. PICK old \in SUBSET Domain, v \in [Domain -> Version] :
    /\ \A d, e \in old : NameOf[d] = NameOf[e] => d = e
    /\ \A d \in Domain \ old : v[d] = Some
    /\ job \in [Request -> Job]
    /\ seen    = [r \in Request |-> [status |-> "none", version |-> Some]]
    /\ mixed   = {}
    /\ state   = [r \in Request |-> "idle"]
    /\ todo    = [r \in Request |-> <<>>]
    /\ undo    = [r \in Request |-> <<>>]
    /\ row     = [d \in Domain |-> IF d \in old THEN "active" ELSE "none"]
    /\ version = v
    /\ user    = [n \in Name |-> IF \E d \in old : NameOf[d] = n THEN "live" ELSE "none"]
    /\ account = [n \in Name |-> IF user[n] = "live" THEN "unlocked" ELSE "none"]
    /\ pools   = {<<NameOf[d], v[d]>> : d \in old}
    /\ vhost   = [d \in Domain |-> IF d \in old THEN v[d] ELSE None]
    /\ links   = old
    /\ served  = vhost
    /\ skipped = {}
    /\ faults  = 0
  BY DEF Init
<1>2. Some \in Version
  BY VersionAssumption DEF Some
<1>3. Control
  <2>1. seen \in [Request -> [status : LiveRow \cup {"none"}, version : Version]]
    BY <1>1, <1>2
  <2>2. todo \in [Request -> Seq(StepName)] /\ undo \in [Request -> Seq(Undoes)]
    BY <1>1
  <2>3. faults \in 0..MaxFaults
    BY <1>1, FaultAssumption
  <2> QED BY <1>1, <2>1, <2>2, <2>3 DEF Control
<1>4. Data
  <2>1. row \in [Domain -> LiveRow \cup {"none", "deleted"}] /\ version \in [Domain -> Version]
        /\ user \in [Name -> LiveUser \cup {"none", "deleted"}]
        /\ account \in [Name -> {"none", "unlocked", "locked"}]
    BY <1>1 DEF LiveRow, LiveUser
  <2>2. pools \subseteq Name \X Version
    BY <1>1, NameAssumption
  <2>3. vhost \in [Domain -> Config] /\ served \in [Domain -> Config] /\ links \subseteq Domain
    BY <1>1 DEF Config
  <2> QED BY <2>1, <2>2, <2>3 DEF Data
<1>5. \A r \in Request : ~Running(r) /\ state[r] = "idle" /\ todo[r] = <<>> /\ undo[r] = <<>>
  BY <1>1 DEF Running
<1>6. Courses
  <2>1. SUFFICES ASSUME NEW r \in Request
                 PROVE  Course(r) /\ Registered(r)
    BY DEF Courses
  <2>2. Left(r) = 0
    BY <1>5 DEF Left
  <2>3. job[r].op \in Ops
    BY <1>1, OpAssumption DEF Job, Ops
  <2>4. Len(Steps[job[r].op]) \in Nat
    BY <2>3 DEF Ops, Steps, CreateSteps, UpdateSteps, SuspendSteps, UnsuspendSteps, DeleteSteps
  <2>5. Course(r)
    BY <1>5, <2>2, <2>4 DEF Course
  <2>6. Registered(r)
    BY <1>5 DEF Registered
  <2> QED BY <2>5, <2>6
<1>7. ASSUME NEW d \in Domain, d \in old
      PROVE  /\ row[d] = "active" /\ Unlocked(d) /\ HasFiles(d) /\ d \in links
             /\ served[d] = version[d]
  <2>1. user[NameOf[d]] = "live"
    BY <1>1, <1>7, NameAssumption
  <2>2. account[NameOf[d]] = "unlocked"
    BY <1>1, <1>7, <2>1, NameAssumption
  <2>3. <<NameOf[d], version[d]>> \in pools
    BY <1>1, <1>7
  <2> QED BY <1>1, <1>7, <2>1, <2>2, <2>3 DEF Unlocked, HasFiles
<1>8. \A d \in Domain : d \notin old => row[d] = "none"
  BY <1>1
<1> QED BY <1>1, <1>3, <1>4, <1>5, <1>6, <1>7, <1>8

LEMMA InitInv ==
  ASSUME Init
  PROVE  DomainInv
<1>1. Control /\ Data /\ Courses /\ \A r \in Request : ~Running(r) /\ state[r] = "idle"
  BY InitControl
<1>2. PICK old \in SUBSET Domain :
              /\ \A d, e \in old : NameOf[d] = NameOf[e] => d = e
              /\ \A d \in Domain :
                   /\ d \in old => row[d] = "active" /\ Unlocked(d) /\ HasFiles(d) /\ d \in links
                                   /\ served[d] = version[d]
                   /\ d \notin old => row[d] = "none"
  BY InitControl
<1>3. \A r \in Request : ~Holds(r) /\ ~Named(r) /\ ~Main(r)
  BY <1>1 DEF Holds, Named, Main
<1>4. Exclusive /\ RowsFound
  BY <1>1 DEF Exclusive, RowsFound
<1>5. OneOwner
  BY <1>2, <1>3 DEF OneOwner, Unlocked
<1>6. Accounts
  BY <1>2, <1>3 DEF Accounts, Unlocked
<1>7. Removed
  BY <1>1, <1>2 DEF Removed
<1>8. Sites
  BY <1>2, <1>3 DEF Sites, Whole, Active
<1> QED BY <1>1, <1>4, <1>5, <1>6, <1>7, <1>8 DEF DomainInv

LEMMA StutterInv ==
  ASSUME DomainInv, UNCHANGED vars
  PROVE  DomainInv'
<1>1. /\ job' = job /\ seen' = seen /\ mixed' = mixed /\ state' = state /\ todo' = todo
      /\ undo' = undo /\ row' = row /\ version' = version /\ user' = user /\ account' = account
      /\ pools' = pools /\ vhost' = vhost /\ links' = links /\ served' = served
      /\ skipped' = skipped /\ faults' = faults
  BY DEF vars, startVars, requestVars, dbVars, serverVars
<1>2. Control' /\ Data'
  BY <1>1 DEF DomainInv, Control, Data
<1>3. Courses'
  BY <1>1 DEF DomainInv, Courses, Course, Registered, Left, Creates
<1>4. Exclusive' /\ RowsFound' /\ OneOwner'
  BY <1>1 DEF DomainInv, Exclusive, RowsFound, OneOwner, Running, Dom, User, Creates, Named, Holds, Left
<1>5. \A d : (Kept(d)' <=> Kept(d)) /\ (Going(d)' <=> Going(d)) /\ (Down(d)' <=> Down(d))
  BY <1>1 DEF Kept, Torn, Going, Running, Dom, Left, Down
<1>6. Accounts'
  BY <1>1, <1>5 DEF DomainInv, Accounts, Sound, Holds, Named, Running, Creates, User, Dom
<1>7. Removed'
  BY <1>1, <1>5 DEF DomainInv, Removed, Removing, Main, Named, Holds, Running, Creates, User, Dom, Left
<1>8. Sites'
  <2>1. \A d \in Domain : Same(d)
    BY <1>1 DEF Same, Refreshed
  <2>2. \A q : /\ Left(q)' = Left(q) /\ Dom(q)' = Dom(q)
               /\ Main(q)' <=> Main(q)
    BY <1>1 DEF Left, Dom, Main, Named, Holds, Running, Creates
  <2>3. ASSUME NEW q \in Request, Doing(q), state[q] = "running"
        PROVE  Doing(q)'
    <3>1. Left(q) \in Nat /\ Dom(q) \in Domain /\ User(q) = NameOf[Dom(q)]
      BY <2>3, Ahead, Subject DEF DomainInv
    <3>2. Same(Dom(q)) /\ job' = job /\ seen'[q] = seen[q] /\ Left(q)' = Left(q)
      BY <1>1, <2>1, <2>2, <3>1
    <3> QED BY <2>3, <3>1, <3>2, DoingStays
  <2>4. \A d \in Domain : Whole(d) => Whole(d)'
    BY <2>1, WholeStays
  <2> QED BY <1>1, <1>5, <2>2, <2>3, <2>4 DEF DomainInv, Sites
<1> QED BY <1>2, <1>3, <1>4, <1>6, <1>7, <1>8 DEF DomainInv

LEMMA NextInv ==
  ASSUME DomainInv, [Next]_vars
  PROVE  DomainInv'
<1>1. CASE UNCHANGED vars
  BY <1>1, StutterInv
<1>2. CASE Next
  <2>1. PICK r \in Request : Start(r) \/ Step(r)
    BY <1>2 DEF Next, Step, Plain, Makes, Files, Undoing
  <2>2. CASE Start(r)
    <3>1. Control' /\ Courses' /\ Data'
      <4>1. UNCHANGED <<dbVars, serverVars>>
        BY <2>2 DEF Start
      <4> QED BY <2>2, <4>1, StartCourse DEF DomainInv, Data, dbVars, serverVars
    <3>2. Exclusive' /\ RowsFound' /\ OneOwner'
      BY <2>2, ExclusiveStart, RowsFoundStart, OneOwnerStart DEF DomainInv
    <3>3. Accounts' /\ Removed' /\ Sites'
      BY <2>2, AccountsStart, RemovedStart, SitesStart DEF DomainInv
    <3> QED BY <3>1, <3>2, <3>3 DEF DomainInv
  <2>3. CASE Step(r)
    <3>1. Control' /\ Courses' /\ Data'
      BY <2>3, StepTypes DEF DomainInv
    <3>2. Exclusive' /\ RowsFound' /\ OneOwner'
      BY <2>3, ExclusiveStep, RowsFoundStep, OneOwnerStep DEF DomainInv
    <3>3. Accounts' /\ Removed' /\ Sites'
      BY <2>3, AccountsStep, RemovedStep, SitesStep DEF DomainInv
    <3> QED BY <3>1, <3>2, <3>3 DEF DomainInv
  <2> QED BY <2>1, <2>2, <2>3
<1> QED BY <1>1, <1>2

\* The invariant of a domain's rows, accounts, files and requests, which the properties
\* below follow from.
THEOREM DomainInvariant == Spec => []DomainInv
<1>1. Init => DomainInv
  BY InitInv
<1>2. DomainInv /\ [Next]_vars => DomainInv'
  BY NextInv
<1> QED BY <1>1, <1>2, PTL DEF Spec

LEMMA InvTyped ==
  ASSUME DomainInv
  PROVE  TypeOK
<1>1. ASSUME NEW r \in Request
      PROVE  \E i \in 1..(Len(Steps[job[r].op]) + 1) :
               todo[r] = SubSeq(Steps[job[r].op], i, Len(Steps[job[r].op]))
  <2>1. job[r].op \in Ops
    BY OpAssumption DEF DomainInv, Control, Job, Ops
  <2>2. PICK all \in Seq(StepName) : all = Steps[job[r].op]
    <3>1. Steps[job[r].op] \in {CreateSteps, UpdateSteps, SuspendSteps, UnsuspendSteps, DeleteSteps}
      BY <2>1 DEF Steps, Ops
    <3>2. CreateSteps \in Seq(StepName) /\ UpdateSteps \in Seq(StepName)
      BY DEF CreateSteps, UpdateSteps, StepName
    <3>3. SuspendSteps \in Seq(StepName) /\ UnsuspendSteps \in Seq(StepName) /\ DeleteSteps \in Seq(StepName)
      BY DEF SuspendSteps, UnsuspendSteps, DeleteSteps, StepName
    <3> QED BY <3>1, <3>2, <3>3
  <2>3. PICK m \in Nat : m = Len(all)
    BY <2>2
  <2>4. PICK rest \in Seq(StepName) : rest = todo[r]
    BY DEF DomainInv, Control
  <2>5. PICK n \in Nat : n = Len(rest)
    BY <2>4
  <2>6. n <= m /\ \A i \in 1..n : rest[i] = all[m - n + i]
    BY <2>2, <2>3, <2>4, <2>5 DEF DomainInv, Courses, Course, Left
  <2>7. m - n + 1 \in 1..(m + 1)
    BY <2>6
  <2>8. PICK k \in 1..(m + 1) : k = m - n + 1
    BY <2>7
  <2>9. \A i \in k..m : all[i] \in StepName
    BY <2>2, <2>3
  <2>10. /\ SubSeq(all, k, m) \in Seq(StepName)
         /\ Len(SubSeq(all, k, m)) = IF k <= m THEN m - k + 1 ELSE 0
         /\ \A i \in 1..(m - k + 1) : SubSeq(all, k, m)[i] = all[k + i - 1]
    <3>1. k \in Int /\ m \in Int
      BY <2>8
    <3> QED BY <2>9, <3>1, SubSeqProperties
  <2>11. PICK part \in Seq(StepName) : part = SubSeq(all, k, m)
    BY <2>10
  <2>12. Len(part) = n
    BY <2>5, <2>6, <2>8, <2>10, <2>11
  <2>13. \A i \in 1..n : part[i] = rest[i]
    <3>1. \A i \in 1..n : i \in 1..(m - k + 1) /\ k + i - 1 = m - n + i
      BY <2>8
    <3> QED BY <2>6, <2>10, <2>11, <3>1
  <2>14. rest = part
    BY <2>4, <2>5, <2>11, <2>12, <2>13, SeqEqual
  <2> QED BY <2>2, <2>3, <2>4, <2>8, <2>11, <2>14
<1> QED BY <1>1 DEF DomainInv, Control, Data, TypeOK, Undoes

\* The variables have their types, whatever the requests do: the rows, the accounts and
\* the files of the server are those of the model, and a handler that runs has the last
\* steps of its course before it.
THEOREM DomainsTyped == Spec => []TypeOK
<1>1. DomainInv => TypeOK
  BY InvTyped
<1> QED BY <1>1, DomainInvariant, PTL

LEMMA InvKeepsAccounts ==
  ASSUME DomainInv
  PROVE  OwnAccount
<1>1. SUFFICES ASSUME NEW r \in Request, state[r] = "running", undo[r] # <<>>,
                      job[r].op = "create", \A d \in Torn \cup mixed : NameOf[d] # User(r)
               PROVE  account[User(r)] = "unlocked"
  BY DEF OwnAccount
<1>2. Sound(User(r))
  BY <1>1 DEF Sound, Kept
<1>3. Holds(r)
  BY <1>1 DEF Holds, Running, Creates
<1> QED BY <1>2, <1>3 DEF DomainInv, Accounts

\* A creation that has made the system account keeps it until it is rolled back, however
\* many creations of domains with the same user overlap it (system-users.service.ts
\* create and its rollback).
THEOREM AccountKept == Spec => []OwnAccount
<1>1. DomainInv => OwnAccount
  BY InvKeepsAccounts
<1> QED BY <1>1, DomainInvariant, PTL

LEMMA InvSites ==
  ASSUME DomainInv, NEW d \in Domain \ (Torn \cup mixed), Quiet(d), row[d] \in LiveRow
  PROVE  Whole(d)
<1>1. \A r \in Request : ~(Main(r) /\ Dom(r) = d)
  BY DEF Quiet, Main
<1>2. Kept(d)
  BY DEF Kept
<1> QED BY <1>1, <1>2 DEF DomainInv, Sites, LiveRow

\* A domain the panel shows as active, with nothing under way for it and nothing left
\* half done, has its account, its pool, its virtual host and its link, and Apache serves
\* the PHP version of its row (domains.service.ts create, update, unsuspend).
THEOREM ActiveOnServer == Spec => []ActiveIsProvisioned
<1>1. ASSUME DomainInv
      PROVE  ActiveIsProvisioned
  <2>1. SUFFICES ASSUME NEW d \in Domain \ (Torn \cup mixed), Quiet(d), row[d] = "active"
                 PROVE  /\ user[NameOf[d]] = "live" /\ account[NameOf[d]] = "unlocked"
                        /\ <<NameOf[d], version[d]>> \in pools
                        /\ d \in links /\ vhost[d] = version[d] /\ served[d] = version[d]
    BY DEF ActiveIsProvisioned
  <2>2. Whole(d)
    BY <1>1, <2>1, InvSites DEF LiveRow
  <2> QED BY <2>1, <2>2 DEF Whole, Active, Suspended, Unlocked, HasFiles
<1> QED BY <1>1, DomainInvariant, PTL

\* The site of a suspended domain is not served and its account is locked; a deleted
\* domain is not served and its user is gone, whatever failed (domains.service.ts suspend,
\* delete).
THEOREM InactiveOff == Spec => []InactiveIsDown
<1>1. ASSUME DomainInv
      PROVE  InactiveIsDown
  <2>1. SUFFICES ASSUME NEW d \in Domain \ mixed
                 PROVE  /\ d \notin Torn /\ Quiet(d) /\ row[d] = "suspended" =>
                             d \notin links /\ served[d] = None /\ account[NameOf[d]] = "locked"
                        /\ row[d] = "deleted" =>
                             d \notin links /\ served[d] = None /\ user[NameOf[d]] \notin LiveUser
    BY DEF InactiveIsDown
  <2>2. ASSUME d \notin Torn, Quiet(d), row[d] = "suspended"
        PROVE  d \notin links /\ served[d] = None /\ account[NameOf[d]] = "locked"
    <3>1. Whole(d)
      BY <1>1, <2>1, <2>2, InvSites DEF LiveRow
    <3> QED BY <2>2, <3>1 DEF Whole, Active, Suspended, Locked, Down
  <2>3. row[d] = "deleted" =>
          d \notin links /\ served[d] = None /\ user[NameOf[d]] \notin LiveUser
    BY <1>1, <2>1 DEF DomainInv, Removed, Down
  <2> QED BY <2>2, <2>3
<1> QED BY <1>1, DomainInvariant, PTL
=============================================================================
