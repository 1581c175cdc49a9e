------------------------- MODULE DomainProvisioning -------------------------
(***************************************************************************)
(* How a domain is put on the server and taken off it                      *)
(* (modules/domains/domains.service.ts with system-users.service.ts,       *)
(* vhost.service.ts and php-fpm.service.ts).  A domain is a database row   *)
(* and what must agree with it: a system account and its row, a PHP-FPM    *)
(* pool file, a virtual host file, the sites-enabled link and what Apache  *)
(* has loaded.  A request is the sequence of the commands and writes its   *)
(* handler awaits; requests interleave between any two of them, and any of *)
(* them may fail.  The model is of PHP domains on a Debian server.         *)
(***************************************************************************)
EXTENDS Naturals, Sequences, SequencesExt

CONSTANTS Domain,    \* domain names
          Name,      \* system user names
          NameOf,    \* generateUsername(): the TLD is dropped, so names collide
          Version,   \* PHP versions
          None,      \* no file
          Request,   \* HTTP requests
          Op,        \* the operations requested
          Rejected,  \* steps whose command the executor's whitelist does not admit
          MaxFaults  \* bound on commands and database writes that fail

ASSUME NameAssumption    == NameOf \in [Domain -> Name]
ASSUME VersionAssumption == Version # {} /\ None \notin Version
ASSUME OpAssumption == Op \subseteq {"create", "update", "suspend", "unsuspend", "delete"}
ASSUME RejectedAssumption == Rejected \subseteq {"useradd", "enable", "configtest"}
ASSUME FaultAssumption   == MaxFaults \in Nat

VARIABLES
  job,      \* job[r]: the operation, the domain and the PHP version requested
  seen,     \* the entity of its domain a request has loaded, or made
  state,    \* of a request
  todo,     \* the steps of the handler still to come
  undo,     \* rollback actions and snapshots of the open transaction
  row,      \* the row of a domain: Domain.status, or none, or soft-deleted
  version,  \* Domain.phpVersion
  user,     \* the SystemUser row of a name
  account,  \* the account in /etc/passwd, with its home directory
  pools,    \* PHP-FPM pool files: <<name, version>>
  vhost,    \* the PHP version in the virtual host file of a domain
  links,    \* sites-enabled
  served,   \* what Apache loaded at its last reload
  mixed,    \* history: domains two requests for which overlapped, creations apart
  skipped,  \* history: requests one of whose commands failed unnoticed
  faults    \* how many commands have failed

startVars   == <<job, seen, mixed>>
requestVars == <<state, todo, undo>>
dbVars      == <<row, version, user>>
serverVars  == <<account, pools, vhost, links, served>>
vars == <<startVars, requestVars, dbVars, serverVars, skipped, faults>>

Config   == Version \cup {None}
LiveRow  == {"pending", "active", "suspended"}
LiveUser == {"live", "suspended"}

\* The steps of each handler, in the order in which it awaits them.
CreateSteps ==
  <<"findDomain", "findUser", "id", "useradd", "insertUser", "insertDomain",
    "writePool", "reloadFpm", "writeVhost", "enable", "configtest", "reloadApache",
    "activate", "audit">>
\* The pool and the virtual host are written in transactions of their own.
UpdateSteps ==
  <<"saveVersion", "writePool", "reloadFpm", "commit", "writeVhost", "configtest",
    "reloadApache", "commit", "audit">>
SuspendSteps ==
  <<"audit", "disable", "reloadApache", "lock", "saveLocked", "saveSuspended">>
UnsuspendSteps ==
  <<"audit", "unlock", "saveUnlocked", "enable", "reloadApache", "activate">>
DeleteSteps ==
  <<"disable", "deleteVhost", "deletePool", "reloadFpm", "reloadApache", "userdel",
    "deleteUser", "deleteDomain", "audit">>
Steps == [create |-> CreateSteps, update |-> UpdateSteps, suspend |-> SuspendSteps,
          unsuspend |-> UnsuspendSteps, delete |-> DeleteSteps]

\* Only creations and updates name a PHP version; a domain without a row has none.
Some == CHOOSE v \in Version : TRUE
Job  == {j \in [op : Op, dom : Domain, ver : Version] :
           j.op \in {"create", "update"} \/ j.ver = Some}

Dom(r)  == job[r].dom
Ver(r)  == job[r].ver
User(r) == NameOf[Dom(r)]

At(r, s)   == state[r] = "running" /\ todo[r] # <<>> /\ Head(todo[r]) = s
Running(r) == state[r] \in {"running", "rolling"}
Quiet(d)   == \A r \in Request : Dom(r) = d => ~Running(r)

\* A link whose file is gone: Apache refuses its whole configuration.
Dangling == \E d \in links : vhost[d] = None
\* A pool whose user is gone: PHP-FPM of that version cannot start it.
Orphaned(v) == \E n \in Name : <<n, v>> \in pools /\ account[n] = "none"

\* Some domains are in place already, each with a user of its own.
Init ==
  \E old \in SUBSET Domain, v \in [Domain -> Version] :
    /\ \A d, e \in old : NameOf[d] = NameOf[e] => d = e
    /\ \A d \in Domain \ old : v[d] = Some
    /\ job \in [Request -> Job]
    /\ seen    = [r \in Request |-> [status |-> "none", version |-> Some]]
    /\ mixed   = {}
    /\ state   = [r \in Request |-> "idle"]
    /\ todo    = [r \in Request |-> <<>>]
    /\ undo    = [r \in Request |-> <<>>]
    /\ row     = [d \in Domain |-> IF d \in old THEN "active" ELSE "none"]
    /\ version = v
    /\ user    = [n \in Name |-> IF \E d \in old : NameOf[d] = n THEN "live" ELSE "none"]
    /\ account = [n \in Name |-> IF user[n] = "live" THEN "unlocked" ELSE "none"]
    /\ pools   = {<<NameOf[d], v[d]>> : d \in old}
    /\ vhost   = [d \in Domain |-> IF d \in old THEN v[d] ELSE None]
    /\ links   = old
    /\ served  = vhost
    /\ skipped = {}
    /\ faults  = 0

-----------------------------------------------------------------------------
(* The course of a request.                                                *)

\* Requests for an existing domain find its row, updates are those that change
\* the PHP version.
Start(r) ==
  LET d == Dom(r)
      c == job[r].op = "create"
  IN
  /\ state[r] = "idle"
  /\ c \/ row[d] \in LiveRow
  /\ job[r].op = "update" => Ver(r) # version[d]
  /\ seen' = [seen EXCEPT ![r] =
                [status  |-> IF c THEN "pending" ELSE row[d],
                 version |-> IF job[r].op \in {"create", "update"} THEN Ver(r) ELSE version[d]]]
  /\ mixed' = IF \E q \in Request : Running(q) /\ Dom(q) = d /\ ~(c /\ job[q].op = "create")
              THEN mixed \cup {d} ELSE mixed
  /\ state' = [state EXCEPT ![r] = "running"]
  /\ todo'  = [todo EXCEPT ![r] = Steps[job[r].op]]
  /\ UNCHANGED <<job, undo, dbVars, serverVars, skipped, faults>>

\* The step succeeded; after the last one the handler returns.
Advance(r) ==
  /\ todo'  = [todo EXCEPT ![r] = Tail(@)]
  /\ state' = [state EXCEPT ![r] = IF Len(todo[r]) = 1 THEN "done" ELSE @]

\* What makes a step throw in the state it runs in: the conflicts the code
\* checks for, the unique indexes (which count soft-deleted rows), the programs
\* that reject what they are given, and the whitelist of the command executor.
Refused(r, s) ==
  \/ s = "findDomain"   /\ row[Dom(r)] \in LiveRow
  \/ s = "findUser"     /\ user[User(r)] \in LiveUser
  \/ s = "id"           /\ account[User(r)] # "none"
  \/ s = "useradd"      /\ account[User(r)] # "none"
  \/ s = "insertUser"   /\ user[User(r)] # "none"
  \/ s = "insertDomain" /\ row[Dom(r)] # "none"
  \/ s = "enable"       /\ vhost[Dom(r)] = None
  \/ s \in {"configtest", "reloadApache"} /\ Dangling
  \/ /\ s \in {"lock", "unlock", "userdel", "deletePool", "writePool"}
     /\ user[User(r)] \notin LiveUser
  \/ s \in Rejected

\* Steps whose failure is only logged, or not looked at.
Ignored == {"deleteVhost", "deletePool", "lock", "unlock"}

\* Steps before which no handler has changed anything.
Unchanged(r) == todo[r] = Steps[job[r].op] \/ Head(todo[r]) \in {"findUser", "id", "useradd"}

\* The handler throws: what the open transaction registered is undone.
Throw(r) ==
  /\ state[r] = "running"
  /\ LET s == Head(todo[r]) IN
     \/ Refused(r, s) /\ UNCHANGED faults
     \/ s = "reloadFpm" /\ Orphaned(seen[r].version) /\ UNCHANGED faults
     \/ s \notin Ignored \cup {"commit"} /\ faults < MaxFaults /\ faults' = faults + 1
  /\ state' = [state EXCEPT ![r] = IF undo[r] # <<>> THEN "rolling"
                                    ELSE IF Unchanged(r) THEN "refused" ELSE "failed"]
  /\ todo'  = [todo EXCEPT ![r] = <<>>]
  /\ UNCHANGED <<startVars, undo, dbVars, serverVars, skipped>>

\* Mutant: the removal of the account is registered before useradd has run.
Pass_UndoFirst(r) ==
  /\ \E s \in {"findDomain", "findUser", "id", "reloadFpm", "configtest", "audit"} :
       At(r, s) /\ ~Refused(r, s)
  /\ Advance(r)
  /\ undo' = IF At(r, "id")
             THEN [undo EXCEPT ![r] = <<[kind |-> "userdel", old |-> None]>>] ELSE undo
  /\ UNCHANGED <<startVars, dbVars, serverVars, skipped, faults>>

\* A check, a reload of PHP-FPM or an audit entry: it passes and nothing changes.
Pass(r) ==
  /\ \E s \in {"findDomain", "findUser", "id", "reloadFpm", "configtest", "audit"} :
       At(r, s) /\ ~Refused(r, s)
  /\ Advance(r)
  /\ UNCHANGED <<startVars, undo, dbVars, serverVars, skipped, faults>>

\* The failure of a command whose result is not looked at.
Skip(r) ==
  /\ \E s \in Ignored : At(r, s) /\ ~Refused(r, s)
  /\ faults < MaxFaults
  /\ faults'  = faults + 1
  /\ skipped' = skipped \cup {r}
  /\ Advance(r)
  /\ UNCHANGED <<startVars, undo, dbVars, serverVars>>

\* withTransaction() returns inside a handler that goes on.
Commit(r) ==
  /\ At(r, "commit")
  /\ Advance(r)
  /\ undo' = [undo EXCEPT ![r] = <<>>]
  /\ UNCHANGED <<startVars, dbVars, serverVars, skipped, faults>>

-----------------------------------------------------------------------------
(* System users.                                                           *)

Register(r, kind, old) ==
  undo' = [undo EXCEPT ![r] = Append(@, [kind |-> kind, old |-> old])]

\* useradd, then the rollback action, then the directories.
Useradd(r) ==
  /\ At(r, "useradd") /\ ~Refused(r, "useradd")
  /\ account' = [account EXCEPT ![User(r)] = "unlocked"]
  /\ Register(r, "userdel", None)
  /\ Advance(r)
  /\ UNCHANGED <<startVars, dbVars, pools, vhost, links, served, skipped, faults>>

\* The row is saved, the transaction of systemUsers.create() commits, and
\* domains.create() registers its own undo.
InsertUser(r) ==
  /\ At(r, "insertUser") /\ ~Refused(r, "insertUser")
  /\ user' = [user EXCEPT ![User(r)] = "live"]
  /\ undo' = [undo EXCEPT ![r] = <<[kind |-> "deleteUser", old |-> None]>>]
  /\ Advance(r)
  /\ UNCHANGED <<startVars, row, version, serverVars, skipped, faults>>

\* The row is saved but the audit entry is not: the account is rolled back and
\* the row is not.
InsertUserUnaudited(r) ==
  /\ At(r, "insertUser") /\ ~Refused(r, "insertUser")
  /\ faults < MaxFaults
  /\ faults' = faults + 1
  /\ user'   = [user EXCEPT ![User(r)] = "live"]
  /\ state'  = [state EXCEPT ![r] = "rolling"]
  /\ todo'   = [todo EXCEPT ![r] = <<>>]
  /\ UNCHANGED <<startVars, undo, row, version, serverVars, skipped>>

\* Mutant: unlocks when the row is ACTIVE, the status asked for.
SetLock_NewStatus(r) ==
  /\ \/ /\ At(r, "lock") /\ ~Refused(r, "lock")
        /\ account' = IF user[User(r)] = "live" /\ account[User(r)] # "none"
                      THEN [account EXCEPT ![User(r)] = "locked"] ELSE account
     \/ /\ At(r, "unlock") /\ ~Refused(r, "unlock")
        /\ account' = IF user[User(r)] = "live" /\ account[User(r)] # "none"
                      THEN [account EXCEPT ![User(r)] = "unlocked"] ELSE account
  /\ Advance(r)
  /\ UNCHANGED <<startVars, undo, dbVars, pools, vhost, links, served, skipped, faults>>

\* suspendUserInternal() and unsuspendUserInternal(), when the status differs.
SetLock(r) ==
  /\ \/ /\ At(r, "lock") /\ ~Refused(r, "lock")
        /\ account' = IF user[User(r)] = "live" /\ account[User(r)] # "none"
                      THEN [account EXCEPT ![User(r)] = "locked"] ELSE account
     \/ /\ At(r, "unlock") /\ ~Refused(r, "unlock")
        /\ account' = IF user[User(r)] = "suspended" /\ account[User(r)] # "none"
                      THEN [account EXCEPT ![User(r)] = "unlocked"] ELSE account
  /\ Advance(r)
  /\ UNCHANGED <<startVars, undo, dbVars, pools, vhost, links, served, skipped, faults>>

SaveUser(r) ==
  /\ \/ At(r, "saveLocked")   /\ user' = [user EXCEPT ![User(r)] = "suspended"]
     \/ At(r, "saveUnlocked") /\ user' = [user EXCEPT ![User(r)] = "live"]
     \/ At(r, "deleteUser")   /\ user' = [user EXCEPT ![User(r)] = "deleted"]
  /\ Advance(r)
  /\ UNCHANGED <<startVars, undo, row, version, serverVars, skipped, faults>>

\* userdel of systemUsers.delete(); an account that does not exist is fine.
Userdel(r) ==
  /\ At(r, "userdel") /\ ~Refused(r, "userdel")
  /\ account' = [account EXCEPT ![User(r)] = "none"]
  /\ Advance(r)
  /\ UNCHANGED <<startVars, undo, dbVars, pools, vhost, links, served, skipped, faults>>

-----------------------------------------------------------------------------
(* Rows, pool files and virtual hosts.                                     *)

\* save() writes the loaded entity over whatever the row has become, deletedAt
\* included; softDelete() sets that only.
SaveDomain(r) ==
  LET d == Dom(r)
      Saves(status) == /\ row'     = [row EXCEPT ![d] = status]
                       /\ version' = [version EXCEPT ![d] = seen[r].version]
  IN
  /\ \/ At(r, "insertDomain") /\ ~Refused(r, "insertDomain") /\ Saves("pending")
     \/ At(r, "saveVersion") /\ Saves(seen[r].status)
     \/ At(r, "activate") /\ Saves("active")
     \/ At(r, "saveSuspended") /\ Saves("suspended")
     \/ At(r, "deleteDomain") /\ row' = [row EXCEPT ![d] = "deleted"] /\ UNCHANGED version
  /\ Advance(r)
  /\ UNCHANGED <<startVars, undo, user, serverVars, skipped, faults>>

\* A pool that exists is snapshotted and rewritten with the same content.
WritePool(r) ==
  LET p == <<User(r), seen[r].version>> IN
  /\ At(r, "writePool") /\ ~Refused(r, "writePool")
  /\ pools' = pools \cup {p}
  /\ IF p \in pools THEN UNCHANGED undo ELSE Register(r, "pool", seen[r].version)
  /\ Advance(r)
  /\ UNCHANGED <<startVars, dbVars, account, vhost, links, served, skipped, faults>>

DeletePool(r) ==
  /\ At(r, "deletePool") /\ ~Refused(r, "deletePool")
  /\ pools' = pools \ {<<User(r), seen[r].version>>}
  /\ Advance(r)
  /\ UNCHANGED <<startVars, undo, dbVars, account, vhost, links, served, skipped, faults>>

WriteVhost(r) ==
  /\ At(r, "writeVhost")
  /\ vhost' = [vhost EXCEPT ![Dom(r)] = seen[r].version]
  /\ Register(r, "vhost", vhost[Dom(r)])
  /\ Advance(r)
  /\ UNCHANGED <<startVars, dbVars, account, pools, links, served, skipped, faults>>

\* The file and its link.
DeleteVhost(r) ==
  /\ At(r, "deleteVhost")
  /\ vhost' = [vhost EXCEPT ![Dom(r)] = None]
  /\ links' = links \ {Dom(r)}
  /\ Advance(r)
  /\ UNCHANGED <<startVars, undo, dbVars, account, pools, served, skipped, faults>>

\* Mutant: disabling a site leaves its link.
SetLink_EnableOnly(r) ==
  /\ \/ At(r, "enable") /\ ~Refused(r, "enable") /\ links' = links \cup {Dom(r)}
     \/ At(r, "disable") /\ UNCHANGED links
  /\ Advance(r)
  /\ UNCHANGED <<startVars, undo, dbVars, account, pools, vhost, served, skipped, faults>>

\* a2ensite and a2dissite.
SetLink(r) ==
  /\ \/ At(r, "enable") /\ ~Refused(r, "enable") /\ links' = links \cup {Dom(r)}
     \/ At(r, "disable") /\ links' = links \ {Dom(r)}
  /\ Advance(r)
  /\ UNCHANGED <<startVars, undo, dbVars, account, pools, vhost, served, skipped, faults>>

\* Apache loads every enabled site, whoever asks for the reload.
ReloadApache(r) ==
  /\ At(r, "reloadApache") /\ ~Refused(r, "reloadApache")
  /\ served' = [d \in Domain |-> IF d \in links THEN vhost[d] ELSE None]
  /\ Advance(r)
  /\ UNCHANGED <<startVars, undo, dbVars, account, pools, vhost, links, skipped, faults>>

-----------------------------------------------------------------------------
(* rollback(): the registered actions from the last to the first.          *)

Undone(r) ==
  /\ undo'  = [undo EXCEPT ![r] = Front(@)]
  /\ state' = [state EXCEPT ![r] = IF Len(undo[r]) = 1 THEN "failed" ELSE @]
  /\ UNCHANGED <<startVars, todo, row, version, links, served>>

Rolling(r, kind) == state[r] = "rolling" /\ Last(undo[r]).kind = kind

\* The result of userdel is ignored.
UndoUseradd(r) ==
  /\ Rolling(r, "userdel")
  /\ Undone(r)
  /\ \/ account' = [account EXCEPT ![User(r)] = "none"] /\ UNCHANGED <<skipped, faults>>
     \/ /\ faults < MaxFaults
        /\ faults' = faults + 1 /\ skipped' = skipped \cup {r}
        /\ UNCHANGED account
  /\ UNCHANGED <<user, pools, vhost>>

\* systemUsers.delete(), which fails when the row is gone.
UndoUser(r) ==
  /\ Rolling(r, "deleteUser")
  /\ Undone(r)
  /\ \/ /\ user[User(r)] \in LiveUser
        /\ account' = [account EXCEPT ![User(r)] = "none"]
        /\ user'    = [user EXCEPT ![User(r)] = "deleted"]
        /\ UNCHANGED <<skipped, faults>>
     \/ /\ faults < MaxFaults
        /\ faults' = faults + 1 /\ skipped' = skipped \cup {r}
        /\ account' \in {account, [account EXCEPT ![User(r)] = "none"]}
        /\ UNCHANGED user
  /\ UNCHANGED <<pools, vhost>>

UndoPool(r) ==
  /\ Rolling(r, "pool")
  /\ Undone(r)
  /\ pools' = pools \ {<<User(r), Last(undo[r]).old>>}
  /\ UNCHANGED <<user, account, vhost, skipped, faults>>

UndoVhost(r) ==
  /\ Rolling(r, "vhost")
  /\ Undone(r)
  /\ vhost' = [vhost EXCEPT ![Dom(r)] = Last(undo[r]).old]
  /\ UNCHANGED <<user, account, pools, skipped, faults>>

\* Deleting or restoring a file fails.
UndoFileFails(r) ==
  /\ Rolling(r, "pool") \/ Rolling(r, "vhost")
  /\ faults < MaxFaults
  /\ faults' = faults + 1
  /\ skipped' = skipped \cup {r}
  /\ Undone(r)
  /\ UNCHANGED <<user, account, pools, vhost>>

Next ==
  \E r \in Request :
    \/ Start(r) \/ Throw(r) \/ Pass(r) \/ Skip(r) \/ Commit(r)
    \/ Useradd(r) \/ InsertUser(r) \/ InsertUserUnaudited(r) \/ SetLock(r)
    \/ SaveUser(r) \/ Userdel(r)
    \/ SaveDomain(r) \/ WritePool(r) \/ DeletePool(r) \/ WriteVhost(r)
    \/ DeleteVhost(r) \/ SetLink(r) \/ ReloadApache(r)
    \/ UndoUseradd(r) \/ UndoUser(r) \/ UndoPool(r) \/ UndoVhost(r) \/ UndoFileFails(r)

Spec == Init /\ [][Next]_vars

-----------------------------------------------------------------------------
(* Properties.                                                             *)

\* Types of the variables (columns of the entities and what the commands leave).
TypeOK ==
  /\ job   \in [Request -> Job]
  /\ seen  \in [Request -> [status : LiveRow \cup {"none"}, version : Version]]
  /\ mixed \subseteq Domain
  /\ state \in [Request -> {"idle", "running", "rolling", "done", "refused", "failed"}]
  /\ \A r \in Request : \E i \in 1..(Len(Steps[job[r].op]) + 1) :
       todo[r] = SubSeq(Steps[job[r].op], i, Len(Steps[job[r].op]))
  /\ undo  \in [Request -> Seq([kind : {"userdel", "deleteUser", "pool", "vhost"},
                                old : Config])]
  /\ row     \in [Domain -> LiveRow \cup {"none", "deleted"}]
  /\ version \in [Domain -> Version]
  /\ user    \in [Name -> LiveUser \cup {"none", "deleted"}]
  /\ account \in [Name -> {"none", "unlocked", "locked"}]
  /\ pools   \subseteq Name \X Version
  /\ vhost   \in [Domain -> Config] /\ served \in [Domain -> Config]
  /\ links   \subseteq Domain
  /\ skipped \subseteq Request
  /\ faults  \in 0..MaxFaults

\* Domains one of whose requests has failed half way, or had a command fail
\* unnoticed.
Torn == {Dom(r) : r \in skipped \cup {q \in Request : state[q] = "failed"}}

\* A domain the panel shows as active, with no request under way and none that
\* failed, has everything a site needs, and Apache serves the PHP version of the
\* row: whatever the requests for other domains do, their rollbacks included, and
\* those that overlap each other (domains.service.ts create, update, unsuspend).
ActiveIsProvisioned ==
  \A d \in Domain \ (Torn \cup mixed) : Quiet(d) /\ row[d] = "active" =>
    /\ user[NameOf[d]] = "live" /\ account[NameOf[d]] = "unlocked"
    /\ <<NameOf[d], version[d]>> \in pools
    /\ d \in links /\ vhost[d] = version[d] /\ served[d] = version[d]

\* The site of a suspended domain is not served and its account is locked, also
\* after reloads on behalf of other domains.  Once the row of a domain is deleted
\* Apache does not serve it and never will, whatever failed before and whichever
\* commands failed unnoticed, and its system user is gone; another request for it
\* that overlaps the deletion brings the row, the link or the user back
\* (domains.service.ts suspend, delete).
InactiveIsDown ==
  \A d \in Domain \ mixed :
    /\ d \notin Torn /\ Quiet(d) /\ row[d] = "suspended" =>
         d \notin links /\ served[d] = None /\ account[NameOf[d]] = "locked"
    /\ row[d] = "deleted" =>
         d \notin links /\ served[d] = None /\ user[NameOf[d]] \notin LiveUser

\* A creation that has made the system account keeps it until it is rolled back:
\* another creation, of the same domain or of one whose name maps to the same
\* user, does not remove it (system-users.service.ts create, its rollback), unless
\* a domain of that user was left half done before, or two requests for it overlap.
OwnAccount ==
  \A r \in Request :
    /\ state[r] = "running" /\ undo[r] # <<>> /\ job[r].op = "create"
    /\ (\A d \in Torn \cup mixed : NameOf[d] # User(r))
    => account[User(r)] = "unlocked"

\* plan.md:168: when a domain creation fails at a step, all previous steps are
\* reverted.  (Stated of a rollback none of whose commands failed.)
CreateReverts ==
  \A r \in Request \ skipped :
    job[r].op = "create" /\ state[r] = "failed"
      /\ (\A q \in Request \ {r} : Dom(q) = Dom(r) => state[q] = "idle")
    => row[Dom(r)] # "pending" /\ Dom(r) \notin links
=============================================================================
