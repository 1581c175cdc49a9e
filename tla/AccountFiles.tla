---------------------------- MODULE AccountFiles ----------------------------
(***************************************************************************)
(* The account of a system user after it was made (modules/system-users,   *)
(* modules/cron): its row, the rows of its SSH keys and cron jobs, and on  *)
(* the server its shell and lock, authorized_keys and crontab.  The two    *)
(* files are rewritten whole from the rows; requests interleave between    *)
(* any two awaits.                                                         *)
(***************************************************************************)
EXTENDS Naturals, Sequences, FiniteSets

CONSTANTS Key,            \* SSH keys, by fingerprint
          Cron,           \* cron jobs of its domains
          Caller,         \* requests that may be in flight at once
          Refusals,       \* what the whitelist may refuse of {"crontab"}
          MaxCalls,       \* bound on requests
          MaxCallFaults   \* bound on steps that fail

ASSUME AccountAssumption ==
  Caller \subseteq Nat /\ {MaxCalls, MaxCallFaults} \subseteq Nat /\ Refusals \subseteq SUBSET {"crontab"}

VARIABLES
  account,    \* the row: status, sftpOnly and sshEnabled
  keyRows,    \* rows of keys
  expired,    \* keys past expiresAt
  cronRow,    \* the row of each job: none, on or off
  posix,      \* the account on the server: locked, shell
  authorized, \* keys in authorized_keys
  crontab,    \* jobs in the crontab
  call,       \* requests in flight, each with the rows it has read
  refused,    \* commands the whitelist refuses
  loose,      \* history: what requests that failed or overlapped have touched
  calls, callFaults

rows    == <<account, keyRows, expired, cronRow>>
server  == <<posix, authorized, crontab>>
accountVars == <<rows, server, call, refused, loose, calls, callFaults>>

\* What a row says.
AccountRow == [status : {"ACTIVE", "SUSPENDED"}, sftp : BOOLEAN, ssh : BOOLEAN]
JobValues  == {"on", "off"}

\* What a request may leave behind.
Parts == {"keys", "cron", "sftp", "status", "ssh"}

NoCall == [part |-> "none", on |-> "none", todo |-> <<>>, alone |-> FALSE,
           to |-> "none", read |-> {}]

CallsQuiet   == \A p \in Caller : call[p] = NoCall
CallAt(p, s) == call[p].todo # <<>> /\ Head(call[p].todo) = s

AccountInit ==
  /\ account = [status |-> "ACTIVE", sftp |-> FALSE, ssh |-> TRUE]
  /\ keyRows = {} /\ expired = {} /\ authorized = {}
  /\ cronRow = [j \in Cron |-> "none"] /\ crontab = {}
  /\ posix = [locked |-> FALSE, shell |-> "bash"]
  /\ call = [p \in Caller |-> NoCall]
  /\ refused \in Refusals /\ loose = {} /\ calls = 0 /\ callFaults = 0

-----------------------------------------------------------------------------
(* Requests.                                                                *)

\* A request that starts while another runs takes that one's being alone with it.
CallOpen(p, part, on, to, steps) ==
  /\ call[p] = NoCall /\ \A q \in Caller : q < p => call[q] # NoCall
  /\ calls < MaxCalls /\ calls' = calls + 1
  /\ call' = [q \in Caller |->
       IF q = p THEN [NoCall EXCEPT !.part = part, !.on = on, !.to = to, !.todo = steps,
                                    !.alone = CallsQuiet]
       ELSE [call[q] EXCEPT !.alone = FALSE]]
  /\ UNCHANGED <<rows, server, refused, loose, callFaults>>

\* syncAuthorizedKeys(): the directory is seen to, and the file written.
SyncKeys == <<"readKeys", "writeKeys">>

AddSSHKey(p, k) ==
  /\ account.ssh /\ k \notin keyRows
  /\ CallOpen(p, "keys", k, account, <<"saveKey">> \o SyncKeys)

\* Mutant: the file is left for the next change.
RemoveSSHKey_NoSync(p, k) ==
  /\ k \in keyRows
  /\ CallOpen(p, "keys", k, account, <<"deleteKey">>)

RemoveSSHKey(p, k) ==
  /\ k \in keyRows
  /\ CallOpen(p, "keys", k, account, <<"deleteKey">> \o SyncKeys)

\* update(): the row is loaded, changed in memory, and saved after the commands;
\* what these return is not looked at.
UpdateUser(p) ==
  LET shell  == [account EXCEPT !.sftp = ~@]
      flipped == [account EXCEPT !.status = IF @ = "ACTIVE" THEN "SUSPENDED" ELSE "ACTIVE"]
      ssh    == [account EXCEPT !.ssh = ~@] IN
  \/ CallOpen(p, "sftp", "row", shell, <<"shell", "saveUser">>)
  \/ CallOpen(p, "status", "row", flipped, <<"lock", "shell", "saveUser">>)
  \/ CallOpen(p, "ssh", "row", ssh, IF account.ssh THEN <<"rmKeys", "saveUser">> ELSE <<"saveUser">>)

\* syncUserCrontab().
SyncCrontab == <<"readJobs", "writeCrontab">>

CreateCron(p, j) ==
  /\ cronRow[j] = "none"
  /\ CallOpen(p, "cron", j, "on", <<"saveJob">> \o SyncCrontab)

UpdateCron(p, j) ==
  /\ cronRow[j] # "none"
  /\ \E v \in JobValues : CallOpen(p, "cron", j, v, <<"saveJob">> \o SyncCrontab)

DeleteCron(p, j) ==
  /\ cronRow[j] # "none"
  /\ CallOpen(p, "cron", j, "none", <<"saveJob">> \o SyncCrontab)

-----------------------------------------------------------------------------
(* Steps of a request.                                                      *)

\* The last step puts what the request rewrites in order, if it ran alone.
CallAdvance(p, went) ==
  LET c == call[p] IN
  IF Len(c.todo) > 1
  THEN call' = [call EXCEPT ![p].todo = Tail(@), ![p].alone = @ /\ went] /\ UNCHANGED loose
  ELSE /\ call' = [call EXCEPT ![p] = NoCall]
       /\ loose' = IF c.alone /\ went THEN loose \ {c.part} ELSE loose \cup {c.part}

CallFailed(p) ==
  /\ call' = [call EXCEPT ![p] = NoCall] /\ loose' = loose \cup {call[p].part}

\* The fingerprint is unique.
SaveKey(p) ==
  /\ CallAt(p, "saveKey") /\ call[p].on \notin keyRows
  /\ keyRows' = keyRows \cup {call[p].on}
  /\ CallAdvance(p, TRUE)
  /\ UNCHANGED <<account, expired, cronRow, server, refused, calls, callFaults>>

DeleteKey(p) ==
  /\ CallAt(p, "deleteKey")
  /\ keyRows' = keyRows \ {call[p].on}
  /\ CallAdvance(p, TRUE)
  /\ UNCHANGED <<account, expired, cronRow, server, refused, calls, callFaults>>

\* Keys past their date are left out, as of this moment.
ReadKeys(p) ==
  /\ CallAt(p, "readKeys")
  /\ call' = [call EXCEPT ![p].todo = Tail(@), ![p].read = keyRows \ expired]
  /\ UNCHANGED <<rows, server, refused, loose, calls, callFaults>>

WriteKeys(p) ==
  /\ CallAt(p, "writeKeys")
  /\ authorized' = call[p].read
  /\ CallAdvance(p, TRUE)
  /\ UNCHANGED <<rows, posix, crontab, refused, calls, callFaults>>

\* Disabling SSH removes the file.
RmKeys(p) ==
  /\ CallAt(p, "rmKeys")
  /\ authorized' = {}
  /\ CallAdvance(p, TRUE)
  /\ UNCHANGED <<rows, posix, crontab, refused, calls, callFaults>>

\* suspendUserInternal(), unsuspendUserInternal().
Lock(p) == call[p].to.status = "SUSPENDED"

UserLock(p) ==
  /\ CallAt(p, "lock")
  /\ posix' = [posix EXCEPT !.locked = Lock(p)]
  /\ CallAdvance(p, TRUE)
  /\ UNCHANGED <<rows, authorized, crontab, refused, calls, callFaults>>

\* Lifting a suspension gives bash, also to an account for SFTP only.
NewShell(c) ==
  IF c.part = "sftp" THEN IF c.to.sftp THEN "nologin" ELSE "bash"
  ELSE IF c.to.status = "SUSPENDED" THEN "nologin" ELSE "bash"

UserShell(p) ==
  /\ CallAt(p, "shell")
  /\ posix' = [posix EXCEPT !.shell = NewShell(call[p])]
  /\ CallAdvance(p, TRUE)
  /\ UNCHANGED <<rows, authorized, crontab, refused, calls, callFaults>>

\* save(): every column as it was loaded, and the change.
SaveUserRow(p) ==
  /\ CallAt(p, "saveUser")
  /\ account' = call[p].to
  /\ CallAdvance(p, TRUE)
  /\ UNCHANGED <<keyRows, expired, cronRow, server, refused, calls, callFaults>>

SaveJob(p) ==
  /\ CallAt(p, "saveJob")
  /\ cronRow' = [cronRow EXCEPT ![call[p].on] = call[p].to]
  /\ CallAdvance(p, TRUE)
  /\ UNCHANGED <<account, keyRows, expired, server, refused, calls, callFaults>>

ActiveJobs == {j \in Cron : cronRow[j] = "on"}

ReadJobs(p) ==
  /\ CallAt(p, "readJobs")
  /\ call' = [call EXCEPT ![p].todo = Tail(@), ![p].read = ActiveJobs]
  /\ UNCHANGED <<rows, server, refused, loose, calls, callFaults>>

WriteCrontab(p) ==
  /\ CallAt(p, "writeCrontab") /\ "crontab" \notin refused
  /\ crontab' = call[p].read
  /\ CallAdvance(p, TRUE)
  /\ UNCHANGED <<rows, posix, authorized, refused, calls, callFaults>>

\* A refused or failed command is not an exception: nothing is written, and the
\* request answers that all is well.
CommandIgnored(p) ==
  /\ \/ CallAt(p, "writeCrontab") /\ "crontab" \in refused /\ UNCHANGED callFaults
     \/ /\ \E s \in {"writeCrontab", "rmKeys", "lock", "shell"} : CallAt(p, s)
        /\ callFaults < MaxCallFaults /\ callFaults' = callFaults + 1
  /\ CallAdvance(p, FALSE)
  /\ UNCHANGED <<rows, server, refused, calls>>

\* The database fails or refuses a key, or tee fails: the request ends there.
CallFails(p) ==
  /\ \/ CallAt(p, "saveKey") /\ call[p].on \in keyRows /\ UNCHANGED callFaults
     \/ /\ \E s \in {"saveKey", "deleteKey", "readKeys", "writeKeys", "saveUser", "saveJob", "readJobs"} :
             CallAt(p, s)
        /\ callFaults < MaxCallFaults /\ callFaults' = callFaults + 1
  /\ CallFailed(p)
  /\ UNCHANGED <<rows, server, refused, calls>>

\* Time passes; nothing looks at the file then.
KeyExpires(k) ==
  /\ k \in keyRows \ expired
  /\ expired' = expired \cup {k}
  /\ UNCHANGED <<account, keyRows, cronRow, server, call, refused, loose, calls, callFaults>>

AccountNext ==
  \/ \E p \in Caller :
       \/ \E k \in Key : AddSSHKey(p, k) \/ RemoveSSHKey(p, k)
       \/ UpdateUser(p)
       \/ \E j \in Cron : CreateCron(p, j) \/ UpdateCron(p, j) \/ DeleteCron(p, j)
       \/ SaveKey(p) \/ DeleteKey(p) \/ ReadKeys(p) \/ WriteKeys(p) \/ RmKeys(p)
       \/ UserLock(p) \/ UserShell(p) \/ SaveUserRow(p)
       \/ SaveJob(p) \/ ReadJobs(p) \/ WriteCrontab(p)
       \/ CommandIgnored(p) \/ CallFails(p)
  \/ \E k \in Key : KeyExpires(k)

AccountSpec == AccountInit /\ [][AccountNext]_accountVars

-----------------------------------------------------------------------------
\* Types; a request that has no steps left is none.
AccountTypeOK ==
  /\ account \in AccountRow
  /\ keyRows \subseteq Key /\ authorized \subseteq Key
  /\ cronRow \in [Cron -> JobValues \cup {"none"}] /\ crontab \subseteq Cron
  /\ posix \in [locked : BOOLEAN, shell : {"bash", "nologin"}]
  /\ \A p \in Caller : call[p].todo = <<>> => call[p] = NoCall

\* Once no request is in flight, a key whose row is gone opens nothing, the crontab
\* runs the jobs that are switched on and no others, and a suspended account and no
\* other is locked: each unless a request failed or two overlapped, and then from
\* the next one on that changes this part and runs alone.
AccountFollowsRows ==
  CallsQuiet =>
    /\ "keys"   \notin loose => authorized \subseteq keyRows
    /\ "cron"   \notin loose => crontab = ActiveJobs
    /\ "status" \notin loose => (posix.locked <=> account.status = "SUSPENDED")
=============================================================================
