----------------------------- MODULE PanelCache -----------------------------
(***************************************************************************)
(* What the pages of the frontend show (hooks/, lib/api/): answers kept by *)
(* key, and mutations that mark keys as stale or write answers into them   *)
(* when they have succeeded.  Keys are paths, marking one marks those it   *)
(* is a prefix of.  A query is described by its key and the kinds of rows  *)
(* its answer holds (not those of the domain or owner a row refers to), a  *)
(* mutation by the rows its handler changes and what onSuccess does; there *)
(* is one object of a kind, and its plural is which of the kind there are. *)
(* Queries have nothing in common: a behaviour looks at one of them.  The  *)
(* cache is TanStack Query as the hooks use it.                            *)
(***************************************************************************)
EXTENDS Naturals, SequencesExt, TLC

CONSTANTS MaxMutations, \* bound on mutations
          MaxAtOnce,    \* bound on mutations under way at once
          MaxLooks      \* bound on how often the page is opened, polls or loses an answer

ASSUME CacheAssumption == MaxMutations \in Nat /\ MaxAtOnce \in Nat /\ MaxLooks \in Nat

\* A query has a key, and may poll.
Query(key)  == [key |-> key, polled |-> FALSE]
Polled(key) == [key |-> key, polled |-> TRUE]
\* onSuccess marks keys, and may write the answer, with the rows it holds, under others.
Marking(marks) == [marks |-> marks, writes |-> {}, answer |-> {}]
Writing(marks, writes, answer) == [marks |-> marks, writes |-> writes, answer |-> answer]

-----------------------------------------------------------------------------
(* A file of lib/api/ and its hooks: the rows that the handler of each call *)
(* answers, or changes; the keys of queries; what mutations do to keys.     *)

DomainApi == [
  domains |-> {"domain", "domains"}, domain |-> {"domain"}, stats |-> {"usage"},
  subdomains |-> {"subdomain"}, createDomain |-> {"domains", "users"}, updateDomain |-> {"domain"},
  deleteDomain |-> {"domain", "domains", "subdomain", "user", "users", "sshKey"},
  suspendDomain |-> {"domain", "user"}, unsuspendDomain |-> {"domain", "user"},
  createSubdomain |-> {"subdomain"}, deleteSubdomain |-> {"subdomain"}]

DomainQueries == [
  domains |-> Query(<<"domains", "list">>), domain |-> Query(<<"domains", "1">>),
  stats |-> Query(<<"domains", "1", "stats">>),
  subdomains |-> Query(<<"domains", "1", "subdomains">>)]

DomainMutations == [
  createDomain |-> Marking({<<"domains">>}),
  updateDomain |-> Marking({<<"domains", "1">>, <<"domains">>}),
  deleteDomain |-> Marking({<<"domains">>}),
  suspendDomain |-> Marking({<<"domains", "1">>, <<"domains">>}),
  unsuspendDomain |-> Marking({<<"domains", "1">>, <<"domains">>}),
  createSubdomain |-> Marking({<<"domains", "1", "subdomains">>}),
  deleteSubdomain |-> Marking({<<"domains", "1", "subdomains">>})]

UserApi == [
  users |-> {"user", "users"}, user |-> {"user"}, sshKeys |-> {"sshKey"}, createUser |-> {"users"},
  updateUser |-> {"user"}, deleteUser |-> {"user", "users", "sshKey"}, addSSHKey |-> {"sshKey"},
  removeSSHKey |-> {"sshKey"}]

UserQueries == [
  users |-> Query(<<"system-users", "list">>), user |-> Query(<<"system-users", "1">>),
  sshKeys |-> Query(<<"system-users", "1", "ssh-keys">>)]

UserMutations == [
  createUser |-> Marking({<<"system-users">>}),
  updateUser |-> Marking({<<"system-users", "1">>, <<"system-users">>}),
  deleteUser |-> Marking({<<"system-users">>}),
  addSSHKey |-> Marking({<<"system-users", "1", "ssh-keys">>}),
  removeSSHKey |-> Marking({<<"system-users", "1", "ssh-keys">>})]

AppApi == [
  apps |-> {"app", "apps"}, app |-> {"app"}, deployments |-> {"deployment"},
  deployment |-> {"deployment"}, appLogs |-> {"appLog"}, appEnv |-> {"env"}, createApp |-> {"apps"},
  updateApp |-> {"app"}, deleteApp |-> {"app", "apps", "env"}, startApp |-> {"app"},
  stopApp |-> {"app"}, restartApp |-> {"app"}, reloadApp |-> {"app"},
  deployApp |-> {"app", "deployment"}, flushAppLogs |-> {"appLog"}, setAppEnv |-> {"env"},
  deleteAppEnv |-> {"env"}]

AppQueries == [
  apps |-> Query(<<"apps", "list">>), app |-> Query(<<"apps", "1">>),
  deployments |-> Polled(<<"apps", "1", "deployments">>),
  deployment |-> Polled(<<"apps", "1", "deployments", "2">>),
  appLogs |-> Query(<<"apps", "1", "logs">>), appEnv |-> Query(<<"apps", "1", "env">>)]

AppMutations == [
  createApp |-> Marking({<<"apps">>}), updateApp |-> Marking({<<"apps">>, <<"apps", "1">>}),
  deleteApp |-> Marking({<<"apps">>}), startApp |-> Marking({<<"apps", "1">>}),
  stopApp |-> Marking({<<"apps", "1">>}), restartApp |-> Marking({<<"apps", "1">>}),
  reloadApp |-> Marking({<<"apps", "1">>}), deployApp |-> Marking({<<"apps", "1">>}),
  flushAppLogs |-> Marking({<<"apps", "1", "logs">>}),
  setAppEnv |-> Marking({<<"apps", "1", "env">>}),
  deleteAppEnv |-> Marking({<<"apps", "1", "env">>})]

DatabaseApi == [
  databases |-> {"database", "databases", "databaseUser"},
  database |-> {"database", "databaseUser"}, databaseUsers |-> {"databaseUser"},
  createDatabase |-> {"databases"}, deleteDatabase |-> {"database", "databases", "databaseUser"},
  refreshStats |-> {"database"}, createDatabaseUser |-> {"databaseUser"},
  updateDatabaseUser |-> {"databaseUser"}, deleteDatabaseUser |-> {"databaseUser"},
  backupDatabase |-> {"database"}]

DatabaseQueries == [
  databases |-> Query(<<"databases", "list">>), database |-> Query(<<"databases", "detail", "1">>),
  databaseUsers |-> Query(<<"databases", "detail", "1", "users">>)]

DatabaseMutations == [
  createDatabase |-> Marking({<<"databases", "list">>}),
  deleteDatabase |-> Marking({<<"databases", "list">>}),
  refreshStats |-> Writing({<<"databases", "list">>},
    {<<"databases", "detail", "1">>}, {"database", "databaseUser"}),
  createDatabaseUser |-> Marking({<<"databases", "detail", "1", "users">>, <<"databases", "detail", "1">>}),
  updateDatabaseUser |-> Marking({<<"databases", "detail", "1", "users">>}),
  deleteDatabaseUser |-> Marking({<<"databases", "detail", "1", "users">>, <<"databases", "detail", "1">>}),
  backupDatabase |-> Marking({<<"databases", "detail", "1">>})]

\* A change of a record is one of the serial number of its zone.
DnsApi == [
  zones |-> {"zone", "zones", "record", "records"}, zone |-> {"zone", "record", "records"},
  records |-> {"record", "records"}, record |-> {"record"}, createZone |-> {"zones"},
  updateZone |-> {"zone"}, deleteZone |-> {"zone", "zones", "record", "records"},
  applyTemplate |-> {"zone", "records"}, createRecord |-> {"zone", "records"},
  updateRecord |-> {"zone", "record"}, deleteRecord |-> {"zone", "record", "records"}]

DnsQueries == [
  zones |-> Query(<<"dns", "zones", "list">>), zone |-> Query(<<"dns", "zones", "detail", "1">>),
  records |-> Query(<<"dns", "zones", "detail", "1", "records">>),
  record |-> Query(<<"dns", "record", "2">>)]

DnsMutations == [
  createZone |-> Marking({<<"dns", "zones">>}),
  updateZone |-> Writing({<<"dns", "zones">>},
    {<<"dns", "zones", "detail", "1">>}, {"zone", "record", "records"}),
  deleteZone |-> Marking({<<"dns", "zones">>}),
  applyTemplate |-> Writing({<<"dns", "zones", "detail", "1", "records">>},
    {<<"dns", "zones", "detail", "1">>}, {"zone", "record", "records"}),
  createRecord |-> Marking({<<"dns", "zones", "detail", "1", "records">>, <<"dns", "zones", "detail", "1">>}),
  updateRecord |-> Writing({<<"dns", "zones", "detail", "1", "records">>},
    {<<"dns", "record", "2">>}, {"record"}),
  deleteRecord |-> Marking({<<"dns", "zones", "detail", "1", "records">>})]

MailApi == [
  mailDomains |-> {"mailDomain", "mailDomains"},
  mailDomain |-> {"mailDomain", "mailbox", "mailboxes", "alias"}, mailRecords |-> {"mailDomain"},
  mailboxes |-> {"mailbox", "mailboxes"}, mailbox |-> {"mailbox"}, aliases |-> {"alias"},
  enableMail |-> {"mailDomains"}, updateMailDomain |-> {"mailDomain"},
  disableMail |-> {"mailDomain", "mailDomains", "mailbox", "mailboxes", "alias"},
  createMailbox |-> {"mailboxes"}, updateMailbox |-> {"mailbox"},
  deleteMailbox |-> {"mailbox", "mailboxes"}, createAlias |-> {"alias"}, updateAlias |-> {"alias"},
  deleteAlias |-> {"alias"}]

MailQueries == [
  mailDomains |-> Query(<<"mail", "domains", "list">>),
  mailDomain |-> Query(<<"mail", "domains", "1">>),
  mailRecords |-> Query(<<"mail", "domains", "1", "dns">>),
  mailboxes |-> Query(<<"mail", "domains", "1", "mailboxes">>),
  mailbox |-> Query(<<"mail", "mailbox", "2">>),
  aliases |-> Query(<<"mail", "domains", "1", "aliases">>)]

MailMutations == [
  enableMail |-> Marking({<<"mail", "domains">>}),
  updateMailDomain |-> Writing({<<"mail", "domains", "list">>}, {<<"mail", "domains", "1">>}, {"mailDomain"}),
  disableMail |-> Marking({<<"mail", "domains">>}),
  createMailbox |-> Marking({<<"mail", "domains", "1", "mailboxes">>, <<"mail", "domains", "1">>}),
  updateMailbox |-> Writing({<<"mail", "domains", "1", "mailboxes">>},
    {<<"mail", "mailbox", "2">>}, {"mailbox"}),
  deleteMailbox |-> Marking({<<"mail", "domains", "1", "mailboxes">>}),
  createAlias |-> Marking({<<"mail", "domains", "1", "aliases">>}),
  updateAlias |-> Marking({<<"mail", "domains", "1", "aliases">>}),
  deleteAlias |-> Marking({<<"mail", "domains", "1", "aliases">>})]

BackupApi == [
  backups |-> {"backup", "backups"}, backup |-> {"backup"}, createBackup |-> {"backups"},
  deleteBackup |-> {"backup", "backups"}, restoreBackup |-> {}, createSchedule |-> {"schedule"},
  updateSchedule |-> {"schedule"}, deleteSchedule |-> {"schedule"}]

BackupQueries == [
  backups |-> Query(<<"backups", "list", "all">>), backup |-> Query(<<"backups", "detail", "1">>)]

BackupMutations == [
  createBackup |-> Marking({<<"backups", "list">>}),
  deleteBackup |-> Marking({<<"backups", "list">>}),
  restoreBackup |-> Marking({<<"backups", "list">>}),
  createSchedule |-> Marking({<<"backups", "schedules">>}),
  updateSchedule |-> Marking({<<"backups", "schedules", "1">>, <<"backups", "schedules">>}),
  deleteSchedule |-> Marking({<<"backups", "schedules">>})]

CronApi == [
  cronJobs |-> {"cronJob", "cronJobs"}, cronJob |-> {"cronJob"}, updateCronJob |-> {"cronJob"},
  deleteCronJob |-> {"cronJob", "cronJobs"}, runCronJob |-> {"cronJob"}]

CronQueries == [
  cronJobs |-> Query(<<"cron", "list", "all">>), cronJob |-> Query(<<"cron", "detail", "1">>)]

CronMutations == [
  updateCronJob |-> Marking({<<"cron", "detail", "1">>, <<"cron", "list">>}),
  deleteCronJob |-> Marking({<<"cron", "list">>}),
  runCronJob |-> Marking({<<"cron", "detail", "1">>, <<"cron", "list">>})]

CertificateApi == [
  certificate |-> {"certificate"}, requestCertificate |-> {"certificate"},
  uploadCertificate |-> {"certificate"}, renewCertificate |-> {"certificate"},
  removeCertificate |-> {"certificate"}]

CertificateQueries == [
  certificate |-> Query(<<"ssl", "certificates", "1">>)]

CertificateMutations == [
  requestCertificate |-> Writing({}, {<<"ssl", "certificates", "1">>}, {"certificate"}),
  uploadCertificate |-> Writing({}, {<<"ssl", "certificates", "1">>}, {"certificate"}),
  renewCertificate |-> Writing({}, {<<"ssl", "certificates", "1">>}, {"certificate"}),
  removeCertificate |-> Writing({}, {<<"ssl", "certificates", "1">>}, {"certificate"})]

FileApi == [
  directory |-> {"entry"}, content |-> {"content"}, permissions |-> {"mode"},
  writeFile |-> {"content", "entry"}, createFile |-> {"entry", "content", "mode"},
  makeDirectory |-> {"entry"}, deleteFile |-> {"entry", "content", "mode"},
  deleteDirectory |-> {"entry", "content", "mode"}, moveFile |-> {"entry", "content", "mode"},
  copyFile |-> {"entry", "content", "mode"}, extractArchive |-> {"entry", "content", "mode"},
  setPermissions |-> {"entry", "mode"}, setOwnership |-> {"entry", "mode"},
  uploadFile |-> {"entry", "content", "mode"}]

FileQueries == [
  directory |-> Query(<<"files", "directory", "1">>),
  content |-> Query(<<"files", "content", "1">>),
  permissions |-> Query(<<"files", "permissions", "1">>)]

FileMutations == [
  writeFile |-> Marking({<<"files", "content", "1">>}), createFile |-> Marking({<<"files">>}),
  makeDirectory |-> Marking({<<"files">>}), deleteFile |-> Marking({<<"files">>}),
  deleteDirectory |-> Marking({<<"files">>}), moveFile |-> Marking({<<"files">>}),
  copyFile |-> Marking({<<"files">>}), extractArchive |-> Marking({<<"files">>}),
  setPermissions |-> Marking({<<"files", "permissions", "1">>, <<"files">>}),
  setOwnership |-> Marking({<<"files", "permissions", "1">>, <<"files">>}),
  uploadFile |-> Marking({<<"files">>})]

FirewallApi == [
  firewall |-> {"csf"}, ports |-> {"port"}, ips |-> {"ip"}, rules |-> {"rule"}, lfd |-> {"lfd"},
  allowPort |-> {"port", "rule"}, denyPort |-> {"port", "rule"}, allowIp |-> {"ip", "rule"},
  blockIp |-> {"ip", "rule"}, tempBlockIp |-> {"ip", "rule"}, unblockIp |-> {"ip", "rule"},
  restartFirewall |-> {"csf"}, reloadFirewall |-> {"csf"},
  installFirewall |-> {"csf", "port", "ip", "lfd"}, configureFirewall |-> {"csf", "port", "lfd"},
  enableFirewall |-> {"csf"}, disableFirewall |-> {"csf"}, updateLFD |-> {"lfd"},
  addLFDIgnore |-> {"lfd"}, removeLFDIgnore |-> {"lfd"}, restartLFD |-> {"lfd"}]

FirewallQueries == [
  firewall |-> Polled(<<"firewall", "status">>), ports |-> Query(<<"firewall", "ports">>),
  ips |-> Query(<<"firewall", "ips">>), rules |-> Query(<<"firewall", "rules">>),
  lfd |-> Query(<<"firewall", "lfd">>)]

Ports == {<<"firewall", "ports">>, <<"firewall", "rules">>}
Ips   == {<<"firewall", "ips">>, <<"firewall", "rules">>}

FirewallMutations == [
  allowPort |-> Marking(Ports), denyPort |-> Marking(Ports), allowIp |-> Marking(Ips),
  blockIp |-> Marking(Ips), tempBlockIp |-> Marking(Ips), unblockIp |-> Marking(Ips),
  restartFirewall |-> Marking({<<"firewall">>}), reloadFirewall |-> Marking({<<"firewall">>}),
  installFirewall |-> Marking({<<"firewall">>}), configureFirewall |-> Marking({<<"firewall">>}),
  enableFirewall |-> Marking({<<"firewall">>}), disableFirewall |-> Marking({<<"firewall">>}),
  updateLFD |-> Marking({<<"firewall", "lfd">>}), addLFDIgnore |-> Marking({<<"firewall", "lfd">>}),
  removeLFDIgnore |-> Marking({<<"firewall", "lfd">>}),
  restartLFD |-> Marking({<<"firewall", "lfd">>})]

\* The new port is opened in the firewall, too.
SshApi == [
  sshConfig |-> {"sshd"}, sshPort |-> {"sshd"}, sshSecurity |-> {"sshd"}, sshConnect |-> {"sshd"},
  sshValidate |-> {"sshd"}, changeSSHPort |-> {"sshd", "port"}, updateSSHSecurity |-> {"sshd"}]

SshQueries == [
  sshConfig |-> Query(<<"ssh", "config">>), sshPort |-> Query(<<"ssh", "port">>),
  sshSecurity |-> Query(<<"ssh", "security">>), sshConnect |-> Query(<<"ssh", "connection-info">>),
  sshValidate |-> Query(<<"ssh", "validate">>)]

SshMutations == [
  changeSSHPort |-> Marking({<<"ssh">>}), updateSSHSecurity |-> Marking({<<"ssh">>})]

SystemApi == [
  services |-> {"service"}, settings |-> {"setting"}, settingsByPrefix |-> {"setting"},
  startService |-> {"service"}, stopService |-> {"service"}, restartService |-> {"service"},
  enableService |-> {"service"}, disableService |-> {"service"}, updateSetting |-> {"setting"},
  updateSettings |-> {"setting"}]

SystemQueries == [
  services |-> Polled(<<"system", "services">>), settings |-> Query(<<"system", "settings">>),
  settingsByPrefix |-> Query(<<"system", "settings", "mail">>)]

SystemMutations == [
  startService |-> Marking({<<"system", "services">>}),
  stopService |-> Marking({<<"system", "services">>}),
  restartService |-> Marking({<<"system", "services">>}),
  enableService |-> Marking({<<"system", "services">>}),
  disableService |-> Marking({<<"system", "services">>}),
  updateSetting |-> Marking({<<"system", "settings">>}),
  updateSettings |-> Marking({<<"system", "settings">>})]

MonitoringApi == [
  alertList |-> {"alert"}, alert |-> {"alert"}, acknowledgeAlert |-> {"alert"}]

MonitoringQueries == [
  alertList |-> Polled(<<"monitoring", "alerts", "all">>),
  alert |-> Query(<<"monitoring", "alerts", "1">>)]

MonitoringMutations == [
  acknowledgeAlert |-> Marking({<<"monitoring", "alerts">>})]

NotificationApi == [
  preferences |-> {"preference"}]

NotificationQueries == [
  preferences |-> Query(<<"notifications", "preferences">>)]

Api       == DomainApi @@ UserApi @@ AppApi @@ DatabaseApi @@ DnsApi @@ MailApi @@ BackupApi
             @@ CronApi @@ CertificateApi @@ FileApi @@ FirewallApi @@ SshApi @@ SystemApi
             @@ MonitoringApi @@ NotificationApi
Queries   == DomainQueries @@ UserQueries @@ AppQueries @@ DatabaseQueries @@ DnsQueries @@ MailQueries
             @@ BackupQueries @@ CronQueries @@ CertificateQueries @@ FileQueries @@ FirewallQueries
             @@ SshQueries @@ SystemQueries @@ MonitoringQueries @@ NotificationQueries
Mutations == DomainMutations @@ UserMutations @@ AppMutations @@ DatabaseMutations @@ DnsMutations
             @@ MailMutations @@ BackupMutations @@ CronMutations @@ CertificateMutations @@ FileMutations
             @@ FirewallMutations @@ SshMutations @@ SystemMutations @@ MonitoringMutations

-----------------------------------------------------------------------------
(* What a query is not told of.  A page that shows it keeps the old answer  *)
(* until it is opened after five minutes, or reloaded.                      *)

Unnoticed == [
  users    |-> {"createDomain", "deleteDomain", "suspendDomain", "unsuspendDomain"},
  user     |-> {"deleteDomain", "suspendDomain", "unsuspendDomain"},
  sshKeys  |-> {"deleteDomain"},
  apps     |-> {"startApp", "stopApp", "restartApp", "reloadApp", "deployApp"},
  databases     |-> {"createDatabaseUser", "updateDatabaseUser", "deleteDatabaseUser", "backupDatabase"},
  database      |-> {"deleteDatabase", "updateDatabaseUser"},
  databaseUsers |-> {"deleteDatabase"},
  zones  |-> {"applyTemplate", "createRecord", "updateRecord", "deleteRecord"},
  zone   |-> {"updateRecord", "deleteRecord"},
  record |-> {"deleteZone", "deleteRecord"},
  mailDomain  |-> {"updateMailDomain", "updateMailbox", "deleteMailbox", "createAlias",
                  "updateAlias", "deleteAlias"},
  mailRecords |-> {"updateMailDomain"},
  mailbox   |-> {"disableMail", "deleteMailbox"},
  backup    |-> {"deleteBackup"},
  cronJob   |-> {"deleteCronJob"},
  directory |-> {"writeFile"},
  ports     |-> {"changeSSHPort"}]

Silent(q) == IF q \in DOMAIN Unnoticed THEN Unnoticed[q] ELSE {}

VARIABLES
  looked,    \* the query this behaviour looks at
  page,      \* is it on the page; what the cache has of it
  reply,     \* the fetch under way
  mutation,  \* mutations under way
  missed,    \* history: an answer was lost, overtaken by another, or did not stop a fetch
  mutations, looks

cacheVars == <<looked, page, reply, mutation, missed, mutations, looks>>

Slot    == 1..MaxAtOnce
NoPage  == [shown |-> FALSE, has |-> FALSE, marked |-> FALSE, behind |-> {}]
NoReply == [at |-> "none", behind |-> {}]
NoMutation == [what |-> "none", at |-> "none", behind |-> {}]

\* The mutations that change what a query answers, mark its key, write its entry whole or in part.
Changers == [q \in DOMAIN Queries |-> {m \in DOMAIN Mutations : Api[m] \cap Api[q] # {}}]

Markers == [q \in DOMAIN Queries |->
  {m \in DOMAIN Mutations : \E k \in Mutations[m].marks : IsPrefix(k, Queries[q].key)}]

Writers == [q \in DOMAIN Queries |-> {m \in DOMAIN Mutations : Queries[q].key \in Mutations[m].writes}]

Whole == [q \in DOMAIN Queries |-> {m \in Writers[q] : Api[q] \subseteq Mutations[m].answer}]

\* Of these tables: whatever else changes or writes an answer marks its key, or writes all of it.
ASSUME NoticedAssumption ==
  \A q \in DOMAIN Queries : ~Queries[q].polled =>
    (Changers[q] \cup Writers[q]) \ Silent(q) \subseteq Markers[q] \cup Whole[q]

Changing(m) == m \in Changers[looked]

CacheInit ==
  /\ looked \in DOMAIN Queries /\ page = NoPage /\ reply = NoReply
  /\ mutation = [s \in Slot |-> NoMutation] /\ missed = FALSE /\ mutations = 0 /\ looks = 0

-----------------------------------------------------------------------------
(* Queries: an entry is fetched when it is shown and there is none, it is   *)
(* marked, or too old; pages that poll fetch at any time.                   *)

Asked == [NoReply EXCEPT !.at = "asked"]

Open ==
  /\ ~page.shown /\ looks < MaxLooks /\ looks' = looks + 1
  /\ page' = [page EXCEPT !.shown = TRUE]
  /\ \E tooOld \in BOOLEAN :
       reply' = IF reply = NoReply /\ (~page.has \/ page.marked \/ tooOld) THEN Asked ELSE reply
  /\ UNCHANGED <<looked, mutation, missed, mutations>>

Close ==
  /\ page.shown /\ page' = [page EXCEPT !.shown = FALSE]
  /\ UNCHANGED <<looked, reply, mutation, missed, mutations, looks>>

Poll ==
  /\ page.shown /\ Queries[looked].polled /\ reply = NoReply /\ looks < MaxLooks /\ looks' = looks + 1
  /\ reply' = Asked
  /\ UNCHANGED <<looked, page, mutation, missed, mutations>>

Read ==
  /\ reply.at = "asked" /\ reply' = [NoReply EXCEPT !.at = "read"]
  /\ UNCHANGED <<looked, page, mutation, missed, mutations, looks>>

Filled ==
  /\ reply.at = "read"
  /\ page' = [page EXCEPT !.has = TRUE, !.marked = FALSE, !.behind = reply.behind]
  /\ reply' = NoReply
  /\ UNCHANGED <<looked, mutation, missed, mutations, looks>>

-----------------------------------------------------------------------------
(* Mutations.  What was read before one has changed a row is behind.        *)

Mutate(s, m) ==
  /\ mutation[s] = NoMutation /\ \A t \in Slot : t < s => mutation[t] # NoMutation
  /\ mutations < MaxMutations /\ mutations' = mutations + 1
  /\ mutation' = [mutation EXCEPT ![s] = [NoMutation EXCEPT !.what = m, !.at = "sent"]]
  /\ UNCHANGED <<looked, page, reply, missed, looks>>

Behind(x, m) == [x EXCEPT !.behind = @ \cup {m}]

Handled(s) ==
  LET m == mutation[s].what IN
  /\ mutation[s].at = "sent"
  /\ page' = IF Changing(m) /\ page.has THEN Behind(page, m) ELSE page
  /\ reply' = IF Changing(m) /\ reply.at = "read" THEN Behind(reply, m) ELSE reply
  /\ mutation' = [t \in Slot |->
       IF t = s THEN [mutation[s] EXCEPT !.at = "answered"]
       ELSE IF mutation[t].at = "answered" /\ Changing(m) THEN Behind(mutation[t], m) ELSE mutation[t]]
  /\ UNCHANGED <<looked, missed, mutations, looks>>

\* The handler fails, or its answer is lost: onSuccess does not run.
Rejected(s) ==
  /\ mutation[s].at \in {"sent", "answered"}
  /\ missed' = (missed \/ mutation[s].at = "answered")
  /\ mutation' = [mutation EXCEPT ![s] = NoMutation]
  /\ UNCHANGED <<looked, page, reply, mutations, looks>>

\* Mutant: only what is on the page is marked.
Marked_Shown(m) == page.shown /\ m \in Markers[looked]

Marked(m) == m \in Markers[looked]

\* setQueryData() does not stop a fetch; invalidateQueries() starts one anew, unless it is
\* the first one, and leaves what is not shown for later.
OnSuccess(s) ==
  LET m       == mutation[s].what
      written == m \in Writers[looked]
      entry   == IF ~written THEN page
                 ELSE [page EXCEPT !.has = TRUE, !.marked = FALSE,
                         !.behind = mutation[s].behind \cup (IF m \in Whole[looked] THEN {} ELSE {m})]
      again   == Marked(m) /\ page.shown /\ (reply = NoReply \/ entry.has)
  IN
  /\ mutation[s].at = "answered"
  /\ page' = IF Marked(m) THEN [entry EXCEPT !.marked = TRUE] ELSE entry
  /\ reply' = IF again THEN Asked ELSE reply
  /\ missed' = (missed \/ (reply.behind # {} /\ ~again) \/ (written /\ mutation[s].behind # {}))
  /\ mutation' = [mutation EXCEPT ![s] = NoMutation]
  /\ UNCHANGED <<looked, mutations, looks>>

CacheNext ==
  \/ Open \/ Close \/ Poll \/ Read \/ Filled
  \/ \E s \in Slot : (\E m \in Changers[looked] \cup Markers[looked] : Mutate(s, m))
                       \/ Handled(s) \/ Rejected(s) \/ OnSuccess(s)

CacheSpec == CacheInit /\ [][CacheNext]_cacheVars

-----------------------------------------------------------------------------
\* Types; an entry that is not there is neither marked nor behind.
CacheTypeOK ==
  /\ page.behind \cup reply.behind \subseteq DOMAIN Mutations
  /\ reply.at \in {"none", "asked", "read"}
  /\ ~page.has => page.behind = {}

QuietCache == reply = NoReply /\ \A s \in Slot : mutation[s] = NoMutation
Missing    == Silent(looked)

\* Once everything the page has asked for has come, what it shows is what the server
\* has: but for the mutations a query is known not to notice, and for answers that were
\* lost, were overtaken by the answer to a later change, or did not stop a fetch.
ShowsWhatIs ==
  QuietCache /\ page.shown /\ ~Queries[looked].polled /\ ~missed => page.behind \subseteq Missing
=============================================================================
