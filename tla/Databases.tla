----------------------------- MODULE Databases -----------------------------
(***************************************************************************)
(* Databases and their users (modules/databases): rows of the panel beside *)
(* the schemas, accounts and grants of MariaDB, which the panel changes    *)
(* with one mysql command at a time.  Nothing joins a command to the row   *)
(* it is for: each request is a sequence of awaits that may stop anywhere, *)
(* and requests interleave.  What is stored in a schema is left out.       *)
(***************************************************************************)
EXTENDS Naturals, Sequences

CONSTANTS Schema,         \* databases, by name
          DbUser,         \* users of databases, by name and host
          Privileges,     \* sets of privileges a request may ask for
          Password,       \* passwords a request may set
          Client,         \* requests that may be in flight at once
          MaxQueries,     \* bound on requests
          MaxQueryFaults  \* bound on steps that fail

ASSUME DatabasesAssumption ==
  /\ Client \subseteq Nat /\ {MaxQueries, MaxQueryFaults} \subseteq Nat
  /\ {} \notin Privileges /\ 0 \notin Password /\ "none" \notin DbUser

VARIABLES
  dbRow,    \* id of the row of each database, 0 for none
  userRow,  \* the row of each user: id, id of its database, privileges, password
  schemas,  \* schemas of the server
  sqlUsers, \* the account of each user: its password (0: no account) and grants
  query,    \* requests in flight
  sqlDown,  \* every mysql command fails: the whitelist refuses its arguments
  doubt,    \* history: what a failed or a crossing request has touched
  queries, queryFaults

dbRows       == <<dbRow, userRow>>
mariadb      == <<schemas, sqlUsers>>
databaseVars == <<dbRows, mariadb, query, sqlDown, doubt, queries, queryFaults>>

NoUserRow == [id |-> 0, of |-> 0, priv |-> {}, pw |-> 0]
NoAccount == [pw |-> 0, grants |-> [d \in Schema |-> {}]]
NoQuery   == [kind |-> "none", db |-> "none", dbId |-> 0, user |-> "none", row |-> NoUserRow,
              users |-> {}, left |-> {}, todo |-> <<>>, sound |-> FALSE, number |-> 0]

QueriesQuiet  == \A p \in Client : query[p] = NoQuery
QueryAt(p, s) == query[p].todo # <<>> /\ Head(query[p].todo) = s

DatabasesInit ==
  /\ dbRow = [d \in Schema |-> 0] /\ userRow = [u \in DbUser |-> NoUserRow]
  /\ schemas = {} /\ sqlUsers = [u \in DbUser |-> NoAccount]
  /\ query = [p \in Client |-> NoQuery]
  /\ sqlDown \in BOOLEAN /\ doubt = {} /\ queries = 0 /\ queryFaults = 0

UserParts(u) == IF u \in DbUser THEN {"account", "grants", "password"} \X {u} ELSE {}
UsersOf(d)   == {u \in DbUser : userRow[u].id # 0 /\ userRow[u].of = dbRow[d]}

\* What a request may leave undone.
Touches(q) ==
  {<<"schema", q.db>>} \cup UserParts(q.user)
    \cup UNION {UserParts(u) : u \in q.users}

\* What it puts in order when it ends as it should and no other has crossed it.
\* CREATE USER IF NOT EXISTS leaves the password of an account that is there, and
\* GRANT adds to what it has been granted.
Settles(q) ==
  CASE q.kind = "create"     -> {<<"schema", q.db>>} \cup ({"account"} \X ({q.user} \cap DbUser))
    [] q.kind = "createUser" -> {<<"account", q.user>>}
    [] q.kind = "password"   -> {<<"password", q.user>>}
    [] q.kind = "privileges" -> {<<"grants", q.user>>}
    [] q.kind = "deleteUser" -> UserParts(q.user)
    [] q.kind = "delete"     -> Touches(q)
    [] OTHER                 -> {}

-----------------------------------------------------------------------------
(* Requests: what each checks before its first command, and its steps.      *)

\* Requests that touch the same thing cross, and neither is sound any more.
QueryOpen(p, q) ==
  LET crossed == {o \in Client : Touches(query[o]) \cap Touches(q) # {} /\ query[o] # NoQuery} IN
  /\ query[p] = NoQuery /\ \A o \in Client : o < p => query[o] # NoQuery
  /\ queries < MaxQueries /\ queries' = queries + 1
  /\ query' = [o \in Client |->
       IF o = p THEN [q EXCEPT !.sound = (crossed = {}), !.number = queries + 1]
       ELSE [query[o] EXCEPT !.sound = @ /\ o \notin crossed]]
  /\ UNCHANGED <<dbRows, mariadb, sqlDown, doubt, queryFaults>>

Asked(kind, d, steps) == [NoQuery EXCEPT !.kind = kind, !.db = d, !.dbId = dbRow[d], !.todo = steps]

\* Steps of createUser() after its checks.
NewUser == <<"createAccount", "grantNew", "insertUser">>

\* create(), with or without a first user, who gets all privileges.
CreateDatabase(p, d) ==
  LET plain == Asked("create", d, <<"createSchema", "insertDb">>) IN
  /\ dbRow[d] = 0
  /\ \/ QueryOpen(p, plain)
     \/ \E u \in DbUser, w \in Password :
          QueryOpen(p, [plain EXCEPT !.user = u, !.todo = @ \o <<"checkUser">> \o NewUser,
                                     !.row = [NoUserRow EXCEPT !.priv = UNION Privileges, !.pw = w]])

\* Mutant: accounts of the users are left to the server.
DeleteDatabase_KeepUsers(p, d) ==
  /\ dbRow[d] # 0
  /\ QueryOpen(p, Asked("delete", d, <<"dropSchema", "removeDb">>))

\* delete(): the users as loaded with the row, each dropped in turn.
DeleteDatabase(p, d) ==
  /\ dbRow[d] # 0
  /\ QueryOpen(p, [Asked("delete", d, <<"dropUsers", "dropSchema", "removeDb">>) EXCEPT
                     !.users = UsersOf(d), !.left = UsersOf(d), !.todo = IF UsersOf(d) = {} THEN Tail(@) ELSE @])

\* updateStats() and backup() save the row they loaded before the command.
UpdateStats(p, d) == dbRow[d] # 0 /\ QueryOpen(p, Asked("stats", d, <<"stats", "saveDb">>))
BackupDatabase(p, d)      == dbRow[d] # 0 /\ QueryOpen(p, Asked("backup", d, <<"dump", "saveDb">>))

CreateDatabaseUser(p, d, u) ==
  /\ dbRow[d] # 0 /\ userRow[u].id = 0
  /\ \E v \in Privileges, w \in Password :
       QueryOpen(p, [Asked("createUser", d, NewUser) EXCEPT
         !.user = u, !.row = [NoUserRow EXCEPT !.priv = v, !.pw = w]])

\* updateUser(): a new password, or new privileges in place of the old ones.
UpdateDatabaseUser(p, d, u) ==
  /\ dbRow[d] # 0 /\ u \in UsersOf(d)
  /\ \/ \E w \in Password :
          QueryOpen(p, [Asked("password", d, <<"alter", "saveUser">>) EXCEPT
            !.user = u, !.row = [userRow[u] EXCEPT !.pw = w]])
     \/ \E v \in Privileges :
          QueryOpen(p, [Asked("privileges", d, <<"revoke", "grant", "saveUser">>) EXCEPT
            !.user = u, !.row = [userRow[u] EXCEPT !.priv = v]])

DeleteDatabaseUser(p, d, u) ==
  /\ dbRow[d] # 0 /\ u \in UsersOf(d)
  /\ QueryOpen(p, [Asked("deleteUser", d, <<"dropAccount", "removeUser">>) EXCEPT
       !.user = u, !.row = userRow[u]])

-----------------------------------------------------------------------------
(* Steps.                                                                   *)

QueryEnds(p, well) ==
  /\ query' = [query EXCEPT ![p] = NoQuery]
  /\ doubt' = IF well /\ query[p].sound THEN doubt \ Settles(query[p])
              ELSE doubt \cup Touches(query[p])

QueryAdvance(p) ==
  IF Len(query[p].todo) > 1
  THEN query' = [query EXCEPT ![p].todo = Tail(@)] /\ UNCHANGED doubt
  ELSE QueryEnds(p, TRUE)

\* A command of MariaDB that the server carries out.
Command(p, s) == QueryAt(p, s) /\ ~sqlDown /\ UNCHANGED <<dbRows, sqlDown, queries, queryFaults>>

CreateSchema(p) ==
  /\ Command(p, "createSchema")
  /\ schemas' = schemas \cup {query[p].db} /\ UNCHANGED sqlUsers
  /\ QueryAdvance(p)

DropSchema(p) ==
  /\ Command(p, "dropSchema")
  /\ schemas' = schemas \ {query[p].db} /\ UNCHANGED sqlUsers
  /\ QueryAdvance(p)

\* A dump needs the schema, the statistics do not.
ReadSchema(p) ==
  /\ Command(p, "stats") \/ (Command(p, "dump") /\ query[p].db \in schemas)
  /\ QueryAdvance(p)
  /\ UNCHANGED mariadb

CreateAccount(p) ==
  LET u == query[p].user IN
  /\ Command(p, "createAccount")
  /\ sqlUsers' = IF sqlUsers[u] # NoAccount THEN sqlUsers
               ELSE [sqlUsers EXCEPT ![u] = [NoAccount EXCEPT !.pw = query[p].row.pw]]
  /\ QueryAdvance(p)
  /\ UNCHANGED schemas

\* GRANT makes no account.
Grant(p) ==
  LET u == query[p].user IN
  /\ Command(p, "grantNew") \/ Command(p, "grant")
  /\ sqlUsers[u] # NoAccount
  /\ sqlUsers' = [sqlUsers EXCEPT ![u].grants[query[p].db] = @ \cup query[p].row.priv]
  /\ QueryAdvance(p)
  /\ UNCHANGED schemas

Revoke(p) ==
  LET u == query[p].user IN
  /\ Command(p, "revoke")
  /\ sqlUsers' = [sqlUsers EXCEPT ![u].grants[query[p].db] = {}]
  /\ QueryAdvance(p)
  /\ UNCHANGED schemas

AlterPassword(p) ==
  LET u == query[p].user IN
  /\ Command(p, "alter") /\ sqlUsers[u] # NoAccount
  /\ sqlUsers' = [sqlUsers EXCEPT ![u].pw = query[p].row.pw]
  /\ QueryAdvance(p)
  /\ UNCHANGED schemas

DropAccount(p) ==
  /\ Command(p, "dropAccount") \/ Command(p, "dropBack")
  /\ sqlUsers' = [sqlUsers EXCEPT ![query[p].user] = NoAccount]
  /\ IF QueryAt(p, "dropBack") THEN QueryEnds(p, FALSE) ELSE QueryAdvance(p)
  /\ UNCHANGED schemas

\* One user after the other, whatever came of it.
DropNext(p, u, went) ==
  query' = [query EXCEPT ![p].left = @ \ {u}, ![p].sound = @ /\ went,
                         ![p].todo = IF query[p].left = {u} THEN Tail(@) ELSE @]

DropUsers(p, u) ==
  /\ Command(p, "dropUsers") /\ u \in query[p].left
  /\ sqlUsers' = [sqlUsers EXCEPT ![u] = NoAccount]
  /\ DropNext(p, u, TRUE)
  /\ UNCHANGED <<schemas, doubt>>

\* A command fails, or is refused: where the result is looked at the request ends
\* there, but a failed grant to a new account drops it first.
Missing(p) ==
  \/ QueryAt(p, "dump") /\ query[p].db \notin schemas
  \/ /\ QueryAt(p, "grantNew") \/ QueryAt(p, "grant") \/ QueryAt(p, "alter")
     /\ sqlUsers[query[p].user] = NoAccount

CommandFails(p) ==
  LET unchecked == {"revoke", "dropUsers", "stats"}
      checked   == {"createSchema", "dropSchema", "createAccount", "dropAccount", "dropBack",
                    "grantNew", "grant", "alter", "dump"} IN
  /\ \E s \in checked \cup unchecked : QueryAt(p, s)
  /\ IF sqlDown \/ Missing(p) THEN UNCHANGED queryFaults
     ELSE queryFaults < MaxQueryFaults /\ queryFaults' = queryFaults + 1
  /\ CASE QueryAt(p, "grantNew") -> query' = [query EXCEPT ![p].todo = <<"dropBack">>] /\ UNCHANGED doubt
       [] QueryAt(p, "stats")    -> QueryEnds(p, TRUE)
       [] QueryAt(p, "revoke") ->
            query' = [query EXCEPT ![p].todo = Tail(@), ![p].sound = FALSE] /\ UNCHANGED doubt
       [] QueryAt(p, "dropUsers") ->
            (\E u \in query[p].left : DropNext(p, u, FALSE)) /\ UNCHANGED doubt
       [] OTHER -> QueryEnds(p, FALSE)
  /\ UNCHANGED <<dbRows, mariadb, sqlDown, queries>>

\* The database of the panel: names are unique, a user refers to a database, and
\* save() of a row that has gone inserts it again.
RowStep(p) == UNCHANGED <<mariadb, sqlDown, queries, queryFaults>>

SaveDatabaseRow(p) ==
  LET d  == query[p].db
      id == IF query[p].dbId = 0 THEN query[p].number ELSE query[p].dbId IN
  /\ QueryAt(p, "insertDb") \/ QueryAt(p, "saveDb")
  /\ dbRow[d] \in {0, id}
  /\ dbRow' = [dbRow EXCEPT ![d] = id]
  /\ IF Len(query[p].todo) > 1
     THEN query' = [query EXCEPT ![p].todo = Tail(@), ![p].dbId = id] /\ UNCHANGED doubt
     ELSE QueryEnds(p, TRUE)
  /\ UNCHANGED userRow /\ RowStep(p)

RemoveDatabaseRow(p) ==
  LET q == query[p] IN
  /\ QueryAt(p, "removeDb")
  /\ dbRow' = IF dbRow[q.db] = q.dbId THEN [dbRow EXCEPT ![q.db] = 0] ELSE dbRow
  /\ userRow' = [u \in DbUser |-> IF userRow[u].of = q.dbId THEN NoUserRow ELSE userRow[u]]
  /\ QueryAdvance(p) /\ RowStep(p)

SaveDatabaseUser(p) ==
  LET q  == query[p]
      id == IF q.row.id = 0 THEN q.number ELSE q.row.id IN
  /\ QueryAt(p, "insertUser") \/ QueryAt(p, "saveUser")
  /\ userRow[q.user].id \in {0, id} /\ dbRow[q.db] = q.dbId
  /\ userRow' = [userRow EXCEPT ![q.user] = [q.row EXCEPT !.id = id, !.of = q.dbId]]
  /\ UNCHANGED dbRow /\ QueryAdvance(p) /\ RowStep(p)

RemoveDatabaseUser(p) ==
  LET q == query[p] IN
  /\ QueryAt(p, "removeUser")
  /\ userRow' = IF userRow[q.user].id = q.row.id THEN [userRow EXCEPT ![q.user] = NoUserRow] ELSE userRow
  /\ UNCHANGED dbRow /\ QueryAdvance(p) /\ RowStep(p)

\* The check of createUser(), when it is called by create().
CheckUser(p) ==
  /\ QueryAt(p, "checkUser") /\ userRow[query[p].user].id = 0
  /\ QueryAdvance(p) /\ UNCHANGED dbRows /\ RowStep(p)

\* A row that may not be there, or the panel's database fails.
RowRefused(p) ==
  LET q == query[p] IN
  \/ (QueryAt(p, "insertDb") \/ QueryAt(p, "saveDb"))
     /\ dbRow[q.db] \notin {0, IF q.dbId = 0 THEN q.number ELSE q.dbId}
  \/ QueryAt(p, "checkUser") /\ userRow[q.user].id # 0
  \/ (QueryAt(p, "insertUser") \/ QueryAt(p, "saveUser"))
     /\ \/ userRow[q.user].id \notin {0, IF q.row.id = 0 THEN q.number ELSE q.row.id}
        \/ dbRow[q.db] # q.dbId

RowFails(p) ==
  /\ \E s \in {"insertDb", "saveDb", "removeDb", "checkUser", "insertUser", "saveUser", "removeUser"} : QueryAt(p, s)
  /\ IF RowRefused(p) THEN UNCHANGED queryFaults
     ELSE queryFaults < MaxQueryFaults /\ queryFaults' = queryFaults + 1
  /\ QueryEnds(p, FALSE)
  /\ UNCHANGED <<dbRows, mariadb, sqlDown, queries>>

DatabasesNext == \E p \in Client :
  \/ \E d \in Schema :
       \/ CreateDatabase(p, d) \/ DeleteDatabase(p, d) \/ UpdateStats(p, d) \/ BackupDatabase(p, d)
       \/ \E u \in DbUser : CreateDatabaseUser(p, d, u) \/ UpdateDatabaseUser(p, d, u) \/ DeleteDatabaseUser(p, d, u)
  \/ CreateSchema(p) \/ DropSchema(p) \/ ReadSchema(p) \/ CreateAccount(p) \/ Grant(p) \/ Revoke(p)
  \/ AlterPassword(p) \/ DropAccount(p) \/ CommandFails(p)
  \/ \E u \in DbUser : DropUsers(p, u)
  \/ SaveDatabaseRow(p) \/ RemoveDatabaseRow(p) \/ SaveDatabaseUser(p) \/ RemoveDatabaseUser(p)
  \/ CheckUser(p) \/ RowFails(p)

DatabasesSpec == DatabasesInit /\ [][DatabasesNext]_databaseVars

-----------------------------------------------------------------------------
\* Types; a user refers to a database that is there.
DatabasesTypeOK ==
  /\ dbRow \in [Schema -> 0..MaxQueries] /\ schemas \subseteq Schema
  /\ \A u \in DbUser : /\ userRow[u].id # 0 => \E d \in Schema : dbRow[d] = userRow[u].of
                       /\ userRow[u].priv \subseteq UNION Privileges
                       /\ sqlUsers[u].pw \in Password \cup {0}

\* Once no request is in flight the server has what the rows say: a schema for a
\* database and for no other, an account for a user and for no other, its password,
\* and on its database the privileges of its row.  What a failed request or two
\* that crossed have touched is excepted, until a request of the kind that puts
\* just that in order goes through: creating a user anew does not.
DatabasesMatch ==
  QueriesQuiet =>
    /\ \A d \in Schema : <<"schema", d>> \notin doubt => (dbRow[d] # 0 <=> d \in schemas)
    /\ \A u \in DbUser :
         LET row == userRow[u] IN
         /\ <<"account", u>> \notin doubt => (row.id # 0 <=> sqlUsers[u] # NoAccount)
         /\ row.id # 0 /\ <<"account", u>> \notin doubt =>
              /\ <<"password", u>> \notin doubt => sqlUsers[u].pw = row.pw
              /\ <<"grants", u>> \notin doubt =>
                   \A d \in Schema : dbRow[d] = row.of => sqlUsers[u].grants[d] = row.priv
=============================================================================
