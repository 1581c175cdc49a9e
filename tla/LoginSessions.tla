--------------------------- MODULE LoginSessions ---------------------------
(***************************************************************************)
(* Logging in and out and resetting a password (modules/auth, users): one  *)
(* account, the refresh and reset tokens kept in Redis, and requests that  *)
(* await a query or a hash between any two steps.  save() writes columns   *)
(* as they were loaded.  A password is the number of the reset that set    *)
(* it.  Nothing sends the reset token: whoever resets has it from Redis.   *)
(* No request reaches UsersService.update, changePassword or delete.       *)
(***************************************************************************)
EXTENDS Naturals, FiniteSets

CONSTANTS Visitor,    \* requests under way at once
          Limit,      \* failed attempts that lock an account
          LockTime,   \* how long it is locked
          MaxHour,    \* bound on time
          MaxVisits,  \* bound on requests
          MaxVisitFaults \* bound on queries and calls to Redis that fail

ASSUME LoginAssumption ==
  Limit \in Nat \ {0} /\ {LockTime, MaxHour, MaxVisits, MaxVisitFaults} \subseteq Nat

VARIABLES
  hour,          \* time
  account,       \* the row of the user
  refreshTokens, \* keys refresh_token:<user>:<token>
  resetTokens,   \* keys password_reset:<token>
  visit,         \* what each request is at
  browser,       \* the cookie and the access token of each login
  inRow,         \* history: failures since the last success that met no other save
  failedAt,      \* history: when the last one was saved
  visits, visitFaults

loginVars == <<hour, account, refreshTokens, resetTokens, visit, browser, inRow, failedAt, visits, visitFaults>>

Login     == 1..MaxVisits
Account   == [failedLoginAttempts : Nat, lockedUntil : Nat, password : Nat]
NewAccount == [failedLoginAttempts |-> 0, lockedUntil |-> 0, password |-> 1]

\* A request: its step, the row it loaded, the password it gave or its reset token, the keys
\* it listed.  History: stale when another save came after its load, excused from a reset.
NoVisit   == [at |-> "none", row |-> NewAccount, password |-> 0, keys |-> {}, stale |-> FALSE, excused |-> FALSE]
NoBrowser == [cookie |-> "none", access |-> "none"]

IsLocked(row) == hour < row.lockedUntil
Resetting     == \E v \in Visitor : visit[v].at \in {"del key", "list keys", "del keys"}

LoginInit ==
  /\ hour = 1 /\ account = NewAccount /\ refreshTokens = {} /\ resetTokens = {}
  /\ visit = [v \in Visitor |-> NoVisit] /\ browser = [n \in Login |-> NoBrowser]
  /\ inRow = 0 /\ failedAt = 0 /\ visits = 0 /\ visitFaults = 0

LoginTime ==
  /\ hour < MaxHour /\ hour' = hour + 1
  /\ UNCHANGED <<account, refreshTokens, resetTokens, visit, browser, inRow, failedAt, visits, visitFaults>>

\* After fifteen minutes the access token is refused.
AccessTokenExpires(n) ==
  /\ browser[n].access = "valid" /\ browser' = [browser EXCEPT ![n].access = "expired"]
  /\ UNCHANGED <<hour, account, refreshTokens, resetTokens, visit, inRow, failedAt, visits, visitFaults>>

-----------------------------------------------------------------------------
(* Requests begin, advance, save and end.                                   *)

Counts       == visits < MaxVisits /\ visits' = visits + 1
VisitAt(v, at) == visit' = [visit EXCEPT ![v].at = at]
VisitEnds(v)   == visit' = [visit EXCEPT ![v] = NoVisit]
RowLoaded(v, at) == visit' = [visit EXCEPT ![v].at = at, ![v].row = account, ![v].stale = FALSE]

\* save(), after which the request is at another step, or over.
Saved(v, row, at) ==
  /\ account' = row
  /\ visit' = [w \in Visitor |-> IF w # v THEN [visit[w] EXCEPT !.stale = visit[w].at # "none"]
                                 ELSE IF at = "none" THEN NoVisit ELSE [visit[v] EXCEPT !.at = at]]

\* A query or a call to Redis rejects, and the request is answered with an error.  What a
\* reset has left undone by then stays undone: the token it came with may be gone.
VisitFails(v) ==
  /\ visit[v].at # "none" /\ visitFaults < MaxVisitFaults /\ visitFaults' = visitFaults + 1
  /\ LET cut == visit[v].at \in {"del key", "list keys", "del keys"} IN
     /\ refreshTokens' = {[t EXCEPT !.excused = @ \/ cut] : t \in refreshTokens}
     /\ visit' = [w \in Visitor |-> IF w = v \/ visit[w].at = "none" THEN NoVisit
                                    ELSE [visit[w] EXCEPT !.excused = @ \/ cut]]
  /\ UNCHANGED <<hour, account, resetTokens, browser, inRow, failedAt, visits>>

-----------------------------------------------------------------------------
(* POST auth/login.  The row is loaded with its password and refused when   *)
(* it is locked; the hash is verified; the attempt is recorded in the row   *)
(* loaded once more; the tokens are made.                                   *)

ValidateUser(v) ==
  /\ visit[v] = NoVisit /\ Counts /\ ~IsLocked(account)
  /\ \E password \in {0, account.password} :
       visit' = [visit EXCEPT ![v] = [NoVisit EXCEPT !.at = "verify", !.row = account, !.password = password]]
  /\ UNCHANGED <<hour, account, refreshTokens, resetTokens, browser, inRow, failedAt, visitFaults>>

\* Mutant: what verify() answers is not looked at.
RecordLoginAttempt_Any(v) ==
  /\ visit[v].at = "verify"
  /\ RowLoaded(v, "succeeded")
  /\ UNCHANGED <<hour, account, refreshTokens, resetTokens, browser, inRow, failedAt, visits, visitFaults>>

RecordLoginAttempt(v) ==
  /\ visit[v].at = "verify"
  /\ RowLoaded(v, IF visit[v].password = visit[v].row.password THEN "succeeded" ELSE "failed")
  /\ UNCHANGED <<hour, account, refreshTokens, resetTokens, browser, inRow, failedAt, visits, visitFaults>>

\* Mutant: one attempt too many.
Counted_Above(row) ==
  LET n == row.failedLoginAttempts + 1 IN
  [row EXCEPT !.failedLoginAttempts = n, !.lockedUntil = IF n > Limit THEN hour + LockTime ELSE @]

\* The counter is not set back when a lock ends: the next failure locks again.
Counted(row) ==
  LET n == row.failedLoginAttempts + 1 IN
  [row EXCEPT !.failedLoginAttempts = n, !.lockedUntil = IF n >= Limit THEN hour + LockTime ELSE @]

\* The password is not among the columns that are loaded here.
SaveFailure(v) ==
  /\ visit[v].at = "failed"
  /\ Saved(v, [Counted(visit[v].row) EXCEPT !.password = account.password], "none")
  /\ inRow' = IF visit[v].stale THEN 0 ELSE IF inRow < Limit THEN inRow + 1 ELSE Limit
  /\ failedAt' = hour
  /\ UNCHANGED <<hour, refreshTokens, resetTokens, browser, visits, visitFaults>>

SaveSuccess(v) ==
  /\ visit[v].at = "succeeded"
  /\ Saved(v, [account EXCEPT !.failedLoginAttempts = 0, !.lockedUntil = 0], "store")
  /\ inRow' = 0
  /\ UNCHANGED <<hour, refreshTokens, resetTokens, browser, failedAt, visits, visitFaults>>

\* The cookie called refreshToken is given the access token.
CookieOfLogin == "access token"

StoreRefreshToken(v) ==
  /\ visit[v].at = "store"
  /\ \E n \in Login :
       /\ browser[n] = NoBrowser /\ \A m \in Login : m < n => browser[m] # NoBrowser
       /\ refreshTokens' = refreshTokens \cup
            {[of |-> n, password |-> visit[v].password, excused |-> visit[v].excused]}
       /\ browser' = [browser EXCEPT ![n] = [cookie |-> CookieOfLogin, access |-> "valid"]]
  /\ VisitEnds(v)
  /\ UNCHANGED <<hour, account, resetTokens, inRow, failedAt, visits, visitFaults>>

-----------------------------------------------------------------------------
(* POST auth/logout and auth/refresh: the cookie names the token.           *)

KeyOf(n) == {t \in refreshTokens : t.of = n /\ browser[n].cookie = "refresh token"}

\* The guard refuses the access token of an account that is locked.
Logout(n) ==
  /\ browser[n].access = "valid" /\ ~IsLocked(account) /\ Counts
  /\ refreshTokens' = refreshTokens \ KeyOf(n)
  /\ browser' = [browser EXCEPT ![n] = [cookie |-> "cleared", access |-> "dropped"]]
  /\ UNCHANGED <<hour, account, resetTokens, visit, inRow, failedAt, visitFaults>>

\* A refresh is public: it is answered with a new access token or with 401.
RefreshAccessToken(n) ==
  /\ browser[n].access = "expired" /\ Counts
  /\ browser' = [browser EXCEPT ![n].access = IF KeyOf(n) # {} THEN "valid" ELSE "refused"]
  /\ UNCHANGED <<hour, account, refreshTokens, resetTokens, visit, inRow, failedAt, visitFaults>>

-----------------------------------------------------------------------------
(* POST auth/forgot-password and auth/reset-password.                       *)

RequestPasswordReset ==
  /\ Counts /\ resetTokens' = resetTokens \cup {visits'}
  /\ UNCHANGED <<hour, account, refreshTokens, visit, browser, inRow, failedAt, visitFaults>>

\* Two requests with one token both find it.
GetResetToken(v) ==
  /\ visit[v] = NoVisit /\ Counts
  /\ \E t \in resetTokens : visit' = [visit EXCEPT ![v] = [NoVisit EXCEPT !.at = "reset", !.password = t]]
  /\ UNCHANGED <<hour, account, refreshTokens, resetTokens, browser, inRow, failedAt, visitFaults>>

SetPassword(v) ==
  /\ visit[v].at = "reset" /\ RowLoaded(v, "set")
  /\ UNCHANGED <<hour, account, refreshTokens, resetTokens, browser, inRow, failedAt, visits, visitFaults>>

\* The counter and the lock are written back as they were loaded.
SavePassword(v) ==
  /\ visit[v].at = "set"
  /\ Saved(v, [visit[v].row EXCEPT !.password = account.password + 1], "del key")
  /\ inRow' = IF visit[v].stale THEN 0 ELSE inRow
  /\ UNCHANGED <<hour, refreshTokens, resetTokens, browser, failedAt, visits, visitFaults>>

DelResetToken(v) ==
  /\ visit[v].at = "del key"
  /\ resetTokens' = resetTokens \ {visit[v].password} /\ VisitAt(v, "list keys")
  /\ UNCHANGED <<hour, account, refreshTokens, browser, inRow, failedAt, visits, visitFaults>>

\* Logins that are past the password and have no token yet are missed.
ListRefreshTokens(v) ==
  /\ visit[v].at = "list keys"
  /\ visit' = [w \in Visitor |->
       IF w = v THEN [visit[v] EXCEPT !.at = "del keys", !.keys = {t.of : t \in refreshTokens}]
       ELSE [visit[w] EXCEPT !.excused = visit[w].at # "none"]]
  /\ UNCHANGED <<hour, account, refreshTokens, resetTokens, browser, inRow, failedAt, visits, visitFaults>>

\* Mutant: keys.length > 1.
DelRefreshTokens_Several(v) ==
  /\ visit[v].at = "del keys"
  /\ refreshTokens' = IF Cardinality(visit[v].keys) > 1
                      THEN {t \in refreshTokens : t.of \notin visit[v].keys} ELSE refreshTokens
  /\ VisitEnds(v)
  /\ UNCHANGED <<hour, account, resetTokens, browser, inRow, failedAt, visits, visitFaults>>

DelRefreshTokens(v) ==
  /\ visit[v].at = "del keys"
  /\ refreshTokens' = {t \in refreshTokens : t.of \notin visit[v].keys}
  /\ VisitEnds(v)
  /\ UNCHANGED <<hour, account, resetTokens, browser, inRow, failedAt, visits, visitFaults>>

LoginNext ==
  \/ LoginTime \/ RequestPasswordReset
  \/ \E n \in Login : AccessTokenExpires(n) \/ Logout(n) \/ RefreshAccessToken(n)
  \/ \E v \in Visitor :
       \/ ValidateUser(v) \/ RecordLoginAttempt(v) \/ SaveFailure(v) \/ SaveSuccess(v) \/ StoreRefreshToken(v)
       \/ GetResetToken(v) \/ SetPassword(v) \/ SavePassword(v) \/ DelResetToken(v)
       \/ ListRefreshTokens(v) \/ DelRefreshTokens(v) \/ VisitFails(v)

LoginSpec == LoginInit /\ [][LoginNext]_loginVars

-----------------------------------------------------------------------------
\* Types; a login that is signed in had the password of some time.
LoginTypeOK ==
  /\ account \in Account
  /\ \A v \in Visitor : visit[v].row \in Account /\ visit[v].keys \subseteq Login
  /\ \A t \in refreshTokens : t.of \in Login /\ t.password \in 1..account.password /\ browser[t.of] # NoBrowser
  /\ resetTokens \subseteq Login

\* As many failures as the limit, none of which met another save, keep the account
\* locked for the whole time after the last: whatever logins, resets and failing
\* queries overlap with them.
LockoutHolds == inRow >= Limit => account.lockedUntil >= failedAt + LockTime

\* Once no reset is under way, every refresh token left was made with the password
\* of now: but for logins that were under way when a reset listed the tokens, and
\* for resets that a query cut short.
ResetEndsSessions ==
  ~Resetting => \A t \in refreshTokens : t.password = account.password \/ t.excused
=============================================================================
