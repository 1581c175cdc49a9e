-------------------------- MODULE OperationsProofs --------------------------
(***************************************************************************)
(* Proofs about five components MCOperations composes, each by its own     *)
(* specification.  LoginSessions: for any number of visitors, whatever     *)
(* limit and lock time, failed attempts in a row lock the account, and a   *)
(* reset of the password ends the sessions made with the one before.       *)
(* Alerts: for any rules, durations and cooldowns and any number of        *)
(* overlapping evaluations, the alerts of a rule follow it.  PanelCache:   *)
(* however mutations, fetches and visits interleave, a page at rest shows  *)
(* what the server has.  Installer: whatever ports are asked for and       *)
(* wherever a script stops, SSH stays reachable and the panel can open its *)
(* database.  Notifications: however dispatches overlap, every user is     *)
(* told of an event as he asked to be.                                     *)
(***************************************************************************)
EXTENDS MCOperations, FiniteSetTheorems, SequenceTheorems, TLAPS

-----------------------------------------------------------------------------
(* LoginSessions: its inductive invariant, by parts.                         *)

Stage == {"none", "verify", "failed", "succeeded", "store", "reset", "set", "del key", "list keys", "del keys"}
Visit == [at : Stage, row : Account, password : Nat, keys : SUBSET Login, stale : BOOLEAN,
          excused : BOOLEAN]
Browser == [cookie : {"none", "access token", "refresh token", "cleared"},
            access : {"none", "valid", "expired", "refused", "dropped"}]
Token == [of : Login, password : Nat, excused : BOOLEAN]

Types ==
  /\ hour \in Nat /\ account \in Account /\ refreshTokens \subseteq Token /\ resetTokens \subseteq Login
  /\ visit \in [Visitor -> Visit] /\ browser \in [Login -> Browser]
  /\ inRow \in 0..Limit /\ failedAt \in Nat /\ visits \in Nat

\* A request that holds a row no other save came after holds the row as it is.
RowsAreFresh ==
  \A v \in Visitor :
    visit[v].at \in {"verify", "failed", "succeeded", "set"} /\ ~visit[v].stale => visit[v].row = account

\* The row has counted at least the failures in a row that met no other save.
CountedInRow == inRow <= account.failedLoginAttempts

\* The request gave the right password, at least when its row was loaded.
Admitted(v) ==
  \/ visit[v].at = "verify" /\ visit[v].password = visit[v].row.password
  \/ visit[v].at \in {"succeeded", "store"}

\* Passwords are numbered up to that of now.
PasswordsKnown ==
  /\ account.password >= 1
  /\ \A v \in Visitor :
       /\ visit[v].at = "verify" => visit[v].row.password \in 1..account.password
       /\ Admitted(v) => visit[v].password \in 1..account.password
  /\ \A t \in refreshTokens : t.password \in 1..account.password

\* A login past an old password, and a token made with one, is one that a reset under
\* way will still list, has listed, or is excused from.
AboutToList == \E u \in Visitor : visit[u].at \in {"del key", "list keys"}
HasListed(t) == \E u \in Visitor : visit[u].at = "del keys" /\ t.of \in visit[u].keys

OldOnesAreListed ==
  /\ \A v \in Visitor : Admitted(v) /\ ~visit[v].excused =>
       visit[v].password = account.password \/ AboutToList
  /\ \A t \in refreshTokens : ~t.excused =>
       t.password = account.password \/ AboutToList \/ HasListed(t)

\* Each token belongs to a login that was answered.
TokensWereSent == \A t \in refreshTokens : browser[t.of] # NoBrowser

LoginInv ==
  /\ Types /\ RowsAreFresh /\ CountedInRow /\ LockoutHolds
  /\ PasswordsKnown /\ OldOnesAreListed /\ TokensWereSent

-----------------------------------------------------------------------------
USE LoginAssumption

LEMMA Constants == Limit \in Nat \ {0} /\ LockTime \in Nat /\ MaxVisits \in Nat
BY DEF LoginAssumption

\* The fields of a request, and of one whose step, row, keys or excuse are set.
LEMMA VisitFields ==
  /\ NoVisit \in Visit
  /\ \A r \in Visit : /\ r.at \in Stage /\ r.row \in Account /\ r.password \in Nat /\ r.keys \subseteq Login
                      /\ r.stale \in BOOLEAN /\ r.excused \in BOOLEAN
BY DEF Visit, NoVisit, NewAccount, Account, Stage

LEMMA AccountFields ==
  \A r \in Account : r.failedLoginAttempts \in Nat /\ r.lockedUntil \in Nat /\ r.password \in Nat
BY DEF Account

\* VisitAt: only the step of the one request changes.
LEMMA VisitAtFields ==
  ASSUME Types, NEW v \in Visitor, NEW at \in Stage, VisitAt(v, at)
  PROVE  /\ visit' \in [Visitor -> Visit]
         /\ \A w \in Visitor \ {v} : visit'[w] = visit[w]
         /\ visit'[v] = [visit[v] EXCEPT !.at = at]
         /\ visit'[v].at = at /\ visit'[v].row = visit[v].row /\ visit'[v].password = visit[v].password
         /\ visit'[v].keys = visit[v].keys /\ visit'[v].stale = visit[v].stale
         /\ visit'[v].excused = visit[v].excused
<1>1. visit \in [Visitor -> Visit]
  BY DEF Types
<1>2. visit' = [visit EXCEPT ![v] = [visit[v] EXCEPT !.at = at]]
  BY DEF VisitAt
<1>3. visit[v] \in Visit
  BY <1>1
<1>4. [visit[v] EXCEPT !.at = at] \in Visit
  BY <1>3 DEF Visit
<1>5. visit'[v] = [visit[v] EXCEPT !.at = at]
  BY <1>1, <1>2
<1> QED BY <1>1, <1>2, <1>3, <1>4, <1>5 DEF Visit

\* RowLoaded: the request holds the row as it is now.
LEMMA RowLoadedFields ==
  ASSUME Types, NEW v \in Visitor, NEW at \in Stage, RowLoaded(v, at)
  PROVE  /\ visit' \in [Visitor -> Visit]
         /\ \A w \in Visitor \ {v} : visit'[w] = visit[w]
         /\ visit'[v].at = at /\ visit'[v].row = account /\ visit'[v].password = visit[v].password
         /\ visit'[v].stale = FALSE /\ visit'[v].excused = visit[v].excused
<1>1. visit \in [Visitor -> Visit] /\ account \in Account
  BY DEF Types
<1>2. visit' = [visit EXCEPT ![v] = [visit[v] EXCEPT !.at = at, !.row = account, !.stale = FALSE]]
  BY DEF RowLoaded
<1>3. visit[v] \in Visit
  BY <1>1
<1>4. [visit[v] EXCEPT !.at = at, !.row = account, !.stale = FALSE] \in Visit
  BY <1>1, <1>3 DEF Visit
<1>5. visit'[v] = [visit[v] EXCEPT !.at = at, !.row = account, !.stale = FALSE]
  BY <1>1, <1>2
<1> QED BY <1>1, <1>2, <1>3, <1>4, <1>5 DEF Visit

LEMMA VisitEndsFields ==
  ASSUME Types, NEW v \in Visitor, VisitEnds(v)
  PROVE  /\ visit' \in [Visitor -> Visit]
         /\ \A w \in Visitor \ {v} : visit'[w] = visit[w]
         /\ visit'[v] = NoVisit /\ visit'[v].at = "none"
<1>1. visit \in [Visitor -> Visit] /\ visit' = [visit EXCEPT ![v] = NoVisit]
  BY DEF Types, VisitEnds
<1>2. NoVisit.at = "none"
  BY DEF NoVisit
<1> QED BY <1>1, <1>2, VisitFields

\* Saved: the row is the one given, and every other request holds a stale one.
LEMMA SavedFields ==
  ASSUME Types, NEW v \in Visitor, NEW row, NEW at \in Stage, Saved(v, row, at)
  PROVE  /\ account' = row
         /\ visit' \in [Visitor -> Visit]
         /\ \A w \in Visitor \ {v} :
              /\ visit'[w].at = visit[w].at /\ visit'[w].row = visit[w].row
              /\ visit'[w].password = visit[w].password /\ visit'[w].keys = visit[w].keys
              /\ visit'[w].excused = visit[w].excused
              /\ visit'[w].at # "none" => visit'[w].stale
         /\ visit'[v].at = at
         /\ at # "none" => visit'[v].password = visit[v].password /\ visit'[v].excused = visit[v].excused
<1>1. visit \in [Visitor -> Visit]
  BY DEF Types
<1>2. \A w \in Visitor \ {v} : /\ visit'[w] = [visit[w] EXCEPT !.stale = visit[w].at # "none"]
                               /\ [visit[w] EXCEPT !.stale = visit[w].at # "none"] \in Visit
  BY <1>1 DEF Saved, Visit
<1>3. /\ visit'[v] = IF at = "none" THEN NoVisit ELSE [visit[v] EXCEPT !.at = at]
      /\ visit'[v] \in Visit
  BY <1>1, VisitFields DEF Saved, Visit
<1>4. visit' = [w \in Visitor |-> visit'[w]]
  BY DEF Saved
<1>5. visit' \in [Visitor -> Visit]
  <2>1. \A w \in Visitor : visit'[w] \in Visit
    BY <1>2, <1>3
  <2> QED BY <1>4, <2>1
<1>6. \A w \in Visitor \ {v} :
              /\ visit'[w].at = visit[w].at /\ visit'[w].row = visit[w].row
              /\ visit'[w].password = visit[w].password /\ visit'[w].keys = visit[w].keys
              /\ visit'[w].excused = visit[w].excused
              /\ visit'[w].at # "none" => visit'[w].stale
  <2> SUFFICES ASSUME NEW w \in Visitor \ {v}
               PROVE  /\ visit'[w].at = visit[w].at /\ visit'[w].row = visit[w].row
                      /\ visit'[w].password = visit[w].password /\ visit'[w].keys = visit[w].keys
                      /\ visit'[w].excused = visit[w].excused
                      /\ visit'[w].at # "none" => visit'[w].stale
    OBVIOUS
  <2>1. visit[w] \in Visit
    BY <1>1
  <2>2. visit'[w] = [visit[w] EXCEPT !.stale = visit[w].at # "none"]
    BY <1>2
  <2> QED BY <2>1, <2>2 DEF Visit
<1>7. /\ visit'[v].at = at
      /\ at # "none" => visit'[v].password = visit[v].password /\ visit'[v].excused = visit[v].excused
  <2>1. CASE at = "none"
    BY <1>3, <2>1 DEF NoVisit
  <2>2. CASE at # "none"
    BY <1>1, <1>3, <2>2 DEF Visit
  <2> QED BY <2>1, <2>2
<1> QED BY <1>5, <1>6, <1>7 DEF Saved

-----------------------------------------------------------------------------
(* Steps that change one request, and steps that save the row.               *)

Listing == {"del key", "list keys", "del keys"}

\* Resets stay where they are when another request moves.
LEMMA ListersStay ==
  ASSUME NEW v \in Visitor, visit[v].at \notin Listing,
         \A w \in Visitor \ {v} : visit'[w].at = visit[w].at /\ visit'[w].keys = visit[w].keys
  PROVE  /\ AboutToList => AboutToList'
         /\ \A t : HasListed(t) => HasListed(t)'
BY DEF AboutToList, HasListed, Listing

\* A request that is no reset past its save moves on: what has to be shown of it.
LEMMA OneVisitMoves ==
  ASSUME LoginInv, NEW v \in Visitor, UNCHANGED <<account, refreshTokens>>,
         visit[v].at \notin Listing, \A w \in Visitor \ {v} : visit'[w] = visit[w],
         visit'[v].at \in {"verify", "failed", "succeeded", "set"} /\ ~visit'[v].stale => visit'[v].row = account,
         visit'[v].at = "verify" => visit'[v].row.password \in 1..account.password,
         Admitted(v)' => /\ visit'[v].password \in 1..account.password
                         /\ ~visit'[v].excused => visit'[v].password = account.password \/ AboutToList
  PROVE  RowsAreFresh' /\ PasswordsKnown' /\ OldOnesAreListed'
<1>1. RowsAreFresh'
  BY DEF LoginInv, RowsAreFresh
<1>2. \A w \in Visitor \ {v} : Admitted(w)' <=> Admitted(w)
  BY DEF Admitted
<1>3. PasswordsKnown'
  BY <1>2 DEF LoginInv, PasswordsKnown
<1>4. (AboutToList => AboutToList') /\ \A t : HasListed(t) => HasListed(t)'
  BY ListersStay
<1>5. OldOnesAreListed'
  <2>1. ASSUME NEW w \in Visitor, Admitted(w)', ~visit'[w].excused
        PROVE  visit'[w].password = account.password \/ AboutToList
    BY <1>2, <2>1 DEF LoginInv, OldOnesAreListed
  <2>2. \A t \in refreshTokens : ~t.excused => t.password = account.password \/ AboutToList \/ HasListed(t)
    BY DEF LoginInv, OldOnesAreListed
  <2> QED BY <1>4, <2>1, <2>2 DEF OldOnesAreListed
<1> QED BY <1>1, <1>3, <1>5

LEMMA NextPassword ==
  ASSUME NEW a \in Nat, NEW b \in Nat, b = a \/ b = a + 1
  PROVE  b >= a /\ (a >= 1 => b >= 1) /\ \A n \in 1..a : n \in 1..b
OBVIOUS

\* Saving the row keeps its password, or gives it the next one and starts to end the
\* sessions that have another.
LEMMA RowIsSaved ==
  ASSUME LoginInv, NEW v \in Visitor, NEW row, NEW at \in Stage, Saved(v, row, at),
         UNCHANGED refreshTokens, visit[v].at \notin Listing,
         at \in {"none", "store", "del key"}, at = "store" => Admitted(v),
         row.password \in Nat,
         \/ row.password = account.password
         \/ row.password = account.password + 1 /\ at = "del key"
  PROVE  RowsAreFresh' /\ PasswordsKnown' /\ OldOnesAreListed'
<1>0. Types /\ account.password \in Nat
  BY AccountFields DEF LoginInv, Types
<1>1. /\ account' = row
      /\ visit' \in [Visitor -> Visit]
      /\ \A w \in Visitor \ {v} :
           /\ visit'[w].at = visit[w].at /\ visit'[w].row = visit[w].row
           /\ visit'[w].password = visit[w].password /\ visit'[w].keys = visit[w].keys
           /\ visit'[w].excused = visit[w].excused
           /\ visit'[w].at # "none" => visit'[w].stale
      /\ visit'[v].at = at
      /\ at # "none" => visit'[v].password = visit[v].password /\ visit'[v].excused = visit[v].excused
  BY <1>0, SavedFields
<1>2. RowsAreFresh'
  BY <1>1 DEF RowsAreFresh
<1>3. /\ \A w \in Visitor \ {v} : Admitted(w)' <=> Admitted(w)
      /\ Admitted(v)' => at = "store" /\ Admitted(v)
  BY <1>1 DEF Admitted
<1>4. account.password >= 1 /\ account'.password = row.password
  BY <1>1 DEF LoginInv, PasswordsKnown
<1>5. account'.password >= 1 /\ \A n \in 1..account.password : n \in 1..account'.password
  BY <1>0, <1>4, NextPassword
<1>6. PasswordsKnown'
  <2>1. account'.password >= 1
    BY <1>5
  <2>2. ASSUME NEW w \in Visitor
        PROVE  /\ visit'[w].at = "verify" => visit'[w].row.password \in 1..account'.password
               /\ Admitted(w)' => visit'[w].password \in 1..account'.password
    BY <1>1, <1>3, <1>5 DEF LoginInv, PasswordsKnown
  <2>3. \A t \in refreshTokens : t.password \in 1..account'.password
    BY <1>5 DEF LoginInv, PasswordsKnown
  <2> QED BY <2>1, <2>2, <2>3 DEF PasswordsKnown
<1>7. OldOnesAreListed'
  <2>1. CASE row.password = account.password
    <3>1. (AboutToList => AboutToList') /\ \A t : HasListed(t) => HasListed(t)'
      BY <1>1, ListersStay
    <3>2. ASSUME NEW w \in Visitor, Admitted(w)', ~visit'[w].excused
          PROVE  visit'[w].password = account.password \/ AboutToList
      <4>1. Admitted(w) /\ ~visit[w].excused /\ visit'[w].password = visit[w].password
        <5>1. CASE w = v
          BY <1>1, <1>3, <3>2, <5>1
        <5>2. CASE w # v
          BY <1>1, <1>3, <3>2, <5>2
        <5> QED BY <5>1, <5>2
      <4> QED BY <4>1 DEF LoginInv, OldOnesAreListed
    <3>3. \A t \in refreshTokens : ~t.excused => t.password = account.password \/ AboutToList \/ HasListed(t)
      BY DEF LoginInv, OldOnesAreListed
    <3> QED BY <1>1, <2>1, <3>1, <3>2, <3>3 DEF OldOnesAreListed
  <2>2. CASE at = "del key"
    BY <1>1, <2>2 DEF OldOnesAreListed, AboutToList
  <2> QED BY <2>1, <2>2
<1> QED BY <1>2, <1>6, <1>7

-----------------------------------------------------------------------------
(* Each step of a request keeps the invariant.                               *)

RestOfInv == RowsAreFresh /\ PasswordsKnown /\ OldOnesAreListed

LEMMA ValidateUserStep == ASSUME LoginInv, NEW v \in Visitor, ValidateUser(v) PROVE LoginInv'
<1>0. Types /\ account \in Account /\ account.password \in Nat /\ account.password >= 1
  BY AccountFields DEF LoginInv, Types, PasswordsKnown
<1>1. PICK password \in {0, account.password} :
           visit' = [visit EXCEPT ![v] = [NoVisit EXCEPT !.at = "verify", !.row = account, !.password = password]]
  BY DEF ValidateUser
<1>2. /\ visit[v].at \notin Listing /\ visits' = visits + 1
      /\ UNCHANGED <<hour, account, refreshTokens, resetTokens, browser, inRow, failedAt>>
  BY DEF ValidateUser, Counts, NoVisit, Listing
<1>3. [NoVisit EXCEPT !.at = "verify", !.row = account, !.password = password] \in Visit
  <2>1. password \in Nat
    BY <1>0
  <2> QED BY <1>0, <2>1 DEF NoVisit, Visit, Stage
<1>4. /\ visit' \in [Visitor -> Visit] /\ \A w \in Visitor \ {v} : visit'[w] = visit[w]
      /\ visit'[v] = [NoVisit EXCEPT !.at = "verify", !.row = account, !.password = password]
  BY <1>0, <1>1, <1>3 DEF Types
<1>5. visit'[v].at = "verify" /\ visit'[v].row = account /\ visit'[v].password = password
  BY <1>4 DEF NoVisit
<1>6. Admitted(v)' => password = account.password
  BY <1>5 DEF Admitted
<1>7. RestOfInv'
  <2>1. account.password \in 1..account.password
    BY <1>0
  <2> QED BY <1>2, <1>4, <1>5, <1>6, <2>1, OneVisitMoves DEF RestOfInv
<1>8. CountedInRow' /\ LockoutHolds' /\ TokensWereSent'
  BY <1>2 DEF LoginInv, CountedInRow, LockoutHolds, TokensWereSent
<1>9. visits' \in Nat
  BY <1>0, <1>2 DEF Types
<1>10. Types'
  BY <1>0, <1>2, <1>4, <1>9 DEF Types
<1> QED BY <1>7, <1>8, <1>10 DEF LoginInv, RestOfInv

LEMMA RecordLoginAttemptStep == ASSUME LoginInv, NEW v \in Visitor, RecordLoginAttempt(v) PROVE LoginInv'
<1>0. Types
  BY DEF LoginInv
<1> DEFINE at == IF visit[v].password = visit[v].row.password THEN "succeeded" ELSE "failed"
<1>1. /\ visit[v].at = "verify" /\ RowLoaded(v, at) /\ at \in Stage
      /\ UNCHANGED <<hour, account, refreshTokens, resetTokens, browser, inRow, failedAt, visits>>
  BY DEF RecordLoginAttempt, Stage
<1> HIDE DEF at
<1>2. /\ visit' \in [Visitor -> Visit] /\ \A w \in Visitor \ {v} : visit'[w] = visit[w]
      /\ visit'[v].at = at /\ visit'[v].row = account /\ visit'[v].password = visit[v].password
      /\ visit'[v].excused = visit[v].excused
  BY <1>0, <1>1, RowLoadedFields
<1>3. visit'[v].at # "verify" /\ (Admitted(v)' => Admitted(v))
  BY <1>1, <1>2 DEF Admitted, at
<1>4. RestOfInv'
  <2>1. Admitted(v)' => /\ visit'[v].password \in 1..account.password
                        /\ ~visit'[v].excused => visit'[v].password = account.password \/ AboutToList
    BY <1>2, <1>3 DEF LoginInv, PasswordsKnown, OldOnesAreListed
  <2>2. visit[v].at \notin Listing
    BY <1>1 DEF Listing
  <2> QED BY <1>1, <1>2, <1>3, <2>1, <2>2, OneVisitMoves DEF RestOfInv
<1>5. Types' /\ CountedInRow' /\ LockoutHolds' /\ TokensWereSent'
  BY <1>1, <1>2 DEF LoginInv, Types, CountedInRow, LockoutHolds, TokensWereSent
<1> QED BY <1>4, <1>5 DEF LoginInv, RestOfInv

\* A failure that is saved counts one more than the row it was loaded from.
LEMMA CountedFields ==
  ASSUME NEW row \in Account, hour \in Nat
  PROVE  /\ Counted(row) \in Account
         /\ Counted(row).failedLoginAttempts = row.failedLoginAttempts + 1
         /\ row.failedLoginAttempts + 1 >= Limit => Counted(row).lockedUntil = hour + LockTime
<1>1. row.failedLoginAttempts \in Nat /\ row.failedLoginAttempts + 1 \in Nat /\ hour + LockTime \in Nat
  BY Constants DEF Account
<1>2. CASE row.failedLoginAttempts + 1 >= Limit
  <2>1. Counted(row) = [row EXCEPT !.failedLoginAttempts = row.failedLoginAttempts + 1, !.lockedUntil = hour + LockTime]
    BY <1>2 DEF Counted
  <2> QED BY <1>1, <2>1 DEF Account
<1>3. CASE ~(row.failedLoginAttempts + 1 >= Limit)
  <2>1. Counted(row) = [row EXCEPT !.failedLoginAttempts = row.failedLoginAttempts + 1, !.lockedUntil = row.lockedUntil]
    BY <1>3 DEF Counted
  <2> QED BY <1>1, <1>3, <2>1 DEF Account
<1> QED BY <1>2, <1>3

LEMMA SaveFailureStep == ASSUME LoginInv, NEW v \in Visitor, SaveFailure(v) PROVE LoginInv'
<1> DEFINE row == [Counted(visit[v].row) EXCEPT !.password = account.password]
<1>0. Types /\ visit[v] \in Visit /\ visit[v].row \in Account /\ account \in Account /\ account.password \in Nat /\ hour \in Nat
  BY VisitFields, AccountFields DEF LoginInv, Types
<1>1. /\ visit[v].at = "failed" /\ Saved(v, row, "none") /\ failedAt' = hour
      /\ inRow' = IF visit[v].stale THEN 0 ELSE IF inRow < Limit THEN inRow + 1 ELSE Limit
      /\ UNCHANGED <<hour, refreshTokens, resetTokens, browser, visits>>
  BY DEF SaveFailure
<1>2. /\ row \in Account /\ row.password = account.password
      /\ row.failedLoginAttempts = visit[v].row.failedLoginAttempts + 1
      /\ visit[v].row.failedLoginAttempts + 1 >= Limit => row.lockedUntil = hour + LockTime
  BY <1>0, CountedFields DEF Account
<1> HIDE DEF row
<1>3. "none" \in Stage /\ visit[v].at \notin Listing
  BY <1>1 DEF Stage, Listing
<1>4. account' = row /\ visit' \in [Visitor -> Visit]
  BY <1>0, <1>1, <1>3, SavedFields
<1>5. RestOfInv'
  BY <1>0, <1>1, <1>2, <1>3, RowIsSaved DEF RestOfInv
<1>6. inRow \in 0..Limit /\ Limit \in Nat \ {0} /\ failedAt' = hour
  BY <1>1, Constants DEF LoginInv, Types
<1>7. inRow' \in 0..Limit
  BY <1>1, <1>6
<1>8. CASE visit[v].stale
  <2>1. inRow' = 0
    BY <1>1, <1>8
  <2>2. row.failedLoginAttempts \in Nat
    BY <1>2, AccountFields
  <2>3. CountedInRow' /\ LockoutHolds'
    BY <1>4, <1>6, <2>1, <2>2 DEF CountedInRow, LockoutHolds
  <2> QED BY <1>0, <1>1, <1>2, <1>4, <1>5, <1>7, <2>3 DEF LoginInv, RestOfInv, Types, TokensWereSent
<1>9. CASE ~visit[v].stale
  <2>1. visit[v].row = account
    BY <1>1, <1>9 DEF LoginInv, RowsAreFresh
  <2>2. account.failedLoginAttempts \in Nat /\ inRow <= account.failedLoginAttempts
    BY <1>0, AccountFields DEF LoginInv, CountedInRow
  <2>3. inRow' = IF inRow < Limit THEN inRow + 1 ELSE Limit
    BY <1>1, <1>9
  <2>4. row.failedLoginAttempts = account.failedLoginAttempts + 1
    BY <1>2, <2>1
  <2>5. inRow' <= row.failedLoginAttempts
    BY <1>6, <2>2, <2>3, <2>4
  <2>6. inRow' >= Limit => row.lockedUntil = hour + LockTime
    <3>1. inRow' >= Limit => account.failedLoginAttempts + 1 >= Limit
      BY <1>6, <2>2, <2>3
    <3> QED BY <1>2, <2>1, <3>1
  <2>7. hour + LockTime \in Nat
    BY <1>0, Constants
  <2>8. LockoutHolds'
    BY <1>1, <1>4, <2>6, <2>7 DEF LockoutHolds
  <2> QED BY <1>0, <1>1, <1>2, <1>4, <1>5, <1>7, <2>5, <2>8
        DEF LoginInv, RestOfInv, Types, CountedInRow, TokensWereSent
<1> QED BY <1>8, <1>9

LEMMA SaveSuccessStep == ASSUME LoginInv, NEW v \in Visitor, SaveSuccess(v) PROVE LoginInv'
<1> DEFINE row == [account EXCEPT !.failedLoginAttempts = 0, !.lockedUntil = 0]
<1>0. Types /\ account \in Account /\ account.password \in Nat
  BY AccountFields DEF LoginInv, Types
<1>1. /\ visit[v].at = "succeeded" /\ Saved(v, row, "store") /\ inRow' = 0
      /\ UNCHANGED <<hour, refreshTokens, resetTokens, browser, failedAt, visits>>
  BY DEF SaveSuccess
<1>2. row \in Account /\ row.password = account.password /\ row.failedLoginAttempts = 0
  BY <1>0 DEF Account
<1> HIDE DEF row
<1>3. "store" \in Stage /\ visit[v].at \notin Listing /\ Admitted(v)
  BY <1>1 DEF Stage, Listing, Admitted
<1>4. account' = row /\ visit' \in [Visitor -> Visit]
  BY <1>0, <1>1, <1>3, SavedFields
<1>5. RestOfInv'
  BY <1>0, <1>1, <1>2, <1>3, RowIsSaved DEF RestOfInv
<1>6. CountedInRow' /\ LockoutHolds' /\ inRow' \in 0..Limit
  BY <1>1, <1>2, <1>4, Constants DEF CountedInRow, LockoutHolds
<1> QED BY <1>0, <1>1, <1>2, <1>4, <1>5, <1>6 DEF LoginInv, RestOfInv, Types, TokensWereSent

LEMMA StoreRefreshTokenStep == ASSUME LoginInv, NEW v \in Visitor, StoreRefreshToken(v) PROVE LoginInv'
<1>0. Types /\ visit \in [Visitor -> Visit] /\ browser \in [Login -> Browser]
  BY DEF LoginInv, Types
<1>v. visit[v] \in Visit
  BY <1>0
<1>1. /\ visit[v].at = "store" /\ VisitEnds(v)
      /\ UNCHANGED <<hour, account, resetTokens, inRow, failedAt, visits>>
  BY DEF StoreRefreshToken
<1> DEFINE token(n) == [of |-> n, password |-> visit[v].password, excused |-> visit[v].excused]
<1>2. PICK n \in Login : /\ refreshTokens' = refreshTokens \cup {token(n)}
                         /\ browser' = [browser EXCEPT ![n] = [cookie |-> CookieOfLogin, access |-> "valid"]]
  BY DEF StoreRefreshToken
<1>3. /\ visit' \in [Visitor -> Visit] /\ \A w \in Visitor \ {v} : visit'[w] = visit[w]
      /\ visit'[v].at = "none"
  BY <1>0, <1>1, VisitEndsFields
<1>4. /\ token(n) \in Token /\ token(n).of = n /\ token(n).password = visit[v].password
      /\ token(n).excused = visit[v].excused
  BY <1>v DEF Token, Visit
<1> HIDE DEF token
<1>5. visit[v].at \notin Listing /\ Admitted(v)
  BY <1>1 DEF Listing, Admitted
<1>6. (AboutToList => AboutToList') /\ \A t : HasListed(t) => HasListed(t)'
  BY <1>3, <1>5, ListersStay
<1>7. \A w \in Visitor : Admitted(w)' => w # v /\ Admitted(w)
  BY <1>3 DEF Admitted
<1>8. browser' \in [Login -> Browser] /\ browser'[n] # NoBrowser
  <2>1. browser'[n] = [cookie |-> CookieOfLogin, access |-> "valid"]
    BY <1>0, <1>2
  <2>2. [cookie |-> CookieOfLogin, access |-> "valid"] \in Browser
    BY DEF CookieOfLogin, Browser
  <2>3. [cookie |-> CookieOfLogin, access |-> "valid"] # NoBrowser
    BY DEF NoBrowser
  <2> QED BY <1>0, <1>2, <2>1, <2>2, <2>3
<1>9. RowsAreFresh'
  BY <1>1, <1>3 DEF LoginInv, RowsAreFresh
<1>10. PasswordsKnown'
  BY <1>1, <1>2, <1>3, <1>4, <1>5, <1>7 DEF LoginInv, PasswordsKnown
<1>11. OldOnesAreListed'
  BY <1>1, <1>2, <1>3, <1>4, <1>5, <1>6, <1>7 DEF LoginInv, OldOnesAreListed
<1>12. TokensWereSent'
  BY <1>0, <1>2, <1>4, <1>8 DEF LoginInv, TokensWereSent
<1>13. CountedInRow' /\ LockoutHolds'
  BY <1>1 DEF LoginInv, CountedInRow, LockoutHolds
<1>14. refreshTokens' \subseteq Token
  BY <1>0, <1>2, <1>4 DEF Types
<1>15. Types'
  BY <1>0, <1>1, <1>3, <1>8, <1>14 DEF Types
<1> QED BY <1>9, <1>10, <1>11, <1>12, <1>13, <1>15 DEF LoginInv

LEMMA GetResetTokenStep == ASSUME LoginInv, NEW v \in Visitor, GetResetToken(v) PROVE LoginInv'
<1>0. Types
  BY DEF LoginInv
<1>1. PICK t \in resetTokens : visit' = [visit EXCEPT ![v] = [NoVisit EXCEPT !.at = "reset", !.password = t]]
  BY DEF GetResetToken
<1>2. /\ visit[v].at \notin Listing /\ visits' = visits + 1
      /\ UNCHANGED <<hour, account, refreshTokens, resetTokens, browser, inRow, failedAt>>
  BY DEF GetResetToken, Counts, NoVisit, Listing
<1>3. t \in Nat
  <2>1. t \in Login
    BY <1>0, <1>1 DEF Types
  <2> QED BY <2>1, Constants DEF Login
<1>4. [NoVisit EXCEPT !.at = "reset", !.password = t] \in Visit
  BY <1>3 DEF NoVisit, NewAccount, Account, Visit, Stage
<1>5. /\ visit' \in [Visitor -> Visit] /\ \A w \in Visitor \ {v} : visit'[w] = visit[w]
      /\ visit'[v] = [NoVisit EXCEPT !.at = "reset", !.password = t]
  BY <1>0, <1>1, <1>4 DEF Types
<1>6. visit'[v].at = "reset"
  BY <1>5 DEF NoVisit
<1>7. ~Admitted(v)'
  BY <1>6 DEF Admitted
<1>8. RestOfInv'
  BY <1>2, <1>5, <1>6, <1>7, OneVisitMoves DEF RestOfInv
<1>9. CountedInRow' /\ LockoutHolds' /\ TokensWereSent'
  BY <1>2 DEF LoginInv, CountedInRow, LockoutHolds, TokensWereSent
<1>10. visits' \in Nat
  BY <1>0, <1>2 DEF Types
<1>11. Types'
  BY <1>0, <1>2, <1>5, <1>10 DEF Types
<1> QED BY <1>8, <1>9, <1>11 DEF LoginInv, RestOfInv

LEMMA SetPasswordStep == ASSUME LoginInv, NEW v \in Visitor, SetPassword(v) PROVE LoginInv'
<1>0. Types
  BY DEF LoginInv
<1>1. /\ visit[v].at = "reset" /\ RowLoaded(v, "set") /\ "set" \in Stage /\ visit[v].at \notin Listing
      /\ UNCHANGED <<hour, account, refreshTokens, resetTokens, browser, inRow, failedAt, visits>>
  BY DEF SetPassword, Stage, Listing
<1>2. /\ visit' \in [Visitor -> Visit] /\ \A w \in Visitor \ {v} : visit'[w] = visit[w]
      /\ visit'[v].at = "set" /\ visit'[v].row = account
  BY <1>0, <1>1, RowLoadedFields
<1>3. ~Admitted(v)'
  BY <1>2 DEF Admitted
<1>4. RestOfInv'
  BY <1>1, <1>2, <1>3, OneVisitMoves DEF RestOfInv
<1>5. Types' /\ CountedInRow' /\ LockoutHolds' /\ TokensWereSent'
  BY <1>1, <1>2 DEF LoginInv, Types, CountedInRow, LockoutHolds, TokensWereSent
<1> QED BY <1>4, <1>5 DEF LoginInv, RestOfInv

LEMMA SavePasswordStep == ASSUME LoginInv, NEW v \in Visitor, SavePassword(v) PROVE LoginInv'
<1> DEFINE row == [visit[v].row EXCEPT !.password = account.password + 1]
<1>0. /\ Types /\ visit[v] \in Visit /\ visit[v].row \in Account /\ account \in Account
      /\ account.password \in Nat /\ account.password + 1 \in Nat
  <2>1. Types /\ account \in Account /\ visit[v] \in Visit
    BY DEF LoginInv, Types
  <2>2. account.password \in Nat
    BY <2>1, AccountFields
  <2> QED BY <2>1, <2>2, VisitFields
<1>1. /\ visit[v].at = "set" /\ Saved(v, row, "del key") /\ inRow' = IF visit[v].stale THEN 0 ELSE inRow
      /\ UNCHANGED <<hour, refreshTokens, resetTokens, browser, failedAt, visits>>
  BY DEF SavePassword
<1>2. /\ row \in Account /\ row.password = account.password + 1
      /\ row.failedLoginAttempts = visit[v].row.failedLoginAttempts
      /\ row.lockedUntil = visit[v].row.lockedUntil
  BY <1>0 DEF Account
<1> HIDE DEF row
<1>3. "del key" \in Stage /\ visit[v].at \notin Listing
  BY <1>1 DEF Stage, Listing
<1>4. account' = row /\ visit' \in [Visitor -> Visit]
  BY <1>0, <1>1, <1>3, SavedFields
<1>5. RestOfInv'
  BY <1>0, <1>1, <1>2, <1>3, RowIsSaved DEF RestOfInv
<1>6. inRow' = 0 \/ (inRow' = inRow /\ visit[v].row = account)
  BY <1>1 DEF LoginInv, RowsAreFresh
<1>7. CASE inRow' = 0
  <2>1. row.failedLoginAttempts \in Nat /\ Limit \in Nat \ {0}
    BY <1>2, AccountFields, Constants
  <2>2. CountedInRow' /\ LockoutHolds' /\ inRow' \in 0..Limit
    BY <1>4, <1>7, <2>1 DEF CountedInRow, LockoutHolds
  <2> QED BY <1>1, <1>2, <1>4, <1>5, <2>2 DEF LoginInv, RestOfInv, Types, TokensWereSent
<1>8. CASE inRow' = inRow /\ visit[v].row = account
  <2>1. CountedInRow' /\ LockoutHolds' /\ inRow' \in 0..Limit
    BY <1>1, <1>2, <1>4, <1>8 DEF LoginInv, Types, CountedInRow, LockoutHolds
  <2> QED BY <1>1, <1>2, <1>4, <1>5, <2>1 DEF LoginInv, RestOfInv, Types, TokensWereSent
<1> QED BY <1>6, <1>7, <1>8

LEMMA DelResetTokenStep == ASSUME LoginInv, NEW v \in Visitor, DelResetToken(v) PROVE LoginInv'
<1>0. Types
  BY DEF LoginInv
<1>1. /\ visit[v].at = "del key" /\ VisitAt(v, "list keys") /\ "list keys" \in Stage
      /\ resetTokens' \subseteq resetTokens
      /\ UNCHANGED <<hour, account, refreshTokens, browser, inRow, failedAt, visits>>
  BY DEF DelResetToken, Stage
<1>2. /\ visit' \in [Visitor -> Visit] /\ \A w \in Visitor \ {v} : visit'[w] = visit[w]
      /\ visit'[v].at = "list keys"
  BY <1>0, <1>1, VisitAtFields
<1>3. \A w \in Visitor : Admitted(w)' => w # v /\ Admitted(w)
  BY <1>2 DEF Admitted
<1>4. RowsAreFresh'
  BY <1>1, <1>2 DEF LoginInv, RowsAreFresh
<1>5. PasswordsKnown'
  BY <1>1, <1>2, <1>3 DEF LoginInv, PasswordsKnown
<1>6. AboutToList'
  BY <1>2 DEF AboutToList
<1>7. OldOnesAreListed'
  BY <1>6 DEF OldOnesAreListed
<1>8. Types' /\ CountedInRow' /\ LockoutHolds' /\ TokensWereSent'
  BY <1>1, <1>2 DEF LoginInv, Types, CountedInRow, LockoutHolds, TokensWereSent
<1> QED BY <1>4, <1>5, <1>7, <1>8 DEF LoginInv

LEMMA ListRefreshTokensStep == ASSUME LoginInv, NEW v \in Visitor, ListRefreshTokens(v) PROVE LoginInv'
<1> DEFINE listed == {t.of : t \in refreshTokens}
<1>0. Types /\ visit \in [Visitor -> Visit] /\ listed \subseteq Login
  <2>1. \A t \in Token : t.of \in Login
    BY DEF Token
  <2> QED BY <2>1 DEF LoginInv, Types
<1>1. /\ visit[v].at = "list keys"
      /\ visit' = [w \in Visitor |->
           IF w = v THEN [visit[v] EXCEPT !.at = "del keys", !.keys = listed]
           ELSE [visit[w] EXCEPT !.excused = visit[w].at # "none"]]
      /\ UNCHANGED <<hour, account, refreshTokens, resetTokens, browser, inRow, failedAt, visits>>
  BY DEF ListRefreshTokens
<1> HIDE DEF listed
<1>2. /\ visit'[v] = [visit[v] EXCEPT !.at = "del keys", !.keys = listed] /\ visit'[v] \in Visit
      /\ visit'[v].at = "del keys" /\ visit'[v].keys = listed
  <2>1. visit'[v] = [visit[v] EXCEPT !.at = "del keys", !.keys = listed]
    BY <1>1
  <2>2. visit[v] \in Visit /\ listed \in SUBSET Login /\ "del keys" \in Stage
    BY <1>0 DEF Stage
  <2> QED BY <2>1, <2>2 DEF Visit
<1>3. ASSUME NEW w \in Visitor \ {v}
      PROVE  /\ visit'[w] \in Visit
             /\ visit'[w].at = visit[w].at /\ visit'[w].row = visit[w].row
             /\ visit'[w].password = visit[w].password /\ visit'[w].stale = visit[w].stale
             /\ visit'[w].excused = (visit[w].at # "none")
  <2>1. visit'[w] = [visit[w] EXCEPT !.excused = visit[w].at # "none"] /\ visit[w] \in Visit
    BY <1>0, <1>1
  <2> QED BY <2>1 DEF Visit
<1>4. visit' \in [Visitor -> Visit]
  <2>1. \A w \in Visitor : visit'[w] \in Visit
    BY <1>2, <1>3
  <2>2. visit' = [w \in Visitor |-> visit'[w]]
    BY <1>1
  <2> QED BY <2>1, <2>2
<1>5. \A w \in Visitor : Admitted(w)' => w # v /\ Admitted(w) /\ visit'[w].excused
  BY <1>2, <1>3 DEF Admitted
<1>6. RowsAreFresh'
  <2>1. RowsAreFresh /\ account' = account
    BY <1>1 DEF LoginInv
  <2>2. ASSUME NEW w \in Visitor,
               visit'[w].at \in {"verify", "failed", "succeeded", "set"}, ~visit'[w].stale
        PROVE  visit'[w].row = account'
    <3>1. w # v
      BY <1>2, <2>2
    <3>2. /\ visit'[w].at = visit[w].at /\ visit'[w].row = visit[w].row
          /\ visit'[w].stale = visit[w].stale
      BY <1>3, <3>1
    <3> QED BY <2>1, <2>2, <3>2 DEF RowsAreFresh
  <2> QED BY <2>2 DEF RowsAreFresh
<1>7. PasswordsKnown'
  <2>1. \A w \in Visitor : visit'[w].at = "verify" => w # v /\ visit[w].at = "verify" /\ visit'[w].row = visit[w].row
    BY <1>2, <1>3
  <2>2. \A w \in Visitor : Admitted(w)' => Admitted(w) /\ visit'[w].password = visit[w].password
    BY <1>3, <1>5
  <2> QED BY <1>1, <2>1, <2>2 DEF LoginInv, PasswordsKnown
<1>8. \A t \in refreshTokens : HasListed(t)'
  BY <1>2 DEF HasListed, listed
<1>9. OldOnesAreListed'
  BY <1>1, <1>5, <1>8 DEF OldOnesAreListed
<1>10. Types' /\ CountedInRow' /\ LockoutHolds' /\ TokensWereSent'
  BY <1>1, <1>4 DEF LoginInv, Types, CountedInRow, LockoutHolds, TokensWereSent
<1> QED BY <1>6, <1>7, <1>9, <1>10 DEF LoginInv

LEMMA DelRefreshTokensStep == ASSUME LoginInv, NEW v \in Visitor, DelRefreshTokens(v) PROVE LoginInv'
<1>0. Types
  BY DEF LoginInv
<1>1. /\ visit[v].at = "del keys" /\ VisitEnds(v)
      /\ refreshTokens' = {t \in refreshTokens : t.of \notin visit[v].keys}
      /\ UNCHANGED <<hour, account, resetTokens, browser, inRow, failedAt, visits>>
  BY DEF DelRefreshTokens
<1>2. /\ visit' \in [Visitor -> Visit] /\ \A w \in Visitor \ {v} : visit'[w] = visit[w]
      /\ visit'[v].at = "none"
  BY <1>0, <1>1, VisitEndsFields
<1>3. \A w \in Visitor : Admitted(w)' => w # v /\ Admitted(w)
  BY <1>2 DEF Admitted
<1>4. AboutToList => AboutToList'
  BY <1>1, <1>2 DEF AboutToList
<1>5. \A t \in refreshTokens' : t \in refreshTokens /\ (HasListed(t) => HasListed(t)')
  BY <1>1, <1>2 DEF HasListed
<1>6. RowsAreFresh'
  BY <1>1, <1>2 DEF LoginInv, RowsAreFresh
<1>7. PasswordsKnown'
  BY <1>1, <1>2, <1>3, <1>5 DEF LoginInv, PasswordsKnown
<1>8. OldOnesAreListed'
  BY <1>1, <1>2, <1>3, <1>4, <1>5 DEF LoginInv, OldOnesAreListed
<1>9. Types' /\ CountedInRow' /\ LockoutHolds' /\ TokensWereSent'
  BY <1>1, <1>2, <1>5 DEF LoginInv, Types, CountedInRow, LockoutHolds, TokensWereSent
<1> QED BY <1>6, <1>7, <1>8, <1>9 DEF LoginInv

\* A failure excuses the tokens that are left only when it is a reset that fails.
LEMMA TokensAreCut ==
  ASSUME NEW cut \in BOOLEAN, refreshTokens \subseteq Token,
         refreshTokens' = {[t EXCEPT !.excused = @ \/ cut] : t \in refreshTokens}
  PROVE  /\ refreshTokens' \subseteq Token
         /\ \A s \in refreshTokens' : \E t \in refreshTokens :
              s.of = t.of /\ s.password = t.password /\ s.excused = (t.excused \/ cut)
<1>1. \A s \in refreshTokens' : \E t \in refreshTokens : s = [t EXCEPT !.excused = t.excused \/ cut]
  OBVIOUS
<1>2. ASSUME NEW t \in Token, NEW s, s = [t EXCEPT !.excused = t.excused \/ cut]
      PROVE  s \in Token /\ s.of = t.of /\ s.password = t.password /\ s.excused = (t.excused \/ cut)
  BY <1>2 DEF Token
<1>3. ASSUME NEW s \in refreshTokens'
      PROVE  s \in Token /\ \E t \in refreshTokens :
               s.of = t.of /\ s.password = t.password /\ s.excused = (t.excused \/ cut)
  <2>1. PICK t \in refreshTokens : s = [t EXCEPT !.excused = t.excused \/ cut]
    BY <1>1
  <2> QED BY <1>2, <2>1
<1> QED BY <1>3

LEMMA VisitFailsStep == ASSUME LoginInv, NEW v \in Visitor, VisitFails(v) PROVE LoginInv'
<1> DEFINE cut == visit[v].at \in Listing
<1>0. Types /\ visit \in [Visitor -> Visit] /\ cut \in BOOLEAN /\ NoVisit.at = "none"
  BY DEF LoginInv, Types, NoVisit
<1>1. /\ refreshTokens' = {[t EXCEPT !.excused = @ \/ cut] : t \in refreshTokens}
      /\ visit' = [w \in Visitor |-> IF w = v \/ visit[w].at = "none" THEN NoVisit
                                     ELSE [visit[w] EXCEPT !.excused = visit[w].excused \/ cut]]
      /\ UNCHANGED <<hour, account, resetTokens, browser, inRow, failedAt, visits>>
  BY DEF VisitFails, Listing
<1> HIDE DEF cut
<1>2. /\ refreshTokens' \subseteq Token
      /\ \A s \in refreshTokens' : \E t \in refreshTokens :
           s.of = t.of /\ s.password = t.password /\ s.excused = (t.excused \/ cut)
  BY <1>0, <1>1, TokensAreCut DEF Types
<1> DEFINE Stays(w) == /\ w # v
                       /\ visit'[w].at = visit[w].at /\ visit'[w].row = visit[w].row
                       /\ visit'[w].password = visit[w].password /\ visit'[w].stale = visit[w].stale
                       /\ visit'[w].keys = visit[w].keys /\ visit'[w].excused = (visit[w].excused \/ cut)
<1>3. ASSUME NEW w \in Visitor
      PROVE  visit'[w] \in Visit /\ (visit'[w].at = "none" \/ Stays(w))
  <2>1. CASE w = v \/ visit[w].at = "none"
    BY <1>0, <1>1, <2>1, VisitFields
  <2>2. CASE ~(w = v \/ visit[w].at = "none")
    <3>1. visit'[w] = [visit[w] EXCEPT !.excused = visit[w].excused \/ cut] /\ visit[w] \in Visit
      BY <1>0, <1>1, <2>2
    <3> QED BY <1>0, <2>2, <3>1 DEF Visit
  <2> QED BY <2>1, <2>2
<1>3a. \A w \in Visitor : w # v /\ visit[w].at # "none" => Stays(w)
  <2>1. ASSUME NEW w \in Visitor, w # v, visit[w].at # "none" PROVE Stays(w)
    <3>1. visit'[w] = [visit[w] EXCEPT !.excused = visit[w].excused \/ cut] /\ visit[w] \in Visit
      BY <1>0, <1>1, <2>1
    <3> QED BY <1>0, <2>1, <3>1 DEF Visit
  <2> QED BY <2>1
<1>4. visit' \in [Visitor -> Visit]
  <2>1. visit' = [w \in Visitor |-> visit'[w]]
    BY <1>1
  <2> QED BY <1>3, <2>1
<1>5. \A w \in Visitor : Admitted(w)' => Admitted(w) /\ Stays(w)
  BY <1>3 DEF Admitted
<1>6. RowsAreFresh'
  <2>1. \A w \in Visitor : visit'[w].at # "none" => Stays(w)
    BY <1>3
  <2>2. ASSUME NEW w \in Visitor, visit'[w].at \in {"verify", "failed", "succeeded", "set"}, ~visit'[w].stale
        PROVE  visit'[w].row = account
    <3>1. visit[w].at = visit'[w].at /\ ~visit[w].stale /\ visit'[w].row = visit[w].row
      BY <2>1, <2>2
    <3>2. visit[w].row = account
      BY <2>2, <3>1 DEF LoginInv, RowsAreFresh
    <3> QED BY <3>1, <3>2
  <2> QED BY <1>1, <2>2 DEF RowsAreFresh
<1>7. PasswordsKnown'
  <2>1. \A w \in Visitor : visit'[w].at = "verify" => visit'[w].row.password \in 1..account.password
    BY <1>3 DEF LoginInv, PasswordsKnown
  <2>2. \A w \in Visitor : Admitted(w)' => visit'[w].password \in 1..account.password
    BY <1>5 DEF LoginInv, PasswordsKnown
  <2>3. \A s \in refreshTokens' : s.password \in 1..account.password
    BY <1>2 DEF LoginInv, PasswordsKnown
  <2> QED BY <1>1, <2>1, <2>2, <2>3 DEF LoginInv, PasswordsKnown
<1>8. OldOnesAreListed'
  <2>1. CASE cut
    BY <1>2, <1>5, <2>1 DEF OldOnesAreListed
  <2>2. CASE ~cut
    <3>1. \A u \in Visitor : visit[u].at \in Listing => Stays(u)
      BY <1>3a, <2>2 DEF cut, Listing
    <3>2. AboutToList => AboutToList'
      BY <3>1 DEF AboutToList, Listing
    <3>3. \A t, s : s.of = t.of /\ HasListed(t) => HasListed(s)'
      BY <3>1 DEF HasListed, Listing
    <3>4. \A w \in Visitor : Admitted(w)' /\ ~visit'[w].excused => visit'[w].password = account.password \/ AboutToList
      BY <1>5 DEF LoginInv, OldOnesAreListed
    <3>5. ASSUME NEW s \in refreshTokens', ~s.excused
          PROVE  s.password = account.password \/ AboutToList \/ HasListed(s)'
      <4>1. PICK t \in refreshTokens : s.of = t.of /\ s.password = t.password /\ ~t.excused
        BY <1>2, <3>5
      <4> QED BY <3>3, <4>1 DEF LoginInv, OldOnesAreListed
    <3> QED BY <1>1, <3>2, <3>4, <3>5 DEF OldOnesAreListed
  <2> QED BY <2>1, <2>2
<1>9. TokensWereSent'
  BY <1>1, <1>2 DEF LoginInv, TokensWereSent
<1>10. Types' /\ CountedInRow' /\ LockoutHolds'
  BY <1>1, <1>2, <1>4 DEF LoginInv, Types, CountedInRow, LockoutHolds
<1> QED BY <1>6, <1>7, <1>8, <1>9, <1>10 DEF LoginInv

-----------------------------------------------------------------------------
(* Steps of the browser, of time and of a request for a reset.               *)

\* A browser that has logged in does not become one that has not.
LEMMA BrowsersStay ==
  ASSUME NEW b \in Browser
  PROVE  /\ \A a \in {"expired", "valid", "refused"} : [b EXCEPT !.access = a] \in Browser
         /\ [cookie |-> "cleared", access |-> "dropped"] \in Browser \ {NoBrowser}
         /\ \A a \in {"expired", "valid", "refused"} : [b EXCEPT !.access = a] # NoBrowser
<1>1. \A a \in {"expired", "valid", "refused"} : [b EXCEPT !.access = a] \in Browser
  BY DEF Browser
<1>2. [cookie |-> "cleared", access |-> "dropped"] \in Browser \ {NoBrowser}
  <2>1. [cookie |-> "cleared", access |-> "dropped"] \in Browser
    BY DEF Browser
  <2>2. [cookie |-> "cleared", access |-> "dropped"].access # NoBrowser.access
    BY DEF NoBrowser
  <2> QED BY <2>1, <2>2
<1>3. ASSUME NEW a \in {"expired", "valid", "refused"} PROVE [b EXCEPT !.access = a] # NoBrowser
  <2>1. [b EXCEPT !.access = a].access = a
    BY DEF Browser
  <2>2. NoBrowser.access = "none"
    BY DEF NoBrowser
  <2> QED BY <1>3, <2>1, <2>2
<1> QED BY <1>1, <1>2, <1>3

\* The parts of the invariant that look at no time, count of requests or browser.
LEMMA OnlyBrowsers ==
  ASSUME LoginInv, UNCHANGED <<account, visit, inRow, failedAt>>, refreshTokens' \subseteq refreshTokens
  PROVE  RestOfInv' /\ CountedInRow' /\ LockoutHolds'
<1>1. \A v \in Visitor : Admitted(v)' <=> Admitted(v)
  BY DEF Admitted
<1>2. (AboutToList' <=> AboutToList) /\ \A t : HasListed(t)' <=> HasListed(t)
  BY DEF AboutToList, HasListed
<1>3. RowsAreFresh'
  BY DEF LoginInv, RowsAreFresh
<1>4. PasswordsKnown'
  BY <1>1 DEF LoginInv, PasswordsKnown
<1>5. OldOnesAreListed'
  BY <1>1, <1>2 DEF LoginInv, OldOnesAreListed
<1> QED BY <1>3, <1>4, <1>5 DEF RestOfInv, LoginInv, CountedInRow, LockoutHolds

LEMMA LoginTimeStep == ASSUME LoginInv, LoginTime PROVE LoginInv'
<1>1. UNCHANGED <<account, refreshTokens, resetTokens, visit, browser, inRow, failedAt, visits>> /\ hour' = hour + 1
  BY DEF LoginTime
<1>2. hour' \in Nat
  BY <1>1 DEF LoginInv, Types
<1>3. Types' /\ TokensWereSent'
  BY <1>1, <1>2 DEF LoginInv, Types, TokensWereSent
<1> QED BY <1>1, <1>3, OnlyBrowsers DEF LoginInv, RestOfInv

LEMMA RequestPasswordResetStep == ASSUME LoginInv, RequestPasswordReset PROVE LoginInv'
<1>1. /\ UNCHANGED <<hour, account, refreshTokens, visit, browser, inRow, failedAt>>
      /\ visits < MaxVisits /\ visits' = visits + 1 /\ resetTokens' = resetTokens \cup {visits'}
  BY DEF RequestPasswordReset, Counts
<1>2. visits \in Nat /\ Types
  BY DEF LoginInv, Types
<1>3. visits' \in Nat /\ visits' \in 1..MaxVisits
  BY <1>1, <1>2, Constants
<1>4. resetTokens' \subseteq Login
  BY <1>1, <1>2, <1>3 DEF Types, Login
<1>5. Types' /\ TokensWereSent'
  BY <1>1, <1>3, <1>4 DEF LoginInv, Types, TokensWereSent
<1> QED BY <1>1, <1>5, OnlyBrowsers DEF LoginInv, RestOfInv

\* One browser changes, to one that has logged in.
LEMMA OneBrowserMoves ==
  ASSUME LoginInv, NEW n \in Login, NEW b \in Browser \ {NoBrowser}, browser' = [browser EXCEPT ![n] = b],
         UNCHANGED <<hour, account, resetTokens, visit, inRow, failedAt>>,
         refreshTokens' \subseteq refreshTokens, visits' \in Nat
  PROVE  LoginInv'
<1>1. browser \in [Login -> Browser] /\ refreshTokens \subseteq Token /\ Types
  BY DEF LoginInv, Types
<1>2. browser' \in [Login -> Browser] /\ \A m \in Login : browser'[m] = browser[m] \/ browser'[m] # NoBrowser
  BY <1>1
<1>3. Types'
  BY <1>1, <1>2 DEF Types
<1>4. TokensWereSent'
  <2>1. \A t \in refreshTokens : t.of \in Login
    BY <1>1 DEF Token
  <2> QED BY <1>2, <2>1 DEF LoginInv, TokensWereSent
<1> QED BY <1>3, <1>4, OnlyBrowsers DEF LoginInv, RestOfInv

LEMMA BrowserStep ==
  ASSUME LoginInv, NEW n \in Login, AccessTokenExpires(n) \/ Logout(n) \/ RefreshAccessToken(n)
  PROVE  LoginInv'
<1>1. browser \in [Login -> Browser] /\ browser[n] \in Browser /\ visits \in Nat /\ visits + 1 \in Nat
  BY DEF LoginInv, Types
<1>2. CASE AccessTokenExpires(n)
  <2>1. browser' = [browser EXCEPT ![n] = [browser[n] EXCEPT !.access = "expired"]]
    BY <1>2 DEF AccessTokenExpires
  <2> QED BY <1>1, <1>2, <2>1, BrowsersStay, OneBrowserMoves DEF AccessTokenExpires
<1>3. CASE Logout(n)
  <2>1. /\ browser' = [browser EXCEPT ![n] = [cookie |-> "cleared", access |-> "dropped"]]
        /\ visits' = visits + 1 /\ refreshTokens' \subseteq refreshTokens
        /\ UNCHANGED <<hour, account, resetTokens, visit, inRow, failedAt>>
    BY <1>3 DEF Logout, Counts
  <2> QED BY <1>1, <2>1, BrowsersStay, OneBrowserMoves
<1>4. CASE RefreshAccessToken(n)
  <2> DEFINE a == IF KeyOf(n) # {} THEN "valid" ELSE "refused"
  <2>1. /\ browser' = [browser EXCEPT ![n] = [browser[n] EXCEPT !.access = a]]
        /\ visits' = visits + 1
        /\ UNCHANGED <<hour, account, refreshTokens, resetTokens, visit, inRow, failedAt>>
    BY <1>4 DEF RefreshAccessToken, Counts
  <2>2. a \in {"expired", "valid", "refused"}
    OBVIOUS
  <2> HIDE DEF a
  <2> QED BY <1>1, <2>1, <2>2, BrowsersStay, OneBrowserMoves
<1> QED BY <1>2, <1>3, <1>4

LEMMA LoginStutter == ASSUME LoginInv, UNCHANGED loginVars PROVE LoginInv'
<1>1. /\ UNCHANGED <<hour, account, refreshTokens, resetTokens, visit, browser, inRow, failedAt, visits>>
  BY DEF loginVars
<1>2. Types' /\ TokensWereSent'
  BY <1>1 DEF LoginInv, Types, TokensWereSent
<1> QED BY <1>1, <1>2, OnlyBrowsers DEF LoginInv, RestOfInv

-----------------------------------------------------------------------------
(* The theorems.                                                            *)

LEMMA LoginInitially == LoginInit => LoginInv
<1> SUFFICES ASSUME LoginInit PROVE LoginInv
  OBVIOUS
<1>1. \A v \in Visitor : visit[v] = NoVisit /\ visit[v].at = "none"
  BY DEF LoginInit, NoVisit
<1>2. visit \in [Visitor -> Visit]
  BY VisitFields DEF LoginInit
<1>3. NoBrowser \in Browser
  BY DEF NoBrowser, Browser
<1>4. browser \in [Login -> Browser]
  BY <1>3 DEF LoginInit
<1>5. account \in Account /\ account.password = 1 /\ account.failedLoginAttempts = 0
  BY DEF LoginInit, NewAccount, Account
<1>6. Types
  BY <1>2, <1>4, <1>5, Constants DEF LoginInit, Types
<1>7. \A v \in Visitor : ~Admitted(v)
  BY <1>1 DEF Admitted
<1>8. RowsAreFresh /\ OldOnesAreListed /\ TokensWereSent
  BY <1>1, <1>7 DEF LoginInit, RowsAreFresh, OldOnesAreListed, TokensWereSent
<1>9. PasswordsKnown
  BY <1>1, <1>5, <1>7 DEF LoginInit, PasswordsKnown
<1>10. CountedInRow /\ LockoutHolds
  BY <1>5, Constants DEF LoginInit, CountedInRow, LockoutHolds
<1> QED BY <1>6, <1>8, <1>9, <1>10 DEF LoginInv

LEMMA LoginInvariant == LoginSpec => []LoginInv
<1>1. LoginInv /\ [LoginNext]_loginVars => LoginInv'
  <2> SUFFICES ASSUME LoginInv, [LoginNext]_loginVars PROVE LoginInv'
    OBVIOUS
  <2>1. CASE LoginTime
    BY <2>1, LoginTimeStep
  <2>2. CASE RequestPasswordReset
    BY <2>2, RequestPasswordResetStep
  <2>3. ASSUME NEW n \in Login, AccessTokenExpires(n) \/ Logout(n) \/ RefreshAccessToken(n) PROVE LoginInv'
    BY <2>3, BrowserStep
  <2>4. ASSUME NEW v \in Visitor,
               \/ ValidateUser(v) \/ RecordLoginAttempt(v) \/ SaveFailure(v) \/ SaveSuccess(v)
               \/ StoreRefreshToken(v) \/ GetResetToken(v) \/ SetPassword(v) \/ SavePassword(v)
               \/ DelResetToken(v) \/ ListRefreshTokens(v) \/ DelRefreshTokens(v) \/ VisitFails(v)
        PROVE  LoginInv'
    BY <2>4, ValidateUserStep, RecordLoginAttemptStep, SaveFailureStep, SaveSuccessStep,
       StoreRefreshTokenStep, GetResetTokenStep, SetPasswordStep, SavePasswordStep,
       DelResetTokenStep, ListRefreshTokensStep, DelRefreshTokensStep, VisitFailsStep
  <2>5. CASE UNCHANGED loginVars
    BY <2>5, LoginStutter
  <2> QED BY <2>1, <2>2, <2>3, <2>4, <2>5 DEF LoginNext
<1> QED BY <1>1, LoginInitially, PTL DEF LoginSpec

\* Whatever logins, resets and failing queries overlap, failures in a row up to the limit
\* that met no other save of the row keep the account locked for the whole lock time.
THEOREM FailuresLock == LoginSpec => []LockoutHolds
<1>1. LoginInv => LockoutHolds
  BY DEF LoginInv
<1> QED BY <1>1, LoginInvariant, PTL

\* Once no reset is under way, each refresh token that is left was made with the password
\* of now, or by a login that was under way when a reset listed the tokens, or is one that
\* a reset cut short by a failing query left.
THEOREM SessionsEnd == LoginSpec => []ResetEndsSessions
<1>1. ASSUME LoginInv, ~Resetting, NEW t \in refreshTokens PROVE t.password = account.password \/ t.excused
  <2>1. ~AboutToList /\ ~HasListed(t)
    BY <1>1 DEF Resetting, AboutToList, HasListed
  <2> QED BY <1>1, <2>1 DEF LoginInv, OldOnesAreListed
<1>2. LoginInv => ResetEndsSessions
  BY <1>1 DEF ResetEndsSessions
<1> QED BY <1>2, LoginInvariant, PTL

\* The rows and keys are of their types, and each refresh token is of a login that was
\* answered and was made with a password the account has had.
THEOREM LoginTyped == LoginSpec => []LoginTypeOK
<1>1. ASSUME LoginInv PROVE LoginTypeOK
  <2>1. account \in Account /\ resetTokens \subseteq Login
    BY <1>1 DEF LoginInv, Types
  <2>2. \A v \in Visitor : visit[v].row \in Account /\ visit[v].keys \subseteq Login
    BY <1>1, VisitFields DEF LoginInv, Types
  <2>3. \A t \in refreshTokens : t.of \in Login
    BY <1>1 DEF LoginInv, Types, Token
  <2> QED BY <1>1, <2>1, <2>2, <2>3 DEF LoginInv, LoginTypeOK, PasswordsKnown, TokensWereSent
<1> QED BY <1>1, LoginInvariant, PTL

-----------------------------------------------------------------------------
(* Alerts: its inductive invariant, by parts.                                *)

RuleType  == [there : BOOLEAN, on : BOOLEAN, last : 0..MaxClock]
AlertType == [rule : Rule \cup {"none"},
              status : {"none", "firing", "acknowledged", "resolved", "deleted"}, at : 0..MaxClock]
EvalType  == [at : {"idle", "collect", "next", "find", "insert", "mark", "resolve", "resolving"},
              rows : [Rule -> RuleType], got : [Rule -> {"none", "high", "ok"}], left : SUBSET Rule,
              rule : Rule \cup {"none"}, open : SUBSET [of : Numbers, row : AlertType]]
DeskType  == [what : {"none", "alert"} \cup Rule, of : 0..MaxAlerts, row : AlertType, rule : RuleType]

AlertsTyped ==
  /\ clock \in 1..MaxClock
  /\ ruleRow \in [Rule -> RuleType]
  /\ breach \in [Rule -> 0..MaxClock] /\ highFrom = breach
  /\ alerts \in [Numbers -> AlertType]
  /\ eval \in [Evaluator -> EvalType]
  /\ desk \in DeskType
  /\ finding \in [Rule -> {"none", "high", "ok"}]
  /\ muddled \subseteq Rule

\* Alerts are numbered in the order in which they fire.
Prefix == \A m, n \in Numbers : m < n /\ alerts[m] = NoAlert => alerts[n] = NoAlert

\* What an evaluation has in hand.
InHand ==
  \A e \in Evaluator :
    /\ eval[e].at \in {"idle", "collect", "next"} \/ eval[e].rule \in Rule
    /\ eval[e].rule \notin eval[e].left
    /\ eval[e].open # {} => eval[e].at = "resolving"
    /\ \A a \in eval[e].open : alerts[a.of] # NoAlert

OnDesk ==
  desk.what = "alert" =>
    /\ desk.of \in Numbers /\ alerts[desk.of] # NoAlert
    /\ desk.row.status \in {"acknowledged", "resolved"}

Fires(n, r) == alerts[n].rule = r /\ alerts[n].status = "firing"
Loaded(of, row, r) ==
  /\ row.rule = r <=> alerts[of].rule = r
  /\ row.rule = r => row.at = alerts[of].at

RowRight(r) == ruleRow[r].there /\ ruleRow[r].last <= clock /\ desk.what # r
OneFires(r) == \A m, n \in Numbers : Fires(m, r) /\ Fires(n, r) => m = n
FoundHigh(r) == \A n \in Numbers : Fires(n, r) => finding[r] # "ok"
Apart(r) ==
  \A m, n \in Numbers : m < n /\ alerts[m].rule = r /\ alerts[n].rule = r =>
    alerts[n].at - alerts[m].at >= Cooldown
Marks(e, r) == eval[e].at = "mark" /\ eval[e].rule = r
Dated(r) ==
  \A n \in Numbers : alerts[n].rule = r =>
    /\ alerts[n].at <= clock
    /\ (ruleRow[r].last # 0 /\ alerts[n].at <= ruleRow[r].last) \/ \E e \in Evaluator : Marks(e, r)
LoadedRight(r) ==
  /\ \A e \in Evaluator : \A a \in eval[e].open : Loaded(a.of, a.row, r)
  /\ desk.what = "alert" => Loaded(desk.of, desk.row, r)
OneLooks(r) == \A e, f \in Evaluator : eval[e] # NoEval /\ eval[f] # NoEval => e = f
Looks(e, r, stages) == eval[e].rule = r /\ eval[e].at \in stages
Looked(e, r) ==
  /\ r \in eval[e].left \/ Looks(e, r, {"find", "insert"}) => eval[e].rows[r].last = ruleRow[r].last
  /\ Looks(e, r, {"find", "insert", "mark"}) => breach[r] # 0 /\ clock - breach[r] >= Duration
  /\ Looks(e, r, {"find", "insert"}) =>
       /\ finding[r] = "high"
       /\ ruleRow[r].last = 0 \/ clock - ruleRow[r].last >= Cooldown
  /\ Looks(e, r, {"insert"}) => \A n \in Numbers : ~Fires(n, r)
  /\ Looks(e, r, {"resolving"}) => \A n \in Numbers : Fires(n, r) => \E a \in eval[e].open : a.of = n

RuleRight(r) ==
  /\ RowRight(r) /\ OneFires(r) /\ FoundHigh(r) /\ Apart(r) /\ Dated(r) /\ LoadedRight(r) /\ OneLooks(r)
  /\ \A e \in Evaluator : Looked(e, r)

AlertInv == AlertsTyped /\ Prefix /\ InHand /\ OnDesk /\ \A r \in Rule \ muddled : RuleRight(r)

-----------------------------------------------------------------------------
LEMMA AlertConstants ==
  /\ Duration \in Nat /\ Cooldown \in Nat /\ MaxClock \in Nat /\ MaxAlerts \in Nat /\ MaxClock > 0
  /\ "none" \notin Rule /\ "alert" \notin Rule
BY AlertAssumption

(* What a step leaves of the parts of a rule.                                *)

\* Alerts of the rule are the same ones, and none begins to fire.
Softer(r) ==
  \A n \in Numbers :
    /\ alerts'[n].rule = r <=> alerts[n].rule = r
    /\ alerts'[n].rule = r => alerts'[n].at = alerts[n].at
    /\ alerts'[n].rule = r /\ alerts'[n].status = "firing" => alerts[n].status = "firing"

LEMMA SameIsSofter ==
  ASSUME NEW r, alerts' = alerts
  PROVE  Softer(r)
BY DEF Softer

LEMMA FiringSofter ==
  ASSUME NEW r, Softer(r), OneFires(r), Apart(r), FoundHigh(r), finding'[r] \in {finding[r], "none", "high"}
  PROVE  OneFires(r)' /\ Apart(r)' /\ FoundHigh(r)'
<1>1. \A n \in Numbers : Fires(n, r)' => Fires(n, r)
  BY DEF Fires, Softer, Numbers
<1>2. OneFires(r)'
  BY <1>1 DEF OneFires, Numbers
<1>3. FoundHigh(r)'
  BY <1>1 DEF FoundHigh, Numbers
<1>4. Apart(r)'
  BY DEF Apart, Softer, Numbers
<1> QED BY <1>2, <1>3, <1>4

LEMMA DatedSofter ==
  ASSUME NEW r, Softer(r), Dated(r), clock' \in {clock, clock + 1}, clock \in Nat, ruleRow'[r] = ruleRow[r],
         \A n \in Numbers : alerts[n].at \in Nat,
         \A e \in Evaluator : Marks(e, r) => Marks(e, r)'
  PROVE  Dated(r)'
<1> SUFFICES ASSUME NEW n \in Numbers, alerts'[n].rule = r
             PROVE  /\ alerts'[n].at <= clock'
                    /\ \/ ruleRow'[r].last # 0 /\ alerts'[n].at <= ruleRow'[r].last
                       \/ \E e \in Evaluator : Marks(e, r)'
  BY DEF Dated, Numbers
<1>1. alerts[n].rule = r /\ alerts'[n].at = alerts[n].at
  BY DEF Softer
<1>2. /\ alerts[n].at <= clock
      /\ (ruleRow[r].last # 0 /\ alerts[n].at <= ruleRow[r].last) \/ \E e \in Evaluator : Marks(e, r)
  BY <1>1 DEF Dated
<1>3. alerts'[n].at <= clock'
  BY <1>1, <1>2
<1> QED BY <1>1, <1>2, <1>3

LEMMA LoadedSofter ==
  ASSUME NEW r, Softer(r), LoadedRight(r), eval \in [Evaluator -> EvalType],
         \A e \in Evaluator : eval'[e].open \subseteq eval[e].open,
         desk' = desk \/ desk'.what # "alert", OnDesk
  PROVE  LoadedRight(r)'
<1>1. ASSUME NEW of \in Numbers, NEW row, Loaded(of, row, r)
      PROVE  Loaded(of, row, r)'
  BY <1>1 DEF Loaded, Softer
<1>2. ASSUME NEW e \in Evaluator, NEW a \in eval'[e].open
      PROVE  Loaded(a.of, a.row, r)'
  <2>1. a \in eval[e].open /\ a.of \in Numbers
    BY DEF EvalType
  <2>2. Loaded(a.of, a.row, r)
    BY <2>1 DEF LoadedRight
  <2> QED BY <1>1, <2>1, <2>2
<1>3. desk'.what = "alert" => Loaded(desk.of, desk.row, r)' /\ desk' = desk
  <2> SUFFICES ASSUME desk'.what = "alert" PROVE Loaded(desk.of, desk.row, r)' /\ desk' = desk
    OBVIOUS
  <2>1. desk' = desk /\ desk.of \in Numbers /\ Loaded(desk.of, desk.row, r)
    BY DEF LoadedRight, OnDesk
  <2> QED BY <1>1, <2>1 DEF Loaded
<1> QED BY <1>2, <1>3 DEF LoadedRight

\* An evaluation that does not move.
LEMMA LookedStays ==
  ASSUME NEW r, NEW e \in Evaluator, Softer(r), Looked(e, r), eval'[e] = eval[e], ruleRow'[r] = ruleRow[r],
         breach'[r] = breach[r], finding'[r] = finding[r], clock' \in {clock, clock + 1}, clock \in Nat,
         breach[r] \in Nat, ruleRow[r].last \in Nat
  PROVE  Looked(e, r)'
<1>1. \A n \in Numbers : Fires(n, r)' => Fires(n, r)
  BY DEF Fires, Softer, Numbers
<1>2. \A S : Looks(e, r, S)' <=> Looks(e, r, S)
  BY DEF Looks
<1>3. r \in eval'[e].left \/ Looks(e, r, {"find", "insert"})' => eval'[e].rows[r].last = ruleRow'[r].last
  BY <1>2 DEF Looked
<1>4. Looks(e, r, {"find", "insert", "mark"})' => breach'[r] # 0 /\ clock' - breach'[r] >= Duration
  BY <1>2, AlertConstants DEF Looked
<1>5. Looks(e, r, {"find", "insert"})' => /\ finding'[r] = "high"
                                          /\ ruleRow'[r].last = 0 \/ clock' - ruleRow'[r].last >= Cooldown
  BY <1>2, AlertConstants DEF Looked
<1>6. Looks(e, r, {"insert"})' => \A n \in Numbers : ~Fires(n, r)'
  BY <1>1, <1>2 DEF Looked
<1>7. Looks(e, r, {"resolving"})' => \A n \in Numbers : Fires(n, r)' => \E a \in eval'[e].open : a.of = n
  BY <1>1, <1>2 DEF Looked
<1> QED BY <1>3, <1>4, <1>5, <1>6, <1>7 DEF Looked, Numbers

\* One that has no rule in hand, or another.
LEMMA LookedElsewhere ==
  ASSUME NEW r, NEW e \in Evaluator, ~Looks(e, r, {"find", "insert", "mark", "resolving"})',
         r \in eval'[e].left => eval'[e].rows[r].last = ruleRow'[r].last
  PROVE  Looked(e, r)'
<1>1. /\ ~Looks(e, r, {"find", "insert"})' /\ ~Looks(e, r, {"find", "insert", "mark"})'
      /\ ~Looks(e, r, {"insert"})' /\ ~Looks(e, r, {"resolving"})'
  BY DEF Looks
<1> QED BY <1>1 DEF Looked

LEMMA NotLooking ==
  ASSUME NEW r, NEW e \in Evaluator, eval'[e] = NoEval
  PROVE  Looked(e, r)'
<1>1. eval'[e].left = {} /\ eval'[e].at = "idle"
  BY DEF NoEval
<1> QED BY <1>1, LookedElsewhere DEF Looks

-----------------------------------------------------------------------------
(* How an evaluation moves.                                                  *)

Others(e) == \A f \in Evaluator : f # e => eval'[f] = eval[f]

LEMMA EvalOnFields ==
  ASSUME eval \in [Evaluator -> EvalType], NEW e \in Evaluator,
         NEW at \in {"idle", "collect", "next", "find", "insert", "mark", "resolve", "resolving"}, EvalOn(e, at)
  PROVE  /\ eval' \in [Evaluator -> EvalType] /\ Others(e) /\ eval'[e].at = at
         /\ eval'[e].rule = eval[e].rule /\ eval'[e].left = eval[e].left /\ eval'[e].open = eval[e].open
         /\ eval'[e].rows = eval[e].rows
<1>1. eval' = [eval EXCEPT ![e] = [eval[e] EXCEPT !.at = at]]
  BY DEF EvalOn
<1>2. [eval[e] EXCEPT !.at = at] \in EvalType
  BY DEF EvalType
<1>3. Others(e) /\ eval'[e] = [eval[e] EXCEPT !.at = at]
  BY <1>1 DEF Others
<1> QED BY <1>1, <1>2, <1>3 DEF EvalType

LEMMA TookFields ==
  ASSUME eval \in [Evaluator -> EvalType], NEW e \in Evaluator, NEW r \in Rule,
         NEW at \in {"idle", "collect", "next", "find", "insert", "mark", "resolve", "resolving"}, Took(e, r, at)
  PROVE  /\ eval' \in [Evaluator -> EvalType] /\ Others(e) /\ eval'[e].at = at
         /\ eval'[e].rule = r /\ eval'[e].left = eval[e].left \ {r} /\ eval'[e].open = eval[e].open
         /\ eval'[e].rows = eval[e].rows
<1> DEFINE v1 == [eval[e] EXCEPT !.at = at]
           v2 == [v1 EXCEPT !.rule = r]
           v3 == [v2 EXCEPT !.left = eval[e].left \ {r}]
<1>1. eval' = [eval EXCEPT ![e] = v3]
  BY DEF Took, EvalType
<1>2. v1 \in EvalType /\ v1.at = at /\ v1.left = eval[e].left /\ v1.open = eval[e].open /\ v1.rows = eval[e].rows
  BY DEF EvalType
<1> HIDE DEF v1
<1>3. v2 \in EvalType /\ v2.at = at /\ v2.rule = r /\ v2.open = eval[e].open /\ v2.rows = eval[e].rows
  BY <1>2 DEF EvalType
<1> HIDE DEF v2
<1>4. eval[e].left \ {r} \in SUBSET Rule
  BY DEF EvalType
<1>5. /\ v3 \in EvalType /\ v3.at = at /\ v3.rule = r /\ v3.left = eval[e].left \ {r}
      /\ v3.open = eval[e].open /\ v3.rows = eval[e].rows
  BY <1>3, <1>4 DEF EvalType
<1> HIDE DEF v3
<1>6. Others(e) /\ eval'[e] = v3
  BY <1>1 DEF Others
<1> QED BY <1>1, <1>5, <1>6

-----------------------------------------------------------------------------
(* The parts of the invariant that are about no rule in particular.          *)

Base == AlertsTyped /\ Prefix /\ InHand /\ OnDesk

Holding(e) ==
  /\ eval[e].at \in {"idle", "collect", "next"} \/ eval[e].rule \in Rule
  /\ eval[e].rule \notin eval[e].left
  /\ eval[e].open # {} => eval[e].at = "resolving"
  /\ \A a \in eval[e].open : alerts[a.of] # NoAlert

LEMMA HoldingStays ==
  ASSUME InHand, NEW e \in Evaluator, \A f \in Evaluator : f # e => eval'[f] = eval[f], Holding(e)',
         eval \in [Evaluator -> EvalType],
         \A n \in Numbers : alerts[n] # NoAlert => alerts'[n] # NoAlert
  PROVE  InHand'
<1>1. ASSUME NEW f \in Evaluator, f # e PROVE Holding(f)'
  <2>1. eval'[f] = eval[f] /\ Holding(f)
    BY <1>1 DEF InHand, Holding
  <2>2. \A a \in eval'[f].open : alerts'[a.of] # NoAlert
    BY <2>1 DEF Holding, EvalType
  <2> QED BY <2>1, <2>2 DEF Holding
<1> QED BY <1>1 DEF InHand, Holding

\* One evaluation moves, and no row of an alert.
LEMMA BaseMoves ==
  ASSUME AlertInv, NEW e \in Evaluator, Others(e), eval' \in [Evaluator -> EvalType], Holding(e)',
         UNCHANGED <<clock, alerts, desk>>, ruleRow' \in [Rule -> RuleType],
         breach' \in [Rule -> 0..MaxClock], highFrom' = breach',
         finding' \in [Rule -> {"none", "high", "ok"}], muddled' \subseteq Rule
  PROVE  Base'
<1>1. AlertsTyped'
  BY DEF AlertInv, AlertsTyped
<1>2. Prefix' /\ OnDesk'
  BY DEF AlertInv, Prefix, OnDesk
<1>3. InHand'
  BY HoldingStays DEF AlertInv, AlertsTyped, Others
<1> QED BY <1>1, <1>2, <1>3 DEF Base

\* An evaluation of a rule that nothing has muddled is the only one.
LEMMA OneActs ==
  ASSUME AlertInv, NEW e \in Evaluator, NEW r \in Rule \ muddled, eval[e] # NoEval, Others(e), Looked(e, r)'
  PROVE  /\ OneLooks(r)' /\ \A f \in Evaluator : Looked(f, r)'
         /\ \A f \in Evaluator : f # e => eval[f] = NoEval /\ eval'[f] = NoEval
<1>1. OneLooks(r)
  BY DEF AlertInv, RuleRight
<1>2. \A f \in Evaluator : f # e => eval[f] = NoEval /\ eval'[f] = NoEval
  BY <1>1 DEF OneLooks, Others
<1>3. OneLooks(r)'
  BY <1>2 DEF OneLooks
<1>4. \A f \in Evaluator : f # e => Looked(f, r)'
  BY <1>2, NotLooking
<1> QED BY <1>2, <1>3, <1>4

\* Nothing but the evaluation moves, as far as the rule is concerned.
LEMMA RuleMoves ==
  ASSUME AlertInv, NEW e \in Evaluator, NEW r \in Rule \ muddled, eval[e] # NoEval, Others(e), Looked(e, r)',
         UNCHANGED <<clock, alerts, desk>>, ruleRow'[r] = ruleRow[r],
         eval'[e].open \subseteq eval[e].open, Marks(e, r) => Marks(e, r)',
         finding'[r] \in {finding[r], "none", "high"}
  PROVE  RuleRight(r)'
<1>0. RuleRight(r) /\ AlertsTyped /\ OnDesk /\ Softer(r)
  BY SameIsSofter DEF AlertInv
<1>1. RowRight(r)'
  BY <1>0 DEF RuleRight, RowRight
<1>2. OneFires(r)' /\ Apart(r)' /\ FoundHigh(r)'
  BY <1>0, FiringSofter DEF RuleRight
<1>3. \A f \in Evaluator : Marks(f, r) => Marks(f, r)'
  BY DEF Marks, Others
<1>4. \A n \in Numbers : alerts[n].at \in Nat
  BY <1>0, AlertConstants DEF AlertsTyped, AlertType
<1>5. Dated(r)'
  BY <1>0, <1>3, <1>4, DatedSofter, AlertConstants DEF RuleRight, AlertsTyped
<1>6. \A f \in Evaluator : eval'[f].open \subseteq eval[f].open
  BY DEF Others
<1>7. LoadedRight(r)'
  BY <1>0, <1>6, LoadedSofter DEF RuleRight, AlertsTyped
<1>8. OneLooks(r)' /\ \A f \in Evaluator : Looked(f, r)'
  BY OneActs
<1> QED BY <1>1, <1>2, <1>5, <1>7, <1>8 DEF RuleRight

LEMMA InvFromParts ==
  ASSUME Base', \A r \in Rule \ muddled' : RuleRight(r)'
  PROVE  AlertInv'
BY DEF Base, AlertInv

LEMMA ActiveEvaluation ==
  ASSUME NEW e, eval[e].at # "idle"
  PROVE  eval[e] # NoEval
<1>1. NoEval.at = "idle"
  BY DEF NoEval
<1> QED BY <1>1

-----------------------------------------------------------------------------
(* The steps of an evaluation.                                               *)

LEMMA CollectMetricsStep == ASSUME AlertInv, NEW e \in Evaluator, CollectMetrics(e) PROVE AlertInv'
<1>1. PICK got \in [Rule -> {"high", "ok", "none"}] : eval' = [eval EXCEPT ![e].at = "next", ![e].got = got]
  BY DEF CollectMetrics
<1> DEFINE v1 == [eval[e] EXCEPT !.at = "next"]
           v2 == [v1 EXCEPT !.got = got]
<1>2. AlertsTyped /\ eval[e] \in EvalType /\ eval[e].at = "collect" /\ eval[e] # NoEval
  BY ActiveEvaluation DEF AlertInv, AlertsTyped, CollectMetrics
<1>3. eval' = [eval EXCEPT ![e] = v2]
  BY <1>1, <1>2 DEF AlertsTyped, EvalType
<1>4. v1 \in EvalType /\ v1.at = "next" /\ v1.rule = eval[e].rule /\ v1.left = eval[e].left
      /\ v1.open = eval[e].open /\ v1.rows = eval[e].rows
  BY <1>2 DEF EvalType
<1> HIDE DEF v1
<1>5. v2 \in EvalType /\ v2.at = "next" /\ v2.rule = eval[e].rule /\ v2.left = eval[e].left
      /\ v2.open = eval[e].open /\ v2.rows = eval[e].rows
  BY <1>4 DEF EvalType
<1> HIDE DEF v2
<1>6. eval' \in [Evaluator -> EvalType] /\ Others(e) /\ eval'[e] = v2
  BY <1>2, <1>3, <1>5 DEF AlertsTyped, Others
<1>7. UNCHANGED <<clock, ruleRow, alerts, breach, desk, finding, highFrom, muddled>>
  BY DEF CollectMetrics, alertRows
<1>8. Holding(e)'
  <2>1. Holding(e) /\ eval[e].open = {}
    BY <1>2 DEF AlertInv, InHand, Holding
  <2> QED BY <1>5, <1>6, <2>1 DEF Holding
<1>9. Base'
  BY <1>2, <1>6, <1>7, <1>8, BaseMoves DEF AlertsTyped
<1>10. ASSUME NEW r \in Rule \ muddled' PROVE RuleRight(r)'
  <2>1. Looked(e, r)
    BY <1>7, <1>10 DEF AlertInv, RuleRight
  <2>2. Looked(e, r)'
    BY <1>5, <1>6, <1>7, <2>1, LookedElsewhere DEF Looks, Looked
  <2>3. ~Marks(e, r)
    BY <1>2 DEF Marks
  <2> QED BY <1>2, <1>5, <1>6, <1>7, <2>2, <2>3, RuleMoves
<1> QED BY <1>9, <1>10, InvFromParts

LEMMA EndEvaluationStep == ASSUME AlertInv, NEW e \in Evaluator, EndEvaluation(e) PROVE AlertInv'
<1>1. AlertsTyped /\ eval[e].at = "next" /\ eval[e] # NoEval
  BY ActiveEvaluation DEF AlertInv, AlertsTyped, EndEvaluation
<1>2. NoEval \in EvalType /\ NoEval.at = "idle" /\ NoEval.left = {} /\ NoEval.open = {}
  BY AlertConstants DEF EvalType, NoEval, NoRule, RuleType
<1>3. eval' \in [Evaluator -> EvalType] /\ Others(e) /\ eval'[e] = NoEval
  BY <1>1, <1>2 DEF AlertsTyped, Others, EndEvaluation
<1>4. UNCHANGED <<clock, ruleRow, alerts, breach, desk, finding, highFrom, muddled>>
  BY DEF EndEvaluation, alertRows
<1>5. Holding(e)'
  BY <1>2, <1>3 DEF Holding
<1>6. Base'
  BY <1>1, <1>3, <1>4, <1>5, BaseMoves DEF AlertsTyped, AlertInv
<1>7. ASSUME NEW r \in Rule \ muddled' PROVE RuleRight(r)'
  <2>1. Looked(e, r)'
    BY <1>3, NotLooking
  <2>2. ~Marks(e, r)
    BY <1>1 DEF Marks
  <2> QED BY <1>1, <1>2, <1>3, <1>4, <2>1, <2>2, RuleMoves
<1> QED BY <1>6, <1>7, InvFromParts

LEMMA NotMeasuredStep ==
  ASSUME AlertInv, NEW e \in Evaluator, NEW q \in Rule, NotMeasured(e, q) PROVE AlertInv'
<1>1. AlertsTyped /\ eval[e].at = "next" /\ eval[e] # NoEval /\ q \in eval[e].left
  BY ActiveEvaluation DEF AlertInv, AlertsTyped, NotMeasured
<1>2. Took(e, q, "next")
  BY DEF NotMeasured
<1>3. /\ eval' \in [Evaluator -> EvalType] /\ Others(e) /\ eval'[e].at = "next"
      /\ eval'[e].rule = q /\ eval'[e].left = eval[e].left \ {q} /\ eval'[e].open = eval[e].open
      /\ eval'[e].rows = eval[e].rows
  BY <1>1, <1>2, TookFields DEF AlertsTyped
<1>4. UNCHANGED <<clock, ruleRow, alerts, breach, desk, finding, highFrom, muddled>>
  BY DEF NotMeasured, alertRows
<1>5. Holding(e)'
  <2>1. Holding(e) /\ eval[e].open = {}
    BY <1>1 DEF AlertInv, InHand, Holding
  <2> QED BY <1>3, <2>1 DEF Holding
<1>6. Base'
  BY <1>1, <1>3, <1>4, <1>5, BaseMoves DEF AlertsTyped, AlertInv
<1>7. ASSUME NEW r \in Rule \ muddled' PROVE RuleRight(r)'
  <2>1. Looked(e, r)
    BY <1>4, <1>7 DEF AlertInv, RuleRight
  <2>2. Looked(e, r)'
    BY <1>3, <1>4, <2>1, LookedElsewhere DEF Looks, Looked
  <2>3. ~Marks(e, r)
    BY <1>1 DEF Marks
  <2> QED BY <1>1, <1>3, <1>4, <2>2, <2>3, RuleMoves
<1> QED BY <1>6, <1>7, InvFromParts

\* What is known of the look at a rule when it is found breaching.
LEMMA BreachingLook ==
  ASSUME AlertInv, NEW e \in Evaluator, NEW q \in Rule \ muddled, Breaching(e, q),
         eval' \in [Evaluator -> EvalType], eval'[e].rule = q, q \notin eval'[e].left,
         eval'[e].at = IF Sustained(q) /\ ~CoolingDown(eval[e].rows[q]) THEN "find" ELSE "next"
  PROVE  Looked(e, q)'
<1>1. /\ AlertsTyped /\ q \in eval[e].left /\ clock' = clock /\ ruleRow' = ruleRow
      /\ breach' = [breach EXCEPT ![q] = IF @ = 0 THEN clock ELSE @]
      /\ finding' = [finding EXCEPT ![q] = "high"]
  BY DEF Breaching, AlertInv, alertRows
<1>2. CASE eval'[e].at = "next"
  BY <1>2, LookedElsewhere DEF Looks
<1>3. CASE eval'[e].at = "find"
  <2>1. Sustained(q) /\ ~CoolingDown(eval[e].rows[q])
    BY <1>3
  <2>2. eval[e].rows[q].last = ruleRow[q].last
    BY <1>1 DEF AlertInv, RuleRight, Looked
  <2>3. breach[q] # 0 /\ clock - breach[q] >= Duration
    BY <2>1 DEF Sustained
  <2>4. breach'[q] = breach[q] /\ finding'[q] = "high"
    BY <1>1, <2>3 DEF AlertsTyped
  <2>5. ruleRow[q].last \in Nat /\ clock \in Nat
    BY <1>1, AlertConstants DEF AlertsTyped, RuleType
  <2>6. ruleRow[q].last = 0 \/ clock - ruleRow[q].last >= Cooldown
    BY <2>1, <2>2, <2>5, AlertConstants DEF CoolingDown
  <2>7. eval'[e].rows[q].last = ruleRow'[q].last
    <3>1. eval'[e].rows = eval[e].rows
      BY <1>1, TookFields DEF Breaching, AlertsTyped
    <3> QED BY <1>1, <2>2, <3>1
  <2>8. ~Looks(e, q, {"insert"})' /\ ~Looks(e, q, {"resolving"})'
    BY <1>3 DEF Looks
  <2> QED BY <1>1, <2>3, <2>4, <2>6, <2>7, <2>8 DEF Looked
<1> QED BY <1>2, <1>3

LEMMA BreachingStep ==
  ASSUME AlertInv, NEW e \in Evaluator, NEW q \in Rule, Breaching(e, q) PROVE AlertInv'
<1> DEFINE at == IF Sustained(q) /\ ~CoolingDown(eval[e].rows[q]) THEN "find" ELSE "next"
<1>1. AlertsTyped /\ eval[e].at = "next" /\ eval[e] # NoEval /\ q \in eval[e].left
  BY ActiveEvaluation DEF AlertInv, AlertsTyped, Breaching
<1>2. Took(e, q, at) /\ at \in {"find", "next"}
  BY DEF Breaching
<1>3. /\ eval' \in [Evaluator -> EvalType] /\ Others(e) /\ eval'[e].at = at
      /\ eval'[e].rule = q /\ eval'[e].left = eval[e].left \ {q} /\ eval'[e].open = eval[e].open
      /\ eval'[e].rows = eval[e].rows
  <2> HIDE DEF at
  <2> QED BY <1>1, <1>2, TookFields DEF AlertsTyped
<1>4. /\ UNCHANGED <<clock, ruleRow, alerts, desk, muddled>>
      /\ breach' = [breach EXCEPT ![q] = IF @ = 0 THEN clock ELSE @]
      /\ finding' = [finding EXCEPT ![q] = "high"]
      /\ highFrom' = [highFrom EXCEPT ![q] = IF @ = 0 THEN clock ELSE @]
  BY DEF Breaching, alertRows
<1>5. Holding(e)'
  <2>1. Holding(e) /\ eval[e].open = {}
    BY <1>1 DEF AlertInv, InHand, Holding
  <2> QED BY <1>3, <2>1 DEF Holding
<1>6. Base'
  <2>1. clock \in 0..MaxClock
    BY <1>1, AlertConstants DEF AlertsTyped
  <2>2. breach' \in [Rule -> 0..MaxClock] /\ highFrom' = breach' /\ finding' \in [Rule -> {"none", "high", "ok"}]
    BY <1>1, <1>4, <2>1 DEF AlertsTyped
  <2>3. muddled' \subseteq Rule /\ ruleRow' \in [Rule -> RuleType]
    BY <1>1, <1>4 DEF AlertsTyped
  <2> QED BY <1>3, <1>4, <1>5, <2>2, <2>3, BaseMoves
<1>7. ASSUME NEW r \in Rule \ muddled' PROVE RuleRight(r)'
  <2>1. Looked(e, r) /\ r \in Rule \ muddled
    BY <1>4, <1>7 DEF AlertInv, RuleRight
  <2>2. Looked(e, r)'
    <3>1. CASE r = q
      <4>1. q \notin eval'[e].left
        BY <1>3
      <4> QED BY <1>3, <2>1, <3>1, <4>1, BreachingLook
    <3>2. CASE r # q
      BY <1>3, <1>4, <2>1, <3>2, LookedElsewhere DEF Looks, Looked
    <3> QED BY <3>1, <3>2
  <2>3. ~Marks(e, r)
    BY <1>1 DEF Marks
  <2>4. finding'[r] \in {finding[r], "none", "high"}
    BY <1>1, <1>4 DEF AlertsTyped
  <2> QED BY <1>1, <1>3, <1>4, <2>1, <2>2, <2>3, <2>4, RuleMoves
<1> QED BY <1>6, <1>7, InvFromParts

LEMMA NotBreachingStep ==
  ASSUME AlertInv, NEW e \in Evaluator, NEW q \in Rule, NotBreaching(e, q) PROVE AlertInv'
<1>1. AlertsTyped /\ eval[e].at = "next" /\ eval[e] # NoEval /\ q \in eval[e].left
  BY ActiveEvaluation DEF AlertInv, AlertsTyped, NotBreaching
<1>2. Took(e, q, "resolve")
  BY DEF NotBreaching
<1>3. /\ eval' \in [Evaluator -> EvalType] /\ Others(e) /\ eval'[e].at = "resolve"
      /\ eval'[e].rule = q /\ eval'[e].left = eval[e].left \ {q} /\ eval'[e].open = eval[e].open
      /\ eval'[e].rows = eval[e].rows
  BY <1>1, <1>2, TookFields DEF AlertsTyped
<1>4. /\ UNCHANGED <<clock, ruleRow, alerts, desk, finding, muddled>>
      /\ breach' = [breach EXCEPT ![q] = 0] /\ highFrom' = [highFrom EXCEPT ![q] = 0]
  BY DEF NotBreaching, alertRows
<1>5. Holding(e)'
  <2>1. Holding(e) /\ eval[e].open = {}
    BY <1>1 DEF AlertInv, InHand, Holding
  <2> QED BY <1>3, <2>1 DEF Holding
<1>6. Base'
  <2>1. breach' \in [Rule -> 0..MaxClock] /\ highFrom' = breach'
    BY <1>1, <1>4, AlertConstants DEF AlertsTyped
  <2>2. muddled' \subseteq Rule /\ ruleRow' \in [Rule -> RuleType] /\ finding' \in [Rule -> {"none", "high", "ok"}]
    BY <1>1, <1>4 DEF AlertsTyped
  <2> QED BY <1>3, <1>4, <1>5, <2>1, <2>2, BaseMoves
<1>7. ASSUME NEW r \in Rule \ muddled' PROVE RuleRight(r)'
  <2>1. Looked(e, r)
    BY <1>4, <1>7 DEF AlertInv, RuleRight
  <2>2. Looked(e, r)'
    BY <1>3, <1>4, <2>1, LookedElsewhere DEF Looks, Looked
  <2>3. ~Marks(e, r)
    BY <1>1 DEF Marks
  <2> QED BY <1>1, <1>3, <1>4, <2>2, <2>3, RuleMoves
<1> QED BY <1>6, <1>7, InvFromParts

LEMMA FindFiringStep == ASSUME AlertInv, NEW e \in Evaluator, FindFiring(e) PROVE AlertInv'
<1> DEFINE at == IF Firing(eval[e].rule) = {} THEN "insert" ELSE "next"
<1>1. AlertsTyped /\ eval[e].at = "find" /\ eval[e] # NoEval
  BY ActiveEvaluation DEF AlertInv, AlertsTyped, FindFiring
<1>2. EvalOn(e, at) /\ at \in {"insert", "next"}
  BY DEF FindFiring
<1>3. /\ eval' \in [Evaluator -> EvalType] /\ Others(e) /\ eval'[e].at = at
      /\ eval'[e].rule = eval[e].rule /\ eval'[e].left = eval[e].left /\ eval'[e].open = eval[e].open
      /\ eval'[e].rows = eval[e].rows
  <2> HIDE DEF at
  <2> QED BY <1>1, <1>2, EvalOnFields DEF AlertsTyped
<1>4. UNCHANGED <<clock, ruleRow, alerts, breach, desk, finding, highFrom, muddled>>
  BY DEF FindFiring, alertRows
<1>5. Holding(e)'
  <2>1. Holding(e) /\ eval[e].open = {} /\ eval[e].rule \in Rule
    BY <1>1 DEF AlertInv, InHand, Holding
  <2> QED BY <1>3, <2>1 DEF Holding
<1>6. Base'
  BY <1>1, <1>3, <1>4, <1>5, BaseMoves DEF AlertsTyped, AlertInv
<1>7. ASSUME NEW r \in Rule \ muddled' PROVE RuleRight(r)'
  <2>1. Looked(e, r)
    BY <1>4, <1>7 DEF AlertInv, RuleRight
  <2>2. Looked(e, r)'
    <3>1. CASE ~Looks(e, r, {"insert"})'
      BY <1>2, <1>3, <1>4, <2>1, <3>1, LookedElsewhere DEF Looks, Looked
    <3>2. CASE Looks(e, r, {"insert"})'
      <4>1. eval[e].rule = r /\ at = "insert" /\ Firing(r) = {}
        BY <1>3, <3>2 DEF Looks
      <4>2. Looks(e, r, {"find", "insert"}) /\ Looks(e, r, {"find", "insert", "mark"})
        BY <1>1, <4>1 DEF Looks
      <4>3. eval[e].rows[r].last = ruleRow[r].last /\ breach[r] # 0 /\ clock - breach[r] >= Duration
        BY <2>1, <4>2 DEF Looked
      <4>4. finding[r] = "high" /\ (ruleRow[r].last = 0 \/ clock - ruleRow[r].last >= Cooldown)
        BY <2>1, <4>2 DEF Looked
      <4>5. \A n \in Numbers : ~Fires(n, r)'
        BY <1>4, <4>1 DEF Firing, Fires, Numbers
      <4>6. ~Looks(e, r, {"resolving"})'
        BY <3>2 DEF Looks
      <4> QED BY <1>3, <1>4, <4>3, <4>4, <4>5, <4>6 DEF Looked, Numbers
    <3> QED BY <3>1, <3>2
  <2>3. ~Marks(e, r)
    BY <1>1 DEF Marks
  <2> QED BY <1>1, <1>3, <1>4, <2>2, <2>3, RuleMoves
<1> QED BY <1>6, <1>7, InvFromParts

\* A number is free for an alert only when all alerts have lower ones.
LEMMA FreeNumber ==
  ASSUME Prefix, NEW n \in Numbers, Free(n)
  PROVE  alerts[n] = NoAlert /\ \A k \in Numbers : (k < n <=> alerts[k] # NoAlert)
<1>1. alerts[n] = NoAlert /\ \A m \in Numbers : m < n => alerts[m] # NoAlert
  BY DEF Free
<1>2. ASSUME NEW k \in Numbers, ~(k < n) PROVE alerts[k] = NoAlert
  <2>1. k = n \/ n < k
    BY <1>2, AlertConstants DEF Numbers
  <2> QED BY <1>1, <2>1 DEF Prefix
<1> QED BY <1>1, <1>2

LEMMA InsertAlertStep == ASSUME AlertInv, NEW e \in Evaluator, InsertAlert(e) PROVE AlertInv'
<1> DEFINE q == eval[e].rule
<1>1. AlertsTyped /\ Prefix /\ OnDesk /\ InHand /\ eval[e].at = "insert" /\ eval[e] # NoEval
  BY ActiveEvaluation DEF AlertInv, InsertAlert
<1>2. q \in Rule /\ eval[e].open = {} /\ q \notin eval[e].left
  BY <1>1 DEF InHand
<1>3. PICK n \in Numbers : Free(n) /\ alerts' = [alerts EXCEPT ![n] = [rule |-> q, status |-> "firing", at |-> clock]]
  BY DEF InsertAlert
<1>4. /\ eval' \in [Evaluator -> EvalType] /\ Others(e) /\ eval'[e].at = "mark"
      /\ eval'[e].rule = q /\ eval'[e].left = eval[e].left /\ eval'[e].open = eval[e].open
      /\ eval'[e].rows = eval[e].rows
  BY <1>1, EvalOnFields DEF AlertsTyped, InsertAlert
<1>5. UNCHANGED <<clock, ruleRow, breach, desk, finding, highFrom, muddled>>
  BY DEF InsertAlert
<1> DEFINE new == [rule |-> q, status |-> "firing", at |-> clock]
<1>6. new \in AlertType /\ new # NoAlert /\ new.rule = q /\ new.at = clock /\ new.status = "firing"
  BY <1>1, <1>2, AlertConstants DEF AlertsTyped, AlertType, NoAlert
<1>7. alerts' \in [Numbers -> AlertType] /\ alerts'[n] = new /\ \A k \in Numbers : k # n => alerts'[k] = alerts[k]
  <2>1. alerts' = [alerts EXCEPT ![n] = new]
    BY <1>3
  <2> HIDE DEF new
  <2> QED BY <1>1, <1>6, <2>1 DEF AlertsTyped
<1> HIDE DEF new, q
<1>8. alerts[n] = NoAlert /\ \A k \in Numbers : (k < n <=> alerts[k] # NoAlert)
  BY <1>1, <1>3, FreeNumber
<1>9. \A k \in Numbers : alerts[k] # NoAlert => k # n /\ k < n /\ alerts'[k] = alerts[k] /\ alerts'[k] # NoAlert
  BY <1>7, <1>8
<1>10. Base'
  <2>1. AlertsTyped'
    BY <1>1, <1>4, <1>5, <1>7 DEF AlertsTyped
  <2>2. Prefix'
    <3> SUFFICES ASSUME NEW k \in Numbers, NEW m \in Numbers, k < m, alerts'[k] = NoAlert
                 PROVE  alerts'[m] = NoAlert
      BY DEF Prefix, Numbers
    <3>1. k # n /\ alerts[k] = NoAlert
      BY <1>6, <1>7
    <3>2. ~(k < n)
      BY <1>8, <3>1
    <3>3. m # n
      BY <3>2
    <3>4. alerts[m] = NoAlert
      BY <1>1, <3>1 DEF Prefix
    <3> QED BY <1>7, <3>3, <3>4
  <2>3. Holding(e)'
    BY <1>2, <1>4 DEF Holding
  <2>4. InHand'
    BY <1>1, <1>4, <1>9, <2>3, HoldingStays DEF AlertsTyped, Others
  <2>5. OnDesk'
    BY <1>1, <1>5, <1>9 DEF OnDesk, Numbers
  <2> QED BY <2>1, <2>2, <2>4, <2>5 DEF Base
<1>11. ASSUME NEW r \in Rule \ muddled' PROVE RuleRight(r)'
  <2>1. r \in Rule /\ r \in Rule \ muddled /\ RuleRight(r) /\ Looked(e, r)
    BY <1>5, <1>11 DEF AlertInv, RuleRight
  <2>2. NoAlert.rule = "none" /\ NoAlert.rule # r
    BY <2>1, AlertConstants DEF NoAlert
  <2>3. Looked(e, r)'
    <3>1. CASE q # r
      BY <1>4, <1>5, <2>1, <3>1, LookedElsewhere DEF Looks, Looked
    <3>2. CASE q = r
      <4>1. Looks(e, r, {"find", "insert", "mark"}) /\ r \notin eval'[e].left
        BY <1>1, <1>2, <1>4, <3>2 DEF Looks, q
      <4>2. breach'[r] # 0 /\ clock' - breach'[r] >= Duration
        BY <1>5, <2>1, <4>1 DEF Looked
      <4>3. ~Looks(e, r, {"find", "insert"})' /\ ~Looks(e, r, {"insert"})' /\ ~Looks(e, r, {"resolving"})'
        BY <1>4 DEF Looks
      <4> QED BY <4>1, <4>2, <4>3 DEF Looked
    <3> QED BY <3>1, <3>2
  <2>4. OneLooks(r)' /\ (\A f \in Evaluator : Looked(f, r)')
        /\ \A f \in Evaluator : f # e => eval[f] = NoEval /\ eval'[f] = NoEval
    BY <1>1, <1>4, <2>1, <2>3, OneActs
  <2>5. RowRight(r)'
    BY <1>5, <2>1 DEF RuleRight, RowRight
  <2>6. \A f \in Evaluator : ~Marks(f, r)
    <3>1. ~Marks(e, r)
      BY <1>1 DEF Marks
    <3>2. \A f \in Evaluator : f # e => ~Marks(f, r)
      BY <2>4 DEF Marks, NoEval
    <3> QED BY <3>1, <3>2
  <2>7. \A k \in Numbers : alerts[k].rule = r => k < n /\ alerts'[k] = alerts[k]
    BY <1>9, <2>2
  <2>8. \A k \in Numbers : k # n /\ alerts'[k].rule = r => alerts[k].rule = r /\ alerts'[k] = alerts[k]
    BY <1>7
  <2>9. CASE q # r
    <3>1. alerts'[n].rule # r
      BY <1>6, <1>7, <2>9
    <3>2. Softer(r)
      BY <2>2, <2>7, <2>8, <1>7, <1>8, <3>1 DEF Softer
    <3>3. OneFires(r)' /\ Apart(r)' /\ FoundHigh(r)'
      BY <1>5, <2>1, <3>2, FiringSofter DEF RuleRight
    <3>4. \A k \in Numbers : alerts[k].at \in Nat
      BY <1>1, AlertConstants DEF AlertsTyped, AlertType
    <3>5. Dated(r)'
      BY <1>1, <1>5, <2>1, <2>6, <3>2, <3>4, DatedSofter, AlertConstants DEF RuleRight, AlertsTyped
    <3>6. \A f \in Evaluator : eval'[f].open \subseteq eval[f].open
      BY <1>4 DEF Others
    <3>7. LoadedRight(r)'
      BY <1>1, <1>5, <2>1, <3>2, <3>6, LoadedSofter DEF RuleRight, AlertsTyped
    <3> QED BY <2>4, <2>5, <3>3, <3>5, <3>7 DEF RuleRight
  <2>10. CASE q = r
    <3>1. /\ finding[r] = "high" /\ (ruleRow[r].last = 0 \/ clock - ruleRow[r].last >= Cooldown)
          /\ \A k \in Numbers : ~Fires(k, r)
      <4>1. Looks(e, r, {"find", "insert"}) /\ Looks(e, r, {"insert"})
        BY <1>1, <2>10 DEF Looks, q
      <4> QED BY <2>1, <4>1 DEF Looked
    <3>2. \A k \in Numbers : Fires(k, r)' => k = n
      BY <2>8, <3>1 DEF Fires
    <3>3. OneFires(r)' /\ FoundHigh(r)'
      BY <1>5, <3>1, <3>2 DEF OneFires, FoundHigh, Numbers
    <3>4. \A k \in Numbers : alerts[k].rule = r =>
             alerts[k].at <= clock /\ ruleRow[r].last # 0 /\ alerts[k].at <= ruleRow[r].last
      BY <2>1, <2>6 DEF RuleRight, Dated
    <3>5. /\ clock \in Nat /\ ruleRow[r].last \in Nat
          /\ \A k \in Numbers : alerts[k].at \in Nat
      BY <1>1, <2>1, AlertConstants DEF AlertsTyped, AlertType, RuleType
    <3>6. \A k \in Numbers : alerts[k].rule = r => clock - alerts[k].at >= Cooldown
      BY <3>1, <3>4, <3>5, AlertConstants
    <3>7. Apart(r)'
      <4> SUFFICES ASSUME NEW k \in Numbers, NEW m \in Numbers, k < m, alerts'[k].rule = r, alerts'[m].rule = r
                   PROVE  alerts'[m].at - alerts'[k].at >= Cooldown
        BY DEF Apart, Numbers
      <4>1. CASE m = n
        <5>1. k # n
          BY <4>1, AlertConstants DEF Numbers
        <5>2. alerts[k].rule = r /\ alerts'[k] = alerts[k]
          BY <2>8, <5>1
        <5> QED BY <1>6, <1>7, <3>6, <4>1, <5>2
      <4>2. CASE m # n
        <5>1. alerts[m].rule = r /\ alerts'[m] = alerts[m] /\ m < n
          BY <2>7, <2>8, <4>2
        <5>2. k # n
          BY <5>1, AlertConstants DEF Numbers
        <5>3. alerts[k].rule = r /\ alerts'[k] = alerts[k]
          BY <2>8, <5>2
        <5> QED BY <2>1, <5>1, <5>3 DEF RuleRight, Apart
      <4> QED BY <4>1, <4>2
    <3>8. Dated(r)'
      <4> SUFFICES ASSUME NEW k \in Numbers, alerts'[k].rule = r
                   PROVE  alerts'[k].at <= clock' /\ \E f \in Evaluator : Marks(f, r)'
        BY DEF Dated, Numbers
      <4>1. Marks(e, r)'
        BY <1>4, <2>10 DEF Marks
      <4>2. alerts'[k].at <= clock
        BY <1>6, <1>7, <2>8, <3>4, <3>5
      <4> QED BY <1>5, <4>1, <4>2
    <3>9. LoadedRight(r)'
      <4>1. \A f \in Evaluator : eval'[f].open = {}
        BY <1>2, <1>4, <2>4 DEF NoEval
      <4>2. desk'.what = "alert" => Loaded(desk.of, desk.row, r)' /\ desk' = desk
        <5> SUFFICES ASSUME desk.what = "alert" PROVE Loaded(desk.of, desk.row, r)'
          BY <1>5
        <5>1. alerts'[desk.of] = alerts[desk.of] /\ Loaded(desk.of, desk.row, r)
          BY <1>1, <1>9, <2>1 DEF OnDesk, RuleRight, LoadedRight
        <5> QED BY <1>5, <5>1 DEF Loaded
      <4> QED BY <4>1, <4>2 DEF LoadedRight
    <3> QED BY <2>4, <2>5, <3>3, <3>7, <3>8, <3>9 DEF RuleRight
  <2> QED BY <2>9, <2>10
<1> QED BY <1>10, <1>11, InvFromParts

LEMMA MarkTriggeredStep == ASSUME AlertInv, NEW e \in Evaluator, MarkTriggered(e) PROVE AlertInv'
<1> DEFINE q == eval[e].rule
<1>1. AlertsTyped /\ OnDesk /\ InHand /\ eval[e].at = "mark" /\ eval[e] # NoEval
  BY ActiveEvaluation DEF AlertInv, MarkTriggered
<1>2. q \in Rule /\ eval[e].open = {} /\ q \notin eval[e].left
  BY <1>1 DEF InHand
<1>3. /\ eval' \in [Evaluator -> EvalType] /\ Others(e) /\ eval'[e].at = "next"
      /\ eval'[e].rule = q /\ eval'[e].left = eval[e].left /\ eval'[e].open = eval[e].open
      /\ eval'[e].rows = eval[e].rows
  BY <1>1, EvalOnFields DEF AlertsTyped, MarkTriggered
<1>4. UNCHANGED <<clock, alerts, breach, desk, finding, highFrom, muddled>>
  BY DEF MarkTriggered
<1>5. ruleRow' = IF ruleRow[q].there THEN [ruleRow EXCEPT ![q].last = clock] ELSE ruleRow
  BY DEF MarkTriggered
<1> HIDE DEF q
<1>6. clock \in 0..MaxClock /\ clock \in Nat /\ clock # 0
  BY <1>1, AlertConstants DEF AlertsTyped
<1>7. ruleRow' \in [Rule -> RuleType] /\ \A r \in Rule : r # q => ruleRow'[r] = ruleRow[r]
  BY <1>1, <1>2, <1>5, <1>6 DEF AlertsTyped, RuleType
<1>8. Holding(e)'
  BY <1>2, <1>3 DEF Holding
<1>9. Base'
  BY <1>1, <1>3, <1>4, <1>7, <1>8, BaseMoves DEF AlertsTyped, AlertInv
<1>10. ASSUME NEW r \in Rule \ muddled' PROVE RuleRight(r)'
  <2>1. r \in Rule \ muddled /\ RuleRight(r) /\ Looked(e, r)
    BY <1>4, <1>10 DEF AlertInv, RuleRight
  <2>2. CASE r # q
    <3>1. ruleRow'[r] = ruleRow[r] /\ ~Marks(e, r)
      BY <1>7, <2>1, <2>2 DEF Marks, q
    <3>2. Looked(e, r)'
      BY <1>3, <1>4, <2>1, <3>1, LookedElsewhere DEF Looks, Looked
    <3> QED BY <1>1, <1>3, <1>4, <2>1, <3>1, <3>2, RuleMoves
  <2>3. CASE r = q
    <3>1. ruleRow[r].there /\ ruleRow' = [ruleRow EXCEPT ![r].last = clock]
      BY <1>5, <2>1, <2>3 DEF RuleRight, RowRight
    <3>2. ruleRow'[r].there /\ ruleRow'[r].last = clock
      BY <1>1, <2>1, <3>1 DEF AlertsTyped, RuleType
    <3>3. RowRight(r)'
      BY <1>4, <1>6, <2>1, <3>2 DEF RowRight, RuleRight
    <3>4. OneFires(r)' /\ FoundHigh(r)' /\ Apart(r)'
      BY <1>4, <2>1, SameIsSofter, FiringSofter DEF RuleRight
    <3>5. Dated(r)'
      BY <1>4, <1>6, <2>1, <3>2 DEF RuleRight, Dated, Numbers
    <3>6. \A f \in Evaluator : eval'[f].open \subseteq eval[f].open
      BY <1>3 DEF Others
    <3>7. LoadedRight(r)'
      BY <1>1, <1>4, <2>1, <3>6, SameIsSofter, LoadedSofter DEF RuleRight, AlertsTyped
    <3>8. Looked(e, r)'
      BY <1>2, <1>3, <2>3, LookedElsewhere DEF Looks
    <3>9. OneLooks(r)' /\ \A f \in Evaluator : Looked(f, r)'
      BY <1>1, <1>3, <2>1, <3>8, OneActs
    <3> QED BY <3>3, <3>4, <3>5, <3>7, <3>9 DEF RuleRight
  <2> QED BY <2>2, <2>3
<1> QED BY <1>9, <1>10, InvFromParts

LEMMA LoadFiringStep == ASSUME AlertInv, NEW e \in Evaluator, LoadFiring(e) PROVE AlertInv'
<1> DEFINE q == eval[e].rule
           open == {[of |-> n, row |-> alerts[n]] : n \in Firing(q)}
           v1 == [eval[e] EXCEPT !.at = "resolving"]
           v2 == [v1 EXCEPT !.open = open]
<1>1. AlertsTyped /\ OnDesk /\ InHand /\ eval[e].at = "resolve" /\ eval[e] # NoEval
  BY ActiveEvaluation DEF AlertInv, LoadFiring
<1>2. q \in Rule /\ eval[e].open = {} /\ q \notin eval[e].left /\ eval[e] \in EvalType
  BY <1>1 DEF InHand, AlertsTyped
<1>3. open \in SUBSET [of : Numbers, row : AlertType]
  BY <1>1 DEF AlertsTyped, Firing
<1>4. /\ \A n \in Numbers : Fires(n, q) => \E a \in open : a.of = n
      /\ \A a \in open : a.of \in Numbers /\ a.row = alerts[a.of] /\ alerts[a.of].status = "firing"
  <2>1. ASSUME NEW n \in Numbers, Fires(n, q) PROVE \E a \in open : a.of = n
    <3>1. n \in Firing(q)
      BY <2>1 DEF Firing, Fires
    <3>2. [of |-> n, row |-> alerts[n]] \in open
      BY <3>1
    <3> QED BY <3>2
  <2>2. ASSUME NEW a \in open
        PROVE  a.of \in Numbers /\ a.row = alerts[a.of] /\ alerts[a.of].status = "firing"
    <3>1. PICK n \in Firing(q) : a = [of |-> n, row |-> alerts[n]]
      OBVIOUS
    <3>2. a.of = n /\ a.row = alerts[n]
      BY <3>1
    <3> QED BY <3>2 DEF Firing
  <2> QED BY <2>1, <2>2
<1>5. eval' = [eval EXCEPT ![e] = v2]
  BY <1>1 DEF LoadFiring, AlertsTyped, EvalType
<1> HIDE DEF open, q
<1>6. v1 \in EvalType /\ v1.at = "resolving" /\ v1.rule = eval[e].rule /\ v1.left = eval[e].left
      /\ v1.rows = eval[e].rows
  BY <1>2 DEF EvalType
<1> HIDE DEF v1
<1>7. v2 \in EvalType /\ v2.at = "resolving" /\ v2.rule = q /\ v2.left = eval[e].left
      /\ v2.open = open /\ v2.rows = eval[e].rows
  BY <1>3, <1>6 DEF EvalType, q
<1> HIDE DEF v2
<1>8. eval' \in [Evaluator -> EvalType] /\ Others(e) /\ eval'[e] = v2
  BY <1>1, <1>5, <1>7 DEF AlertsTyped, Others
<1>9. UNCHANGED <<clock, ruleRow, alerts, breach, desk, finding, highFrom, muddled>>
  BY DEF LoadFiring, alertRows
<1>10. Holding(e)'
  <2>1. \A a \in open : alerts[a.of] # NoAlert
    BY <1>4 DEF NoAlert
  <2> QED BY <1>2, <1>7, <1>8, <1>9, <2>1 DEF Holding
<1>11. Base'
  BY <1>1, <1>8, <1>9, <1>10, BaseMoves DEF AlertsTyped, AlertInv
<1>12. ASSUME NEW r \in Rule \ muddled' PROVE RuleRight(r)'
  <2>1. r \in Rule \ muddled /\ RuleRight(r) /\ Looked(e, r) /\ Softer(r)
    BY <1>9, <1>12, SameIsSofter DEF AlertInv, RuleRight
  <2>2. RowRight(r)'
    BY <1>9, <2>1 DEF RuleRight, RowRight
  <2>3. OneFires(r)' /\ Apart(r)' /\ FoundHigh(r)'
    BY <1>9, <2>1, FiringSofter DEF RuleRight
  <2>4. \A f \in Evaluator : Marks(f, r) => Marks(f, r)'
    BY <1>1, <1>8 DEF Marks, Others
  <2>5. \A n \in Numbers : alerts[n].at \in Nat
    BY <1>1, AlertConstants DEF AlertsTyped, AlertType
  <2>6. Dated(r)'
    BY <1>1, <1>9, <2>1, <2>4, <2>5, DatedSofter, AlertConstants DEF RuleRight, AlertsTyped
  <2>7. LoadedRight(r)'
    <3>1. ASSUME NEW f \in Evaluator, NEW a \in eval'[f].open PROVE Loaded(a.of, a.row, r)'
      <4>1. CASE f = e
        BY <1>4, <1>7, <1>8, <1>9, <3>1, <4>1 DEF Loaded
      <4>2. CASE f # e
        BY <1>8, <1>9, <2>1, <3>1, <4>2 DEF Others, RuleRight, LoadedRight, Loaded
      <4> QED BY <4>1, <4>2
    <3>2. desk'.what = "alert" => Loaded(desk.of, desk.row, r)' /\ desk' = desk
      BY <1>9, <2>1 DEF RuleRight, LoadedRight, Loaded
    <3> QED BY <3>1, <3>2 DEF LoadedRight
  <2>8. Looked(e, r)'
    <3>1. CASE r # q
      BY <1>7, <1>8, <1>9, <2>1, <3>1, LookedElsewhere DEF Looks, Looked
    <3>2. CASE r = q
      <4>1. ~Looks(e, r, {"find", "insert"})' /\ ~Looks(e, r, {"find", "insert", "mark"})' /\ ~Looks(e, r, {"insert"})'
        BY <1>7, <1>8 DEF Looks
      <4>2. r \notin eval'[e].left
        BY <1>2, <1>7, <1>8, <3>2
      <4>3. \A n \in Numbers : Fires(n, r)' => \E a \in eval'[e].open : a.of = n
        BY <1>4, <1>7, <1>8, <1>9, <3>2 DEF Fires
      <4> QED BY <4>1, <4>2, <4>3 DEF Looked, Numbers
    <3> QED BY <3>1, <3>2
  <2>9. OneLooks(r)' /\ \A f \in Evaluator : Looked(f, r)'
    BY <1>1, <1>8, <2>1, <2>8, OneActs
  <2> QED BY <2>2, <2>3, <2>6, <2>7, <2>9 DEF RuleRight
<1> QED BY <1>11, <1>12, InvFromParts

LEMMA ResolvedStep == ASSUME AlertInv, NEW e \in Evaluator, Resolved(e) PROVE AlertInv'
<1> DEFINE q == eval[e].rule
<1>1. AlertsTyped /\ OnDesk /\ InHand /\ eval[e].at = "resolving" /\ eval[e].open = {} /\ eval[e] # NoEval
  BY ActiveEvaluation DEF AlertInv, Resolved
<1>2. q \in Rule /\ q \notin eval[e].left
  BY <1>1 DEF InHand
<1>3. /\ eval' \in [Evaluator -> EvalType] /\ Others(e) /\ eval'[e].at = "next"
      /\ eval'[e].rule = q /\ eval'[e].left = eval[e].left /\ eval'[e].open = eval[e].open
      /\ eval'[e].rows = eval[e].rows
  BY <1>1, EvalOnFields DEF AlertsTyped, Resolved
<1>4. UNCHANGED <<clock, ruleRow, alerts, breach, desk, highFrom, muddled>> /\ finding' = [finding EXCEPT ![q] = "ok"]
  BY DEF Resolved, alertRows
<1> HIDE DEF q
<1>5. finding' \in [Rule -> {"none", "high", "ok"}] /\ \A r \in Rule : r # q => finding'[r] = finding[r]
  BY <1>1, <1>2, <1>4 DEF AlertsTyped
<1>6. Holding(e)'
  BY <1>1, <1>2, <1>3 DEF Holding
<1>7. Base'
  BY <1>1, <1>3, <1>4, <1>5, <1>6, BaseMoves DEF AlertsTyped, AlertInv
<1>8. ASSUME NEW r \in Rule \ muddled' PROVE RuleRight(r)'
  <2>1. r \in Rule \ muddled /\ RuleRight(r) /\ Looked(e, r) /\ ~Marks(e, r)
    BY <1>1, <1>4, <1>8 DEF AlertInv, RuleRight, Marks
  <2>2. Looked(e, r)'
    BY <1>3, <1>4, <2>1, LookedElsewhere DEF Looks, Looked
  <2>3. CASE r # q
    BY <1>1, <1>3, <1>4, <1>5, <2>1, <2>2, <2>3, RuleMoves
  <2>4. CASE r = q
    <3>1. \A n \in Numbers : ~Fires(n, r)
      BY <1>1, <2>1, <2>4 DEF Looked, Looks, q
    <3>2. RowRight(r)' /\ OneFires(r)' /\ Apart(r)' /\ FoundHigh(r)'
      BY <1>4, <2>1, <3>1 DEF RuleRight, RowRight, OneFires, Apart, FoundHigh, Fires, Numbers
    <3>3. \A n \in Numbers : alerts[n].at \in Nat
      BY <1>1, AlertConstants DEF AlertsTyped, AlertType
    <3>4. \A f \in Evaluator : Marks(f, r) => Marks(f, r)'
      BY <1>3, <2>1 DEF Marks, Others
    <3>5. Dated(r)'
      BY <1>1, <1>4, <2>1, <3>3, <3>4, SameIsSofter, DatedSofter, AlertConstants DEF RuleRight, AlertsTyped
    <3>6. \A f \in Evaluator : eval'[f].open \subseteq eval[f].open
      BY <1>3 DEF Others
    <3>7. LoadedRight(r)'
      BY <1>1, <1>4, <2>1, <3>6, SameIsSofter, LoadedSofter DEF RuleRight, AlertsTyped
    <3>8. OneLooks(r)' /\ \A f \in Evaluator : Looked(f, r)'
      BY <1>1, <1>3, <2>1, <2>2, OneActs
    <3> QED BY <3>2, <3>5, <3>7, <3>8 DEF RuleRight
  <2> QED BY <2>3, <2>4
<1> QED BY <1>7, <1>8, InvFromParts

LEMMA EvaluationFailsStep == ASSUME AlertInv, NEW e \in Evaluator, EvaluationFails(e) PROVE AlertInv'
<1> DEFINE q == eval[e].rule
<1>1. AlertsTyped /\ OnDesk /\ InHand /\ eval[e].at \in {"find", "insert", "mark", "resolve", "resolving"}
  BY DEF AlertInv, EvaluationFails
<1>2. eval[e] # NoEval /\ q \in Rule
  BY <1>1, ActiveEvaluation DEF InHand
<1>3. NoEval \in EvalType /\ NoEval.at = "idle" /\ NoEval.left = {} /\ NoEval.open = {}
  BY AlertConstants DEF EvalType, NoEval, NoRule, RuleType
<1>4. eval' = [eval EXCEPT ![e] = NoEval] /\ UNCHANGED <<clock, ruleRow, alerts, breach, desk, highFrom>>
  BY DEF EvaluationFails, alertRows
<1>5. eval' \in [Evaluator -> EvalType] /\ Others(e) /\ eval'[e] = NoEval
  BY <1>1, <1>3, <1>4 DEF AlertsTyped, Others
<1>6. /\ finding' = [finding EXCEPT ![q] = "none"]
      /\ muddled' = IF eval[e].at = "mark" THEN muddled \cup {q} ELSE muddled
  BY <1>2 DEF EvaluationFails
<1> HIDE DEF q
<1>7. finding' \in [Rule -> {"none", "high", "ok"}] /\ \A r \in Rule : finding'[r] \in {finding[r], "none"}
  BY <1>1, <1>2, <1>6 DEF AlertsTyped
<1>8. muddled' \subseteq Rule
  BY <1>1, <1>2, <1>6 DEF AlertsTyped
<1>9. Holding(e)'
  BY <1>3, <1>5 DEF Holding
<1>10. Base'
  BY <1>1, <1>4, <1>5, <1>7, <1>8, <1>9, BaseMoves DEF AlertsTyped, AlertInv
<1>11. ASSUME NEW r \in Rule \ muddled' PROVE RuleRight(r)'
  <2>1. r \in Rule \ muddled /\ ~Marks(e, r)
    BY <1>6, <1>11 DEF Marks, q
  <2>2. Looked(e, r)'
    BY <1>5, NotLooking
  <2>3. eval'[e].open \subseteq eval[e].open
    BY <1>3, <1>5
  <2> QED BY <1>2, <1>4, <1>5, <1>7, <2>1, <2>2, <2>3, RuleMoves
<1> QED BY <1>10, <1>11, InvFromParts

-----------------------------------------------------------------------------
(* A row of an alert is saved as it was loaded, acknowledged or resolved.    *)

RowSaved(of, row) ==
  /\ of \in Numbers /\ row \in AlertType /\ row.status \in {"acknowledged", "resolved"} /\ alerts[of] # NoAlert
  /\ alerts' = [alerts EXCEPT ![of] = row]

LEMMA RowSavedFields ==
  ASSUME AlertsTyped, NEW of, NEW row, RowSaved(of, row)
  PROVE  /\ alerts' \in [Numbers -> AlertType] /\ alerts'[of] = row
         /\ \A n \in Numbers : n # of => alerts'[n] = alerts[n]
         /\ \A n \in Numbers : alerts[n] # NoAlert <=> alerts'[n] # NoAlert
<1>1. /\ alerts' \in [Numbers -> AlertType] /\ alerts'[of] = row
      /\ \A n \in Numbers : n # of => alerts'[n] = alerts[n]
  BY DEF RowSaved, AlertsTyped
<1>2. row # NoAlert
  BY DEF RowSaved, NoAlert
<1>3. \A n \in Numbers : alerts[n] # NoAlert <=> alerts'[n] # NoAlert
  BY <1>1, <1>2 DEF RowSaved
<1> QED BY <1>1, <1>3

LEMMA RowSavedSofter ==
  ASSUME AlertsTyped, NEW of, NEW row, RowSaved(of, row), NEW r, Loaded(of, row, r)
  PROVE  Softer(r) /\ ~Fires(of, r)'
<1>1. /\ alerts'[of] = row /\ of \in Numbers /\ row.status # "firing"
      /\ \A n \in Numbers : n # of => alerts'[n] = alerts[n]
  BY RowSavedFields DEF RowSaved
<1>2. Softer(r)
  BY <1>1 DEF Softer, Loaded
<1>3. ~Fires(of, r)'
  <2>1. alerts'[of].status # "firing"
    BY <1>1
  <2> SUFFICES ASSUME Fires(of, r)' PROVE FALSE
    OBVIOUS
  <2> QED BY <2>1 DEF Fires
<1> QED BY <1>2, <1>3

LEMMA PrefixSaved ==
  ASSUME AlertsTyped, Prefix, NEW of, NEW row, RowSaved(of, row)
  PROVE  Prefix'
<1>1. \A n \in Numbers : alerts[n] # NoAlert <=> alerts'[n] # NoAlert
  BY RowSavedFields
<1> QED BY <1>1 DEF Prefix, Numbers

LEMMA ResolveFiringStep ==
  ASSUME AlertInv, NEW e \in Evaluator, NEW a \in eval[e].open, ResolveFiring(e, a) PROVE AlertInv'
<1> DEFINE row == [a.row EXCEPT !.status = "resolved"]
           v == [eval[e] EXCEPT !.open = eval[e].open \ {a}]
<1>1. AlertsTyped /\ Prefix /\ OnDesk /\ InHand /\ eval[e].at = "resolving" /\ eval[e] # NoEval /\ eval[e] \in EvalType
  BY ActiveEvaluation DEF AlertInv, AlertsTyped, ResolveFiring
<1>2. a.of \in Numbers /\ a.row \in AlertType /\ alerts[a.of] # NoAlert
  BY <1>1 DEF InHand, EvalType
<1>3. row \in AlertType /\ row.status = "resolved" /\ row.rule = a.row.rule /\ row.at = a.row.at
  BY <1>2 DEF AlertType
<1>4. RowSaved(a.of, row)
  <2>1. alerts' = [alerts EXCEPT ![a.of] = row]
    BY DEF ResolveFiring
  <2> HIDE DEF row
  <2> QED BY <1>2, <1>3, <2>1 DEF RowSaved
<1> HIDE DEF row
<1>5. v \in EvalType /\ v.at = "resolving" /\ v.rule = eval[e].rule /\ v.left = eval[e].left
      /\ v.open = eval[e].open \ {a} /\ v.rows = eval[e].rows
  BY <1>1 DEF EvalType
<1>6. eval' = [eval EXCEPT ![e] = v]
  BY <1>1 DEF ResolveFiring, AlertsTyped, EvalType
<1> HIDE DEF v
<1>7. eval' \in [Evaluator -> EvalType] /\ Others(e) /\ eval'[e] = v
  BY <1>1, <1>5, <1>6 DEF AlertsTyped, Others
<1>8. UNCHANGED <<clock, ruleRow, breach, desk, finding, highFrom, muddled>>
  BY DEF ResolveFiring
<1>9. /\ alerts' \in [Numbers -> AlertType] /\ \A n \in Numbers : alerts[n] # NoAlert <=> alerts'[n] # NoAlert
  BY <1>1, <1>4, RowSavedFields
<1>10. Base'
  <2>1. AlertsTyped'
    BY <1>1, <1>7, <1>8, <1>9 DEF AlertsTyped
  <2>2. Prefix'
    BY <1>1, <1>4, PrefixSaved
  <2>3. Holding(e)'
    <3>1. Holding(e)
      BY <1>1 DEF InHand, Holding
    <3>2. \A b \in eval[e].open : b.of \in Numbers
      BY <1>1 DEF EvalType
    <3> QED BY <1>1, <1>5, <1>7, <1>9, <3>1, <3>2 DEF Holding
  <2>4. InHand'
    BY <1>1, <1>7, <1>9, <2>3, HoldingStays DEF AlertsTyped, Others
  <2>5. OnDesk'
    BY <1>1, <1>8, <1>9 DEF OnDesk
  <2> QED BY <2>1, <2>2, <2>4, <2>5 DEF Base
<1>11. ASSUME NEW r \in Rule \ muddled' PROVE RuleRight(r)'
  <2>1. r \in Rule \ muddled /\ RuleRight(r) /\ Looked(e, r)
    BY <1>8, <1>11 DEF AlertInv, RuleRight
  <2>2. Loaded(a.of, row, r)
    BY <1>3, <2>1 DEF RuleRight, LoadedRight, Loaded
  <2>3. Softer(r) /\ ~Fires(a.of, r)'
    BY <1>1, <1>4, <2>2, RowSavedSofter
  <2>4. RowRight(r)'
    BY <1>8, <2>1 DEF RuleRight, RowRight
  <2>5. OneFires(r)' /\ Apart(r)' /\ FoundHigh(r)'
    BY <1>8, <2>1, <2>3, FiringSofter DEF RuleRight
  <2>6. \A n \in Numbers : alerts[n].at \in Nat
    BY <1>1, AlertConstants DEF AlertsTyped, AlertType
  <2>7. \A f \in Evaluator : Marks(f, r) => Marks(f, r)'
    BY <1>1, <1>7 DEF Marks, Others
  <2>8. Dated(r)'
    BY <1>1, <1>8, <2>1, <2>3, <2>6, <2>7, DatedSofter, AlertConstants DEF RuleRight, AlertsTyped
  <2>9. \A f \in Evaluator : eval'[f].open \subseteq eval[f].open
    BY <1>5, <1>7 DEF Others
  <2>10. LoadedRight(r)'
    BY <1>1, <1>8, <2>1, <2>3, <2>9, LoadedSofter DEF RuleRight, AlertsTyped
  <2>11. Looked(e, r)'
    <3>1. ~Looks(e, r, {"find", "insert"})' /\ ~Looks(e, r, {"find", "insert", "mark"})' /\ ~Looks(e, r, {"insert"})'
      BY <1>5, <1>7 DEF Looks
    <3>2. r \in eval'[e].left => eval'[e].rows[r].last = ruleRow'[r].last
      BY <1>5, <1>7, <1>8, <2>1 DEF Looked
    <3>3. ASSUME Looks(e, r, {"resolving"})', NEW n \in Numbers, Fires(n, r)'
          PROVE  \E b \in eval'[e].open : b.of = n
      <4>1. Looks(e, r, {"resolving"}) /\ n # a.of
        BY <1>1, <1>5, <1>7, <2>3, <3>3 DEF Looks, Fires
      <4>2. Fires(n, r)
        BY <2>3, <3>3 DEF Fires, Softer
      <4>3. PICK b \in eval[e].open : b.of = n
        BY <2>1, <4>1, <4>2 DEF Looked
      <4> QED BY <1>5, <1>7, <4>1, <4>3
    <3> QED BY <3>1, <3>2, <3>3 DEF Looked, Numbers
  <2>12. OneLooks(r)' /\ \A f \in Evaluator : Looked(f, r)'
    BY <1>1, <1>7, <2>1, <2>11, OneActs
  <2> QED BY <2>4, <2>5, <2>8, <2>10, <2>12 DEF RuleRight
<1> QED BY <1>10, <1>11, InvFromParts

-----------------------------------------------------------------------------
(* Time passes, and users make their requests: no evaluation moves.          *)

LEMMA RuleRests ==
  ASSUME AlertInv, NEW r \in Rule \ muddled, Softer(r), ruleRow'[r] = ruleRow[r], desk'.what # r,
         LoadedRight(r)', UNCHANGED <<eval, breach, finding>>, clock' \in {clock, clock + 1}
  PROVE  RuleRight(r)'
<1>1. RuleRight(r) /\ AlertsTyped
  BY DEF AlertInv
<1>2. /\ clock \in Nat /\ breach[r] \in Nat /\ ruleRow[r].last \in Nat
      /\ \A n \in Numbers : alerts[n].at \in Nat
  BY <1>1, AlertConstants DEF AlertsTyped, RuleType, AlertType
<1>3. RowRight(r)'
  BY <1>1, <1>2 DEF RuleRight, RowRight
<1>4. OneFires(r)' /\ Apart(r)' /\ FoundHigh(r)'
  BY <1>1, FiringSofter DEF RuleRight
<1>5. \A f \in Evaluator : Marks(f, r) => Marks(f, r)'
  BY DEF Marks
<1>6. Dated(r)'
  BY <1>1, <1>2, <1>5, DatedSofter DEF RuleRight
<1>7. OneLooks(r)'
  BY <1>1 DEF RuleRight, OneLooks
<1>8. ASSUME NEW f \in Evaluator PROVE Looked(f, r)'
  <2>1. Looked(f, r)
    BY <1>1 DEF RuleRight
  <2> QED BY <1>2, <2>1, LookedStays
<1> QED BY <1>3, <1>4, <1>6, <1>7, <1>8 DEF RuleRight

LEMMA HandsRest ==
  ASSUME InHand, AlertsTyped, eval' = eval, \A n \in Numbers : alerts[n] # NoAlert => alerts'[n] # NoAlert
  PROVE  InHand'
<1>1. \A e \in Evaluator : \A a \in eval[e].open : a.of \in Numbers
  BY DEF AlertsTyped, EvalType
<1> QED BY <1>1 DEF InHand

LEMMA LoadedRests ==
  ASSUME AlertInv, NEW r \in Rule \ muddled, Softer(r), eval' = eval, desk' = desk \/ desk'.what # "alert"
  PROVE  LoadedRight(r)'
<1>1. LoadedRight(r) /\ OnDesk /\ AlertsTyped
  BY DEF AlertInv, RuleRight
<1> QED BY <1>1, LoadedSofter DEF AlertsTyped

LEMMA NoDeskType == NoDesk \in DeskType /\ NoDesk.what = "none"
<1>1. NoAlert \in AlertType /\ NoRule \in RuleType
  BY AlertConstants DEF NoAlert, AlertType, NoRule, RuleType
<1>2. 0 \in 0..MaxAlerts
  BY AlertConstants
<1> QED BY <1>1, <1>2 DEF NoDesk, DeskType

LEMMA TickStep == ASSUME AlertInv, Tick PROVE AlertInv'
<1>1. /\ AlertsTyped /\ Prefix /\ InHand /\ OnDesk /\ clock < MaxClock /\ clock' = clock + 1
      /\ UNCHANGED <<ruleRow, breach, alerts, eval, desk, finding, highFrom, muddled>>
  BY DEF AlertInv, Tick
<1>2. clock' \in 1..MaxClock
  BY <1>1, AlertConstants DEF AlertsTyped
<1>3. Base'
  BY <1>1, <1>2 DEF Base, AlertsTyped, Prefix, InHand, OnDesk
<1>4. ASSUME NEW r \in Rule \ muddled' PROVE RuleRight(r)'
  <2>1. r \in Rule \ muddled /\ Softer(r) /\ desk'.what # r
    BY <1>1, <1>4, SameIsSofter DEF AlertInv, RuleRight, RowRight
  <2>2. LoadedRight(r)'
    BY <1>1, <2>1, LoadedRests
  <2> QED BY <1>1, <2>1, <2>2, RuleRests
<1> QED BY <1>3, <1>4, InvFromParts

LEMMA StutterStep == ASSUME AlertInv, UNCHANGED alertVars PROVE AlertInv'
<1>1. /\ AlertsTyped /\ Prefix /\ InHand /\ OnDesk
      /\ UNCHANGED <<clock, ruleRow, breach, alerts, eval, desk, finding, highFrom, muddled>>
  BY DEF AlertInv, alertVars
<1>2. Base'
  BY <1>1 DEF Base, AlertsTyped, Prefix, InHand, OnDesk
<1>3. ASSUME NEW r \in Rule \ muddled' PROVE RuleRight(r)'
  <2>1. r \in Rule \ muddled /\ Softer(r) /\ desk'.what # r
    BY <1>1, <1>3, SameIsSofter DEF AlertInv, RuleRight, RowRight
  <2>2. LoadedRight(r)'
    BY <1>1, <2>1, LoadedRests
  <2> QED BY <1>1, <2>1, <2>2, RuleRests
<1> QED BY <1>2, <1>3, InvFromParts

\* A user loads an alert to acknowledge or to resolve it.
LEMMA AlertOpenedStep ==
  ASSUME AlertInv, NEW n \in Numbers, NEW s \in {"acknowledged", "resolved"},
         alerts[n].status \in {"firing", "acknowledged"},
         DeskOpen([NoDesk EXCEPT !.what = "alert", !.of = n, !.row = [alerts[n] EXCEPT !.status = s]]),
         UNCHANGED <<alertRows, muddled>>, DeskRest
  PROVE  AlertInv'
<1> DEFINE row == [alerts[n] EXCEPT !.status = s]
           d1 == [NoDesk EXCEPT !.what = "alert"]
           d2 == [d1 EXCEPT !.of = n]
           d3 == [d2 EXCEPT !.row = row]
<1>1. /\ AlertsTyped /\ Prefix /\ InHand /\ alerts[n] \in AlertType
      /\ UNCHANGED <<clock, ruleRow, breach, alerts, eval, finding, highFrom, muddled>>
  BY DEF AlertInv, AlertsTyped, DeskRest, alertRows
<1>2. row \in AlertType /\ row.status = s /\ row.rule = alerts[n].rule /\ row.at = alerts[n].at
  BY <1>1 DEF AlertType
<1>3. desk' = d3
  BY DEF DeskOpen, NoDesk
<1> HIDE DEF row
<1>4. d1 \in DeskType /\ d1.what = "alert"
  BY NoDeskType DEF DeskType
<1> HIDE DEF d1
<1>5. d2 \in DeskType /\ d2.what = "alert" /\ d2.of = n
  <2>1. n \in 0..MaxAlerts
    BY AlertConstants DEF Numbers
  <2> QED BY <1>4, <2>1 DEF DeskType
<1> HIDE DEF d2
<1>6. d3 \in DeskType /\ d3.what = "alert" /\ d3.of = n /\ d3.row = row
  BY <1>2, <1>5 DEF DeskType
<1> HIDE DEF d3
<1>7. alerts[n] # NoAlert
  BY DEF NoAlert
<1>8. Base'
  <2>1. AlertsTyped'
    BY <1>1, <1>3, <1>6 DEF AlertsTyped
  <2>2. Prefix' /\ InHand'
    BY <1>1 DEF Prefix, InHand
  <2>3. OnDesk'
    BY <1>1, <1>2, <1>3, <1>6, <1>7 DEF OnDesk
  <2> QED BY <2>1, <2>2, <2>3 DEF Base
<1>9. ASSUME NEW r \in Rule \ muddled' PROVE RuleRight(r)'
  <2>1. r \in Rule \ muddled /\ Softer(r) /\ desk'.what # r /\ LoadedRight(r)
    BY <1>1, <1>3, <1>6, <1>9, SameIsSofter, AlertConstants DEF AlertInv, RuleRight
  <2>2. LoadedRight(r)'
    BY <1>1, <1>2, <1>3, <1>6, <2>1 DEF LoadedRight, Loaded
  <2> QED BY <1>1, <2>1, <2>2, RuleRests
<1> QED BY <1>8, <1>9, InvFromParts

LEMMA UpdateRuleStep == ASSUME AlertInv, NEW q \in Rule, UpdateRule(q) PROVE AlertInv'
<1> DEFINE row == [ruleRow[q] EXCEPT !.on = ~ruleRow[q].on]
           d1 == [NoDesk EXCEPT !.what = q]
           d2 == [d1 EXCEPT !.rule = row]
<1>1. /\ AlertsTyped /\ Prefix /\ InHand /\ ruleRow[q] \in RuleType /\ muddled' = muddled \cup {q}
      /\ UNCHANGED <<clock, ruleRow, breach, alerts, eval, finding, highFrom>>
  BY DEF AlertInv, AlertsTyped, UpdateRule, DeskRest, alertRows
<1>2. row \in RuleType
  BY <1>1 DEF RuleType
<1>3. desk' = d2
  BY DEF UpdateRule, DeskOpen, NoDesk
<1> HIDE DEF row
<1>4. d1 \in DeskType /\ d1.what = q
  BY NoDeskType DEF DeskType
<1> HIDE DEF d1
<1>5. d2 \in DeskType /\ d2.what = q
  BY <1>2, <1>4 DEF DeskType
<1> HIDE DEF d2
<1>6. desk'.what # "alert"
  BY <1>3, <1>5, AlertConstants
<1>7. Base'
  <2>1. muddled' \subseteq Rule
    BY <1>1 DEF AlertsTyped
  <2>2. AlertsTyped'
    BY <1>1, <1>3, <1>5, <2>1 DEF AlertsTyped
  <2>3. Prefix' /\ InHand'
    BY <1>1 DEF Prefix, InHand
  <2>4. OnDesk'
    BY <1>6 DEF OnDesk
  <2> QED BY <2>2, <2>3, <2>4 DEF Base
<1>8. ASSUME NEW r \in Rule \ muddled' PROVE RuleRight(r)'
  <2>1. r \in Rule \ muddled /\ Softer(r) /\ r # q /\ desk'.what # r
    BY <1>1, <1>3, <1>5, <1>8, SameIsSofter
  <2>2. LoadedRight(r)'
    BY <1>1, <1>6, <2>1, LoadedRests
  <2> QED BY <1>1, <2>1, <2>2, RuleRests
<1> QED BY <1>7, <1>8, InvFromParts

LEMMA DeleteRuleStep == ASSUME AlertInv, NEW q \in Rule, DeleteRule(q) PROVE AlertInv'
<1>1. /\ AlertsTyped /\ Prefix /\ InHand /\ OnDesk /\ muddled' = muddled \cup {q}
      /\ ruleRow' = [ruleRow EXCEPT ![q] = NoRule]
      /\ alerts' = [n \in Numbers |-> IF alerts[n].rule = q THEN Deleted ELSE alerts[n]]
      /\ UNCHANGED <<clock, breach, eval, desk, finding, highFrom>>
  BY DEF AlertInv, DeleteRule, DeskRest
<1>2. Deleted \in AlertType /\ Deleted # NoAlert /\ Deleted.rule = "none" /\ NoRule \in RuleType
  BY AlertConstants DEF Deleted, NoAlert, AlertType, NoRule, RuleType
<1>3. NoAlert.rule # q
  BY AlertConstants DEF NoAlert
<1>4. \A n \in Numbers : alerts'[n] = IF alerts[n].rule = q THEN Deleted ELSE alerts[n]
  BY <1>1
<1>5. \A n \in Numbers : alerts[n] # NoAlert <=> alerts'[n] # NoAlert
  BY <1>2, <1>3, <1>4
<1>6. Base'
  <2>1. alerts' \in [Numbers -> AlertType]
    BY <1>1, <1>2 DEF AlertsTyped
  <2>2. ruleRow' \in [Rule -> RuleType] /\ muddled' \subseteq Rule
    BY <1>1, <1>2 DEF AlertsTyped
  <2>3. AlertsTyped'
    BY <1>1, <2>1, <2>2 DEF AlertsTyped
  <2>4. Prefix'
    BY <1>1, <1>5 DEF Prefix, Numbers
  <2>5. InHand'
    BY <1>1, <1>5, HandsRest
  <2>6. OnDesk'
    BY <1>1, <1>5 DEF OnDesk
  <2> QED BY <2>3, <2>4, <2>5, <2>6 DEF Base
<1>7. ASSUME NEW r \in Rule \ muddled' PROVE RuleRight(r)'
  <2>1. r \in Rule \ muddled /\ r # q /\ r # "none"
    BY <1>1, <1>7, AlertConstants
  <2>2. Softer(r)
    BY <1>2, <1>4, <2>1 DEF Softer
  <2>3. ruleRow'[r] = ruleRow[r] /\ desk'.what # r
    BY <1>1, <2>1 DEF AlertsTyped, AlertInv, RuleRight, RowRight
  <2>4. LoadedRight(r)'
    BY <1>1, <2>1, <2>2, LoadedRests
  <2> QED BY <1>1, <2>1, <2>2, <2>3, <2>4, RuleRests
<1> QED BY <1>6, <1>7, InvFromParts

LEMMA SaveAlertStep == ASSUME AlertInv, SaveAlert PROVE AlertInv'
<1>1. /\ AlertsTyped /\ Prefix /\ InHand /\ OnDesk /\ desk.what = "alert" /\ desk' = NoDesk
      /\ UNCHANGED <<clock, ruleRow, breach, eval, finding, highFrom, muddled>>
  BY DEF AlertInv, SaveAlert, DeskRest
<1>2. alerts' = alerts \/ RowSaved(desk.of, desk.row)
  <2>1. alerts' = alerts \/ alerts' = [alerts EXCEPT ![desk.of] = desk.row]
    BY DEF SaveAlert
  <2>2. desk.row \in AlertType
    BY <1>1 DEF AlertsTyped, DeskType
  <2> QED BY <1>1, <2>1, <2>2 DEF RowSaved, OnDesk
<1>3. /\ alerts' \in [Numbers -> AlertType]
      /\ \A n \in Numbers : alerts[n] # NoAlert <=> alerts'[n] # NoAlert
  <2>1. CASE alerts' = alerts
    BY <1>1, <2>1 DEF AlertsTyped
  <2>2. CASE RowSaved(desk.of, desk.row)
    BY <1>1, <2>2, RowSavedFields
  <2> QED BY <1>2, <2>1, <2>2
<1>4. Base'
  <2>1. AlertsTyped'
    BY <1>1, <1>3, NoDeskType DEF AlertsTyped
  <2>2. Prefix'
    BY <1>1, <1>3 DEF Prefix, Numbers
  <2>3. InHand'
    BY <1>1, <1>3, HandsRest
  <2>4. OnDesk'
    BY <1>1, NoDeskType DEF OnDesk
  <2> QED BY <2>1, <2>2, <2>3, <2>4 DEF Base
<1>5. ASSUME NEW r \in Rule \ muddled' PROVE RuleRight(r)'
  <2>1. r \in Rule \ muddled /\ r # "none" /\ Loaded(desk.of, desk.row, r)
    BY <1>1, <1>5, AlertConstants DEF AlertInv, RuleRight, LoadedRight
  <2>2. Softer(r)
    BY <1>1, <1>2, <2>1, SameIsSofter, RowSavedSofter
  <2>3. LoadedRight(r)'
    BY <1>1, <2>1, <2>2, LoadedRests, NoDeskType
  <2> QED BY <1>1, <2>1, <2>2, <2>3, NoDeskType, RuleRests
<1> QED BY <1>4, <1>5, InvFromParts

LEMMA SaveRuleStep == ASSUME AlertInv, SaveRule PROVE AlertInv'
<1>1. /\ AlertsTyped /\ Prefix /\ InHand /\ OnDesk /\ desk.what \in Rule /\ desk' = NoDesk
      /\ ruleRow' = [ruleRow EXCEPT ![desk.what] = desk.rule]
      /\ UNCHANGED <<clock, alerts, breach, eval, finding, highFrom, muddled>>
  BY DEF AlertInv, SaveRule, DeskRest
<1>2. ruleRow' \in [Rule -> RuleType]
  BY <1>1 DEF AlertsTyped, DeskType
<1>3. Base'
  <2>1. AlertsTyped'
    BY <1>1, <1>2, NoDeskType DEF AlertsTyped
  <2>2. Prefix' /\ InHand'
    BY <1>1 DEF Prefix, InHand
  <2>3. OnDesk'
    BY <1>1, NoDeskType DEF OnDesk
  <2> QED BY <2>1, <2>2, <2>3 DEF Base
<1>4. ASSUME NEW r \in Rule \ muddled' PROVE RuleRight(r)'
  <2>1. r \in Rule \ muddled /\ r # "none" /\ desk.what # r /\ Softer(r)
    BY <1>1, <1>4, SameIsSofter, AlertConstants DEF AlertInv, RuleRight, RowRight
  <2>2. ruleRow'[r] = ruleRow[r]
    BY <1>1, <2>1 DEF AlertsTyped
  <2>3. LoadedRight(r)'
    BY <1>1, <2>1, LoadedRests, NoDeskType
  <2> QED BY <1>1, <2>1, <2>2, <2>3, NoDeskType, RuleRests
<1> QED BY <1>3, <1>4, InvFromParts


-----------------------------------------------------------------------------
(* An evaluation begins, the panel starts again, and the whole.              *)

LEMMA NoEvalType ==
  NoEval \in EvalType /\ NoEval.at = "idle" /\ NoEval.left = {} /\ NoEval.open = {} /\ NoEval.rule = "none"
BY AlertConstants DEF EvalType, NoEval, NoRule, RuleType

LEMMA EvaluateRulesStep == ASSUME AlertInv, NEW e \in Evaluator, EvaluateRules(e) PROVE AlertInv'
<1> DEFINE on == {r \in Rule : ruleRow[r].on}
           v1 == [NoEval EXCEPT !.at = "collect"]
           v2 == [v1 EXCEPT !.rows = ruleRow]
           v3 == [v2 EXCEPT !.left = on]
<1>1. /\ AlertsTyped /\ Prefix /\ InHand /\ OnDesk
      /\ UNCHANGED <<clock, ruleRow, alerts, breach, desk, finding, highFrom>>
      /\ muddled' = IF Busy = {} THEN muddled ELSE Rule
  BY DEF AlertInv, EvaluateRules
<1>2. eval' = [eval EXCEPT ![e] = v3]
  BY DEF EvaluateRules, NoEval
<1>3. v1 \in EvalType /\ v1.at = "collect" /\ v1.rule = "none" /\ v1.open = {}
  BY NoEvalType DEF EvalType
<1> HIDE DEF v1
<1>4. v2 \in EvalType /\ v2.at = "collect" /\ v2.rule = "none" /\ v2.open = {} /\ v2.rows = ruleRow
  BY <1>1, <1>3 DEF EvalType, AlertsTyped
<1> HIDE DEF v2
<1>5. on \in SUBSET Rule /\ "none" \notin on
  BY AlertConstants
<1> HIDE DEF on
<1>6. /\ v3 \in EvalType /\ v3.at = "collect" /\ v3.rule = "none" /\ v3.open = {} /\ v3.rows = ruleRow
      /\ v3.left = on
  BY <1>4, <1>5 DEF EvalType
<1> HIDE DEF v3
<1>7. eval' \in [Evaluator -> EvalType] /\ Others(e) /\ eval'[e] = v3
  BY <1>1, <1>2, <1>6 DEF AlertsTyped, Others
<1>8. Holding(e)'
  BY <1>5, <1>6, <1>7 DEF Holding
<1>9. muddled' \subseteq Rule
  BY <1>1 DEF AlertsTyped
<1>10. Base'
  BY <1>1, <1>7, <1>8, <1>9, BaseMoves DEF AlertsTyped
<1>11. ASSUME NEW r \in Rule \ muddled' PROVE RuleRight(r)'
  <2>1. r \in Rule \ muddled /\ Busy = {} /\ Softer(r) /\ RuleRight(r)
    BY <1>1, <1>11, SameIsSofter DEF AlertInv
  <2>2. \A f \in Evaluator : eval[f] = NoEval /\ ~Marks(f, r)
    BY <2>1 DEF Busy, Marks, NoEval
  <2>3. RowRight(r)'
    BY <1>1, <2>1 DEF RuleRight, RowRight
  <2>4. OneFires(r)' /\ Apart(r)' /\ FoundHigh(r)'
    BY <1>1, <2>1, FiringSofter DEF RuleRight
  <2>5. \A n \in Numbers : alerts[n].at \in Nat
    BY <1>1, AlertConstants DEF AlertsTyped, AlertType
  <2>6. Dated(r)'
    BY <1>1, <2>1, <2>2, <2>5, DatedSofter, AlertConstants DEF RuleRight, AlertsTyped
  <2>7. \A f \in Evaluator : eval'[f].open \subseteq eval[f].open
    BY <1>6, <1>7 DEF Others
  <2>8. LoadedRight(r)'
    BY <1>1, <2>1, <2>7, LoadedSofter DEF RuleRight, AlertsTyped
  <2>9. OneLooks(r)'
    BY <1>7, <2>2 DEF OneLooks, Others
  <2>10. Looked(e, r)'
    BY <1>1, <1>6, <1>7, LookedElsewhere DEF Looks
  <2>11. \A f \in Evaluator : Looked(f, r)'
    BY <1>7, <2>2, <2>10, NotLooking DEF Others
  <2> QED BY <2>3, <2>4, <2>6, <2>8, <2>9, <2>11 DEF RuleRight
<1> QED BY <1>10, <1>11, InvFromParts

LEMMA RestartPanelStep == ASSUME AlertInv, RestartPanel PROVE AlertInv'
<1>1. /\ AlertsTyped /\ Prefix /\ InHand
      /\ eval' = [e \in Evaluator |-> NoEval] /\ breach' = [r \in Rule |-> 0] /\ desk' = NoDesk
      /\ ruleRow' = IF \A r \in Rule : ~ruleRow[r].there THEN [r \in Rule |-> NewRule] ELSE ruleRow
      /\ finding' = [r \in Rule |-> "none"] /\ highFrom' = [r \in Rule |-> 0]
      /\ muddled' = muddled \cup {eval[e].rule : e \in {d \in Evaluator : eval[d].at = "mark"}}
      /\ UNCHANGED <<clock, alerts>>
  BY DEF AlertInv, RestartPanel
<1>2. Base'
  <2>1. eval' \in [Evaluator -> EvalType]
    BY <1>1, NoEvalType
  <2>2. breach' \in [Rule -> 0..MaxClock] /\ highFrom' = breach' /\ finding' \in [Rule -> {"none", "high", "ok"}]
    BY <1>1, AlertConstants
  <2>3. NewRule \in RuleType
    BY AlertConstants DEF NewRule, RuleType
  <2>4. ruleRow' \in [Rule -> RuleType]
    BY <1>1, <2>3 DEF AlertsTyped
  <2>5. muddled' \subseteq Rule
    BY <1>1 DEF AlertsTyped, InHand
  <2>6. AlertsTyped'
    BY <1>1, <2>1, <2>2, <2>4, <2>5, NoDeskType DEF AlertsTyped
  <2>7. Prefix'
    BY <1>1 DEF Prefix
  <2>8. InHand'
    BY <1>1, NoEvalType DEF InHand
  <2>9. OnDesk'
    BY <1>1, NoDeskType DEF OnDesk
  <2> QED BY <2>6, <2>7, <2>8, <2>9 DEF Base
<1>3. ASSUME NEW r \in Rule \ muddled' PROVE RuleRight(r)'
  <2>1. r \in Rule \ muddled /\ Softer(r) /\ RuleRight(r) /\ \A e \in Evaluator : ~Marks(e, r)
    BY <1>1, <1>3, SameIsSofter DEF AlertInv, Marks
  <2>2. ruleRow' = ruleRow
    BY <1>1, <2>1 DEF RuleRight, RowRight
  <2>3. RowRight(r)'
    BY <1>1, <2>1, <2>2, NoDeskType, AlertConstants DEF RuleRight, RowRight
  <2>4. finding'[r] = "none"
    BY <1>1
  <2>5. OneFires(r)' /\ Apart(r)' /\ FoundHigh(r)'
    BY <2>1, <2>4, FiringSofter DEF RuleRight
  <2>6. \A n \in Numbers : alerts[n].at \in Nat
    BY <1>1, AlertConstants DEF AlertsTyped, AlertType
  <2>7. Dated(r)'
    BY <1>1, <2>1, <2>2, <2>6, DatedSofter, AlertConstants DEF RuleRight, AlertsTyped
  <2>8. LoadedRight(r)'
    BY <1>1, NoEvalType, NoDeskType DEF LoadedRight
  <2>9. OneLooks(r)' /\ \A e \in Evaluator : Looked(e, r)'
    BY <1>1, NotLooking DEF OneLooks
  <2> QED BY <2>3, <2>5, <2>7, <2>8, <2>9 DEF RuleRight
<1> QED BY <1>2, <1>3, InvFromParts

LEMMA AcknowledgeAlertStep == ASSUME AlertInv, NEW n \in Numbers, AcknowledgeAlert(n) PROVE AlertInv'
BY AlertOpenedStep DEF AcknowledgeAlert

LEMMA ResolveAlertStep == ASSUME AlertInv, NEW n \in Numbers, ResolveAlert(n) PROVE AlertInv'
BY AlertOpenedStep DEF ResolveAlert

LEMMA AlertInitially == ASSUME AlertInit PROVE AlertInv
<1>1. /\ clock = 1 /\ ruleRow = [r \in Rule |-> NewRule]
      /\ breach = [r \in Rule |-> 0] /\ alerts = [n \in Numbers |-> NoAlert]
      /\ eval = [e \in Evaluator |-> NoEval] /\ desk = NoDesk
      /\ finding = [r \in Rule |-> "none"] /\ highFrom = [r \in Rule |-> 0] /\ muddled = {}
  BY DEF AlertInit
<1>2. AlertsTyped
  <2>1. clock \in 1..MaxClock
    BY <1>1, AlertConstants
  <2>2. ruleRow \in [Rule -> RuleType] /\ breach \in [Rule -> 0..MaxClock] /\ highFrom = breach
    BY <1>1, AlertConstants DEF NewRule, RuleType
  <2>3. alerts \in [Numbers -> AlertType]
    BY <1>1, AlertConstants DEF NoAlert, AlertType
  <2>4. eval \in [Evaluator -> EvalType]
    BY <1>1, NoEvalType
  <2>5. finding \in [Rule -> {"none", "high", "ok"}] /\ muddled \subseteq Rule
    BY <1>1
  <2> QED BY <1>1, <2>1, <2>2, <2>3, <2>4, <2>5, NoDeskType DEF AlertsTyped
<1>3. Prefix
  BY <1>1 DEF Prefix
<1>4. InHand
  BY <1>1, NoEvalType DEF InHand
<1>5. OnDesk
  BY <1>1, NoDeskType DEF OnDesk
<1>6. ASSUME NEW r \in Rule PROVE RuleRight(r)
  <2>1. r # "none" /\ \A n \in Numbers : alerts[n].rule = "none"
    BY <1>1, AlertConstants DEF NoAlert
  <2>2. RowRight(r)
    BY <1>1, <2>1, NoDeskType DEF RowRight, NewRule
  <2>3. OneFires(r) /\ FoundHigh(r)
    BY <2>1 DEF OneFires, FoundHigh, Fires
  <2>4. Apart(r) /\ Dated(r)
    BY <2>1 DEF Apart, Dated
  <2>5. LoadedRight(r)
    BY <1>1, NoEvalType, NoDeskType DEF LoadedRight
  <2>6. OneLooks(r)
    BY <1>1 DEF OneLooks
  <2>7. \A e \in Evaluator : Looked(e, r)
    BY <1>1, NoEvalType DEF Looked, Looks
  <2> QED BY <2>2, <2>3, <2>4, <2>5, <2>6, <2>7 DEF RuleRight
<1> QED BY <1>2, <1>3, <1>4, <1>5, <1>6 DEF AlertInv

LEMMA AlertStep == ASSUME AlertInv, [AlertNext]_alertVars PROVE AlertInv'
<1>1. CASE Tick
  BY <1>1, TickStep
<1>2. ASSUME NEW e \in Evaluator, EvaluateRules(e) \/ CollectMetrics(e) \/ EndEvaluation(e) PROVE AlertInv'
  BY <1>2, EvaluateRulesStep, CollectMetricsStep, EndEvaluationStep
<1>3. ASSUME NEW e \in Evaluator, NEW r \in Rule, NotMeasured(e, r) \/ Breaching(e, r) \/ NotBreaching(e, r)
      PROVE  AlertInv'
  BY <1>3, NotMeasuredStep, BreachingStep, NotBreachingStep
<1>4. ASSUME NEW e \in Evaluator, FindFiring(e) \/ InsertAlert(e) \/ MarkTriggered(e) \/ LoadFiring(e)
      PROVE  AlertInv'
  BY <1>4, FindFiringStep, InsertAlertStep, MarkTriggeredStep, LoadFiringStep
<1>5. ASSUME NEW e \in Evaluator, NEW a \in eval[e].open, ResolveFiring(e, a) PROVE AlertInv'
  BY <1>5, ResolveFiringStep
<1>6. ASSUME NEW e \in Evaluator, Resolved(e) \/ EvaluationFails(e) PROVE AlertInv'
  BY <1>6, ResolvedStep, EvaluationFailsStep
<1>7. CASE RestartPanel
  BY <1>7, RestartPanelStep
<1>8. ASSUME NEW n \in Numbers, AcknowledgeAlert(n) \/ ResolveAlert(n) PROVE AlertInv'
  BY <1>8, AcknowledgeAlertStep, ResolveAlertStep
<1>9. ASSUME NEW r \in Rule, UpdateRule(r) \/ DeleteRule(r) PROVE AlertInv'
  BY <1>9, UpdateRuleStep, DeleteRuleStep
<1>10. CASE SaveAlert \/ SaveRule
  BY <1>10, SaveAlertStep, SaveRuleStep
<1>11. CASE UNCHANGED alertVars
  BY <1>11, StutterStep
<1> QED BY <1>1, <1>2, <1>3, <1>4, <1>5, <1>6, <1>7, <1>8, <1>9, <1>10, <1>11 DEF AlertNext

LEMMA AlertInvariant == AlertSpec => []AlertInv
<1>1. AlertInit => AlertInv
  BY AlertInitially
<1>2. AlertInv /\ [AlertNext]_alertVars => AlertInv'
  BY AlertStep
<1> QED BY <1>1, <1>2, PTL DEF AlertSpec

\* Rows, evaluations and the breaches kept in memory have their types, and an evaluation
\* past its look at the metrics has a rule in hand (alert-engine.service.ts, entities).
THEOREM AlertsTypedAlways == AlertSpec => []AlertTypeOK
<1>1. AlertInv => AlertTypeOK
  <2> SUFFICES ASSUME AlertInv PROVE AlertTypeOK
    OBVIOUS
  <2>1. AlertsTyped /\ InHand
    BY DEF AlertInv
  <2>2. ruleRow \in [Rule -> [there : BOOLEAN, on : BOOLEAN, last : 0..MaxClock]] /\ breach \in [Rule -> 0..MaxClock]
    BY <2>1 DEF AlertsTyped, RuleType
  <2>3. \A n \in Numbers : alerts[n].status \in {"none", "firing", "acknowledged", "resolved", "deleted"}
    BY <2>1 DEF AlertsTyped, AlertType
  <2> QED BY <2>1, <2>2, <2>3 DEF AlertTypeOK, InHand
<1> QED BY <1>1, AlertInvariant, PTL

\* A rule nobody edits and no two evaluations have in hand has at most one alert firing
\* between evaluations, and none once it was found well; its alerts fire a cooldown apart,
\* each after a breach as long as the rule asks (alert-engine.service.ts evaluateRule).
THEOREM AlertsAsRulesSay == AlertSpec => []AlertsFollowRules
<1>1. ASSUME AlertInv, NEW r \in Rule \ muddled
      PROVE  /\ EvalsQuiet => Cardinality(Firing(r)) <= 1 /\ (Firing(r) # {} => finding[r] # "ok")
             /\ \A m, n \in Numbers : m < n /\ alerts[m].rule = r /\ alerts[n].rule = r =>
                  alerts[n].at - alerts[m].at >= Cooldown
             /\ \A e \in Evaluator : eval[e].at = "mark" /\ eval[e].rule = r =>
                  highFrom[r] # 0 /\ clock - highFrom[r] >= Duration
  <2>1. RuleRight(r) /\ highFrom = breach
    BY <1>1 DEF AlertInv, AlertsTyped
  <2>2. Cardinality(Firing(r)) <= 1
    <3>1. CASE Firing(r) = {}
      BY <3>1, FS_EmptySet
    <3>2. ASSUME NEW n \in Firing(r) PROVE Cardinality(Firing(r)) = 1
      <4>1. Firing(r) = {n}
        BY <2>1 DEF RuleRight, OneFires, Fires, Firing
      <4> QED BY <4>1, FS_Singleton
    <3> QED BY <3>1, <3>2
  <2>3. Firing(r) # {} => finding[r] # "ok"
    BY <2>1 DEF RuleRight, FoundHigh, Fires, Firing
  <2>4. \A m, n \in Numbers : m < n /\ alerts[m].rule = r /\ alerts[n].rule = r =>
          alerts[n].at - alerts[m].at >= Cooldown
    BY <2>1 DEF RuleRight, Apart
  <2>5. \A e \in Evaluator : eval[e].at = "mark" /\ eval[e].rule = r =>
          highFrom[r] # 0 /\ clock - highFrom[r] >= Duration
    BY <2>1 DEF RuleRight, Looked, Looks
  <2> QED BY <2>2, <2>3, <2>4, <2>5
<1>2. AlertInv => AlertsFollowRules
  BY <1>1 DEF AlertsFollowRules
<1> QED BY <1>2, AlertInvariant, PTL

-----------------------------------------------------------------------------
(* PanelCache: its inductive invariant, by parts.                           *)

PageType  == [shown : BOOLEAN, has : BOOLEAN, marked : BOOLEAN, behind : SUBSET DOMAIN Mutations]
ReplyType == [at : {"none", "asked", "read"}, behind : SUBSET DOMAIN Mutations]
MutationType == [what : DOMAIN Mutations \cup {"none"}, at : {"none", "sent", "answered"},
                 behind : SUBSET DOMAIN Mutations]

CacheTyped ==
  /\ looked \in DOMAIN Queries
  /\ page \in PageType /\ reply \in ReplyType /\ mutation \in [Slot -> MutationType]
  /\ reply.at # "read" => reply.behind = {}
  /\ ~page.has => page.behind = {}
  /\ \A s \in Slot : mutation[s].at # "none" => mutation[s].what \in DOMAIN Mutations

\* An answer is behind only by what changes it, or wrote a part of it.
BehindChanges ==
  /\ page.behind \cup reply.behind \subseteq Changers[looked] \cup Writers[looked]
  /\ \A s \in Slot : mutation[s].behind \subseteq Changers[looked]

\* A page is not shown with an entry that is marked unless it is being fetched.
MarkedIsFetched == page.marked /\ page.shown => reply # NoReply

Answering(m) == \E s \in Slot : mutation[s].at = "answered" /\ mutation[s].what = m

\* What is behind will be noticed: the answer to the mutation has still to come, the entry is
\* marked, or a fetch is under way, and what that one is behind will be noticed too.
ReplyNoticed == \A m \in reply.behind : Answering(m)
PageNoticed  == \A m \in page.behind \ Missing : Answering(m) \/ page.marked \/ reply # NoReply

CacheInv ==
  /\ CacheTyped /\ BehindChanges /\ MarkedIsFetched
  /\ ~missed /\ ~Queries[looked].polled => ReplyNoticed /\ PageNoticed

-----------------------------------------------------------------------------
(* Tables, initial states, and the steps of the page and of its fetches.    *)

LEMMA ChangersKnown ==
  ASSUME NEW q \in DOMAIN Queries
  PROVE  /\ Changers[q] \subseteq DOMAIN Mutations /\ Writers[q] \subseteq DOMAIN Mutations
         /\ Markers[q] \subseteq DOMAIN Mutations /\ Whole[q] \subseteq Writers[q]
         /\ ~Queries[q].polled => (Changers[q] \cup Writers[q]) \ Silent(q) \subseteq Markers[q] \cup Whole[q]
BY NoticedAssumption DEF Changers, Writers, Markers, Whole

LEMMA AskedFields ==
  /\ Asked.at = "asked" /\ Asked.behind = {} /\ Asked # NoReply /\ Asked \in ReplyType
  /\ NoReply.at = "none" /\ NoReply.behind = {} /\ NoReply \in ReplyType
BY DEF Asked, NoReply, ReplyType

LEMMA CacheInitially == CacheInit => CacheInv
<1> SUFFICES ASSUME CacheInit PROVE CacheInv
  OBVIOUS
<1>1. /\ looked \in DOMAIN Queries /\ page = NoPage /\ reply = NoReply
      /\ mutation = [s \in Slot |-> NoMutation]
  BY DEF CacheInit
<1>2. NoPage \in PageType /\ NoPage.behind = {} /\ ~NoPage.marked
  BY DEF NoPage, PageType
<1>3. NoMutation \in MutationType /\ NoMutation.behind = {} /\ NoMutation.at = "none"
  BY DEF NoMutation, MutationType
<1>4. CacheTyped
  BY <1>1, <1>2, <1>3, AskedFields DEF CacheTyped
<1>5. BehindChanges /\ MarkedIsFetched /\ ReplyNoticed /\ PageNoticed
  BY <1>1, <1>2, <1>3, AskedFields DEF BehindChanges, MarkedIsFetched, ReplyNoticed, PageNoticed
<1> QED BY <1>4, <1>5 DEF CacheInv

\* Mutations stay as they are, and what is behind stays known.
LEMMA CacheStays ==
  ASSUME CacheInv, UNCHANGED <<looked, mutation, missed>>, page' \in PageType, reply' \in ReplyType,
         reply'.at # "read" => reply'.behind = {}, ~page'.has => page'.behind = {},
         page'.behind \cup reply'.behind \subseteq page.behind \cup reply.behind,
         MarkedIsFetched',
         ReplyNoticed => ReplyNoticed', ReplyNoticed /\ PageNoticed => PageNoticed'
  PROVE  CacheInv'
<1>1. CacheTyped'
  BY DEF CacheInv, CacheTyped
<1>2. BehindChanges'
  BY DEF CacheInv, BehindChanges
<1> QED BY <1>1, <1>2 DEF CacheInv

LEMMA OpenStep == ASSUME CacheInv, Open PROVE CacheInv'
<1>1. /\ page' = [page EXCEPT !.shown = TRUE] /\ page \in PageType /\ reply \in ReplyType
      /\ UNCHANGED <<looked, mutation, missed>>
  BY DEF Open, CacheInv, CacheTyped
<1>2. PICK tooOld \in BOOLEAN :
        reply' = IF reply = NoReply /\ (~page.has \/ page.marked \/ tooOld) THEN Asked ELSE reply
  BY DEF Open
<1>3. page' \in PageType /\ page'.has = page.has /\ page'.behind = page.behind /\ page'.marked = page.marked
  BY <1>1 DEF PageType
<1>4. reply' \in ReplyType /\ (reply' = reply \/ reply' = Asked) /\ (page.marked => reply' # NoReply)
  BY <1>1, <1>2, AskedFields
<1>5. /\ reply'.at # "read" => reply'.behind = {}
      /\ ~page'.has => page'.behind = {}
  BY <1>3, <1>4, AskedFields DEF CacheInv, CacheTyped
<1>6. reply'.behind \subseteq reply.behind /\ (reply # NoReply => reply' # NoReply)
  BY <1>4, AskedFields
<1>7. MarkedIsFetched'
  BY <1>3, <1>4 DEF MarkedIsFetched
<1>8. (ReplyNoticed => ReplyNoticed') /\ (PageNoticed => PageNoticed')
  BY <1>1, <1>3, <1>6 DEF ReplyNoticed, PageNoticed, Answering, Missing
<1> QED BY <1>1, <1>3, <1>4, <1>5, <1>6, <1>7, <1>8, CacheStays

LEMMA CloseStep == ASSUME CacheInv, Close PROVE CacheInv'
<1>1. /\ page' = [page EXCEPT !.shown = FALSE] /\ page \in PageType /\ reply \in ReplyType
      /\ UNCHANGED <<looked, mutation, missed, reply>>
  BY DEF Close, CacheInv, CacheTyped
<1>2. page' \in PageType /\ page'.has = page.has /\ page'.behind = page.behind /\ page'.marked = page.marked
      /\ ~page'.shown
  BY <1>1 DEF PageType
<1>3. /\ reply'.at # "read" => reply'.behind = {}
      /\ ~page'.has => page'.behind = {}
  BY <1>1, <1>2 DEF CacheInv, CacheTyped
<1>4. MarkedIsFetched'
  BY <1>2 DEF MarkedIsFetched
<1>5. (ReplyNoticed => ReplyNoticed') /\ (PageNoticed => PageNoticed')
  BY <1>1, <1>2 DEF ReplyNoticed, PageNoticed, Answering, Missing
<1> QED BY <1>1, <1>2, <1>3, <1>4, <1>5, CacheStays

LEMMA PollStep == ASSUME CacheInv, Poll PROVE CacheInv'
<1>1. /\ reply = NoReply /\ reply' = Asked /\ page \in PageType /\ UNCHANGED <<looked, mutation, missed, page>>
  BY DEF Poll, CacheInv, CacheTyped
<1>2. ~page.has => page.behind = {}
  BY DEF CacheInv, CacheTyped
<1>3. MarkedIsFetched' /\ ReplyNoticed' /\ PageNoticed'
  BY <1>1, AskedFields DEF MarkedIsFetched, ReplyNoticed, PageNoticed
<1> QED BY <1>1, <1>2, <1>3, AskedFields, CacheStays

LEMMA ReadStep == ASSUME CacheInv, Read PROVE CacheInv'
<1>1. /\ reply.at = "asked" /\ reply' = [NoReply EXCEPT !.at = "read"] /\ page \in PageType
      /\ UNCHANGED <<looked, mutation, missed, page>>
  BY DEF Read, CacheInv, CacheTyped
<1>2. reply' \in ReplyType /\ reply'.at = "read" /\ reply'.behind = {} /\ reply' # NoReply
  BY <1>1, AskedFields DEF ReplyType, NoReply
<1>3. ~page.has => page.behind = {}
  BY DEF CacheInv, CacheTyped
<1>4. MarkedIsFetched' /\ ReplyNoticed' /\ PageNoticed'
  BY <1>1, <1>2 DEF MarkedIsFetched, ReplyNoticed, PageNoticed
<1> QED BY <1>1, <1>2, <1>3, <1>4, CacheStays

LEMMA FilledStep == ASSUME CacheInv, Filled PROVE CacheInv'
<1> DEFINE p1 == [page EXCEPT !.has = TRUE]
           p2 == [p1 EXCEPT !.marked = FALSE]
           p3 == [p2 EXCEPT !.behind = reply.behind]
<1>1. /\ page' = p3 /\ reply' = NoReply /\ page \in PageType /\ reply \in ReplyType
      /\ UNCHANGED <<looked, mutation, missed>>
  BY DEF Filled, CacheInv, CacheTyped
<1>2. p1 \in PageType /\ p1.has
  BY <1>1 DEF PageType
<1> HIDE DEF p1
<1>3. p2 \in PageType /\ p2.has /\ ~p2.marked
  BY <1>2 DEF PageType
<1> HIDE DEF p2
<1>4. p3 \in PageType /\ p3.has /\ ~p3.marked /\ p3.behind = reply.behind
  BY <1>1, <1>3 DEF PageType, ReplyType
<1> HIDE DEF p3
<1>5. MarkedIsFetched' /\ ReplyNoticed'
  BY <1>1, <1>4, AskedFields DEF MarkedIsFetched, ReplyNoticed
<1>6. ReplyNoticed => PageNoticed'
  BY <1>1, <1>4 DEF ReplyNoticed, PageNoticed, Answering
<1> QED BY <1>1, <1>4, <1>5, <1>6, AskedFields, CacheStays

-----------------------------------------------------------------------------
(* The steps of a mutation.                                                 *)

LEMMA MutateStep ==
  ASSUME CacheInv, NEW s \in Slot, NEW m \in Changers[looked] \cup Markers[looked], Mutate(s, m)
  PROVE  CacheInv'
<1> DEFINE v1 == [NoMutation EXCEPT !.what = m]
           v2 == [v1 EXCEPT !.at = "sent"]
<1>1. /\ mutation[s] = NoMutation /\ mutation' = [mutation EXCEPT ![s] = v2]
      /\ UNCHANGED <<looked, page, reply, missed>> /\ CacheTyped /\ BehindChanges /\ MarkedIsFetched
  BY DEF Mutate, CacheInv
<1>2. m \in DOMAIN Mutations
  BY <1>1, ChangersKnown DEF CacheTyped
<1>3. v1 \in MutationType /\ v1.what = m /\ v1.behind = {}
  BY <1>2 DEF NoMutation, MutationType
<1> HIDE DEF v1
<1>4. v2 \in MutationType /\ v2.what = m /\ v2.behind = {} /\ v2.at = "sent"
  BY <1>3 DEF MutationType
<1> HIDE DEF v2
<1>5. \A t \in Slot : mutation'[t] = IF t = s THEN v2 ELSE mutation[t]
  BY <1>1 DEF CacheTyped
<1>6. CacheTyped'
  <2>1. mutation' \in [Slot -> MutationType]
    BY <1>1, <1>4 DEF CacheTyped
  <2> QED BY <1>1, <1>2, <1>4, <1>5, <2>1 DEF CacheTyped
<1>7. BehindChanges' /\ MarkedIsFetched'
  BY <1>1, <1>4, <1>5 DEF BehindChanges, MarkedIsFetched
<1>8. \A n : Answering(n) => Answering(n)'
  <2>1. mutation[s].at # "answered"
    BY <1>1 DEF NoMutation
  <2> QED BY <1>5, <2>1 DEF Answering
<1>9. (ReplyNoticed => ReplyNoticed') /\ (PageNoticed => PageNoticed')
  BY <1>1, <1>8 DEF ReplyNoticed, PageNoticed, Missing
<1> QED BY <1>1, <1>6, <1>7, <1>9 DEF CacheInv

LEMMA HandledStep == ASSUME CacheInv, NEW s \in Slot, Handled(s) PROVE CacheInv'
<1>0. PICK m : m = mutation[s].what
  OBVIOUS
<1> DEFINE v == [mutation[s] EXCEPT !.at = "answered"]
           b(x) == [x EXCEPT !.behind = x.behind \cup {m}]
<1>1. /\ mutation[s].at = "sent" /\ UNCHANGED <<looked, missed>>
      /\ page' = IF Changing(m) /\ page.has THEN b(page) ELSE page
      /\ reply' = IF Changing(m) /\ reply.at = "read" THEN b(reply) ELSE reply
      /\ mutation' = [t \in Slot |-> IF t = s THEN v
           ELSE IF mutation[t].at = "answered" /\ Changing(m) THEN b(mutation[t]) ELSE mutation[t]]
      /\ CacheTyped /\ BehindChanges /\ MarkedIsFetched
  BY <1>0 DEF Handled, CacheInv, Behind
<1>2. m \in DOMAIN Mutations /\ page \in PageType /\ reply \in ReplyType /\ \A t \in Slot : mutation[t] \in MutationType
  BY <1>0, <1>1 DEF CacheTyped
<1>3. v \in MutationType /\ v.at = "answered" /\ v.what = m /\ v.behind = mutation[s].behind
  BY <1>0, <1>2 DEF MutationType
<1> HIDE DEF v
<1>4. \A x \in MutationType : b(x) \in MutationType /\ b(x).at = x.at /\ b(x).what = x.what /\ b(x).behind = x.behind \cup {m}
  BY <1>2 DEF MutationType
<1>5. /\ b(page) \in PageType /\ b(page).has = page.has /\ b(page).marked = page.marked /\ b(page).shown = page.shown
      /\ b(page).behind = page.behind \cup {m}
  BY <1>2 DEF PageType
<1>6. b(reply) \in ReplyType /\ b(reply).at = reply.at /\ b(reply).behind = reply.behind \cup {m}
  BY <1>2 DEF ReplyType
<1> HIDE DEF b
<1>7. \A t \in Slot : /\ mutation'[t] \in MutationType
                      /\ t # s => /\ mutation'[t].at = mutation[t].at /\ mutation'[t].what = mutation[t].what
                                  /\ mutation'[t].behind \subseteq mutation[t].behind \cup (IF Changing(m) THEN {m} ELSE {})
  BY <1>1, <1>2, <1>3, <1>4
<1>8. mutation'[s] = v /\ mutation' \in [Slot -> MutationType]
  BY <1>1, <1>7
<1>9. /\ page' \in PageType /\ page'.has = page.has /\ page'.marked = page.marked /\ page'.shown = page.shown
      /\ page'.behind \subseteq page.behind \cup (IF Changing(m) /\ page.has THEN {m} ELSE {})
  BY <1>1, <1>2, <1>5
<1>10. /\ reply' \in ReplyType /\ reply'.at = reply.at
       /\ reply'.behind \subseteq reply.behind \cup (IF Changing(m) /\ reply.at = "read" THEN {m} ELSE {})
  BY <1>1, <1>2, <1>6
<1>11. CacheTyped'
  <2>1. reply'.at # "read" => reply'.behind = {}
    BY <1>1, <1>10 DEF CacheTyped
  <2>2. ~page'.has => page'.behind = {}
    BY <1>1, <1>9 DEF CacheTyped
  <2>3. \A t \in Slot : mutation'[t].at # "none" => mutation'[t].what \in DOMAIN Mutations
    BY <1>1, <1>2, <1>3, <1>7, <1>8 DEF CacheTyped
  <2> QED BY <1>1, <1>8, <1>9, <1>10, <2>1, <2>2, <2>3 DEF CacheTyped
<1>12. BehindChanges'
  BY <1>1, <1>3, <1>7, <1>8, <1>9, <1>10 DEF BehindChanges, Changing
<1>13. reply' # NoReply <=> reply # NoReply
  BY <1>1, <1>10, AskedFields
<1>14. MarkedIsFetched'
  BY <1>1, <1>9, <1>13 DEF MarkedIsFetched
<1>15. Answering(m)' /\ \A n : Answering(n) => Answering(n)'
  BY <1>1, <1>3, <1>7, <1>8 DEF Answering
<1>16. ReplyNoticed => ReplyNoticed'
  BY <1>10, <1>15 DEF ReplyNoticed
<1>17. PageNoticed => PageNoticed'
  <2>1. Missing' = Missing
    BY <1>1 DEF Missing, Silent
  <2>2. ASSUME PageNoticed, NEW n \in page'.behind \ Missing
        PROVE  Answering(n)' \/ page'.marked \/ reply' # NoReply
    <3>1. CASE n \in page.behind
      BY <1>9, <1>13, <1>15, <2>2, <3>1 DEF PageNoticed
    <3>2. CASE n = m
      BY <1>15, <3>2
    <3> QED BY <1>9, <2>2, <3>1, <3>2
  <2> QED BY <2>1, <2>2 DEF PageNoticed
<1> QED BY <1>1, <1>11, <1>12, <1>14, <1>16, <1>17 DEF CacheInv

LEMMA RejectedStep == ASSUME CacheInv, NEW s \in Slot, Rejected(s) PROVE CacheInv'
<1>1. /\ mutation' = [mutation EXCEPT ![s] = NoMutation] /\ missed' = (missed \/ mutation[s].at = "answered")
      /\ UNCHANGED <<looked, page, reply>> /\ CacheTyped /\ BehindChanges /\ MarkedIsFetched
  BY DEF Rejected, CacheInv
<1>2. NoMutation \in MutationType /\ NoMutation.behind = {} /\ NoMutation.at = "none"
  BY DEF NoMutation, MutationType
<1>3. \A t \in Slot : mutation'[t] = IF t = s THEN NoMutation ELSE mutation[t]
  BY <1>1 DEF CacheTyped
<1>4. CacheTyped'
  BY <1>1, <1>2, <1>3 DEF CacheTyped
<1>5. BehindChanges' /\ MarkedIsFetched'
  BY <1>1, <1>2, <1>3 DEF BehindChanges, MarkedIsFetched
<1>6. ~missed' => ~missed /\ \A n : Answering(n) => Answering(n)'
  BY <1>1, <1>3 DEF Answering
<1>7. ~missed' => (ReplyNoticed => ReplyNoticed') /\ (PageNoticed => PageNoticed')
  BY <1>1, <1>6 DEF ReplyNoticed, PageNoticed, Missing
<1> QED BY <1>1, <1>4, <1>5, <1>6, <1>7 DEF CacheInv

LEMMA OnSuccessStep == ASSUME CacheInv, NEW s \in Slot, OnSuccess(s) PROVE CacheInv'
<1> DEFINE m       == mutation[s].what
           written == m \in Writers[looked]
           rest    == mutation[s].behind \cup (IF m \in Whole[looked] THEN {} ELSE {m})
           e1 == [page EXCEPT !.has = TRUE]
           e2 == [e1 EXCEPT !.marked = FALSE]
           e3 == [e2 EXCEPT !.behind = rest]
           entry == IF ~written THEN page ELSE e3
           again == Marked(m) /\ page.shown /\ (reply = NoReply \/ entry.has)
<1>1. /\ mutation[s].at = "answered" /\ UNCHANGED looked
      /\ page' = IF Marked(m) THEN [entry EXCEPT !.marked = TRUE] ELSE entry
      /\ reply' = IF again THEN Asked ELSE reply
      /\ missed' = (missed \/ (reply.behind # {} /\ ~again) \/ (written /\ mutation[s].behind # {}))
      /\ mutation' = [mutation EXCEPT ![s] = NoMutation]
      /\ CacheTyped /\ BehindChanges /\ MarkedIsFetched
  BY DEF OnSuccess, CacheInv
<1>2. page \in PageType /\ reply \in ReplyType /\ mutation[s] \in MutationType /\ m \in DOMAIN Mutations
  BY <1>1 DEF CacheTyped
<1>3. rest \in SUBSET DOMAIN Mutations
  BY <1>2 DEF MutationType
<1> HIDE DEF rest
<1>4. e1 \in PageType /\ e1.has /\ e1.shown = page.shown
  BY <1>2 DEF PageType
<1> HIDE DEF e1
<1>5. e2 \in PageType /\ e2.has /\ e2.shown = page.shown /\ ~e2.marked
  BY <1>4 DEF PageType
<1> HIDE DEF e2
<1>6. e3 \in PageType /\ e3.has /\ e3.shown = page.shown /\ ~e3.marked /\ e3.behind = rest
  BY <1>3, <1>5 DEF PageType
<1> HIDE DEF e3
<1>7. /\ entry \in PageType /\ entry.shown = page.shown
      /\ written => entry.has /\ ~entry.marked /\ entry.behind = rest
      /\ ~written => entry = page
  BY <1>2, <1>6
<1> HIDE DEF entry
<1>8. /\ page' \in PageType /\ page'.shown = page.shown /\ page'.has = entry.has /\ page'.behind = entry.behind
      /\ page'.marked = (Marked(m) \/ entry.marked)
  BY <1>1, <1>7 DEF PageType
<1>9. /\ reply' \in ReplyType /\ (reply' = reply \/ reply' = Asked) /\ (reply # NoReply => reply' # NoReply)
      /\ Marked(m) /\ page.shown => reply' # NoReply
  BY <1>1, <1>2, AskedFields
<1>10. NoMutation \in MutationType /\ NoMutation.behind = {} /\ NoMutation.at = "none"
  BY DEF NoMutation, MutationType
<1>11. \A t \in Slot : mutation'[t] = IF t = s THEN NoMutation ELSE mutation[t]
  BY <1>1 DEF CacheTyped
<1>12. CacheTyped'
  <2>1. reply'.at # "read" => reply'.behind = {}
    BY <1>1, <1>9, AskedFields DEF CacheTyped
  <2>2. ~page'.has => page'.behind = {}
    BY <1>1, <1>7, <1>8 DEF CacheTyped
  <2> QED BY <1>1, <1>8, <1>9, <1>10, <1>11, <2>1, <2>2 DEF CacheTyped
<1>13. BehindChanges'
  <2>1. page'.behind \subseteq Changers[looked] \cup Writers[looked]
    BY <1>1, <1>7, <1>8 DEF BehindChanges, rest
  <2>2. reply'.behind \subseteq reply.behind
    BY <1>9, AskedFields
  <2> QED BY <1>1, <1>10, <1>11, <2>1, <2>2 DEF BehindChanges
<1>14. MarkedIsFetched'
  BY <1>1, <1>7, <1>8, <1>9 DEF MarkedIsFetched
<1>15. ASSUME ~missed', ~Queries[looked].polled, ReplyNoticed, PageNoticed
       PROVE  ReplyNoticed' /\ PageNoticed'
  <2>1. reply'.behind = {}
    BY <1>1, <1>15, AskedFields
  <2>2. ASSUME NEW n \in page'.behind \ Missing, ~Marked(m)
        PROVE  Answering(n)' \/ page'.marked \/ reply' # NoReply
    <3>1. n \in entry.behind /\ n \in (Changers[looked] \cup Writers[looked]) \ Silent(looked)
      BY <1>1, <1>8, <1>13, <2>2 DEF BehindChanges, Missing
    <3>2. n \in Markers[looked] \cup Whole[looked]
      BY <1>1, <1>15, <3>1, ChangersKnown DEF CacheTyped
    <3>3. m \notin Markers[looked]
      BY <2>2 DEF Marked
    <3>4. ~written
      <4>1. SUFFICES ASSUME written PROVE FALSE
        OBVIOUS
      <4>2. n \in rest /\ mutation[s].behind = {}
        BY <1>1, <1>7, <1>15, <3>1, <4>1
      <4>3. n = m /\ m \notin Whole[looked]
        BY <4>2 DEF rest
      <4> QED BY <3>2, <3>3, <4>3
    <3>5. n # m
      BY <1>1, <3>2, <3>3, <3>4, ChangersKnown DEF CacheTyped
    <3>6. Answering(n) \/ page.marked \/ reply # NoReply
      BY <1>7, <1>15, <2>2, <3>1, <3>4 DEF PageNoticed
    <3>7. Answering(n) => Answering(n)'
      BY <1>11, <3>5 DEF Answering
    <3> QED BY <1>7, <1>8, <1>9, <3>4, <3>6, <3>7
  <2>3. PageNoticed'
    BY <1>1, <1>8, <2>2 DEF PageNoticed, Missing
  <2> QED BY <2>1, <2>3 DEF ReplyNoticed
<1> QED BY <1>1, <1>12, <1>13, <1>14, <1>15 DEF CacheInv

-----------------------------------------------------------------------------
(* The whole.                                                               *)

LEMMA CacheRests == ASSUME CacheInv, UNCHANGED cacheVars PROVE CacheInv'
BY DEF CacheInv, cacheVars, CacheTyped, BehindChanges, MarkedIsFetched, ReplyNoticed, PageNoticed, Answering, Missing

LEMMA CacheStep == ASSUME CacheInv, [CacheNext]_cacheVars PROVE CacheInv'
<1>1. CASE Open \/ Close \/ Poll \/ Read \/ Filled
  BY <1>1, OpenStep, CloseStep, PollStep, ReadStep, FilledStep
<1>2. ASSUME NEW s \in Slot, NEW m \in Changers[looked] \cup Markers[looked], Mutate(s, m) PROVE CacheInv'
  BY <1>2, MutateStep
<1>3. ASSUME NEW s \in Slot, Handled(s) \/ Rejected(s) \/ OnSuccess(s) PROVE CacheInv'
  BY <1>3, HandledStep, RejectedStep, OnSuccessStep
<1>4. CASE UNCHANGED cacheVars
  BY <1>4, CacheRests
<1> QED BY <1>1, <1>2, <1>3, <1>4 DEF CacheNext

LEMMA CacheInvariant == CacheSpec => []CacheInv
<1>1. CacheInv /\ [CacheNext]_cacheVars => CacheInv'
  BY CacheStep
<1> QED BY <1>1, CacheInitially, PTL DEF CacheSpec

\* Entries, fetches and mutations have their types, and an entry that is not there is
\* behind nothing (hooks/, lib/query-client.ts).
THEOREM CacheIsTyped == CacheSpec => []CacheTypeOK
<1>1. CacheInv => CacheTypeOK
  BY DEF CacheInv, CacheTyped, CacheTypeOK, PageType, ReplyType
<1> QED BY <1>1, CacheInvariant, PTL

\* However many mutations, answers and visits interleave, a page that rests shows what the
\* server has, but for the mutations its query is not told of (hooks/, onSuccess).
THEOREM PageInStep == CacheSpec => []ShowsWhatIs
<1>1. ASSUME CacheInv, QuietCache, page.shown, ~Queries[looked].polled, ~missed
      PROVE  page.behind \subseteq Missing
  <2>1. reply = NoReply /\ ~page.marked /\ \A m : ~Answering(m)
    BY <1>1 DEF CacheInv, QuietCache, MarkedIsFetched, Answering, NoMutation
  <2> QED BY <1>1, <2>1 DEF CacheInv, PageNoticed
<1>2. CacheInv => ShowsWhatIs
  BY <1>1 DEF ShowsWhatIs
<1> QED BY <1>2, CacheInvariant, PTL


-----------------------------------------------------------------------------
(* Installer: its inductive invariant, by parts.  A script stands at the step that the  *)
(* length of what it has left says.                                          *)

Step   == {InstallSteps[i] : i \in 1..15} \cup {UninstallSteps[i] : i \in 1..9}
Script == [what : {"none", "install", "uninstall"}, todo : Seq(Step), port : Everyone,
           options : SUBSET {"database", "csf", "ssh"}]

Installs(n)   == script.what = "install" /\ Len(script.todo) = n
Uninstalls(n) == script.what = "uninstall" /\ Len(script.todo) = n

\* What is left of a script is the end of its list of steps.
ScriptInPlace ==
  /\ script \in Script
  /\ script.what = "none" => script.todo = <<>>
  /\ script.what = "install" => \E i \in 1..15 : script.todo = SubSeq(InstallSteps, i, 15)
  /\ script.what = "uninstall" => \E i \in 1..9 : script.todo = SubSeq(UninstallSteps, i, 9)

\* The fields of each record.
SshServer   == [port : Everyone, runs : Everyone, backups : Nat,
                last : {"nothing", "changed", "failed", "restored"}]
Firewall    == [csf : BOOLEAN, conf : SUBSET Everyone, open : SUBSET Everyone]
MariaDB     == [root : Nat, panel : Nat]
Credentials == [root : Seq(Nat \ {0}), panel : Seq(Nat \ {0}), admin : BOOLEAN]
Panel       == [user : BOOLEAN, sudo : BOOLEAN, app : {"none", "cloned", "built"}, env : Nat,
                unit : BOOLEAN, runs : BOOLEAN]

Records ==
  /\ packages \subseteq Package /\ sshServer \in SshServer /\ firewall \in Firewall
  /\ mariadb \in MariaDB /\ credentials \in Credentials /\ panel \in Panel /\ issued \in Nat

\* Passwords are those generated so far.
PasswordsIssued ==
  /\ mariadb.root <= issued /\ mariadb.panel <= issued /\ panel.env <= issued
  /\ credentials.panel # <<>> => Head(credentials.panel) \in 1..issued

\* From the end of the old firewall to the start of csf every port is open; sshd has the
\* port of the script, which is the one csf is told to let in.
OpenBeforeCsf ==
  script.what = "install" /\ Len(script.todo) \in 9..12 => firewall.open = Everyone

PortOfScript ==
  script.what = "install" /\ Len(script.todo) \in 9..11 =>
    sshServer.runs = script.port \/ sshServer.last = "failed"

CsfConfigured ==
  script.what = "install" /\ Len(script.todo) = 9 /\ firewall.csf => firewall.conf = {script.port}

RulesBeforeCsf == OpenBeforeCsf /\ PortOfScript /\ CsfConfigured

\* Where the panel has an account, root has a password; the first password noted for the
\* panel is the one its account has; without root's line there is neither the panel's
\* nor a file .env.
NotedIsSet ==
  /\ mariadb.panel # 0 => mariadb.root # 0
  /\ mariadb.panel # 0 /\ credentials.panel # <<>> => Head(credentials.panel) = mariadb.panel
  /\ credentials.root = <<>> => credentials.panel = <<>> /\ panel.env = 0

\* Root's line opens MariaDB before the panel has its account only if both are new.
RootLineIsNew ==
  script.what = "install" /\ Len(script.todo) \in 6..13 /\ RootLogin =>
    mariadb.panel = 0 /\ credentials.panel = <<>> /\ panel.env = 0

\* An uninstallation has removed .env before it removes the credentials.
EnvGoesFirst == script.what = "uninstall" /\ Len(script.todo) \in 1..5 => panel.env = 0

InstallerInv ==
  /\ ScriptInPlace /\ Records /\ PasswordsIssued /\ RulesBeforeCsf /\ SSHStaysReachable
  /\ NotedIsSet /\ RootLineIsNew /\ EnvGoesFirst /\ EnvOpensDatabase

-----------------------------------------------------------------------------
HIDE LoginAssumption
USE InstallerAssumption

\* The head, the length and the tail of the end of a list.
LEMMA EndOfList ==
  ASSUME NEW S, NEW list \in Seq(S), NEW i \in 1..Len(list)
  PROVE  LET end == SubSeq(list, i, Len(list)) IN
         /\ end \in Seq(S) /\ end # <<>> /\ Len(end) = Len(list) + 1 - i
         /\ Head(end) = list[i]
         /\ i < Len(list) => Tail(end) = SubSeq(list, i + 1, Len(list))
<1>1. \A k \in i..Len(list) : list[k] \in S
  BY ElementOfSeq
<1>2. Len(list) \in Nat /\ i <= Len(list)
  BY LenProperties
<1>3. /\ SubSeq(list, i, Len(list)) \in Seq(S)
      /\ Len(SubSeq(list, i, Len(list))) = Len(list) - i + 1
  BY <1>1, <1>2, SubSeqProperties
<1>4. Len(list) \in i..Len(list)
  BY <1>2
<1>5. /\ Head(SubSeq(list, i, Len(list))) = list[i]
      /\ Tail(SubSeq(list, i, Len(list))) = SubSeq(list, i + 1, Len(list))
  BY <1>4, HeadTailOfSubSeq
<1> QED BY <1>2, <1>3, <1>5

LEMMA Lists ==
  /\ InstallSteps \in Seq(Step) /\ Len(InstallSteps) = 15
  /\ UninstallSteps \in Seq(Step) /\ Len(UninstallSteps) = 9
<1>1. InstallSteps = [i \in 1..15 |-> InstallSteps[i]] /\ Len(InstallSteps) = 15
  BY DEF InstallSteps
<1>2. UninstallSteps = [i \in 1..9 |-> UninstallSteps[i]] /\ Len(UninstallSteps) = 9
  BY DEF UninstallSteps
<1>3. InstallSteps \in [1..15 -> Step] /\ UninstallSteps \in [1..9 -> Step]
  BY <1>1, <1>2 DEF Step
<1> QED BY <1>1, <1>2, <1>3, SeqDef

\* At a step of its own list, a script has a known number of steps left.
LEMMA Places ==
  ASSUME ScriptInPlace
  PROVE  /\ Doing("packages")  => Installs(15)
         /\ Doing("mariadb")   => Installs(14)
         /\ Doing("firewalls") => Installs(13)
         /\ Doing("ssh")       => Installs(12)
         /\ Doing("csf")       => Installs(11)
         /\ Doing("configure") => Installs(10)
         /\ Doing("start")     => Installs(9)
         /\ Doing("user")      => Installs(8)
         /\ Doing("sudo")      => Installs(7)
         /\ Doing("database")  => Installs(6)
         /\ Doing("app")       => Installs(5)
         /\ Doing("env")       => Installs(4)
         /\ Doing("service")   => Installs(3)
         /\ Doing("admin")     => Installs(2)
         /\ Doing("panel")     => Installs(1)
         /\ Doing("stop")      => Uninstalls(9)
         /\ Doing("unit")      => Uninstalls(8)
         /\ Doing("drop")      => Uninstalls(7)
         /\ Doing("remove")    => Uninstalls(6)
         /\ Doing("userdel")   => Uninstalls(5)
         /\ Doing("sudoers")   => Uninstalls(4)
         /\ Doing("uncsf")     => Uninstalls(3)
         /\ Doing("restore")   => Uninstalls(2)
         /\ Doing("credentials") => Uninstalls(1)
<1>1. script \in Script
  BY DEF ScriptInPlace
<1>2. CASE script.what = "none"
  BY <1>2 DEF ScriptInPlace, Doing
<1>3. CASE script.what = "install"
  <2>1. PICK i \in 1..15 : script.todo = SubSeq(InstallSteps, i, 15)
    BY <1>3 DEF ScriptInPlace
  <2>2. Head(script.todo) = InstallSteps[i] /\ Len(script.todo) = 16 - i
    BY <2>1, Lists, EndOfList
  <2>3. i \in {1, 2, 3, 4, 5, 6, 7, 8, 9, 10, 11, 12, 13, 14, 15}
    OBVIOUS
  <2>4. /\ InstallSteps[1] = "packages"
        /\ InstallSteps[2] = "mariadb"
        /\ InstallSteps[3] = "firewalls"
        /\ InstallSteps[4] = "ssh"
        /\ InstallSteps[5] = "csf"
        /\ InstallSteps[6] = "configure"
        /\ InstallSteps[7] = "start"
        /\ InstallSteps[8] = "user"
        /\ InstallSteps[9] = "sudo"
        /\ InstallSteps[10] = "database"
        /\ InstallSteps[11] = "app"
        /\ InstallSteps[12] = "env"
        /\ InstallSteps[13] = "service"
        /\ InstallSteps[14] = "admin"
        /\ InstallSteps[15] = "panel"
    BY DEF InstallSteps
  <2>5. \A step : Doing(step) => step = InstallSteps[i]
    BY <2>2 DEF Doing
  <2> QED BY <1>3, <2>2, <2>3, <2>4, <2>5, SMTT(60) DEF Installs
<1>4. CASE script.what = "uninstall"
  <2>1. PICK i \in 1..9 : script.todo = SubSeq(UninstallSteps, i, 9)
    BY <1>4 DEF ScriptInPlace
  <2>2. Head(script.todo) = UninstallSteps[i] /\ Len(script.todo) = 10 - i
    BY <2>1, Lists, EndOfList
  <2>3. i \in {1, 2, 3, 4, 5, 6, 7, 8, 9}
    OBVIOUS
  <2>4. /\ UninstallSteps[1] = "stop"
        /\ UninstallSteps[2] = "unit"
        /\ UninstallSteps[3] = "drop"
        /\ UninstallSteps[4] = "remove"
        /\ UninstallSteps[5] = "userdel"
        /\ UninstallSteps[6] = "sudoers"
        /\ UninstallSteps[7] = "uncsf"
        /\ UninstallSteps[8] = "restore"
        /\ UninstallSteps[9] = "credentials"
    BY DEF UninstallSteps
  <2>5. \A step : Doing(step) => step = UninstallSteps[i]
    BY <2>2 DEF Doing
  <2> QED BY <1>4, <2>2, <2>3, <2>4, <2>5 DEF Uninstalls
<1> QED BY <1>1, <1>2, <1>3, <1>4 DEF Script

\* A step done leaves one less, of the same script and with the same options.
LEMMA Proceeds ==
  ASSUME ScriptInPlace, script.todo # <<>>, Proceed
  PROVE  /\ ScriptInPlace'
         /\ \/ script' = NoScript
            \/ /\ script'.what = script.what /\ script'.port = script.port
               /\ Len(script'.todo) = Len(script.todo) - 1
<1>1. script \in Script /\ script.todo \in Seq(Step)
  BY DEF ScriptInPlace, Script
<1>2. CASE Len(script.todo) = 1
  <2>1. script' = NoScript
    BY <1>2 DEF Proceed
  <2>2. NoScript \in Script
    BY EmptySeq DEF NoScript, Script, Everyone
  <2> QED BY <2>1, <2>2 DEF NoScript, ScriptInPlace
<1>3. ASSUME NEW list \in Seq(Step), NEW i \in 1..Len(list), script.todo = SubSeq(list, i, Len(list)),
             Len(script.todo) # 1
      PROVE  /\ script' \in Script
             /\ script'.what = script.what /\ script'.port = script.port
             /\ i + 1 \in 1..Len(list) /\ script'.todo = SubSeq(list, i + 1, Len(list))
             /\ Len(script'.todo) = Len(script.todo) - 1
  <2>1. Len(list) \in Nat /\ Len(script.todo) = Len(list) + 1 - i
    BY <1>3, EndOfList, LenProperties
  <2>2. i < Len(list)
    BY <1>3, <2>1
  <2>3. Tail(script.todo) = SubSeq(list, i + 1, Len(list))
    BY <1>3, <2>2, EndOfList
  <2>4. i + 1 \in 1..Len(list)
    BY <2>1, <2>2
  <2>5. Tail(script.todo) \in Seq(Step) /\ Len(Tail(script.todo)) = Len(list) + 1 - (i + 1)
    BY <2>3, <2>4, EndOfList
  <2>6. script' = [script EXCEPT !.todo = Tail(script.todo)]
    BY <1>3 DEF Proceed
  <2>7. Len(Tail(script.todo)) = Len(script.todo) - 1
    BY <2>1, <2>5
  <2>8. /\ script' \in Script /\ script'.todo = Tail(script.todo)
        /\ script'.what = script.what /\ script'.port = script.port
    BY <1>1, <2>5, <2>6 DEF Script
  <2> QED BY <2>3, <2>4, <2>7, <2>8
<1>4. CASE script.what = "install" /\ Len(script.todo) # 1
  <2>1. PICK i \in 1..15 : script.todo = SubSeq(InstallSteps, i, 15)
    BY <1>4 DEF ScriptInPlace
  <2>2. /\ script' \in Script /\ script'.what = script.what /\ script'.port = script.port
        /\ i + 1 \in 1..15 /\ script'.todo = SubSeq(InstallSteps, i + 1, 15)
        /\ Len(script'.todo) = Len(script.todo) - 1
    BY <1>3, <1>4, <2>1, Lists
  <2> QED BY <1>4, <2>2 DEF ScriptInPlace
<1>5. CASE script.what = "uninstall" /\ Len(script.todo) # 1
  <2>1. PICK i \in 1..9 : script.todo = SubSeq(UninstallSteps, i, 9)
    BY <1>5 DEF ScriptInPlace
  <2>2. /\ script' \in Script /\ script'.what = script.what /\ script'.port = script.port
        /\ i + 1 \in 1..9 /\ script'.todo = SubSeq(UninstallSteps, i + 1, 9)
        /\ Len(script'.todo) = Len(script.todo) - 1
    BY <1>3, <1>5, <2>1, Lists
  <2> QED BY <1>5, <2>2 DEF ScriptInPlace
<1> QED BY <1>1, <1>2, <1>4, <1>5 DEF ScriptInPlace, Script

-----------------------------------------------------------------------------
(* Each part of the invariant is kept by every step.                         *)

\* A step of a script is under way, and it is followed by the next one or by none.
LEMMA UnderWay ==
  ASSUME Installing \/ Uninstalling
  PROVE  script.todo # <<>> /\ (Proceed \/ script' = NoScript)
<1> USE DEF Doing
<1>1. CASE Installing
  BY <1>1 DEF Installing, InstallPackages, install_mariadb, remove_existing_firewalls, change_ssh_port,
     install_csf, configure_csf, start_csf, create_serverhubx_user, setup_sudo_rules, create_database,
     install_serverhubx, create_env_file, create_systemd_service, create_admin_user, start_serverhubx
<1>2. CASE Uninstalling
  BY <1>2 DEF Uninstalling, stop_services, remove_systemd_service, remove_database, remove_application,
     remove_system_user, remove_sudo_rules, remove_csf, restore_ssh_port, remove_credentials
<1> QED BY <1>1, <1>2

LEMMA NoScriptInPlace == ASSUME script' = NoScript PROVE ScriptInPlace'
<1>1. NoScript \in Script
  BY EmptySeq DEF NoScript, Script, Everyone
<1> QED BY <1>1 DEF NoScript, ScriptInPlace

LEMMA ScriptStep ==
  ASSUME ScriptInPlace, [InstallerNext]_installerVars PROVE ScriptInPlace'
<1>1. ASSUME NEW port \in SshPort, Install(port) PROVE ScriptInPlace'
  <2>1. script' = [what |-> "install", todo |-> InstallSteps, port |-> port, options |-> {}]
    BY <1>1 DEF Install
  <2>2. InstallSteps = SubSeq(InstallSteps, 1, 15)
    BY Lists, SubSeqFull
  <2>3. script' \in Script
    BY <2>1, Lists DEF Script, Everyone
  <2> QED BY <2>1, <2>2, <2>3 DEF ScriptInPlace
<1>2. ASSUME NEW options \in SUBSET {"database", "csf", "ssh"}, Uninstall(options) PROVE ScriptInPlace'
  <2>1. script' = [what |-> "uninstall", todo |-> UninstallSteps, port |-> "22", options |-> options]
    BY <1>2 DEF Uninstall
  <2>2. UninstallSteps = SubSeq(UninstallSteps, 1, 9)
    BY Lists, SubSeqFull
  <2>3. script' \in Script
    BY <2>1, Lists DEF Script, Everyone
  <2> QED BY <2>1, <2>2, <2>3 DEF ScriptInPlace
<1>3. CASE Interrupt
  BY <1>3, NoScriptInPlace DEF Interrupt
<1>4. CASE Installing \/ Uninstalling
  BY <1>4, UnderWay, Proceeds, NoScriptInPlace
<1>5. CASE UNCHANGED installerVars
  BY <1>5 DEF installerVars, ScriptInPlace
<1> QED BY <1>1, <1>2, <1>3, <1>4, <1>5 DEF InstallerNext

\* What a password appended to a line does to its first one.
LEMMA Noted ==
  ASSUME NEW line \in Seq(Nat \ {0}), NEW n \in Nat
  PROVE  /\ Append(line, n + 1) \in Seq(Nat \ {0}) /\ Append(line, n + 1) # <<>>
         /\ Head(Append(line, n + 1)) = IF line = <<>> THEN n + 1 ELSE Head(line)
         /\ \A m : Append(line, n + 1) = <<m>> => line = <<>> /\ m = n + 1
<1>1. /\ Append(line, n + 1) \in Seq(Nat \ {0}) /\ Append(line, n + 1) # <<>>
      /\ Len(Append(line, n + 1)) = Len(line) + 1
  BY AppendProperties
<1>2. Head(Append(line, n + 1)) = IF line = <<>> THEN n + 1 ELSE Head(line)
  BY HeadTailAppend
<1>3. ASSUME NEW m, Append(line, n + 1) = <<m>> PROVE line = <<>> /\ m = n + 1
  <2>1. Len(line) = 0
    BY <1>1, <1>3
  <2>2. line = <<>>
    BY <2>1
  <2> QED BY <1>2, <1>3, <2>2
<1> QED BY <1>1, <1>2, <1>3

\* What changing the port of sshd leaves.
LEMMA PortChanged ==
  ASSUME change_ssh_port, sshServer \in SshServer, script \in Script
  PROVE  /\ sshServer' \in SshServer
         /\ sshServer'.runs = script.port \/ sshServer'.last = "failed"
<1>1. script.port \in Everyone
  BY DEF Script
<1>2. CASE sshServer' = [port |-> script.port, runs |-> script.port, backups |-> sshServer.backups + 1,
                         last |-> "changed"]
  BY <1>1, <1>2 DEF SshServer
<1>3. ASSUME NEW port \in Everyone,
             sshServer' = [sshServer EXCEPT !.port = port, !.backups = @ + 1, !.last = "failed"]
      PROVE  sshServer' \in SshServer /\ sshServer'.last = "failed"
  <2>1. sshServer.backups + 1 \in Nat
    BY DEF SshServer
  <2>2. sshServer' = [port |-> port, runs |-> sshServer.runs, backups |-> sshServer.backups + 1, last |-> "failed"]
    BY <1>3 DEF SshServer
  <2> QED BY <2>1, <2>2 DEF SshServer
<1>4. sshServer.port \in Everyone
  BY DEF SshServer
<1> QED BY <1>1, <1>2, <1>3, <1>4 DEF change_ssh_port

\* .env is written from the first password noted, if there is one.
LEMMA EnvWritten ==
  ASSUME Records
  PROVE  /\ WithEnv \in Panel /\ WithEnv.app = panel.app
         /\ credentials.panel = <<>> => WithEnv = panel
         /\ credentials.panel # <<>> => WithEnv.env = Head(credentials.panel)
<1>1. CASE credentials.panel = <<>>
  BY <1>1 DEF Records, WithEnv
<1>2. CASE credentials.panel # <<>>
  <2>1. Head(credentials.panel) \in Nat
    BY <1>2, HeadTailProperties DEF Records, Credentials
  <2>2. WithEnv = [panel EXCEPT !.env = Head(credentials.panel)]
    BY <1>2 DEF WithEnv
  <2> QED BY <1>2, <2>1, <2>2 DEF Records, Panel
<1> QED BY <1>1, <1>2

\* The records keep their fields.
LEMMA RecordsStep ==
  ASSUME Records, ScriptInPlace, [InstallerNext]_installerVars
  PROVE  Records'
<1> USE DEF Records
<1>1. ASSUME NEW port \in SshPort, Install(port) PROVE Records'
  BY <1>1 DEF Install
<1>2. ASSUME NEW options \in SUBSET {"database", "csf", "ssh"}, Uninstall(options) PROVE Records'
  BY <1>2 DEF Uninstall
<1>3. CASE Interrupt
  BY <1>3 DEF Interrupt
<1>4. CASE InstallPackages
  BY <1>4 DEF InstallPackages
<1>5. CASE install_mariadb
  <2>1. mariadb' = mariadb \/ mariadb' = [mariadb EXCEPT !.root = issued + 1]
    BY <1>5 DEF install_mariadb
  <2>2. credentials' = [credentials EXCEPT !.root = Append(credentials.root, issued + 1)]
    BY <1>5 DEF install_mariadb
  <2>3. mariadb' \in MariaDB
    BY <2>1 DEF MariaDB
  <2>4. credentials' \in Credentials
    BY <2>2, Noted DEF Credentials
  <2> QED BY <1>5, <2>3, <2>4 DEF install_mariadb, Generate
<1>6. CASE remove_existing_firewalls
  BY <1>6 DEF remove_existing_firewalls, Firewall, Everyone, Script, ScriptInPlace
<1>7. CASE change_ssh_port
  BY <1>7, PortChanged DEF change_ssh_port, ScriptInPlace
<1>8. CASE install_csf
  BY <1>8 DEF install_csf, Firewall, Everyone, Script, ScriptInPlace
<1>9. CASE configure_csf
  BY <1>9 DEF configure_csf, Firewall, Everyone, Script, ScriptInPlace
<1>10. CASE start_csf
  BY <1>10 DEF start_csf, Firewall, Everyone, Script, ScriptInPlace
<1>11. CASE create_serverhubx_user
  BY <1>11 DEF create_serverhubx_user, Panel
<1>12. CASE setup_sudo_rules
  BY <1>12 DEF setup_sudo_rules, Panel
<1>13. CASE create_database
  <2>1. mariadb' = mariadb \/ mariadb' = [mariadb EXCEPT !.panel = issued + 1]
    BY <1>13 DEF create_database
  <2>2. \/ credentials' = credentials
        \/ credentials' = [credentials EXCEPT !.panel = Append(credentials.panel, issued + 1)]
    BY <1>13 DEF create_database
  <2>3. mariadb' \in MariaDB
    BY <2>1 DEF MariaDB
  <2>4. credentials' \in Credentials
    BY <2>2, Noted DEF Credentials
  <2> QED BY <1>13, <2>3, <2>4 DEF create_database, Generate
<1>14. CASE install_serverhubx
  BY <1>14 DEF install_serverhubx, Panel
<1>15. CASE create_env_file
  BY <1>15, EnvWritten DEF create_env_file
<1>16. CASE create_systemd_service
  BY <1>16 DEF create_systemd_service, Panel
<1>17. CASE create_admin_user
  BY <1>17 DEF create_admin_user, Credentials
<1>18. CASE start_serverhubx
  <2>1. \A p \in Panel : \A b \in BOOLEAN : [p EXCEPT !.runs = b] \in Panel
    BY DEF Panel
  <2>2. \E p \in {panel, WithEnv} : panel' = panel \/ panel' = p \/ \E b \in BOOLEAN : panel' = [p EXCEPT !.runs = b]
    BY <1>18 DEF start_serverhubx
  <2>3. panel' \in Panel
    BY <2>1, <2>2, EnvWritten
  <2> QED BY <1>18, <2>3 DEF start_serverhubx
<1>19. CASE stop_services
  BY <1>19 DEF stop_services, Panel
<1>20. CASE remove_systemd_service
  BY <1>20 DEF remove_systemd_service, Panel
<1>21. CASE remove_database
  BY <1>21 DEF remove_database, MariaDB
<1>22. CASE remove_application
  BY <1>22 DEF remove_application, Panel
<1>23. CASE remove_system_user
  BY <1>23 DEF remove_system_user, Panel
<1>24. CASE remove_sudo_rules
  BY <1>24 DEF remove_sudo_rules, Panel
<1>25. CASE remove_csf
  BY <1>25 DEF remove_csf, Firewall, Everyone, Script, ScriptInPlace
<1>26. CASE restore_ssh_port
  BY <1>26 DEF restore_ssh_port, SshServer, Everyone, Script, ScriptInPlace
<1>27. CASE remove_credentials
  BY <1>27, EmptySeq DEF remove_credentials, Credentials
<1>28. CASE UNCHANGED installerVars
  BY <1>28 DEF installerVars
<1> QED BY <1>1, <1>2, <1>3, <1>4, <1>5, <1>6, <1>7, <1>8, <1>9, <1>10, <1>11, <1>12, <1>13, <1>14,
     <1>15, <1>16, <1>17, <1>18, <1>19, <1>20, <1>21, <1>22, <1>23, <1>24, <1>25, <1>26, <1>27,
     <1>28 DEF InstallerNext, Installing, Uninstalling

\* The rules and the port of sshd stay as the stage of the installation says.
LEMMA ReachableStep ==
  ASSUME Records, ScriptInPlace, RulesBeforeCsf, SSHStaysReachable, [InstallerNext]_installerVars
  PROVE  RulesBeforeCsf' /\ SSHStaysReachable'
<1> DEFINE Goal == RulesBeforeCsf' /\ SSHStaysReachable'
<1>a. script.todo \in Seq(Step) /\ Len(script.todo) \in Nat
  BY LenProperties DEF ScriptInPlace, Script
<1>a2. Len(script'.todo) \in Nat
  BY ScriptStep, LenProperties DEF ScriptInPlace, Script
<1>d. script' = NoScript => RulesBeforeCsf'
  BY DEF NoScript, RulesBeforeCsf, OpenBeforeCsf, PortOfScript, CsfConfigured
<1>b. ASSUME UNCHANGED <<sshServer, firewall>>, script' = NoScript PROVE Goal
  BY <1>b DEF NoScript, RulesBeforeCsf, OpenBeforeCsf, PortOfScript, CsfConfigured, SSHStaysReachable
<1>c. ASSUME Installing \/ Uninstalling, UNCHANGED <<sshServer, firewall>>,
             script.what = "install" => Len(script.todo) \notin 10..13
      PROVE  Goal
  <2>1. CASE script' = NoScript
    BY <1>b, <1>c, <2>1
  <2>2. CASE script'.what = script.what /\ Len(script'.todo) = Len(script.todo) - 1
    BY <1>a, <1>c, <2>2 DEF RulesBeforeCsf, OpenBeforeCsf, PortOfScript, CsfConfigured, SSHStaysReachable
  <2> QED BY <1>c, <2>1, <2>2, UnderWay, Proceeds
<1>1. ASSUME NEW port \in SshPort, Install(port) PROVE Goal
  <2>1. UNCHANGED <<sshServer, firewall>> /\ Len(script'.todo) = 15
    BY <1>1, Lists DEF Install
  <2> QED BY <2>1 DEF RulesBeforeCsf, OpenBeforeCsf, PortOfScript, CsfConfigured, SSHStaysReachable
<1>2. ASSUME NEW options \in SUBSET {"database", "csf", "ssh"}, Uninstall(options) PROVE Goal
  BY <1>2 DEF Uninstall, RulesBeforeCsf, OpenBeforeCsf, PortOfScript, CsfConfigured, SSHStaysReachable
<1>3. CASE Interrupt
  BY <1>3, <1>b DEF Interrupt
<1>4. CASE remove_existing_firewalls
  <2>1. Installs(13) /\ firewall'.open = Everyone /\ sshServer' = sshServer
    BY <1>4, Places DEF remove_existing_firewalls, Records, Firewall
  <2>2. script' = NoScript \/ Installs(12)'
    BY <1>4, <2>1, UnderWay, Proceeds DEF Installing, Installs
  <2>g. SSHStaysReachable'
    BY <2>1, <2>2 DEF Records, SshServer, Installs, RulesBeforeCsf, SSHStaysReachable
  <2>h. ASSUME script' # NoScript
        PROVE  OpenBeforeCsf' /\ PortOfScript' /\ CsfConfigured'
    <3>1. OpenBeforeCsf'
      BY <2>1, <2>2, <2>h DEF Installs, RulesBeforeCsf, OpenBeforeCsf
    <3>2. PortOfScript'
      BY <2>1, <2>2, <2>h DEF Installs, RulesBeforeCsf, PortOfScript
    <3>3. CsfConfigured'
      BY <2>1, <2>2, <2>h DEF Installs, RulesBeforeCsf, CsfConfigured
    <3> QED BY <3>1, <3>2, <3>3
  <2> QED BY <1>d, <2>g, <2>h DEF RulesBeforeCsf
<1>5. CASE change_ssh_port
  <2>1. Installs(12) /\ firewall' = firewall
    BY <1>5, Places DEF change_ssh_port
  <2>a. sshServer'.runs = script.port \/ sshServer'.last = "failed"
    BY <1>5, PortChanged DEF Records, ScriptInPlace
  <2>2. script' = NoScript \/ (Installs(11)' /\ script'.port = script.port)
    BY <1>5, <2>1, UnderWay, Proceeds DEF Installing, Installs
  <2>3. firewall.open = Everyone /\ script.port \in Everyone
    BY <2>1 DEF Installs, RulesBeforeCsf, OpenBeforeCsf, ScriptInPlace, Script
  <2>g. SSHStaysReachable'
    BY <2>1, <2>a, <2>2, <2>3 DEF Installs, RulesBeforeCsf, SSHStaysReachable
  <2>h. ASSUME script' # NoScript
        PROVE  OpenBeforeCsf' /\ PortOfScript' /\ CsfConfigured'
    <3>1. OpenBeforeCsf'
      BY <2>1, <2>a, <2>2, <2>3, <2>h DEF Installs, RulesBeforeCsf, OpenBeforeCsf
    <3>2. PortOfScript'
      BY <2>1, <2>a, <2>2, <2>3, <2>h DEF Installs, RulesBeforeCsf, PortOfScript
    <3>3. CsfConfigured'
      BY <2>1, <2>a, <2>2, <2>3, <2>h DEF Installs, RulesBeforeCsf, CsfConfigured
    <3> QED BY <3>1, <3>2, <3>3
  <2> QED BY <1>d, <2>g, <2>h DEF RulesBeforeCsf
<1>6. CASE install_csf
  <2>1. Installs(11) /\ firewall'.open = firewall.open /\ sshServer' = sshServer
    BY <1>6, Places DEF install_csf, Records, Firewall
  <2>2. script' = NoScript \/ (Installs(10)' /\ script'.port = script.port)
    BY <1>6, <2>1, UnderWay, Proceeds DEF Installing, Installs
  <2>g. SSHStaysReachable'
    BY <2>1, <2>2 DEF Installs, RulesBeforeCsf, SSHStaysReachable
  <2>h. ASSUME script' # NoScript
        PROVE  OpenBeforeCsf' /\ PortOfScript' /\ CsfConfigured'
    <3>1. OpenBeforeCsf'
      BY <2>1, <2>2, <2>h DEF Installs, RulesBeforeCsf, OpenBeforeCsf
    <3>2. PortOfScript'
      BY <2>1, <2>2, <2>h DEF Installs, RulesBeforeCsf, PortOfScript
    <3>3. CsfConfigured'
      BY <2>1, <2>2, <2>h DEF Installs, RulesBeforeCsf, CsfConfigured
    <3> QED BY <3>1, <3>2, <3>3
  <2> QED BY <1>d, <2>g, <2>h DEF RulesBeforeCsf
<1>7. CASE configure_csf
  <2>1. /\ Installs(10) /\ firewall'.open = firewall.open /\ sshServer' = sshServer
        /\ firewall'.csf => firewall'.conf = {script.port}
    BY <1>7, Places DEF configure_csf, Records, Firewall
  <2>2. script' = NoScript \/ (Installs(9)' /\ script'.port = script.port)
    BY <1>7, <2>1, UnderWay, Proceeds DEF Installing, Installs
  <2>g. SSHStaysReachable'
    BY <2>1, <2>2 DEF Installs, RulesBeforeCsf, SSHStaysReachable
  <2>h. ASSUME script' # NoScript
        PROVE  OpenBeforeCsf' /\ PortOfScript' /\ CsfConfigured'
    <3>1. OpenBeforeCsf'
      BY <2>1, <2>2, <2>h DEF Installs, RulesBeforeCsf, OpenBeforeCsf
    <3>2. PortOfScript'
      BY <2>1, <2>2, <2>h DEF Installs, RulesBeforeCsf, PortOfScript
    <3>3. CsfConfigured'
      BY <2>1, <2>2, <2>h DEF Installs, RulesBeforeCsf, CsfConfigured
    <3> QED BY <3>1, <3>2, <3>3
  <2> QED BY <1>d, <2>g, <2>h DEF RulesBeforeCsf
<1>8. CASE start_csf
  <2>1. /\ Installs(9) /\ sshServer' = sshServer
        /\ firewall' = firewall \/ (firewall.csf /\ firewall'.open = firewall.conf)
    BY <1>8, Places DEF start_csf, Records, Firewall
  <2>2. script' = NoScript \/ Installs(8)'
    BY <1>8, <2>1, UnderWay, Proceeds DEF Installing, Installs
  <2>g. SSHStaysReachable'
    BY <2>1, <2>2 DEF Installs, RulesBeforeCsf, OpenBeforeCsf, PortOfScript, CsfConfigured, SSHStaysReachable
  <2>h. ASSUME script' # NoScript
        PROVE  OpenBeforeCsf' /\ PortOfScript' /\ CsfConfigured'
    <3>1. OpenBeforeCsf'
      BY <2>1, <2>2, <2>h DEF Installs, RulesBeforeCsf, OpenBeforeCsf
    <3>2. PortOfScript'
      BY <2>1, <2>2, <2>h DEF Installs, RulesBeforeCsf, PortOfScript
    <3>3. CsfConfigured'
      BY <2>1, <2>2, <2>h DEF Installs, RulesBeforeCsf, CsfConfigured
    <3> QED BY <3>1, <3>2, <3>3
  <2> QED BY <1>d, <2>g, <2>h DEF RulesBeforeCsf
<1>9. CASE remove_csf
  <2>1. Uninstalls(3) /\ sshServer' = sshServer /\ (firewall' = firewall \/ firewall'.open = Everyone)
    BY <1>9, Places DEF remove_csf
  <2>2. script'.what # "install"
    BY <1>9, <2>1, UnderWay, Proceeds DEF Uninstalling, Uninstalls, NoScript
  <2> QED BY <1>a, <1>a2, <1>d, <2>1, <2>2 DEF Records, SshServer, RulesBeforeCsf, OpenBeforeCsf, PortOfScript, CsfConfigured, SSHStaysReachable
<1>10. CASE restore_ssh_port
  <2>1. Uninstalls(2) /\ firewall' = firewall /\ (sshServer' = sshServer \/ sshServer'.last = "restored")
    BY <1>10, Places DEF restore_ssh_port, Records, SshServer
  <2>2. script'.what # "install"
    BY <1>10, <2>1, UnderWay, Proceeds DEF Uninstalling, Uninstalls, NoScript
  <2> QED BY <1>a, <1>a2, <1>d, <2>1, <2>2 DEF RulesBeforeCsf, OpenBeforeCsf, PortOfScript, CsfConfigured, SSHStaysReachable
<1>11. CASE InstallPackages \/ install_mariadb \/ create_serverhubx_user \/ setup_sudo_rules
         \/ create_database \/ install_serverhubx \/ create_env_file \/ create_systemd_service
         \/ create_admin_user \/ start_serverhubx \/ stop_services \/ remove_systemd_service
         \/ remove_database \/ remove_application \/ remove_system_user \/ remove_sudo_rules
         \/ remove_credentials
  <2>1. UNCHANGED <<sshServer, firewall>> /\ (Installing \/ Uninstalling)
    BY <1>11 DEF InstallPackages, install_mariadb, create_serverhubx_user, setup_sudo_rules,
      create_database, install_serverhubx, create_env_file, create_systemd_service, create_admin_user,
      start_serverhubx, stop_services, remove_systemd_service, remove_database, remove_application,
      remove_system_user, remove_sudo_rules, remove_credentials, Installing, Uninstalling
  <2>2. \/ Doing("packages") \/ Doing("mariadb") \/ Doing("user") \/ Doing("sudo") \/ Doing("database")
        \/ Doing("app") \/ Doing("env") \/ Doing("service") \/ Doing("admin") \/ Doing("panel")
        \/ Doing("stop") \/ Doing("unit") \/ Doing("drop") \/ Doing("remove") \/ Doing("userdel")
        \/ Doing("sudoers") \/ Doing("credentials")
    BY <1>11 DEF InstallPackages, install_mariadb, create_serverhubx_user, setup_sudo_rules,
       create_database, install_serverhubx, create_env_file, create_systemd_service, create_admin_user,
       start_serverhubx, stop_services, remove_systemd_service, remove_database, remove_application,
       remove_system_user, remove_sudo_rules, remove_credentials
  <2>3. \/ \E n \in {1, 2, 3, 4, 5, 6, 7, 8, 14, 15} : Installs(n)
        \/ \E n \in 1..9 : Uninstalls(n)
    BY <2>2, Places
  <2>4. script.what = "install" => Len(script.todo) \notin 10..13
    BY <2>3 DEF Installs, Uninstalls
  <2> QED BY <1>c, <2>1, <2>4
<1>12. CASE UNCHANGED installerVars
  BY <1>12 DEF installerVars, RulesBeforeCsf, OpenBeforeCsf, PortOfScript, CsfConfigured, SSHStaysReachable
<1> QED BY <1>1, <1>2, <1>3, <1>4, <1>5, <1>6, <1>7, <1>8, <1>9, <1>10, <1>11, <1>12
     DEF InstallerNext, Installing, Uninstalling

\* The parts about passwords.
Passwords == PasswordsIssued /\ NotedIsSet /\ RootLineIsNew /\ EnvGoesFirst /\ EnvOpensDatabase

\* The types that the passwords need.
LEMMA PasswordTypes ==
  ASSUME Records
  PROVE  /\ mariadb.root \in Nat /\ mariadb.panel \in Nat /\ panel.env \in Nat /\ issued \in Nat
         /\ credentials.root \in Seq(Nat \ {0}) /\ credentials.panel \in Seq(Nat \ {0})
         /\ RootLogin => mariadb.root # 0 /\ credentials.root # <<>>
<1>1. credentials.root \in Seq(Nat \ {0}) /\ credentials.panel \in Seq(Nat \ {0})
  BY DEF Records, Credentials
<1>2. ASSUME RootLogin PROVE mariadb.root # 0 /\ credentials.root # <<>>
  <2>1. Len(credentials.root) = 1 /\ credentials.root[1] = mariadb.root
    BY <1>2 DEF RootLogin
  <2>2. credentials.root[1] \in Nat \ {0}
    BY <1>1, <2>1, ElementOfSeq
  <2> QED BY <2>1, <2>2
<1>3. mariadb.root \in Nat /\ mariadb.panel \in Nat /\ panel.env \in Nat /\ issued \in Nat
  BY DEF Records, MariaDB, Panel
<1> QED BY <1>1, <1>2, <1>3

\* A step with nothing to do with passwords keeps what is said of them.
LEMMA PasswordsAlone ==
  ASSUME Records, ScriptInPlace, Passwords, ScriptInPlace',
         UNCHANGED <<mariadb, issued>>, panel'.env = panel.env,
         credentials'.root = credentials.root, credentials'.panel = credentials.panel,
         \/ script' = NoScript
         \/ /\ script'.what = script.what /\ Len(script'.todo) = Len(script.todo) - 1
            /\ ~Installs(14) /\ ~Uninstalls(6)
         \/ Installs(15)' \/ Uninstalls(9)'
  PROVE  Passwords'
<1>a. Len(script.todo) \in Nat /\ Len(script'.todo) \in Nat
  BY LenProperties DEF ScriptInPlace, Script
<1>1. PasswordsIssued'
  BY DEF Passwords, PasswordsIssued
<1>2. NotedIsSet'
  BY DEF Passwords, NotedIsSet
<1>3. RootLogin' <=> RootLogin
  BY DEF RootLogin
<1>4. RootLineIsNew'
  <2>1. CASE script' = NoScript
    BY <2>1 DEF NoScript, RootLineIsNew
  <2>2. CASE script'.what = script.what /\ Len(script'.todo) = Len(script.todo) - 1 /\ ~Installs(14)
    BY <1>a, <1>3, <2>2 DEF Passwords, RootLineIsNew, Installs
  <2>3. CASE Installs(15)'
    BY <1>a, <2>3 DEF RootLineIsNew, Installs
  <2>4. CASE Uninstalls(9)'
    BY <2>4 DEF RootLineIsNew, Uninstalls
  <2> QED BY <2>1, <2>2, <2>3, <2>4
<1>5. EnvGoesFirst'
  <2>1. CASE script' = NoScript
    BY <2>1 DEF NoScript, EnvGoesFirst
  <2>2. CASE script'.what = script.what /\ Len(script'.todo) = Len(script.todo) - 1 /\ ~Uninstalls(6)
    BY <1>a, <2>2 DEF Passwords, EnvGoesFirst, Uninstalls
  <2>3. CASE Installs(15)'
    BY <2>3 DEF EnvGoesFirst, Installs
  <2>4. CASE Uninstalls(9)'
    BY <1>a, <2>4 DEF EnvGoesFirst, Uninstalls
  <2> QED BY <2>1, <2>2, <2>3, <2>4
<1>6. EnvOpensDatabase'
  BY DEF Passwords, EnvOpensDatabase
<1> QED BY <1>1, <1>2, <1>4, <1>5, <1>6 DEF Passwords

\* Each step keeps what is said of the passwords.
LEMMA PasswordsStep ==
  ASSUME Records, ScriptInPlace, Passwords, [InstallerNext]_installerVars
  PROVE  Passwords'
<1>a. ScriptInPlace' /\ Records'
  BY ScriptStep, RecordsStep
<1>b. Len(script.todo) \in Nat /\ Len(script'.todo) \in Nat
  BY <1>a, LenProperties DEF ScriptInPlace, Script
<1>c. /\ mariadb.root \in Nat /\ mariadb.panel \in Nat /\ panel.env \in Nat /\ issued \in Nat
      /\ credentials.root \in Seq(Nat \ {0}) /\ credentials.panel \in Seq(Nat \ {0})
  BY PasswordTypes
<1>d. ASSUME NEW n \in 1..15, Installs(n), Installing
      PROVE  script' = NoScript \/ Installs(n - 1)'
  BY <1>d, UnderWay, Proceeds DEF Installs
<1>e. ASSUME NEW n \in 1..9, Uninstalls(n), Uninstalling
      PROVE  script' = NoScript \/ Uninstalls(n - 1)'
  BY <1>e, UnderWay, Proceeds DEF Uninstalls
<1>f. script' = NoScript => RootLineIsNew' /\ EnvGoesFirst'
  BY DEF NoScript, RootLineIsNew, EnvGoesFirst
<1>1. ASSUME NEW port \in SshPort, Install(port) PROVE Passwords'
  <2>1. Installs(15)'
    BY <1>1, Lists DEF Install, Installs
  <2> QED BY <1>1, <1>a, <2>1, PasswordsAlone DEF Install
<1>2. ASSUME NEW options \in SUBSET {"database", "csf", "ssh"}, Uninstall(options) PROVE Passwords'
  <2>1. Uninstalls(9)'
    BY <1>2, Lists DEF Uninstall, Uninstalls
  <2> QED BY <1>2, <1>a, <2>1, PasswordsAlone DEF Uninstall
<1>3. CASE Interrupt
  BY <1>3, <1>a, PasswordsAlone DEF Interrupt
<1>4. CASE install_mariadb
  <2>1. /\ Installs(14) /\ panel' = panel /\ issued' = issued + 1
        /\ credentials' = [credentials EXCEPT !.root = Append(credentials.root, issued + 1)]
        /\ \/ mariadb' = mariadb
           \/ mariadb.root = 0 /\ mariadb' = [mariadb EXCEPT !.root = issued + 1]
    BY <1>4, Places DEF install_mariadb, Generate
  <2>2. /\ credentials'.root = Append(credentials.root, issued + 1)
        /\ credentials'.panel = credentials.panel
    BY <2>1 DEF Records, Credentials
  <2>3. /\ mariadb'.panel = mariadb.panel
        /\ mariadb'.root = mariadb.root \/ (mariadb.root = 0 /\ mariadb'.root = issued + 1)
    BY <2>1 DEF Records, MariaDB
  <2>4. script' = NoScript \/ Installs(13)'
    BY <1>4, <1>d, <2>1 DEF Installing
  <2>5. /\ credentials'.root # <<>>
        /\ RootLogin' => credentials.root = <<>> /\ mariadb'.root = issued + 1
    <3>1. credentials'.root # <<>>
      BY <1>c, <2>2, Noted
    <3>2. \A m : credentials'.root = <<m>> => credentials.root = <<>> /\ m = issued + 1
      BY <1>c, <2>2, Noted
    <3> QED BY <3>1, <3>2 DEF RootLogin
  <2>6. PasswordsIssued'
    <3>1. mariadb'.root <= issued + 1 /\ mariadb'.panel <= issued + 1 /\ panel'.env <= issued + 1
      BY <1>c, <2>1, <2>3 DEF Passwords, PasswordsIssued
    <3>2. credentials'.panel # <<>> => Head(credentials'.panel) \in 1..(issued + 1)
      BY <1>c, <2>2 DEF Passwords, PasswordsIssued
    <3> QED BY <2>1, <3>1, <3>2 DEF PasswordsIssued
  <2>7. NotedIsSet'
    BY <1>c, <2>1, <2>2, <2>3, <2>5 DEF Passwords, NotedIsSet
  <2>8. RootLogin' => mariadb'.panel = 0 /\ credentials'.panel = <<>> /\ panel'.env = 0
    BY <1>c, <2>1, <2>2, <2>3, <2>5 DEF Passwords, NotedIsSet, PasswordsIssued
  <2>9. RootLineIsNew' /\ EnvGoesFirst'
    BY <1>b, <1>f, <2>4, <2>8 DEF RootLineIsNew, EnvGoesFirst, Installs
  <2> QED BY <2>1, <2>3, <2>6, <2>7, <2>9 DEF Passwords, EnvOpensDatabase
<1>5. CASE create_database
  <2>1. Installs(6) /\ panel' = panel /\ issued' = issued + 1
    BY <1>5, Places DEF create_database, Generate
  <2>2. script' = NoScript \/ Installs(5)'
    BY <1>5, <1>d, <2>1 DEF Installing
  <2>3. RootLineIsNew' /\ EnvGoesFirst'
    <3>1. CASE Installs(5)'
      BY <1>b, <3>1 DEF RootLineIsNew, EnvGoesFirst, Installs
    <3> QED BY <1>f, <2>2, <3>1
  <2>4. CASE UNCHANGED <<mariadb, credentials>>
    <3>1. PasswordsIssued'
      BY <1>c, <2>1, <2>4 DEF Passwords, PasswordsIssued
    <3> QED BY <2>1, <2>3, <2>4, <3>1 DEF Passwords, NotedIsSet, EnvOpensDatabase
  <2>5. CASE /\ RootLogin
             /\ mariadb' = IF mariadb.panel = 0 THEN [mariadb EXCEPT !.panel = issued + 1] ELSE mariadb
             /\ credentials' = [credentials EXCEPT !.panel = Append(credentials.panel, issued + 1)]
    <3>1. mariadb.panel = 0 /\ credentials.panel = <<>> /\ panel.env = 0
      BY <2>1, <2>5 DEF Passwords, RootLineIsNew, Installs
    <3>2. mariadb' = [mariadb EXCEPT !.panel = issued + 1]
      BY <2>5, <3>1
    <3>3. mariadb'.panel = issued + 1 /\ mariadb'.root = mariadb.root
      BY <3>2 DEF Records, MariaDB
    <3>4. /\ credentials'.panel = Append(credentials.panel, issued + 1)
          /\ credentials'.root = credentials.root
      BY <2>5 DEF Records, Credentials
    <3>5. Head(credentials'.panel) = issued + 1
      BY <1>c, <3>1, <3>4, Noted
    <3>6. PasswordsIssued'
      BY <1>c, <2>1, <3>1, <3>3, <3>5 DEF Passwords, PasswordsIssued
    <3>7. NotedIsSet'
      BY <2>5, <3>3, <3>4, <3>5, PasswordTypes DEF NotedIsSet
    <3>8. EnvOpensDatabase'
      BY <2>1, <3>1 DEF EnvOpensDatabase
    <3> QED BY <2>3, <3>6, <3>7, <3>8 DEF Passwords
  <2> QED BY <1>5, <2>4, <2>5 DEF create_database
<1>6. ASSUME Installing, UNCHANGED <<mariadb, credentials, issued>>,
             script.what = "install" /\ Len(script.todo) \in 1..5,
             panel'.env \in {0, panel.env, WithEnv.env}
      PROVE  Passwords'
  <2>1. script' = NoScript \/ (script'.what = "install" /\ Len(script'.todo) \notin 6..13)
    <3>1. script' = NoScript \/ (script'.what = "install" /\ Len(script'.todo) = Len(script.todo) - 1)
      BY <1>6, UnderWay, Proceeds
    <3>2. \A n \in 1..5 : n - 1 \notin 6..13
      OBVIOUS
    <3>3. Len(script.todo) - 1 \notin 6..13
      BY <1>6, <3>1, <3>2
    <3> QED BY <3>1, <3>3
  <2>2. RootLineIsNew' /\ EnvGoesFirst'
    BY <1>f, <2>1 DEF RootLineIsNew, EnvGoesFirst
  <2>3. \/ panel'.env = 0 \/ panel'.env = panel.env
        \/ credentials.panel # <<>> /\ panel'.env = Head(credentials.panel)
    BY <1>6, EnvWritten
  <2>4. PasswordsIssued'
    BY <1>6, <1>c, <2>3 DEF Passwords, PasswordsIssued
  <2>5. NotedIsSet'
    BY <1>6, <2>3 DEF Passwords, NotedIsSet
  <2>6. EnvOpensDatabase'
    BY <1>6, <2>3 DEF Passwords, EnvOpensDatabase, NotedIsSet
  <2> QED BY <2>2, <2>4, <2>5, <2>6 DEF Passwords
<1>7. CASE install_serverhubx
  <2>1. Installs(5)
    BY <1>7, Places DEF install_serverhubx
  <2>2. PICK there \in {panel, [panel EXCEPT !.env = 0]} :
             \E app \in {"built", "cloned", panel.app} : panel' = [there EXCEPT !.app = app]
    BY <1>7 DEF install_serverhubx
  <2>3. there \in Panel /\ there.env \in {0, panel.env}
    BY <2>2 DEF Records, Panel
  <2>4. panel'.env \in {0, panel.env}
    BY <2>2, <2>3 DEF Panel
  <2> QED BY <1>6, <1>7, <2>1, <2>4 DEF install_serverhubx, Installing, Installs
<1>8. CASE create_env_file
  <2>1. Installs(4)
    BY <1>8, Places DEF create_env_file
  <2> QED BY <1>6, <1>8, <2>1 DEF create_env_file, Installing, Installs
<1>9. CASE start_serverhubx
  <2>1. Installs(1)
    BY <1>9, Places DEF start_serverhubx
  <2>2. \E p \in {panel, WithEnv} : panel' = panel \/ panel' = p \/ \E b \in BOOLEAN : panel' = [p EXCEPT !.runs = b]
    BY <1>9 DEF start_serverhubx
  <2>3. panel'.env \in {panel.env, WithEnv.env}
    BY <2>2, EnvWritten DEF Records, Panel
  <2> QED BY <1>6, <1>9, <2>1, <2>3 DEF start_serverhubx, Installing, Installs
<1>10. CASE remove_database
  <2>1. /\ Uninstalls(7) /\ UNCHANGED <<credentials, panel, issued>>
        /\ mariadb' = mariadb \/ mariadb' = [mariadb EXCEPT !.panel = 0]
    BY <1>10, Places DEF remove_database
  <2>2. mariadb'.root = mariadb.root /\ mariadb'.panel \in {0, mariadb.panel}
    BY <2>1 DEF Records, MariaDB
  <2>3. script' = NoScript \/ Uninstalls(6)'
    BY <1>10, <1>e, <2>1 DEF Uninstalling
  <2>4. RootLineIsNew' /\ EnvGoesFirst'
    <3>1. CASE Uninstalls(6)'
      BY <1>b, <3>1 DEF RootLineIsNew, EnvGoesFirst, Uninstalls
    <3> QED BY <1>f, <2>3, <3>1
  <2>5. PasswordsIssued'
    BY <1>c, <2>1, <2>2 DEF Passwords, PasswordsIssued
  <2> QED BY <2>1, <2>2, <2>4, <2>5 DEF Passwords, NotedIsSet, EnvOpensDatabase
<1>11. CASE remove_application
  <2>1. /\ Uninstalls(6) /\ UNCHANGED <<mariadb, credentials, issued>> /\ panel'.env = 0
    BY <1>11, Places DEF remove_application, Records, Panel
  <2>2. script' = NoScript \/ Uninstalls(5)'
    BY <1>11, <1>e, <2>1 DEF Uninstalling
  <2>3. RootLineIsNew' /\ EnvGoesFirst'
    BY <1>f, <2>1, <2>2 DEF RootLineIsNew, EnvGoesFirst, Uninstalls
  <2>4. PasswordsIssued'
    BY <1>c, <2>1 DEF Passwords, PasswordsIssued
  <2> QED BY <2>1, <2>3, <2>4 DEF Passwords, NotedIsSet, EnvOpensDatabase
<1>12. CASE remove_credentials
  <2>1. /\ Uninstalls(1) /\ UNCHANGED <<mariadb, panel, issued>>
        /\ credentials'.root = <<>> /\ credentials'.panel = <<>>
    BY <1>12, Places DEF remove_credentials
  <2>2. script' = NoScript \/ Uninstalls(0)'
    BY <1>12, <1>e, <2>1 DEF Uninstalling
  <2>3. panel.env = 0
    BY <2>1 DEF Passwords, EnvGoesFirst, Uninstalls
  <2>4. RootLineIsNew' /\ EnvGoesFirst'
    BY <1>f, <2>1, <2>2, <2>3 DEF RootLineIsNew, EnvGoesFirst, Uninstalls
  <2>5. PasswordsIssued'
    BY <2>1 DEF Passwords, PasswordsIssued
  <2> QED BY <2>1, <2>3, <2>4, <2>5 DEF Passwords, NotedIsSet, EnvOpensDatabase

<1>13. CASE InstallPackages \/ remove_existing_firewalls \/ change_ssh_port \/ install_csf
         \/ configure_csf \/ start_csf \/ create_serverhubx_user \/ setup_sudo_rules
         \/ create_systemd_service \/ create_admin_user \/ stop_services \/ remove_systemd_service
         \/ remove_system_user \/ remove_sudo_rules \/ remove_csf \/ restore_ssh_port
  <2>1. /\ UNCHANGED <<mariadb, issued>> /\ panel'.env = panel.env
        /\ credentials'.root = credentials.root /\ credentials'.panel = credentials.panel
    <3>1. CASE create_serverhubx_user \/ setup_sudo_rules \/ create_systemd_service
               \/ stop_services \/ remove_systemd_service \/ remove_system_user
               \/ remove_sudo_rules
      BY <3>1 DEF create_serverhubx_user, setup_sudo_rules, create_systemd_service, stop_services,
         remove_systemd_service, remove_system_user, remove_sudo_rules, Records, Panel
    <3>2. CASE create_admin_user
      BY <3>2 DEF create_admin_user, Records, Credentials
    <3>3. CASE InstallPackages \/ remove_existing_firewalls \/ change_ssh_port
               \/ install_csf \/ configure_csf \/ start_csf
               \/ remove_csf \/ restore_ssh_port
      BY <3>3 DEF InstallPackages, remove_existing_firewalls, change_ssh_port, install_csf,
         configure_csf, start_csf, remove_csf, restore_ssh_port
    <3> QED BY <1>13, <3>1, <3>2, <3>3
  <2>2. Installing \/ Uninstalling
    BY <1>13 DEF Installing, Uninstalling
  <2>3. \/ Doing("packages") \/ Doing("firewalls") \/ Doing("ssh") \/ Doing("csf") \/ Doing("configure")
        \/ Doing("start") \/ Doing("user") \/ Doing("sudo") \/ Doing("service") \/ Doing("admin")
        \/ Doing("stop") \/ Doing("unit") \/ Doing("userdel") \/ Doing("sudoers") \/ Doing("uncsf")
        \/ Doing("restore")
    BY <1>13 DEF InstallPackages, remove_existing_firewalls, change_ssh_port, install_csf,
       configure_csf, start_csf, create_serverhubx_user, setup_sudo_rules, create_systemd_service,
       create_admin_user, stop_services, remove_systemd_service, remove_system_user,
       remove_sudo_rules, remove_csf, restore_ssh_port
  <2>4. \/ \E n \in {2, 3, 7, 8, 9, 10, 11, 12, 13, 15} : Installs(n)
        \/ \E n \in {2, 3, 4, 5, 8, 9} : Uninstalls(n)
    BY <2>3, Places
  <2>5. ~Installs(14) /\ ~Uninstalls(6)
    BY <2>4 DEF Installs, Uninstalls
  <2> QED BY <1>a, <2>1, <2>2, <2>5, UnderWay, Proceeds, PasswordsAlone
<1>14. CASE UNCHANGED installerVars
  BY <1>14 DEF installerVars, Passwords, PasswordsIssued, NotedIsSet, RootLineIsNew, RootLogin, EnvGoesFirst,
     EnvOpensDatabase
<1> QED BY <1>1, <1>2, <1>3, <1>4, <1>5, <1>7, <1>8, <1>9, <1>10, <1>11, <1>12, <1>13, <1>14
     DEF InstallerNext, Installing, Uninstalling

-----------------------------------------------------------------------------
(* The theorems.                                                             *)

LEMMA InstallerInvariant == InstallerSpec => []InstallerInv
<1>1. InstallerInit => InstallerInv
  <2> SUFFICES ASSUME InstallerInit PROVE InstallerInv
    OBVIOUS
  <2> USE DEF InstallerInit
  <2>1. ScriptInPlace
    <3>1. NoScript \in Script
      BY EmptySeq DEF NoScript, Script, Everyone
    <3> QED BY <3>1 DEF NoScript, ScriptInPlace
  <2>2. Records
    <3>1. packages \subseteq Package /\ issued \in Nat
      OBVIOUS
    <3>2. sshServer \in SshServer /\ firewall \in Firewall
      BY DEF SshServer, Firewall, Everyone
    <3>3. mariadb \in MariaDB
      BY DEF MariaDB
    <3>4. credentials \in Credentials
      BY EmptySeq DEF Credentials
    <3>5. panel \in Panel
      BY DEF Panel
    <3> QED BY <3>1, <3>2, <3>3, <3>4, <3>5 DEF Records
  <2>3. RulesBeforeCsf /\ SSHStaysReachable
    BY DEF NoScript, Everyone, RulesBeforeCsf, OpenBeforeCsf, PortOfScript, CsfConfigured, SSHStaysReachable
  <2>4. PasswordsIssued /\ NotedIsSet /\ EnvOpensDatabase
    BY DEF PasswordsIssued, NotedIsSet, EnvOpensDatabase
  <2>5. RootLineIsNew /\ EnvGoesFirst
    BY DEF NoScript, RootLineIsNew, EnvGoesFirst
  <2> QED BY <2>1, <2>2, <2>3, <2>4, <2>5 DEF InstallerInv
<1>2. InstallerInv /\ [InstallerNext]_installerVars => InstallerInv'
  BY ScriptStep, RecordsStep, ReachableStep, PasswordsStep DEF InstallerInv, Passwords
<1> QED BY <1>1, <1>2, PTL DEF InstallerSpec

\* Types hold, and while no script runs nothing is left of one.
THEOREM InstallerTyped == InstallerSpec => []InstallerTypeOK
<1>1. InstallerInv => InstallerTypeOK
  <2> SUFFICES ASSUME InstallerInv PROVE InstallerTypeOK
    OBVIOUS
  <2>1. /\ packages \subseteq Package
        /\ {sshServer.port, sshServer.runs} \subseteq Everyone
        /\ firewall.conf \cup firewall.open \subseteq Everyone
    BY DEF InstallerInv, Records, SshServer, Firewall
  <2>2. {mariadb.root, mariadb.panel, panel.env} \subseteq 0..issued
    BY PasswordTypes DEF InstallerInv, PasswordsIssued
  <2>3. script.what = "none" <=> script.todo = <<>>
    <3>1. CASE script.what = "none"
      BY <3>1 DEF InstallerInv, ScriptInPlace
    <3>2. CASE script.what = "install"
      BY <3>2, Lists, EndOfList DEF InstallerInv, ScriptInPlace
    <3>3. CASE script.what = "uninstall"
      BY <3>3, Lists, EndOfList DEF InstallerInv, ScriptInPlace
    <3> QED BY <3>1, <3>2, <3>3 DEF InstallerInv, ScriptInPlace, Script
  <2> QED BY <2>1, <2>2, <2>3 DEF InstallerTypeOK
<1> QED BY <1>1, InstallerInvariant, PTL

\* Whatever set of ports SSH_PORT may have: install.sh and uninstall.sh leave the port
\* sshd listens on open, unless the change failed or was set back to 22.
THEOREM Reachable == InstallerSpec => []SSHStaysReachable
BY InstallerInvariant, PTL DEF InstallerInv

\* The password install.sh writes to .env is the one of the panel's account.
THEOREM EnvRight == InstallerSpec => []EnvOpensDatabase
BY InstallerInvariant, PTL DEF InstallerInv

-----------------------------------------------------------------------------
(* Notifications: who has been told of what, and who is still to be told.    *)
HIDE InstallerAssumption

PreferenceRow == {NoPreferences, DefaultPreferences} \cup Preferences

NoticeType == [severity : Severity, overrides : Overrides, began : [Member -> PreferenceRow],
               todo : Seq(Member), channels : Seq(Channel)]

NoticesTyped ==
  /\ preferences \in [Member -> PreferenceRow] /\ notice \in Seq(NoticeType) /\ Len(notice) <= MaxEvents
  /\ told \subseteq (1 .. Len(notice)) \X Member \X Channel

\* Every user is told once, and each channel is served once.
OnceEach ==
  \A n \in DOMAIN notice :
    /\ IsInjective(notice[n].todo) /\ IsInjective(notice[n].channels)
    /\ notice[n].channels # <<>> => notice[n].todo # <<>>

ToldIn(set, n, m) == {c \in Channel : <<n, m, c>> \in set}
ToldOf(n, m)      == ToldIn(told, n, m)
Due(n, m)    == Recipients(notice[n].began[m], notice[n].severity, notice[n].overrides)

\* A user who waits has a row, and unless he is excused it is the one he had when the event
\* was dispatched; he has been told nothing before it is his turn, then all but what is
\* left of his channels, and what he was to be told thereafter.
ToldSoFar(n, m) ==
  LET waits == m \in Range(notice[n].todo)
      now   == waits /\ m = Head(notice[n].todo) /\ notice[n].channels # <<>> IN
  /\ waits => preferences[m].row
  /\ <<n, m>> \notin excused =>
       /\ waits => preferences[m] = notice[n].began[m]
       /\ ~waits => ToldOf(n, m) = Due(n, m)
       /\ waits /\ ~now => ToldOf(n, m) = {}
       /\ now => ToldOf(n, m) \cup Range(notice[n].channels) = Due(n, m)

NoticeInv == NoticesTyped /\ OnceEach /\ \A n \in DOMAIN notice, m \in Member : ToldSoFar(n, m)

-----------------------------------------------------------------------------
(* Sequences whose members are all different.                                *)

LEMMA TailIs ==
  ASSUME NEW S, NEW s \in Seq(S), s # <<>>, IsInjective(s)
  PROVE  /\ Head(s) \in S /\ Tail(s) \in Seq(S) /\ IsInjective(Tail(s))
         /\ Range(s) = {Head(s)} \cup Range(Tail(s)) /\ Head(s) \notin Range(Tail(s))
<1>1. Len(s) \in Nat /\ Len(s) >= 1 /\ DOMAIN s = 1 .. Len(s)
  OBVIOUS
<1>2. Head(s) \in S /\ Tail(s) \in Seq(S) /\ Head(s) = s[1]
  OBVIOUS
<1>3. Len(Tail(s)) = Len(s) - 1 /\ DOMAIN Tail(s) = 1 .. Len(s) - 1 /\ \A i \in 1 .. Len(s) - 1 : Tail(s)[i] = s[i + 1]
  OBVIOUS
<1>4. IsInjective(Tail(s))
  <2>1. ASSUME NEW i \in 1 .. Len(s) - 1, NEW j \in 1 .. Len(s) - 1, Tail(s)[i] = Tail(s)[j] PROVE i = j
    <3>1. s[i + 1] = s[j + 1] /\ i + 1 \in DOMAIN s /\ j + 1 \in DOMAIN s
      BY <1>1, <1>3, <2>1
    <3>2. i + 1 = j + 1
      BY <3>1 DEF IsInjective
    <3> QED BY <1>1, <3>2
  <2> QED BY <1>3, <2>1 DEF IsInjective
<1>5. \A i \in DOMAIN s : i = 1 \/ (i - 1 \in DOMAIN Tail(s) /\ Tail(s)[i - 1] = s[i])
  BY <1>1, <1>3
<1>6. \A i \in DOMAIN Tail(s) : i + 1 \in DOMAIN s /\ Tail(s)[i] = s[i + 1] /\ i + 1 # 1
  BY <1>1, <1>3
<1>7. 1 \in DOMAIN s
  BY <1>1
<1>8. Range(s) = {Head(s)} \cup Range(Tail(s))
  <2>1. ASSUME NEW i \in DOMAIN s PROVE s[i] = Head(s) \/ s[i] \in Range(Tail(s))
    <3>1. CASE i = 1
      BY <1>2, <3>1
    <3>2. CASE i # 1
      <4>1. i - 1 \in DOMAIN Tail(s) /\ Tail(s)[i - 1] = s[i]
        BY <1>5, <3>2
      <4> QED BY <4>1 DEF Range
    <3> QED BY <3>1, <3>2
  <2>2. Head(s) \in Range(s)
    BY <1>2, <1>7 DEF Range
  <2>3. \A i \in DOMAIN Tail(s) : Tail(s)[i] \in Range(s)
    BY <1>6 DEF Range
  <2>4. \A x : x \in Range(s) => x = Head(s) \/ x \in Range(Tail(s))
    BY <2>1 DEF Range
  <2>5. \A x : x \in Range(Tail(s)) => x \in Range(s)
    BY <2>3 DEF Range
  <2> QED BY <2>2, <2>4, <2>5
<1>9. Head(s) \notin Range(Tail(s))
  BY <1>2, <1>6, <1>7 DEF Range, IsInjective
<1> QED BY <1>2, <1>4, <1>8, <1>9

LEMMA RangeOfNone == Range(<<>>) = {} /\ IsInjective(<<>>)
BY DEF Range, IsInjective

LEMMA SetToSeqIs ==
  ASSUME NEW S, IsFiniteSet(S)
  PROVE  SetToSeq(S) \in Seq(S) /\ IsInjective(SetToSeq(S)) /\ Range(SetToSeq(S)) = S
<1>1. Cardinality(S) \in Nat /\ ExistsBijection(1 .. Cardinality(S), S)
  BY FS_CardinalityType
<1>2. PICK n : n = Cardinality(S)
  OBVIOUS
<1>3. PICK g : g \in Bijection(1 .. n, S)
  BY <1>1, <1>2 DEF ExistsBijection
<1>4. g \in [1 .. n -> S] /\ IsInjective(g)
  BY <1>3 DEF Bijection, Injection, IsInjective
<1>5. PICK s : s = SetToSeq(S)
  OBVIOUS
<1>6. s \in [1 .. n -> S] /\ IsInjective(s)
  BY <1>2, <1>4, <1>5 DEF SetToSeq
<1>7. s \in Seq(S)
  BY <1>1, <1>2, <1>6
<1>8. Range(s) = S
  <2> DEFINE T == {s[i] : i \in 1 .. n}
  <2>1. T \subseteq S /\ Range(s) = T
    BY <1>6 DEF Range
  <2>2. s \in Bijection(1 .. n, T)
    <3>1. s \in [1 .. n -> T] /\ \A t \in T : \E i \in 1 .. n : s[i] = t
      BY <1>6
    <3>2. \A i, j \in 1 .. n : s[i] = s[j] => i = j
      BY <1>6 DEF IsInjective
    <3> HIDE DEF T
    <3> QED BY <3>1, <3>2 DEF Bijection, Injection, Surjection, IsInjective
  <2>3. ExistsBijection(1 .. n, T)
    BY <2>2 DEF ExistsBijection
  <2> HIDE DEF T
  <2>4. IsFiniteSet(T) /\ Cardinality(T) = n
    <3>1. n \in Nat /\ IsFiniteSet(T)
      BY <1>1, <1>2, <2>1, FS_Subset
    <3> QED BY <2>3, <3>1, FS_CountingElements
  <2>5. T = S
    BY <1>2, <2>1, <2>4, FS_Subset
  <2> QED BY <2>1, <2>5
<1> QED BY <1>5, <1>6, <1>7, <1>8

LEMMA ServedIs ==
  ASSUME NEW S \in SUBSET Channel
  PROVE  /\ Served(S) \in Seq(Channel) /\ IsInjective(Served(S)) /\ Range(Served(S)) = S
         /\ Served(S) = <<>> <=> S = {}
<1>1. S \subseteq {"email", "sms", "webhook"}
  BY NotificationAssumption
<1>2. PICK a, b, c : /\ a = IF "email" \in S THEN <<"email">> ELSE <<>>
                     /\ b = IF "sms" \in S THEN <<"sms">> ELSE <<>>
                     /\ c = IF "webhook" \in S THEN <<"webhook">> ELSE <<>>
  OBVIOUS
<1>3. Served(S) = (a \o b) \o c
  BY <1>2 DEF Served
<1>4. a \in Seq(S) /\ b \in Seq(S) /\ c \in Seq(S)
  BY <1>2
<1>5. PICK ab : ab = a \o b
  OBVIOUS
<1>6. /\ ab \in Seq(S) /\ Len(ab) = Len(a) + Len(b)
      /\ \A i \in 1 .. Len(ab) : ab[i] = IF i <= Len(a) THEN a[i] ELSE b[i - Len(a)]
  BY <1>4, <1>5, ConcatProperties
<1>7. PICK s : s = ab \o c
  OBVIOUS
<1>8. /\ s \in Seq(S) /\ Len(s) = Len(ab) + Len(c)
      /\ \A i \in 1 .. Len(s) : s[i] = IF i <= Len(ab) THEN ab[i] ELSE c[i - Len(ab)]
  <2>1. ab \in Seq(S) /\ c \in Seq(S)
    BY <1>4, <1>6
  <2> QED BY <1>7, <2>1, ConcatProperties
<1>9. /\ "email" \in S => Len(a) = 1 /\ a[1] = "email"
      /\ "email" \notin S => Len(a) = 0
      /\ "sms" \in S => Len(b) = 1 /\ b[1] = "sms"
      /\ "sms" \notin S => Len(b) = 0
      /\ "webhook" \in S => Len(c) = 1 /\ c[1] = "webhook"
      /\ "webhook" \notin S => Len(c) = 0
  BY <1>2
<1>10. /\ Len(a) \in {0, 1} /\ Len(b) \in {0, 1} /\ Len(c) \in {0, 1} /\ Len(ab) \in Nat /\ Len(s) \in Nat
       /\ DOMAIN s = 1 .. Len(s)
  BY <1>6, <1>8, <1>9
<1>11. \A i \in 1 .. Len(s) : \/ s[i] = "email" /\ i = 1 /\ Len(a) = 1
                              \/ s[i] = "sms" /\ i = Len(a) + 1 /\ Len(b) = 1
                              \/ s[i] = "webhook" /\ i = Len(a) + Len(b) + 1 /\ Len(c) = 1
  BY <1>6, <1>8, <1>9, <1>10
<1>12. IsInjective(s)
  BY <1>10, <1>11 DEF IsInjective
<1>13. Range(s) = S
  <2>1. Range(s) \subseteq S
    BY <1>8, <1>10 DEF Range
  <2>2. "email" \in S => 1 \in DOMAIN s /\ s[1] = "email"
    BY <1>6, <1>8, <1>9, <1>10
  <2>3. ASSUME "sms" \in S PROVE Len(a) + 1 \in DOMAIN s /\ s[Len(a) + 1] = "sms"
    <3>1. Len(b) = 1 /\ b[1] = "sms" /\ Len(a) \in Nat /\ Len(c) \in Nat
      BY <1>9, <1>10, <2>3
    <3>2. Len(ab) = Len(a) + 1 /\ Len(s) >= Len(ab) /\ Len(a) + 1 \in 1 .. Len(s) /\ Len(a) + 1 \in 1 .. Len(ab)
      BY <1>6, <1>8, <1>10, <3>1
    <3>3. ab[Len(a) + 1] = b[(Len(a) + 1) - Len(a)] /\ (Len(a) + 1) - Len(a) = 1
      BY <1>6, <3>1, <3>2
    <3>4. s[Len(a) + 1] = ab[Len(a) + 1]
      BY <1>8, <3>1, <3>2
    <3> QED BY <1>10, <3>1, <3>2, <3>3, <3>4
  <2>4. ASSUME "webhook" \in S PROVE Len(a) + Len(b) + 1 \in DOMAIN s /\ s[Len(a) + Len(b) + 1] = "webhook"
    <3>1. Len(c) = 1 /\ c[1] = "webhook" /\ Len(a) \in Nat /\ Len(b) \in Nat
      BY <1>9, <1>10, <2>4
    <3>2. Len(s) = Len(a) + Len(b) + 1 /\ Len(s) \in 1 .. Len(s) /\ ~(Len(s) <= Len(ab))
      BY <1>6, <1>8, <1>10, <3>1
    <3>3. s[Len(s)] = c[Len(s) - Len(ab)] /\ Len(s) - Len(ab) = 1
      BY <1>6, <1>8, <3>1, <3>2
    <3> QED BY <1>10, <3>1, <3>2, <3>3
  <2> QED BY <1>1, <2>1, <2>2, <2>3, <2>4 DEF Range
<1>14. s = <<>> <=> S = {}
  <2>1. s = <<>> => Range(s) = {}
    BY RangeOfNone
  <2>2. s # <<>> => s[1] \in S
    BY <1>8, <1>10
  <2> QED BY <1>13, <2>1, <2>2
<1>15. s \in Seq(Channel)
  BY <1>8
<1>16. Served(S) = s
  BY <1>3, <1>5, <1>7
<1> QED BY <1>12, <1>13, <1>14, <1>15, <1>16

-----------------------------------------------------------------------------
(* Rows and what they ask for.                                               *)

LEMMA NoRowIs ==
  /\ NoPreferences.row = FALSE /\ NoPreferences.address = {} /\ DefaultPreferences.row = TRUE
  /\ DefaultPreferences.address = {} /\ DefaultPreferences \in Preferences
<1>1. /\ NoPreferences.row = FALSE /\ NoPreferences.address = {} /\ NoPreferences.enabled = {}
      /\ NoPreferences.quiet = "no" /\ NoPreferences.filtered = {}
  BY DEF NoPreferences
<1>2. PICK a : a = [NoPreferences EXCEPT !.row = TRUE]
  OBVIOUS
<1>3. a = [row |-> TRUE, enabled |-> {}, address |-> {}, quiet |-> "no", filtered |-> {}]
  BY <1>2 DEF NoPreferences
<1>4. PICK b : b = [a EXCEPT !.enabled = {"email"}]
  OBVIOUS
<1>5. b = [row |-> TRUE, enabled |-> {"email"}, address |-> {}, quiet |-> "no", filtered |-> {}]
  BY <1>3, <1>4
<1>6. DefaultPreferences = b
  BY <1>2, <1>4 DEF DefaultPreferences
<1>7. "email" \in Channel
  BY NotificationAssumption
<1>8. b \in Preferences /\ b.row = TRUE /\ b.address = {}
  BY <1>5, <1>7 DEF Preferences
<1> QED BY <1>1, <1>6, <1>8

LEMMA RowsAre ==
  ASSUME NEW r \in PreferenceRow
  PROVE  /\ r.row \in BOOLEAN /\ r.address \subseteq Channel
         /\ r.row => r \in Preferences
         /\ ~r.row => r = NoPreferences
<1>1. CASE r = NoPreferences
  BY <1>1, NoRowIs
<1>2. CASE r \in Preferences
  BY <1>2 DEF Preferences
<1> QED BY <1>1, <1>2, NoRowIs DEF PreferenceRow

LEMMA RecipientsAre ==
  ASSUME NEW r \in PreferenceRow, NEW severity, NEW overrides
  PROVE  /\ Recipients(r, severity, overrides) \subseteq Channel
         /\ ~r.row => Recipients(r, severity, overrides) = {}
<1>1. r.address \subseteq Channel /\ (~r.row => r.address = {})
  BY RowsAre, NoRowIs
<1> QED BY <1>1 DEF Recipients, determineChannels

\* What is changed stays a row.
LEMMA ChangedIs ==
  ASSUME NEW r \in Preferences, NEW x \in Changes(r)
  PROVE  x \in Preferences /\ x.row = TRUE
<1>1. \A y \in Chosen : y \subseteq Channel
  BY DEF Chosen
<1>2. CASE \E y \in Chosen : x = [r EXCEPT !.enabled = y]
  BY <1>1, <1>2 DEF Preferences
<1>3. CASE \E y \in Chosen : x = [r EXCEPT !.address = y]
  BY <1>1, <1>3 DEF Preferences
<1>4. CASE \E y \in {"no", "now", "unknown zone"} : x = [r EXCEPT !.quiet = y]
  BY <1>4 DEF Preferences
<1>5. CASE \E y \in {{}, {"info"}} : x = [r EXCEPT !.filtered = y]
  BY <1>5 DEF Preferences
<1> QED BY <1>2, <1>3, <1>4, <1>5 DEF Changes

-----------------------------------------------------------------------------
(* One step of a dispatch.                                                   *)

\* The dispatch n goes on with the users t, and for the first of them the channels s.
NoticeMoves(n, t, s) ==
  /\ notice' \in [DOMAIN notice -> NoticeType] /\ \A k \in DOMAIN notice : k # n => notice'[k] = notice[k]
  /\ notice'[n].todo = t /\ notice'[n].channels = s /\ notice'[n].began = notice[n].began
  /\ notice'[n].severity = notice[n].severity /\ notice'[n].overrides = notice[n].overrides

LEMMA NoticesAre ==
  ASSUME NoticesTyped
  PROVE  /\ DOMAIN notice = 1 .. Len(notice) /\ Len(notice) \in Nat /\ notice \in [DOMAIN notice -> NoticeType]
         /\ \A n \in DOMAIN notice :
              /\ notice[n] \in NoticeType /\ notice[n].todo \in Seq(Member) /\ notice[n].channels \in Seq(Channel)
              /\ notice[n].began \in [Member -> PreferenceRow]
<1>1. notice \in Seq(NoticeType)
  BY DEF NoticesTyped
<1>2. DOMAIN notice = 1 .. Len(notice) /\ Len(notice) \in Nat /\ notice \in [DOMAIN notice -> NoticeType]
  BY <1>1
<1>3. \A n \in DOMAIN notice : notice[n] \in NoticeType
  BY <1>2
<1> QED BY <1>2, <1>3 DEF NoticeType

LEMMA TodoMoves ==
  ASSUME NoticesTyped, NEW n \in DOMAIN notice, NEW t \in Seq(Member),
         notice' = [notice EXCEPT ![n] = [notice[n] EXCEPT !.todo = t]]
  PROVE  NoticeMoves(n, t, notice[n].channels)
<1>1. PICK a : a = notice[n]
  OBVIOUS
<1>2. a \in NoticeType /\ notice \in [DOMAIN notice -> NoticeType]
  BY <1>1, NoticesAre
<1>3. PICK b : b = [a EXCEPT !.todo = t]
  OBVIOUS
<1>4. /\ b \in NoticeType /\ b.todo = t /\ b.channels = a.channels /\ b.began = a.began
      /\ b.severity = a.severity /\ b.overrides = a.overrides
  BY <1>2, <1>3 DEF NoticeType
<1>5. notice' = [notice EXCEPT ![n] = b]
  BY <1>1, <1>3
<1> QED BY <1>1, <1>2, <1>4, <1>5 DEF NoticeMoves

LEMMA ChannelsMove ==
  ASSUME NoticesTyped, NEW n \in DOMAIN notice, NEW s \in Seq(Channel),
         notice' = [notice EXCEPT ![n] = [notice[n] EXCEPT !.channels = s]]
  PROVE  NoticeMoves(n, notice[n].todo, s)
<1>1. PICK a : a = notice[n]
  OBVIOUS
<1>2. a \in NoticeType /\ notice \in [DOMAIN notice -> NoticeType]
  BY <1>1, NoticesAre
<1>3. PICK b : b = [a EXCEPT !.channels = s]
  OBVIOUS
<1>4. /\ b \in NoticeType /\ b.todo = a.todo /\ b.channels = s /\ b.began = a.began
      /\ b.severity = a.severity /\ b.overrides = a.overrides
  BY <1>2, <1>3 DEF NoticeType
<1>5. notice' = [notice EXCEPT ![n] = b]
  BY <1>1, <1>3
<1> QED BY <1>1, <1>2, <1>4, <1>5 DEF NoticeMoves

\* The last channel of a user has been served: both change.
LEMMA BothMove ==
  ASSUME NoticesTyped, NEW n \in DOMAIN notice, NEW t \in Seq(Member),
         notice' = [notice EXCEPT ![n].channels = <<>>, ![n].todo = t]
  PROVE  NoticeMoves(n, t, <<>>)
<1>1. PICK a : a = notice[n]
  OBVIOUS
<1>2. a \in NoticeType /\ notice \in [DOMAIN notice -> NoticeType]
  BY <1>1, NoticesAre
<1>0. PICK e : e \in Seq(Channel) /\ e = <<>>
  <2>1. <<>> \in Seq(Channel)
    OBVIOUS
  <2> QED BY <2>1
<1>3. PICK b : b = [a EXCEPT !.channels = e]
  OBVIOUS
<1>4. PICK c : c = [b EXCEPT !.todo = t]
  OBVIOUS
<1>5. /\ b \in NoticeType /\ b.todo = a.todo /\ b.channels = e /\ b.began = a.began
      /\ b.severity = a.severity /\ b.overrides = a.overrides
  BY <1>0, <1>2, <1>3 DEF NoticeType
<1>6. /\ c \in NoticeType /\ c.todo = t /\ c.channels = e /\ c.began = a.began
      /\ c.severity = a.severity /\ c.overrides = a.overrides
  BY <1>4, <1>5 DEF NoticeType
<1>7. PICK f : f = [notice EXCEPT ![n] = b]
  OBVIOUS
<1>8. notice' = [f EXCEPT ![n] = c]
  BY <1>0, <1>1, <1>2, <1>3, <1>4, <1>7
<1>9. notice' \in [DOMAIN notice -> NoticeType] /\ notice'[n] = c /\ \A k \in DOMAIN notice : k # n => notice'[k] = notice[k]
  BY <1>2, <1>5, <1>6, <1>7, <1>8
<1> QED BY <1>0, <1>1, <1>6, <1>9 DEF NoticeMoves

\* The turn of the first user of a dispatch begins, goes on or is over.
Turn(n, t, s) ==
  LET m == Head(notice[n].todo) IN
  \/ /\ t = Tail(notice[n].todo) /\ s = <<>>
     /\ <<n, m>> \in excused' \/ ToldIn(told', n, m) = Due(n, m)
  \/ /\ t = notice[n].todo /\ s \in Seq(Channel) /\ s # <<>> /\ IsInjective(s)
     /\ <<n, m>> \in excused' \/ ToldIn(told', n, m) \cup Range(s) = Due(n, m)

LEMMA TurnKeeps ==
  ASSUME NoticeInv, NEW n \in DOMAIN notice, notice[n].todo # <<>>, NEW t, NEW s, NoticeMoves(n, t, s), Turn(n, t, s),
         preferences' = preferences, excused \subseteq excused',
         told' \subseteq (1 .. Len(notice)) \X Member \X Channel,
         \A k, m, c : k # n \/ m # Head(notice[n].todo) => (<<k, m, c>> \in told' <=> <<k, m, c>> \in told)
  PROVE  NoticeInv'
<1>1. NoticesTyped /\ OnceEach /\ \A k \in DOMAIN notice, m \in Member : ToldSoFar(k, m)
  BY DEF NoticeInv
<1>2. /\ DOMAIN notice = 1 .. Len(notice) /\ Len(notice) \in Nat /\ notice \in [DOMAIN notice -> NoticeType]
      /\ notice[n].todo \in Seq(Member)
  BY <1>1, NoticesAre
<1>3. notice' \in Seq(NoticeType) /\ Len(notice') = Len(notice) /\ DOMAIN notice' = DOMAIN notice
  <2>1. notice' \in [1 .. Len(notice) -> NoticeType]
    BY <1>2 DEF NoticeMoves
  <2> QED BY <1>2, <2>1
<1>4. NoticesTyped'
  BY <1>1, <1>3 DEF NoticesTyped
<1>5. PICK h : h = Head(notice[n].todo)
  OBVIOUS
<1>6. PICK r : r = Tail(notice[n].todo)
  OBVIOUS
<1>7. /\ h \in Member /\ r \in Seq(Member) /\ IsInjective(r) /\ IsInjective(notice[n].todo)
      /\ Range(notice[n].todo) = {h} \cup Range(r) /\ h \notin Range(r)
  <2>1. IsInjective(notice[n].todo)
    BY <1>1 DEF OnceEach
  <2> QED BY <1>2, <1>5, <1>6, <2>1, TailIs
<1>8. /\ \A k \in DOMAIN notice : k # n => notice'[k] = notice[k]
      /\ notice'[n].todo = t /\ notice'[n].channels = s /\ notice'[n].began = notice[n].began
      /\ notice'[n].severity = notice[n].severity /\ notice'[n].overrides = notice[n].overrides
  BY DEF NoticeMoves
<1>9. OnceEach'
  <2>1. \A k \in DOMAIN notice : k # n =>
          /\ IsInjective(notice'[k].todo) /\ IsInjective(notice'[k].channels)
          /\ notice'[k].channels # <<>> => notice'[k].todo # <<>>
    BY <1>1, <1>8 DEF OnceEach
  <2>2. /\ IsInjective(t) /\ IsInjective(s)
        /\ s # <<>> => t # <<>>
    BY <1>6, <1>7, RangeOfNone DEF Turn
  <2>3. \A k \in DOMAIN notice : /\ IsInjective(notice'[k].todo) /\ IsInjective(notice'[k].channels)
                                 /\ notice'[k].channels # <<>> => notice'[k].todo # <<>>
    BY <1>8, <2>1, <2>2
  <2> QED BY <1>3, <2>3 DEF OnceEach
<1>10. ASSUME NEW k \in DOMAIN notice, NEW m \in Member PROVE ToldSoFar(k, m)'
  <2>0. PICK now : now = (m \in Range(notice[k].todo) /\ m = Head(notice[k].todo) /\ notice[k].channels # <<>>)
    OBVIOUS
  <2>1. /\ m \in Range(notice[k].todo) => preferences[m].row
        /\ <<k, m>> \notin excused =>
             /\ m \in Range(notice[k].todo) => preferences[m] = notice[k].began[m]
             /\ m \notin Range(notice[k].todo) => ToldOf(k, m) = Due(k, m)
             /\ m \in Range(notice[k].todo) /\ ~now => ToldOf(k, m) = {}
             /\ now => ToldOf(k, m) \cup Range(notice[k].channels) = Due(k, m)
    BY <1>1, <1>10, <2>0 DEF ToldSoFar
  <2>2. Due(k, m)' = Due(k, m)
    BY <1>8 DEF Due
  <2>3. CASE k # n
    <3>1. ToldOf(k, m)' = ToldOf(k, m) /\ notice'[k] = notice[k]
      BY <1>8, <2>3 DEF ToldOf, ToldIn
    <3> QED BY <2>0, <2>1, <2>2, <3>1 DEF ToldSoFar
  <2>4. CASE k = n /\ m # h
    <3>1. ToldOf(k, m)' = ToldOf(k, m)
      BY <1>5, <2>4 DEF ToldOf, ToldIn
    <3>2. m \in Range(t) <=> m \in Range(notice[k].todo)
      BY <1>6, <1>7, <2>4 DEF Turn
    <3>3. ~now
      BY <1>5, <2>0, <2>4
    <3>4. m \in Range(t) /\ s # <<>> => m # Head(t)
      BY <1>5, <2>4 DEF Turn
    <3>5. /\ notice'[k].todo = t /\ notice'[k].channels = s /\ notice'[k].began = notice[k].began
      BY <1>8, <2>4
    <3> QED BY <2>1, <2>2, <3>1, <3>2, <3>3, <3>4, <3>5 DEF ToldSoFar
  <2>5. CASE k = n /\ m = h
    <3>1. /\ notice'[k].todo = t /\ notice'[k].channels = s /\ notice'[k].began = notice[k].began
      BY <1>8, <2>5
    <3>2. CASE /\ t = Tail(notice[n].todo) /\ s = <<>>
               /\ <<n, h>> \in excused' \/ ToldOf(n, h)' = Due(n, h)
      <4>1. m \notin Range(t)
        BY <1>6, <1>7, <2>5, <3>2
      <4> QED BY <2>2, <2>5, <3>1, <3>2, <4>1 DEF ToldSoFar
    <3>3. CASE /\ t = notice[n].todo /\ s # <<>>
               /\ <<n, h>> \in excused' \/ ToldOf(n, h)' \cup Range(s) = Due(n, h)
      <4>1. m \in Range(t) /\ m = Head(t)
        BY <1>5, <1>7, <2>5, <3>3
      <4>2. preferences[m].row /\ (<<k, m>> \notin excused => preferences[m] = notice[k].began[m])
        BY <1>7, <2>1, <2>5
      <4> QED BY <2>2, <2>5, <3>1, <3>3, <4>1, <4>2 DEF ToldSoFar
    <3>4. \/ /\ t = Tail(notice[n].todo) /\ s = <<>>
             /\ <<n, h>> \in excused' \/ ToldIn(told', n, h) = Due(n, h)
          \/ /\ t = notice[n].todo /\ s # <<>>
             /\ <<n, h>> \in excused' \/ ToldIn(told', n, h) \cup Range(s) = Due(n, h)
      BY <1>5 DEF Turn
    <3>5. ToldIn(told', n, h) = ToldOf(n, h)'
      BY DEF ToldOf
    <3> QED BY <3>2, <3>3, <3>4, <3>5
  <2> QED BY <2>3, <2>4, <2>5
<1> QED BY <1>3, <1>4, <1>9, <1>10 DEF NoticeInv


-----------------------------------------------------------------------------
(* The steps.                                                                *)

\* Rows change, and who has been told of what does not.
LEMMA RowsChange ==
  ASSUME NoticeInv, preferences' \in [Member -> PreferenceRow], UNCHANGED <<notice, told>>,
         excused \subseteq excused',
         \A n \in DOMAIN notice, m \in Member : m \in Range(notice[n].todo) =>
           /\ preferences'[m].row
           /\ <<n, m>> \notin excused' => preferences'[m] = preferences[m]
  PROVE  NoticeInv'
<1>1. NoticesTyped /\ OnceEach /\ \A k \in DOMAIN notice, m \in Member : ToldSoFar(k, m)
  BY DEF NoticeInv
<1>2. notice' = notice /\ told' = told
  OBVIOUS
<1>3. NoticesTyped'
  BY <1>1, <1>2 DEF NoticesTyped
<1>4. OnceEach'
  BY <1>1, <1>2 DEF OnceEach
<1>5. ASSUME NEW k \in DOMAIN notice, NEW m \in Member PROVE ToldSoFar(k, m)'
  <2>0. PICK now : now = (m \in Range(notice[k].todo) /\ m = Head(notice[k].todo) /\ notice[k].channels # <<>>)
    OBVIOUS
  <2>1. /\ m \in Range(notice[k].todo) => preferences[m].row
        /\ <<k, m>> \notin excused =>
             /\ m \in Range(notice[k].todo) => preferences[m] = notice[k].began[m]
             /\ m \notin Range(notice[k].todo) => ToldOf(k, m) = Due(k, m)
             /\ m \in Range(notice[k].todo) /\ ~now => ToldOf(k, m) = {}
             /\ now => ToldOf(k, m) \cup Range(notice[k].channels) = Due(k, m)
    BY <1>1, <1>5, <2>0 DEF ToldSoFar
  <2>2. Due(k, m)' = Due(k, m) /\ ToldOf(k, m)' = ToldOf(k, m)
    BY <1>2 DEF Due, ToldOf
  <2>3. m \in Range(notice[k].todo) => preferences'[m].row /\ (<<k, m>> \notin excused' => preferences'[m] = preferences[m])
    BY <1>5
  <2> QED BY <1>2, <2>0, <2>1, <2>2, <2>3 DEF ToldSoFar
<1>6. DOMAIN notice' = DOMAIN notice
  BY <1>2
<1> QED BY <1>3, <1>4, <1>5, <1>6 DEF NoticeInv

LEMMA RowIsMade ==
  ASSUME NoticeInv, NEW u \in Member, GetPreferences(u)
  PROVE  NoticeInv'
<1>1. /\ ~preferences[u].row /\ preferences' = [preferences EXCEPT ![u] = DefaultPreferences]
      /\ UNCHANGED <<notice, told>> /\ excused' = excused
  BY DEF GetPreferences
<1>2. preferences \in [Member -> PreferenceRow]
  BY DEF NoticeInv, NoticesTyped
<1>3. preferences' \in [Member -> PreferenceRow]
  BY <1>1, <1>2 DEF PreferenceRow
<1>4. \A n \in DOMAIN notice, m \in Member : m \in Range(notice[n].todo) => preferences[m].row
  BY DEF NoticeInv, ToldSoFar
<1>5. ASSUME NEW n \in DOMAIN notice, NEW m \in Member, m \in Range(notice[n].todo)
      PROVE  preferences'[m] = preferences[m] /\ preferences[m].row
  BY <1>1, <1>2, <1>4, <1>5
<1> QED BY <1>1, <1>3, <1>5, RowsChange

LEMMA RowIsChanged ==
  ASSUME NoticeInv, NEW u \in Member, UpdatePreferences(u)
  PROVE  NoticeInv'
<1>0. preferences \in [Member -> PreferenceRow] /\ NoticesTyped /\ OnceEach
  BY DEF NoticeInv, NoticesTyped
<1>1. PICK r : r = IF preferences[u].row THEN preferences[u] ELSE DefaultPreferences
  OBVIOUS
<1>2. r \in Preferences
  BY <1>0, <1>1, RowsAre, NoRowIs
<1>3. PICK x \in Changes(r) : preferences' = [preferences EXCEPT ![u] = x]
  BY <1>1 DEF UpdatePreferences
<1>4. UNCHANGED <<notice, told>> /\ excused' = excused \cup {<<n, u>> : n \in Running}
  BY DEF UpdatePreferences
<1>5. x \in Preferences /\ x.row = TRUE
  BY <1>2, <1>3, ChangedIs
<1>6. preferences' \in [Member -> PreferenceRow]
  BY <1>0, <1>3, <1>5 DEF PreferenceRow
<1>7. \A n \in DOMAIN notice, m \in Member : m \in Range(notice[n].todo) => preferences[m].row
  BY DEF NoticeInv, ToldSoFar
<1>8. ASSUME NEW n \in DOMAIN notice, NEW m \in Member, m \in Range(notice[n].todo)
      PROVE  preferences'[m].row /\ (<<n, m>> \notin excused' => preferences'[m] = preferences[m])
  <2>1. CASE m = u
    <3>1. notice[n].todo # <<>>
      BY <1>8, RangeOfNone
    <3>2. <<n, u>> \in excused'
      BY <1>4, <3>1 DEF Running
    <3> QED BY <1>0, <1>3, <1>5, <2>1, <3>2
  <2>2. CASE m # u
    BY <1>0, <1>3, <1>7, <1>8, <2>2
  <2> QED BY <2>1, <2>2
<1>9. excused \subseteq excused'
  BY <1>4
<1> QED BY <1>4, <1>6, <1>8, <1>9, RowsChange


LEMMA EventIsDispatched ==
  ASSUME NoticeInv, NEW severity \in Severity, NEW overrides \in Overrides, dispatchToAllUsers(severity, overrides)
  PROVE  NoticeInv'
<1>1. NoticesTyped /\ OnceEach /\ \A k \in DOMAIN notice, m \in Member : ToldSoFar(k, m)
  BY DEF NoticeInv
<1>2. DOMAIN notice = 1 .. Len(notice) /\ Len(notice) \in Nat /\ notice \in Seq(NoticeType)
  BY <1>1, NoticesAre DEF NoticesTyped
<1>3. preferences \in [Member -> PreferenceRow] /\ told \subseteq (1 .. Len(notice)) \X Member \X Channel
  BY <1>1 DEF NoticesTyped
<1>4. PICK todo : todo = SetToSeq({m \in Member : preferences[m].row})
  OBVIOUS
<1>5. todo \in Seq(Member) /\ IsInjective(todo) /\ Range(todo) = {m \in Member : preferences[m].row}
  <2>1. IsFiniteSet({m \in Member : preferences[m].row})
    BY FS_Subset, NotificationAssumption
  <2>2. /\ todo \in Seq({m \in Member : preferences[m].row}) /\ IsInjective(todo)
        /\ Range(todo) = {m \in Member : preferences[m].row}
    BY <1>4, <2>1, SetToSeqIs
  <2> QED BY <2>2
<1>6. PICK d : d = [severity |-> severity, overrides |-> overrides, began |-> preferences,
                    todo |-> todo, channels |-> <<>>]
  OBVIOUS
<1>7. /\ notice' = Append(notice, d) /\ Len(notice) < MaxEvents
      /\ preferences' = preferences /\ told' = told /\ excused' = excused
  BY <1>4, <1>6 DEF dispatchToAllUsers
<1>8. d \in NoticeType
  BY <1>3, <1>5, <1>6 DEF NoticeType
<1>9. PICK N : N = Len(notice) + 1
  OBVIOUS
<1>10. /\ notice' \in Seq(NoticeType) /\ Len(notice') = N /\ DOMAIN notice' = 1 .. N
       /\ \A k \in DOMAIN notice : notice'[k] = notice[k]
       /\ notice'[N] = d
  BY <1>2, <1>7, <1>8, <1>9
<1>11. N \in Nat /\ N <= MaxEvents /\ N \notin DOMAIN notice /\ \A k \in 1 .. N : k = N \/ k \in DOMAIN notice
  BY <1>2, <1>7, <1>9, NotificationAssumption
<1>12. d.todo = todo /\ d.channels = <<>> /\ d.began = preferences
  BY <1>6
<1>13. NoticesTyped'
  <2>1. 1 .. Len(notice) \subseteq 1 .. N
    BY <1>2, <1>9
  <2>2. told' \subseteq (1 .. N) \X Member \X Channel
    BY <1>3, <1>7, <2>1
  <2> QED BY <1>3, <1>7, <1>10, <1>11, <2>2 DEF NoticesTyped
<1>14. OnceEach'
  <2>1. IsInjective(d.todo) /\ IsInjective(d.channels) /\ d.channels = <<>>
    BY <1>5, <1>12, RangeOfNone
  <2>2. \A k \in DOMAIN notice : /\ IsInjective(notice[k].todo) /\ IsInjective(notice[k].channels)
                                 /\ notice[k].channels # <<>> => notice[k].todo # <<>>
    BY <1>1 DEF OnceEach
  <2>3. \A k \in 1 .. N : /\ IsInjective(notice'[k].todo) /\ IsInjective(notice'[k].channels)
                          /\ notice'[k].channels # <<>> => notice'[k].todo # <<>>
    BY <1>10, <1>11, <2>1, <2>2
  <2> QED BY <1>10, <2>3 DEF OnceEach
<1>15. ASSUME NEW k \in 1 .. N, NEW m \in Member PROVE ToldSoFar(k, m)'
  <2>1. CASE k # N
    <3>0. k \in DOMAIN notice /\ notice'[k] = notice[k]
      BY <1>10, <1>11, <2>1
    <3>1. PICK now : now = (m \in Range(notice[k].todo) /\ m = Head(notice[k].todo) /\ notice[k].channels # <<>>)
      OBVIOUS
    <3>2. /\ m \in Range(notice[k].todo) => preferences[m].row
          /\ <<k, m>> \notin excused =>
               /\ m \in Range(notice[k].todo) => preferences[m] = notice[k].began[m]
               /\ m \notin Range(notice[k].todo) => ToldOf(k, m) = Due(k, m)
               /\ m \in Range(notice[k].todo) /\ ~now => ToldOf(k, m) = {}
               /\ now => ToldOf(k, m) \cup Range(notice[k].channels) = Due(k, m)
      BY <1>1, <3>0, <3>1 DEF ToldSoFar
    <3>3. Due(k, m)' = Due(k, m) /\ ToldOf(k, m)' = ToldOf(k, m)
      BY <1>7, <3>0 DEF Due, ToldOf
    <3> QED BY <1>7, <3>0, <3>1, <3>2, <3>3 DEF ToldSoFar
  <2>2. CASE k = N
    <3>1. notice'[k].todo = todo /\ notice'[k].channels = <<>> /\ notice'[k].began = preferences
      BY <1>10, <1>12, <2>2
    <3>2. ToldOf(k, m)' = {}
      <4>1. \A c \in Channel : <<k, m, c>> \notin told
        BY <1>2, <1>3, <1>11, <2>2
      <4> QED BY <1>7, <4>1 DEF ToldOf, ToldIn
    <3>3. ~preferences[m].row => Due(k, m)' = {}
      <4>1. Due(k, m)' = Recipients(preferences[m], notice'[k].severity, notice'[k].overrides)
        BY <3>1 DEF Due
      <4>2. preferences[m] \in PreferenceRow
        BY <1>3
      <4> QED BY <4>1, <4>2, RecipientsAre
    <3> QED BY <1>5, <1>7, <3>1, <3>2, <3>3 DEF ToldSoFar
  <2> QED BY <2>1, <2>2
<1> QED BY <1>10, <1>13, <1>14, <1>15 DEF NoticeInv

\* What the first user of a dispatch has been told, and how his row and dispatch are.
LEMMA FirstOne ==
  ASSUME NoticeInv, NEW n \in DOMAIN notice, notice[n].todo # <<>>, NEW h, h = Head(notice[n].todo)
  PROVE  /\ h \in Member /\ Tail(notice[n].todo) \in Seq(Member) /\ notice[n].todo \in Seq(Member)
         /\ notice[n].channels \in Seq(Channel) /\ IsInjective(notice[n].channels)
         /\ preferences[h] \in PreferenceRow /\ told \subseteq (1 .. Len(notice)) \X Member \X Channel
         /\ n \in 1 .. Len(notice)
         /\ <<n, h>> \notin excused =>
              /\ preferences[h] = notice[n].began[h]
              /\ notice[n].channels = <<>> => ToldOf(n, h) = {}
              /\ notice[n].channels # <<>> => ToldOf(n, h) \cup Range(notice[n].channels) = Due(n, h)
<1>1. NoticesTyped /\ OnceEach /\ \A k \in DOMAIN notice, m \in Member : ToldSoFar(k, m)
  BY DEF NoticeInv
<1>2. /\ DOMAIN notice = 1 .. Len(notice) /\ notice[n].todo \in Seq(Member) /\ notice[n].channels \in Seq(Channel)
  BY <1>1, NoticesAre
<1>3. IsInjective(notice[n].todo) /\ IsInjective(notice[n].channels)
  BY <1>1 DEF OnceEach
<1>4. h \in Member /\ Tail(notice[n].todo) \in Seq(Member) /\ h \in Range(notice[n].todo)
  BY <1>2, <1>3, TailIs
<1>5. preferences[h] \in PreferenceRow /\ told \subseteq (1 .. Len(notice)) \X Member \X Channel
  BY <1>1, <1>4 DEF NoticesTyped
<1>6. ToldSoFar(n, h)
  BY <1>1, <1>4
<1>7. <<n, h>> \notin excused =>
        /\ preferences[h] = notice[n].began[h]
        /\ notice[n].channels = <<>> => ToldOf(n, h) = {}
        /\ notice[n].channels # <<>> => ToldOf(n, h) \cup Range(notice[n].channels) = Due(n, h)
  BY <1>4, <1>6 DEF ToldSoFar
<1> QED BY <1>2, <1>3, <1>4, <1>5, <1>7


LEMMA UserIsRead ==
  ASSUME NoticeInv, NEW n, dispatch(n)
  PROVE  NoticeInv'
<1>1. n \in DOMAIN notice /\ notice[n].todo # <<>> /\ notice[n].channels = <<>>
  BY DEF dispatch, Running
<1>2. PICK h : h = Head(notice[n].todo)
  OBVIOUS
<1>3. /\ h \in Member /\ Tail(notice[n].todo) \in Seq(Member) /\ notice[n].todo \in Seq(Member)
      /\ preferences[h] \in PreferenceRow /\ told \subseteq (1 .. Len(notice)) \X Member \X Channel
      /\ <<n, h>> \notin excused => preferences[h] = notice[n].began[h] /\ ToldOf(n, h) = {}
  BY <1>1, <1>2, FirstOne
<1>4. PICK R : R = Recipients(preferences[h], notice[n].severity, notice[n].overrides)
  OBVIOUS
<1>5. PICK s : s = Served(R)
  OBVIOUS
<1>6. s \in Seq(Channel) /\ IsInjective(s) /\ Range(s) = R /\ (s = <<>> <=> R = {})
  <2>1. R \in SUBSET Channel
    BY <1>3, <1>4, RecipientsAre
  <2> QED BY <1>5, <2>1, ServedIs
<1>7. <<n, h>> \notin excused => Due(n, h) = R
  BY <1>3, <1>4 DEF Due
<1>8. notice' = IF s = <<>> THEN [notice EXCEPT ![n].todo = Tail(@)] ELSE [notice EXCEPT ![n].channels = s]
  BY <1>2, <1>4, <1>5 DEF dispatch, Now
<1>9. UNCHANGED <<preferences, told, excused>>
  BY DEF dispatch
<1>10. NoticesTyped
  BY DEF NoticeInv
<1>11. ToldIn(told', n, h) = ToldOf(n, h)
  BY <1>9 DEF ToldOf
<1>12. CASE s = <<>>
  <2>1. notice' = [notice EXCEPT ![n] = [notice[n] EXCEPT !.todo = Tail(notice[n].todo)]]
    BY <1>8, <1>12
  <2>2. NoticeMoves(n, Tail(notice[n].todo), <<>>)
    BY <1>1, <1>3, <1>10, <2>1, TodoMoves
  <2>3. <<n, h>> \in excused' \/ ToldIn(told', n, h) = Due(n, h)
    BY <1>3, <1>6, <1>7, <1>9, <1>11, <1>12
  <2>4. Turn(n, Tail(notice[n].todo), <<>>)
    BY <1>2, <2>3 DEF Turn
  <2> QED BY <1>1, <1>3, <1>9, <2>2, <2>4, TurnKeeps
<1>13. CASE s # <<>>
  <2>1. notice' = [notice EXCEPT ![n] = [notice[n] EXCEPT !.channels = s]]
    BY <1>8, <1>13
  <2>2. NoticeMoves(n, notice[n].todo, s)
    BY <1>1, <1>6, <1>10, <2>1, ChannelsMove
  <2>3. <<n, h>> \in excused' \/ ToldIn(told', n, h) \cup Range(s) = Due(n, h)
    BY <1>3, <1>6, <1>7, <1>9, <1>11
  <2>4. Turn(n, notice[n].todo, s)
    BY <1>2, <1>6, <1>13, <2>3 DEF Turn
  <2> QED BY <1>1, <1>3, <1>9, <2>2, <2>4, TurnKeeps
<1> QED BY <1>12, <1>13

LEMMA ChannelIsServed ==
  ASSUME NoticeInv, NEW n, NEW c, Sends(n, c)
  PROVE  NoticeInv'
<1>1. n \in DOMAIN notice /\ notice[n].todo # <<>> /\ notice[n].channels # <<>> /\ Head(notice[n].channels) = c
  BY DEF Sends, Running
<1>2. PICK h : h = Head(notice[n].todo)
  OBVIOUS
<1>3. /\ h \in Member /\ Tail(notice[n].todo) \in Seq(Member) /\ notice[n].todo \in Seq(Member)
      /\ notice[n].channels \in Seq(Channel) /\ IsInjective(notice[n].channels)
      /\ told \subseteq (1 .. Len(notice)) \X Member \X Channel /\ n \in 1 .. Len(notice)
      /\ <<n, h>> \notin excused => ToldOf(n, h) \cup Range(notice[n].channels) = Due(n, h)
  BY <1>1, <1>2, FirstOne
<1>4. PICK s : s = Tail(notice[n].channels)
  OBVIOUS
<1>5. /\ c \in Channel /\ s \in Seq(Channel) /\ IsInjective(s)
      /\ Range(notice[n].channels) = {c} \cup Range(s)
  BY <1>1, <1>3, <1>4, TailIs
<1>6. /\ preferences' = preferences
      /\ \/ told' = told \cup {<<n, h, c>>} /\ excused' = excused
         \/ excused' = excused \cup {<<n, h>>} /\ told' = told
  BY <1>2 DEF Sends, Now
<1>7. /\ told' \subseteq (1 .. Len(notice)) \X Member \X Channel /\ excused \subseteq excused'
      /\ \A k, m, d : k # n \/ m # h => (<<k, m, d>> \in told' <=> <<k, m, d>> \in told)
  <2>1. <<n, h, c>> \in (1 .. Len(notice)) \X Member \X Channel
    BY <1>3, <1>5
  <2> QED BY <1>3, <1>6, <2>1
<1>8. <<n, h>> \in excused' \/ ToldIn(told', n, h) \cup Range(s) = Due(n, h)
  <2>1. CASE excused' = excused \cup {<<n, h>>}
    BY <2>1
  <2>2. CASE told' = told \cup {<<n, h, c>>} /\ excused' = excused
    <3>1. ToldIn(told', n, h) = ToldOf(n, h) \cup {c}
      BY <1>5, <2>2 DEF ToldOf, ToldIn
    <3> QED BY <1>3, <1>5, <2>2, <3>1
  <2> QED BY <1>6, <2>1, <2>2
<1>9. NoticesTyped
  BY DEF NoticeInv
<1>10. notice' = Onward(n)
  BY DEF Sends
<1>11. CASE Len(notice[n].channels) > 1
  <2>1. notice' = [notice EXCEPT ![n] = [notice[n] EXCEPT !.channels = s]]
    BY <1>4, <1>10, <1>11 DEF Onward
  <2>2. NoticeMoves(n, notice[n].todo, s)
    BY <1>1, <1>5, <1>9, <2>1, ChannelsMove
  <2>3. s # <<>>
    <3>1. PICK q \in Seq(Channel) : q = notice[n].channels
      BY <1>3
    <3>2. Len(q) > 1 /\ s = Tail(q)
      BY <1>4, <1>11, <3>1
    <3>3. Len(s) = Len(q) - 1 /\ Len(q) \in Nat
      BY <3>1, <3>2
    <3>4. Len(s) # 0
      BY <3>2, <3>3
    <3>5. s = <<>> => Len(s) = 0
      OBVIOUS
    <3> QED BY <3>4, <3>5
  <2>4. Turn(n, notice[n].todo, s)
    BY <1>2, <1>5, <1>8, <2>3 DEF Turn
  <2> QED BY <1>1, <1>2, <1>6, <1>7, <2>2, <2>4, TurnKeeps
<1>12. CASE ~(Len(notice[n].channels) > 1)
  <2>1. notice' = [notice EXCEPT ![n].channels = <<>>, ![n].todo = Tail(notice[n].todo)]
    <3>1. notice' = [notice EXCEPT ![n].channels = <<>>, ![n].todo = Tail(@)]
      BY <1>10, <1>12 DEF Onward
    <3> QED BY <1>1, <1>9, <3>1, NoticesAre DEF NoticeType
  <2>2. NoticeMoves(n, Tail(notice[n].todo), <<>>)
    BY <1>1, <1>3, <1>9, <2>1, BothMove
  <2>3. Range(s) = {}
    <3>1. s = <<>>
      BY <1>1, <1>3, <1>4, <1>12
    <3> QED BY <3>1, RangeOfNone
  <2>4. <<n, h>> \in excused' \/ ToldIn(told', n, h) = Due(n, h)
    BY <1>8, <2>3
  <2>5. Turn(n, Tail(notice[n].todo), <<>>)
    BY <1>2, <2>4 DEF Turn
  <2> QED BY <1>1, <1>2, <1>6, <1>7, <2>2, <2>5, TurnKeeps
<1> QED BY <1>11, <1>12

LEMMA UserIsPassedOver ==
  ASSUME NoticeInv, NEW n, dispatchThrows(n)
  PROVE  NoticeInv'
<1>1. n \in DOMAIN notice /\ notice[n].todo # <<>> /\ notice[n].channels = <<>>
  BY DEF dispatchThrows, Running
<1>2. PICK h : h = Head(notice[n].todo)
  OBVIOUS
<1>3. Tail(notice[n].todo) \in Seq(Member) /\ told \subseteq (1 .. Len(notice)) \X Member \X Channel
  BY <1>1, <1>2, FirstOne
<1>4. /\ preferences' = preferences /\ told' = told /\ excused' = excused \cup {<<n, h>>}
      /\ notice' = [notice EXCEPT ![n] = [notice[n] EXCEPT !.todo = Tail(notice[n].todo)]]
  BY <1>2 DEF dispatchThrows, Now, Caught
<1>5. NoticesTyped
  BY DEF NoticeInv
<1>6. NoticeMoves(n, Tail(notice[n].todo), <<>>)
  BY <1>1, <1>3, <1>4, <1>5, TodoMoves
<1>7. Turn(n, Tail(notice[n].todo), <<>>)
  BY <1>2, <1>4 DEF Turn
<1>8. excused \subseteq excused'
  BY <1>4
<1> QED BY <1>1, <1>3, <1>4, <1>6, <1>7, <1>8, TurnKeeps

LEMMA NoticeStarts == NotificationInit => NoticeInv
<1> SUFFICES ASSUME NotificationInit PROVE NoticeInv
  OBVIOUS
<1>1. preferences = [m \in Member |-> NoPreferences] /\ notice = <<>> /\ told = {}
  BY DEF NotificationInit
<1>2. notice \in Seq(NoticeType) /\ Len(notice) = 0 /\ DOMAIN notice = {}
  BY <1>1
<1>3. preferences \in [Member -> PreferenceRow]
  BY <1>1 DEF PreferenceRow
<1>4. NoticesTyped
  BY <1>1, <1>2, <1>3, NotificationAssumption DEF NoticesTyped
<1> QED BY <1>2, <1>4 DEF NoticeInv, OnceEach

LEMMA NoticeNext == NoticeInv /\ [NotificationNext]_noticeVars => NoticeInv'
<1> SUFFICES ASSUME NoticeInv, [NotificationNext]_noticeVars PROVE NoticeInv'
  OBVIOUS
<1>1. CASE \E m \in Member : GetPreferences(m) \/ UpdatePreferences(m)
  BY <1>1, RowIsMade, RowIsChanged
<1>2. CASE \E severity \in Severity, overrides \in Overrides : dispatchToAllUsers(severity, overrides)
  BY <1>2, EventIsDispatched
<1>3. CASE \E n \in 1..MaxEvents : dispatch(n) \/ sendEmail(n) \/ sendSms(n) \/ sendWebhook(n) \/ dispatchThrows(n)
  <2>1. PICK n \in 1..MaxEvents : dispatch(n) \/ Sends(n, "email") \/ Sends(n, "sms") \/ Sends(n, "webhook") \/ dispatchThrows(n)
    BY <1>3 DEF sendEmail, sendSms, sendWebhook
  <2> QED BY <2>1, UserIsRead, ChannelIsServed, UserIsPassedOver
<1>4. CASE UNCHANGED noticeVars
  <2>1. UNCHANGED <<notice, told>> /\ preferences' = preferences /\ excused' = excused
    BY <1>4 DEF noticeVars
  <2>2. preferences' \in [Member -> PreferenceRow]
    BY <2>1 DEF NoticeInv, NoticesTyped
  <2>3. \A n \in DOMAIN notice, m \in Member : m \in Range(notice[n].todo) => preferences[m].row
    BY DEF NoticeInv, ToldSoFar
  <2> QED BY <2>1, <2>2, <2>3, RowsChange
<1> QED BY <1>1, <1>2, <1>3, <1>4 DEF NotificationNext

\* Types, for any number of users, events and faults: no user waits twice for one event, and
\* channels are served only for a user who waits (notification.service.ts).
THEOREM NotificationsTyped == NotificationSpec => []NotificationTypeOK
<1>1. NoticeInv => NotificationTypeOK
  <2> SUFFICES ASSUME NoticeInv PROVE NotificationTypeOK
    OBVIOUS
  <2>1. NoticesTyped /\ OnceEach
    BY DEF NoticeInv
  <2>2. \A m \in Member : preferences[m] \in {NoPreferences, DefaultPreferences} \cup Preferences
    BY <2>1 DEF NoticesTyped, PreferenceRow
  <2>3. told \subseteq (1..MaxEvents) \X Member \X Channel
    <3>1. 1 .. Len(notice) \subseteq 1 .. MaxEvents
      BY <2>1, NoticesAre, NotificationAssumption DEF NoticesTyped
    <3> QED BY <2>1, <3>1 DEF NoticesTyped
  <2> QED BY <2>1, <2>2, <2>3 DEF NotificationTypeOK, OnceEach
<1> QED BY <1>1, NoticeStarts, NoticeNext, PTL DEF NotificationSpec

\* Whatever dispatches overlap, whoever changes preferences and whatever provider fails: when
\* an event has been dispatched, each user was told of it on the channels the preferences ask
\* for that there were when it began, and on no other, but for users whose own preferences
\* changed or whose own message failed meanwhile (dispatchToAllUsers goes on after a failure).
THEOREM EveryoneTold == NotificationSpec => []EveryoneIsTold
<1>1. NoticeInv => EveryoneIsTold
  <2> SUFFICES ASSUME NoticeInv, NEW n \in DOMAIN notice \ Running, NEW m \in Member, <<n, m>> \notin excused
               PROVE  {c \in Channel : <<n, m, c>> \in told}
                        = Recipients(notice[n].began[m], notice[n].severity, notice[n].overrides)
    BY DEF EveryoneIsTold
  <2>1. notice[n].todo = <<>>
    BY DEF Running
  <2>2. m \notin Range(notice[n].todo)
    BY <2>1, RangeOfNone
  <2>3. ToldOf(n, m) = Due(n, m)
    BY <2>2 DEF NoticeInv, ToldSoFar
  <2> QED BY <2>3 DEF ToldOf, ToldIn, Due
<1> QED BY <1>1, NoticeStarts, NoticeNext, PTL DEF NotificationSpec
=============================================================================
