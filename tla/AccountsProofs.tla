--------------------------- MODULE AccountsProofs ---------------------------
(***************************************************************************)
(* Proofs about what a user of the panel has on the server, each component *)
(* by its own specification.  TerminalSessions: for any number of sockets  *)
(* and sessions, however stopping, disconnecting, the idle timer, exits    *)
(* and restarts interleave with the saves that are awaited.  AccountFiles  *)
(* and Databases: for any number of keys, jobs, databases, users and       *)
(* requests in flight, however often steps fail.                           *)
(***************************************************************************)
EXTENDS TerminalSessions, AccountFiles, Databases, FiniteSetTheorems, SequenceTheorems, TLAPS

-----------------------------------------------------------------------------
(* TerminalSessions: its inductive invariant, by parts.                      *)

\* Sessions are used one after the other.
UsedInOrder == \E n \in 0 .. MaxSessions : Used = 1 .. n

\* Only a socket that has connected has started any.
Starters == \A s \in Used : link[owner[s]] # "new"

\* Until its row is saved a session has no process and nothing ends it.
NotYet ==
  \A s \in Session : stage[s] \in {"unused", "creating"} =>
    pty[s] = "none" /\ row[s] = "none" /\ s \notin unkilled /\ \A e \in ending : e.session # s

\* The process of a session that is being ended was killed, has exited or could not be killed.
EndingsKill == \A e \in ending : pty[e.session] # "alive" \/ e.session \in unkilled

\* A socket only has a session that it started and whose process has not exited.
Mapped == \A c \in Socket : mapping[c] # NoSession => owner[mapping[c]] = c /\ Alive(mapping[c])

\* A client that waits for answers and whose sessions could all be killed.
Kept(c) == c \in Patient /\ \A u \in unkilled : owner[u] # c

Busy(s) == stage[s] = "creating" \/ Alive(s)

\* It has one session at a time that is being created or has a process.
OneShell ==
  \A c \in Socket : Kept(c) =>
    \A s, t \in Session : owner[s] = c /\ owner[t] = c /\ Busy(s) /\ Busy(t) => s = t

\* What it stops was all it had.
StopsAlone ==
  \A e \in ending : e.why = "stop" /\ Kept(e.client) =>
    \A s \in Session : owner[s] = e.client => stage[s] # "creating" /\ pty[s] # "alive"

\* A socket that went does not come back.
GoneForGood == \A e \in ending : e.why = "disconnect" => link[e.client] = "gone"

TerminalInv ==
  /\ TypeOK /\ UsedInOrder /\ Starters /\ NotYet /\ SessionsAccountedFor /\ EndingsKill
  /\ Mapped /\ OneShell /\ StopsAlone /\ GoneForGood /\ Reachable

-----------------------------------------------------------------------------
Link  == {"new", "on", "gone"}
Stage == {"unused", "creating", "open", "closed"}
Shell == {"none", "alive", "killed", "exited"}

LEMMA Constants ==
  /\ Socket # {} /\ MaxSessions \in Nat /\ MaxFaults \in Nat /\ MaxCrashes \in Nat /\ NoSession \notin Session
  /\ Session = 1 .. MaxSessions
BY UserAssumption, SessionAssumption, BoundAssumption DEF Session

LEMMA EndingFields ==
  \A e \in Ending : /\ e.session \in Session /\ e.client \in Socket
                    /\ e.why \in {"exit", "idle", "stop", "disconnect"}
BY DEF Ending

LEMMA NewEnding ==
  ASSUME NEW s \in Session, NEW c \in Socket, NEW why \in {"exit", "idle", "stop", "disconnect"}
  PROVE  /\ [session |-> s, why |-> why, client |-> c] \in Ending
         /\ [session |-> s, why |-> why, client |-> c].session = s
         /\ [session |-> s, why |-> why, client |-> c].why = why
         /\ [session |-> s, why |-> why, client |-> c].client = c
BY DEF Ending

\* The number of a new session is that of an unused one.
LEMMA NextSession ==
  ASSUME TerminalInv, NEW s, s = Cardinality(Used) + 1, s \in Session
  PROVE  /\ stage[s] = "unused"
         /\ \E n \in 0 .. MaxSessions : Used \cup {s} = 1 .. n
<1>1. PICK n \in 0 .. MaxSessions : Used = 1 .. n
  BY DEF TerminalInv, UsedInOrder
<1>2. n \in Nat /\ Cardinality(1 .. n) = n
  <2>1. n \in Nat
    BY Constants
  <2>2. Cardinality(1 .. n) = IF 1 > n THEN 0 ELSE n - 1 + 1
    BY <2>1, FS_Interval
  <2> QED BY <2>1, <2>2
<1>3. s = n + 1
  BY <1>1, <1>2
<1>4. s \notin Used /\ Used \cup {s} = 1 .. n + 1 /\ n + 1 \in 0 .. MaxSessions
  BY <1>1, <1>2, <1>3, Constants
<1> QED BY <1>4 DEF Used

\* Changes of the stages that do not use a new session.
LEMMA UsedStays ==
  ASSUME UsedInOrder, \A s \in Session : stage'[s] = "unused" <=> stage[s] = "unused"
  PROVE  UsedInOrder'
<1>1. Used' = Used
  BY DEF Used
<1> QED BY <1>1 DEF UsedInOrder

-----------------------------------------------------------------------------
(* Each step keeps the invariant.                                           *)

LEMMA ConnectStep == ASSUME TerminalInv, NEW c \in Socket, Connect(c) PROVE TerminalInv'
<1>1. /\ link[c] = "new" /\ link' = [link EXCEPT ![c] = "on"]
      /\ UNCHANGED <<mapping, stage, owner, pty, row, ending, unkilled, unsaved, ptyFaults, crashes>>
  BY DEF Connect, histVars
<1>2. /\ link' \in [Socket -> {"new", "on", "gone"}] /\ link'[c] = "on"
      /\ \A d \in Socket \ {c} : link'[d] = link[d]
  BY <1>1 DEF TerminalInv, TypeOK
<1>3. TypeOK'
  BY <1>1, <1>2 DEF TerminalInv, TypeOK
<1>4. UsedInOrder' /\ NotYet' /\ SessionsAccountedFor' /\ EndingsKill' /\ Mapped' /\ OneShell' /\ StopsAlone'
  <2>1. (UsedInOrder' <=> UsedInOrder) /\ (NotYet' <=> NotYet) /\ (SessionsAccountedFor' <=> SessionsAccountedFor)
    BY <1>1 DEF UsedInOrder, Used, NotYet, SessionsAccountedFor
  <2>2. (EndingsKill' <=> EndingsKill) /\ (Mapped' <=> Mapped)
    BY <1>1 DEF EndingsKill, Mapped, Alive
  <2>3. (OneShell' <=> OneShell) /\ (StopsAlone' <=> StopsAlone)
    BY <1>1 DEF OneShell, StopsAlone, Kept, Busy, Alive
  <2> QED BY <2>1, <2>2, <2>3 DEF TerminalInv
<1>5. GoneForGood'
  <2>1. \A e \in ending : link[e.client] = "gone" => link'[e.client] = "gone"
    BY <1>1, <1>2, EndingFields DEF TerminalInv, TypeOK
  <2> QED BY <1>1, <2>1 DEF TerminalInv, GoneForGood
<1>6. \A s \in Used : owner[s] # c /\ link'[owner[s]] = link[owner[s]]
  BY <1>1, <1>2 DEF TerminalInv, TypeOK, Starters, Used
<1>7. Starters' /\ Reachable'
  <2>1. Used' = Used /\ OpenSessions' = OpenSessions /\ OpenSessions \subseteq Used
    BY <1>1 DEF Used, OpenSessions
  <2> QED BY <1>1, <1>6, <2>1 DEF TerminalInv, Starters, Reachable
<1> QED BY <1>3, <1>4, <1>5, <1>7 DEF TerminalInv

\* A patient client whose sessions could be killed has none left when it starts one.
LEMMA NothingLeft ==
  ASSUME TerminalInv, NEW c \in Socket, Kept(c), link[c] = "on", mapping[c] \notin OpenSessions, ~Waiting(c)
  PROVE  \A s \in Used : owner[s] = c => ~Busy(s)
<1> SUFFICES ASSUME NEW s \in Used, owner[s] = c, Busy(s) PROVE FALSE
  OBVIOUS
<1>1. s \in Session /\ stage[s] # "creating" /\ pty[s] # "killed"
  BY DEF Waiting, Used
<1>2. pty[s] = "alive" /\ s \notin unkilled
  BY <1>1 DEF Busy, Alive, Kept
<1>3. s \in OpenSessions
  BY <1>1, <1>2 DEF TerminalInv, SessionsAccountedFor, OpenSessions
<1>4. mapping[c] = s
  BY <1>2, <1>3 DEF TerminalInv, Reachable, Kept
<1> QED BY <1>3, <1>4

LEMMA StartStep == ASSUME TerminalInv, NEW c \in Socket, Start(c) PROVE TerminalInv'
<1> DEFINE s == Cardinality(Used) + 1
<1>1. /\ link[c] = "on" /\ s \in Session /\ mapping[c] \notin OpenSessions /\ (c \in Patient => ~Waiting(c))
      /\ mapping' = [mapping EXCEPT ![c] = NoSession] /\ stage' = [stage EXCEPT ![s] = "creating"]
      /\ owner' = [owner EXCEPT ![s] = c]
      /\ UNCHANGED <<link, pty, row, ending, unkilled, unsaved, ptyFaults, crashes>>
  BY DEF Start, histVars
<1>2. stage[s] = "unused" /\ \E n \in 0 .. MaxSessions : Used \cup {s} = 1 .. n
  BY <1>1, NextSession
<1> HIDE DEF s
<1>3. /\ mapping' \in [Socket -> Session \cup {NoSession}] /\ mapping'[c] = NoSession
      /\ \A d \in Socket \ {c} : mapping'[d] = mapping[d]
  BY <1>1 DEF TerminalInv, TypeOK
<1>4. /\ stage' \in [Session -> {"unused", "creating", "open", "closed"}] /\ stage'[s] = "creating"
      /\ \A t \in Session \ {s} : stage'[t] = stage[t]
  BY <1>1 DEF TerminalInv, TypeOK
<1>5. /\ owner' \in [Session -> Socket] /\ owner'[s] = c
      /\ \A t \in Session \ {s} : owner'[t] = owner[t]
  BY <1>1 DEF TerminalInv, TypeOK
<1>6. TypeOK'
  BY <1>1, <1>3, <1>4, <1>5 DEF TerminalInv, TypeOK
<1>7. Used' = Used \cup {s} /\ OpenSessions' = OpenSessions /\ s \notin OpenSessions /\ s \notin Used
  BY <1>1, <1>2, <1>4 DEF Used, OpenSessions
<1>8. UsedInOrder'
  BY <1>2, <1>7 DEF UsedInOrder
<1>9. Starters'
  BY <1>1, <1>5, <1>7 DEF TerminalInv, Starters, Used
<1>10. pty[s] = "none" /\ row[s] = "none" /\ s \notin unkilled /\ (\A e \in ending : e.session # s) /\ ~Alive(s)
  BY <1>1, <1>2 DEF TerminalInv, NotYet, Alive
<1>11. NotYet' /\ EndingsKill' /\ GoneForGood'
  <2>1. NotYet'
    BY <1>1, <1>4, <1>10 DEF TerminalInv, NotYet
  <2> QED BY <1>1, <2>1 DEF TerminalInv, EndingsKill, GoneForGood
<1>12. SessionsAccountedFor'
  BY <1>1, <1>4, <1>10 DEF TerminalInv, SessionsAccountedFor
<1>13. Mapped'
  <2>1. ASSUME NEW d \in Socket, mapping'[d] # NoSession PROVE owner'[mapping'[d]] = d /\ Alive(mapping'[d])
    <3>1. mapping'[d] = mapping[d] /\ mapping[d] # NoSession /\ mapping[d] \in Session
      BY <1>3, <2>1 DEF TerminalInv, TypeOK
    <3>2. owner[mapping[d]] = d /\ Alive(mapping[d])
      BY <3>1 DEF TerminalInv, Mapped
    <3> QED BY <1>5, <1>10, <3>1, <3>2
  <2> QED BY <1>1, <2>1 DEF Mapped, Alive
<1>14. \A d : Kept(d)' <=> Kept(d)
  <2>1. \A u \in unkilled : owner'[u] = owner[u]
    BY <1>5, <1>10 DEF TerminalInv, TypeOK
  <2> QED BY <1>1, <2>1 DEF Kept
<1>15. Kept(c) => \A t \in Session \ {s} : owner[t] = c => ~Busy(t)
  <2>1. ASSUME Kept(c), NEW t \in Session \ {s}, owner[t] = c PROVE ~Busy(t)
    <3>1. CASE t \in Used
      BY <1>1, <2>1, <3>1, NothingLeft DEF Kept
    <3>2. CASE t \notin Used
      BY <3>2 DEF Used, TerminalInv, NotYet, Busy, Alive
    <3> QED BY <3>1, <3>2
  <2> QED BY <2>1
<1>16. \A t \in Session \ {s} : Busy(t)' <=> Busy(t)
  BY <1>1, <1>4 DEF Busy, Alive
<1>17. OneShell'
  <2>1. ASSUME NEW d \in Socket, Kept(d), NEW t \in Session, NEW u \in Session,
               owner'[t] = d, owner'[u] = d, Busy(t)', Busy(u)'
        PROVE  t = u
    <3>1. CASE d = c
      BY <1>5, <1>15, <1>16, <2>1, <3>1
    <3>2. CASE d # c
      <4>1. t # s /\ u # s
        BY <1>5, <2>1, <3>2
      <4> QED BY <1>5, <1>16, <2>1, <4>1 DEF TerminalInv, OneShell
    <3> QED BY <3>1, <3>2
  <2> QED BY <1>14, <2>1 DEF OneShell
<1>18. StopsAlone'
  <2>1. ASSUME NEW e \in ending, e.why = "stop", Kept(e.client), NEW t \in Session, owner'[t] = e.client
        PROVE  stage'[t] # "creating" /\ pty[t] # "alive"
    <3>1. e.client # c
      BY <1>1, <2>1 DEF Waiting, Kept
    <3>2. t # s /\ owner[t] = e.client
      BY <1>5, <2>1, <3>1
    <3> QED BY <1>4, <2>1, <3>2 DEF TerminalInv, StopsAlone
  <2> QED BY <1>1, <1>14, <2>1 DEF StopsAlone
<1>19. Reachable'
  <2>1. ASSUME NEW t \in OpenSessions, owner'[t] \in Patient, link[owner'[t]] = "on", pty[t] = "alive",
               \A u \in unkilled : owner'[u] # owner'[t]
        PROVE  mapping'[owner'[t]] = t
    <3>1. t # s /\ t \in Session /\ owner'[t] = owner[t] /\ owner[t] \in Socket
      BY <1>5, <1>7 DEF OpenSessions, TerminalInv, TypeOK
    <3>2. Kept(owner[t])
      BY <1>1, <1>14, <2>1, <3>1 DEF Kept
    <3>3. owner[t] # c
      BY <1>15, <2>1, <3>1, <3>2 DEF Busy, Alive
    <3>4. mapping[owner[t]] = t
      BY <2>1, <3>1, <3>2 DEF Kept, TerminalInv, Reachable
    <3> QED BY <1>3, <3>1, <3>3, <3>4
  <2> QED BY <1>1, <1>7, <2>1 DEF Reachable
<1> QED BY <1>6, <1>8, <1>9, <1>11, <1>12, <1>13, <1>17, <1>18, <1>19 DEF TerminalInv

LEMMA CreatedStep == ASSUME TerminalInv, NEW s \in Session, Created(s) PROVE TerminalInv'
<1> DEFINE c == owner[s]
<1>1. /\ stage[s] = "creating" /\ stage' = [stage EXCEPT ![s] = "open"] /\ pty' = [pty EXCEPT ![s] = "alive"]
      /\ row' = [row EXCEPT ![s] = "ACTIVE"] /\ mapping' = [mapping EXCEPT ![c] = s]
      /\ UNCHANGED <<link, owner, ending, unkilled, unsaved, ptyFaults, crashes>>
  BY DEF Created, histVars
<1>2. c \in Socket /\ owner[s] = c
  BY DEF TerminalInv, TypeOK
<1> HIDE DEF c
<1>3. /\ stage' \in [Session -> {"unused", "creating", "open", "closed"}] /\ stage'[s] = "open"
      /\ \A t \in Session \ {s} : stage'[t] = stage[t]
  BY <1>1 DEF TerminalInv, TypeOK
<1>4. /\ pty' \in [Session -> {"none", "alive", "killed", "exited"}] /\ pty'[s] = "alive"
      /\ \A t \in Session \ {s} : pty'[t] = pty[t]
  BY <1>1 DEF TerminalInv, TypeOK
<1>5. /\ row' \in [Session -> {"none", "ACTIVE", "ENDED", "ERROR"}] /\ row'[s] = "ACTIVE"
      /\ \A t \in Session \ {s} : row'[t] = row[t]
  BY <1>1 DEF TerminalInv, TypeOK
<1>6. /\ mapping' \in [Socket -> Session \cup {NoSession}] /\ mapping'[c] = s
      /\ \A d \in Socket \ {c} : mapping'[d] = mapping[d]
  BY <1>1, <1>2 DEF TerminalInv, TypeOK
<1>7. TypeOK'
  BY <1>1, <1>3, <1>4, <1>5, <1>6 DEF TerminalInv, TypeOK
<1>8. UsedInOrder'
  BY <1>1, <1>3, UsedStays DEF TerminalInv
<1>9. Starters'
  BY <1>1, <1>3 DEF TerminalInv, Starters, Used
<1>10. s \notin unkilled /\ \A e \in ending : e.session # s
  BY <1>1 DEF TerminalInv, NotYet
<1>11. NotYet' /\ SessionsAccountedFor'
  BY <1>1, <1>3, <1>4, <1>5 DEF TerminalInv, NotYet, SessionsAccountedFor
<1>12. EndingsKill' /\ GoneForGood'
  <2>1. \A e \in ending : pty'[e.session] = pty[e.session]
    BY <1>4, <1>10, EndingFields DEF TerminalInv, TypeOK
  <2> QED BY <1>1, <2>1 DEF TerminalInv, EndingsKill, GoneForGood
<1>13. Mapped'
  <2>1. ASSUME NEW d \in Socket, mapping'[d] # NoSession
        PROVE  owner[mapping'[d]] = d /\ pty'[mapping'[d]] \in {"alive", "killed"}
    <3>1. CASE d = c
      BY <1>2, <1>4, <1>6, <3>1
    <3>2. CASE d # c
      <4>1. mapping'[d] = mapping[d] /\ mapping[d] \in Session /\ owner[mapping[d]] = d /\ Alive(mapping[d])
        BY <1>6, <2>1, <3>2 DEF TerminalInv, TypeOK, Mapped
      <4>2. mapping[d] # s
        BY <1>2, <3>2, <4>1
      <4> QED BY <1>4, <4>1, <4>2 DEF Alive
    <3> QED BY <3>1, <3>2
  <2> QED BY <1>1, <2>1 DEF Mapped, Alive
<1>14. \A d : Kept(d)' <=> Kept(d)
  BY <1>1 DEF Kept
<1>15. \A t \in Session : Busy(t)' => Busy(t)
  BY <1>1, <1>3, <1>4 DEF Busy, Alive
<1>16. OneShell'
  BY <1>1, <1>14, <1>15 DEF TerminalInv, OneShell
<1>17. StopsAlone'
  <2>1. ASSUME NEW e \in ending, e.why = "stop", Kept(e.client), NEW t \in Session, owner[t] = e.client
        PROVE  stage'[t] # "creating" /\ pty'[t] # "alive"
    <3>1. stage[t] # "creating" /\ pty[t] # "alive"
      BY <2>1 DEF TerminalInv, StopsAlone
    <3> QED BY <1>1, <1>3, <1>4, <3>1
  <2> QED BY <1>1, <1>14, <2>1 DEF StopsAlone
<1>18. Reachable'
  <2>1. ASSUME NEW t \in Session, t \in OpenSessions', owner[t] \in Patient, link[owner[t]] = "on", pty'[t] = "alive",
               \A u \in unkilled : owner[u] # owner[t]
        PROVE  mapping'[owner[t]] = t
    <3>1. CASE t = s
      BY <1>2, <1>6, <3>1
    <3>2. CASE t # s
      <4>1. t \in OpenSessions /\ pty[t] = "alive" /\ Kept(owner[t]) /\ owner[t] \in Socket
        BY <1>3, <1>4, <2>1, <3>2 DEF OpenSessions, Kept, TerminalInv, TypeOK
      <4>2. Busy(t) /\ Busy(s)
        BY <1>1, <4>1 DEF Busy, Alive
      <4>3. owner[t] # c
        BY <1>2, <3>2, <4>1, <4>2 DEF TerminalInv, OneShell
      <4>4. mapping[owner[t]] = t
        BY <2>1, <4>1 DEF TerminalInv, Reachable
      <4> QED BY <1>6, <4>1, <4>3, <4>4
    <3> QED BY <3>1, <3>2
  <2>2. OpenSessions' \subseteq Session
    BY DEF OpenSessions
  <2> QED BY <1>1, <2>1, <2>2 DEF Reachable
<1> QED BY <1>7, <1>8, <1>9, <1>11, <1>12, <1>13, <1>16, <1>17, <1>18 DEF TerminalInv

\* The row cannot be saved, or the process cannot be spawned.
LEMMA NotCreatedStep ==
  ASSUME TerminalInv, NEW s \in Session, InsertFails(s) \/ SpawnFails(s)
  PROVE  TerminalInv'
<1>1. /\ stage[s] = "creating" /\ stage' = [stage EXCEPT ![s] = "closed"]
      /\ row' = row \/ row' = [row EXCEPT ![s] = "ERROR"]
      /\ ptyFaults' = ptyFaults \/ (ptyFaults < MaxFaults /\ ptyFaults' = ptyFaults + 1)
      /\ UNCHANGED <<link, mapping, owner, pty, ending, unkilled, unsaved, crashes>>
  BY DEF InsertFails, SpawnFails, histVars, Fault
<1>2. /\ stage' \in [Session -> {"unused", "creating", "open", "closed"}] /\ stage'[s] = "closed"
      /\ \A t \in Session \ {s} : stage'[t] = stage[t]
  BY <1>1 DEF TerminalInv, TypeOK
<1>3. /\ row' \in [Session -> {"none", "ACTIVE", "ENDED", "ERROR"}] /\ row'[s] \in {row[s], "ERROR"}
      /\ \A t \in Session \ {s} : row'[t] = row[t]
  BY <1>1 DEF TerminalInv, TypeOK
<1>4. ptyFaults' \in 0 .. MaxFaults
  BY <1>1, Constants DEF TerminalInv, TypeOK
<1>5. TypeOK'
  BY <1>1, <1>2, <1>3, <1>4 DEF TerminalInv, TypeOK
<1>6. UsedInOrder' /\ Starters'
  BY <1>1, <1>2, UsedStays DEF TerminalInv, Starters, Used
<1>7. pty[s] = "none" /\ row[s] = "none"
  BY <1>1 DEF TerminalInv, NotYet
<1>8. NotYet' /\ SessionsAccountedFor'
  BY <1>1, <1>2, <1>3, <1>7 DEF TerminalInv, NotYet, SessionsAccountedFor
<1>9. EndingsKill' /\ GoneForGood' /\ Mapped'
  BY <1>1 DEF TerminalInv, EndingsKill, GoneForGood, Mapped, Alive
<1>10. (\A d : Kept(d)' <=> Kept(d)) /\ \A t \in Session : Busy(t)' => Busy(t)
  BY <1>1, <1>2 DEF Kept, Busy, Alive
<1>11. OneShell' /\ StopsAlone'
  BY <1>1, <1>2, <1>10 DEF TerminalInv, OneShell, StopsAlone
<1>12. Reachable'
  BY <1>1, <1>2 DEF TerminalInv, Reachable, OpenSessions
<1> QED BY <1>5, <1>6, <1>8, <1>9, <1>11, <1>12 DEF TerminalInv

\* A session is being ended: by its own client, which had no other one, or by another.
LEMMA DestroyStep ==
  ASSUME TerminalInv, NEW s \in Session, NEW why \in {"idle", "stop", "disconnect"}, NEW c \in Socket,
         Destroy(s, why, c), UNCHANGED mapping, link' \in [Socket -> Link],
         \A d \in Socket : link'[d] = link[d] \/ link'[d] = "gone",
         why = "disconnect" => link'[c] = "gone",
         why = "stop" /\ c \in Patient => s = mapping[c]
  PROVE  TerminalInv'
<1> DEFINE e == [session |-> s, why |-> why, client |-> c]
<1>1. /\ stage[s] = "open" /\ ending' = ending \cup {e}
      /\ UNCHANGED <<stage, owner, row, unsaved, crashes, mapping>>
      /\ \/ pty' = [pty EXCEPT ![s] = IF pty[s] = "alive" THEN "killed" ELSE pty[s]] /\ UNCHANGED <<unkilled, ptyFaults>>
         \/ ptyFaults < MaxFaults /\ ptyFaults' = ptyFaults + 1 /\ unkilled' = unkilled \cup {s} /\ UNCHANGED pty
  BY DEF Destroy, OpenSessions, Fault
<1>2. e \in Ending /\ e.session = s /\ e.why = why /\ e.client = c
  BY NewEnding
<1> HIDE DEF e
<1>3. /\ pty' \in [Session -> {"none", "alive", "killed", "exited"}]
      /\ \A t \in Session : pty'[t] = pty[t] \/ (t = s /\ pty[s] = "alive" /\ pty'[s] = "killed")
      /\ pty'[s] # "alive" \/ s \in unkilled'
      /\ unkilled \subseteq unkilled' /\ unkilled' \subseteq unkilled \cup {s} /\ ptyFaults' \in 0 .. MaxFaults
  BY <1>1, Constants DEF TerminalInv, TypeOK
<1>4. TypeOK'
  BY <1>1, <1>2, <1>3 DEF TerminalInv, TypeOK, Link
<1>5. UsedInOrder' /\ Starters'
  <2>1. Used' = Used
    BY <1>1 DEF Used
  <2>2. \A t \in Used : owner[t] \in Socket
    BY DEF Used, TerminalInv, TypeOK
  <2> QED BY <1>1, <2>1, <2>2 DEF TerminalInv, UsedInOrder, Starters
<1>6. NotYet'
  <2>1. ASSUME NEW t \in Session, stage[t] \in {"unused", "creating"}
        PROVE  pty'[t] = "none" /\ row[t] = "none" /\ t \notin unkilled' /\ \A f \in ending' : f.session # t
    <3>1. t # s /\ pty[t] = "none" /\ row[t] = "none" /\ t \notin unkilled /\ \A f \in ending : f.session # t
      BY <1>1, <2>1 DEF TerminalInv, NotYet
    <3> QED BY <1>1, <1>2, <1>3, <3>1
  <2> QED BY <1>1, <2>1 DEF NotYet
<1>7. SessionsAccountedFor'
  BY <1>1, <1>3 DEF TerminalInv, SessionsAccountedFor
<1>8. EndingsKill'
  <2>1. \A f \in ending : pty'[f.session] # "alive" \/ f.session \in unkilled'
    BY <1>3, EndingFields DEF TerminalInv, TypeOK, EndingsKill
  <2> QED BY <1>1, <1>2, <1>3, <2>1 DEF EndingsKill
<1>9. GoneForGood'
  <2>1. \A f \in ending : f.why = "disconnect" => link'[f.client] = "gone"
    BY EndingFields DEF TerminalInv, TypeOK, GoneForGood
  <2> QED BY <1>1, <1>2, <2>1 DEF GoneForGood
<1>10. \A t \in Session : (Alive(t)' <=> Alive(t)) /\ (Busy(t)' <=> Busy(t))
  BY <1>1, <1>3 DEF Alive, Busy
<1>11. Mapped'
  <2>1. \A d \in Socket : mapping[d] # NoSession => mapping[d] \in Session
    BY DEF TerminalInv, TypeOK
  <2> QED BY <1>1, <1>10, <2>1 DEF TerminalInv, Mapped
<1>12. \A d : Kept(d)' => Kept(d)
  BY <1>1, <1>3 DEF Kept
<1>13. OneShell'
  BY <1>1, <1>10, <1>12 DEF TerminalInv, OneShell
<1>14. StopsAlone'
  <2>1. ASSUME NEW f \in ending, f.why = "stop", Kept(f.client), NEW t \in Session, owner[t] = f.client
        PROVE  stage[t] # "creating" /\ pty'[t] # "alive"
    <3>1. stage[t] # "creating" /\ pty[t] # "alive"
      BY <2>1 DEF TerminalInv, StopsAlone
    <3> QED BY <1>3, <3>1
  <2>2. ASSUME why = "stop", Kept(c)', NEW t \in Session, owner[t] = c
        PROVE  stage[t] # "creating" /\ pty'[t] # "alive"
    <3>1. Kept(c) /\ s = mapping[c] /\ s \notin unkilled'
      BY <1>1, <1>12, <2>2, Constants DEF Kept, TerminalInv, TypeOK, Mapped
    <3>2. owner[s] = c /\ Alive(s)
      BY <3>1, Constants DEF TerminalInv, Mapped
    <3>3. pty'[s] # "alive" /\ stage[s] # "creating"
      BY <1>1, <1>3, <3>1
    <3>4. Busy(t) => t = s
      BY <2>2, <3>1, <3>2 DEF TerminalInv, OneShell, Busy
    <3> QED BY <1>3, <3>3, <3>4 DEF Busy, Alive
  <2>3. \A f \in ending' : f \in ending \/ f = e
    BY <1>1
  <2> QED BY <1>1, <1>2, <1>12, <2>1, <2>2, <2>3 DEF StopsAlone
<1>15. Reachable'
  <2>1. ASSUME NEW t \in OpenSessions, owner[t] \in Patient, link'[owner[t]] = "on", pty'[t] = "alive",
               \A u \in unkilled' : owner[u] # owner[t]
        PROVE  mapping[owner[t]] = t
    <3>1. t \in Session /\ owner[t] \in Socket
      BY DEF OpenSessions, TerminalInv, TypeOK
    <3>2. link[owner[t]] = "on" /\ pty[t] = "alive" /\ \A u \in unkilled : owner[u] # owner[t]
      BY <1>3, <2>1, <3>1
    <3> QED BY <2>1, <3>2 DEF TerminalInv, Reachable
  <2>2. OpenSessions' = OpenSessions
    BY <1>1 DEF OpenSessions
  <2> QED BY <1>1, <2>1, <2>2 DEF Reachable
<1> QED BY <1>4, <1>5, <1>6, <1>7, <1>8, <1>9, <1>11, <1>13, <1>14, <1>15 DEF TerminalInv

LEMMA StopStep == ASSUME TerminalInv, NEW c \in Socket, Stop(c) PROVE TerminalInv'
<1>1. PICK s \in OpenSessions : /\ c \in Patient => s = mapping[c]
                        /\ Destroy(s, "stop", c)
                        /\ UNCHANGED <<link, mapping>>
  BY DEF Stop
<1>2. s \in Session /\ link' \in [Socket -> Link] /\ UNCHANGED mapping
  BY <1>1 DEF OpenSessions, TerminalInv, TypeOK, Link
<1>3. \A d \in Socket : link'[d] = link[d]
  BY <1>1
<1> QED BY <1>1, <1>2, <1>3, DestroyStep

LEMMA CleanupStep == ASSUME TerminalInv, NEW s \in Session, Cleanup(s) PROVE TerminalInv'
<1>1. Destroy(s, "idle", owner[s]) /\ UNCHANGED mapping /\ owner[s] \in Socket
  BY DEF Cleanup, TerminalInv, TypeOK
<1>2. link' \in [Socket -> Link] /\ \A d \in Socket : link'[d] = link[d]
  BY DEF Cleanup, TerminalInv, TypeOK, Link
<1> QED BY <1>1, <1>2, DestroyStep

LEMMA DisconnectStep == ASSUME TerminalInv, NEW c \in Socket, Disconnect(c) PROVE TerminalInv'
<1>1. /\ link' \in [Socket -> Link] /\ link'[c] = "gone" /\ link[c] = "on"
      /\ \A d \in Socket \ {c} : link'[d] = link[d]
  BY DEF Disconnect, TerminalInv, TypeOK, Link
<1>2. CASE mapping[c] \in OpenSessions
  <2>1. mapping[c] \in Session /\ Destroy(mapping[c], "disconnect", c) /\ UNCHANGED mapping
    BY <1>2 DEF Disconnect, OpenSessions
  <2> QED BY <1>1, <2>1, DestroyStep
<1>3. CASE mapping[c] \notin OpenSessions
  <2>1. /\ mapping' = [mapping EXCEPT ![c] = NoSession]
        /\ UNCHANGED <<stage, owner, pty, row, ending, unkilled, unsaved, ptyFaults, crashes>>
    BY <1>3 DEF Disconnect, histVars
  <2>2. /\ mapping' \in [Socket -> Session \cup {NoSession}] /\ mapping'[c] = NoSession
        /\ \A d \in Socket \ {c} : mapping'[d] = mapping[d]
    BY <2>1 DEF TerminalInv, TypeOK
  <2>3. TypeOK'
    BY <1>1, <2>1, <2>2 DEF TerminalInv, TypeOK, Link
  <2>4. UsedInOrder' /\ NotYet' /\ SessionsAccountedFor' /\ EndingsKill' /\ OneShell' /\ StopsAlone'
    <3>1. (UsedInOrder' <=> UsedInOrder) /\ (NotYet' <=> NotYet) /\ (SessionsAccountedFor' <=> SessionsAccountedFor)
      BY <2>1 DEF UsedInOrder, Used, NotYet, SessionsAccountedFor
    <3>2. EndingsKill' <=> EndingsKill
      BY <2>1 DEF EndingsKill
    <3>3. (OneShell' <=> OneShell) /\ (StopsAlone' <=> StopsAlone)
      BY <2>1 DEF OneShell, StopsAlone, Kept, Busy, Alive
    <3> QED BY <3>1, <3>2, <3>3 DEF TerminalInv
  <2>5. Starters' /\ GoneForGood'
    <3>1. \A d \in Socket : (link[d] # "new" => link'[d] # "new") /\ (link[d] = "gone" => link'[d] = "gone")
      BY <1>1
    <3>2. \A s \in Used : owner[s] \in Socket
      BY DEF Used, TerminalInv, TypeOK
    <3>3. Used' = Used /\ \A e \in ending : e.client \in Socket
      BY <2>1, EndingFields DEF Used, TerminalInv, TypeOK
    <3> QED BY <2>1, <3>1, <3>2, <3>3 DEF TerminalInv, Starters, GoneForGood
  <2>6. Mapped'
    BY <2>1, <2>2 DEF TerminalInv, Mapped, Alive
  <2>7. Reachable'
    <3>1. OpenSessions' = OpenSessions /\ \A s \in OpenSessions : owner[s] \in Socket
      BY <2>1 DEF OpenSessions, TerminalInv, TypeOK
    <3> QED BY <1>1, <2>1, <2>2, <3>1 DEF TerminalInv, Reachable
  <2> QED BY <2>3, <2>4, <2>5, <2>6, <2>7 DEF TerminalInv
<1> QED BY <1>2, <1>3

LEMMA ExitStep == ASSUME TerminalInv, NEW s \in Session, Exit(s) PROVE TerminalInv'
<1> DEFINE c == owner[s]
           e == [session |-> s, why |-> "exit", client |-> c]
<1>1. /\ Alive(s) /\ pty' = [pty EXCEPT ![s] = "exited"] /\ mapping' = [mapping EXCEPT ![c] = NoSession]
      /\ ending' = ending \/ (ending' = ending \cup {e} /\ s \in OpenSessions)
      /\ UNCHANGED <<link, stage, owner, row, unkilled, unsaved, ptyFaults, crashes>>
  BY DEF Exit, histVars
<1>2. c \in Socket /\ owner[s] = c
  BY DEF TerminalInv, TypeOK
<1>3. e \in Ending /\ e.session = s /\ e.why = "exit" /\ e.client = c
  BY <1>2, NewEnding
<1> HIDE DEF c, e
<1>4. /\ pty' \in [Session -> {"none", "alive", "killed", "exited"}] /\ pty'[s] = "exited"
      /\ \A t \in Session \ {s} : pty'[t] = pty[t]
  BY <1>1 DEF TerminalInv, TypeOK
<1>5. /\ mapping' \in [Socket -> Session \cup {NoSession}] /\ mapping'[c] = NoSession
      /\ \A d \in Socket \ {c} : mapping'[d] = mapping[d]
  BY <1>1, <1>2 DEF TerminalInv, TypeOK
<1>6. TypeOK'
  BY <1>1, <1>3, <1>4, <1>5 DEF TerminalInv, TypeOK
<1>7. UsedInOrder' /\ Starters'
  <2>1. Used' = Used
    BY <1>1 DEF Used
  <2> QED BY <1>1, <2>1 DEF TerminalInv, UsedInOrder, Starters
<1>8. stage[s] \notin {"unused", "creating"}
  BY <1>1 DEF TerminalInv, NotYet, Alive
<1>9. NotYet'
  <2>1. ASSUME NEW t \in Session, stage[t] \in {"unused", "creating"}
        PROVE  pty'[t] = "none" /\ row[t] = "none" /\ t \notin unkilled /\ \A f \in ending' : f.session # t
    <3>1. t # s /\ pty[t] = "none" /\ row[t] = "none" /\ t \notin unkilled /\ \A f \in ending : f.session # t
      BY <1>8, <2>1 DEF TerminalInv, NotYet
    <3> QED BY <1>1, <1>3, <1>4, <3>1
  <2> QED BY <1>1, <2>1 DEF NotYet
<1>10. SessionsAccountedFor'
  BY <1>1, <1>4 DEF TerminalInv, SessionsAccountedFor
<1>11. EndingsKill'
  <2>1. \A f \in ending : pty'[f.session] # "alive" \/ f.session \in unkilled
    BY <1>4, EndingFields DEF TerminalInv, TypeOK, EndingsKill
  <2> QED BY <1>1, <1>3, <1>4, <2>1 DEF EndingsKill
<1>12. GoneForGood'
  BY <1>1, <1>3 DEF TerminalInv, GoneForGood
<1>13. Mapped'
  <2>1. ASSUME NEW d \in Socket, mapping'[d] # NoSession
        PROVE  owner[mapping'[d]] = d /\ pty'[mapping'[d]] \in {"alive", "killed"}
    <3>1. d # c /\ mapping'[d] = mapping[d] /\ mapping[d] \in Session
      BY <1>5, <2>1 DEF TerminalInv, TypeOK
    <3>2. owner[mapping[d]] = d /\ Alive(mapping[d])
      BY <2>1, <3>1 DEF TerminalInv, Mapped
    <3> QED BY <1>2, <1>4, <3>1, <3>2 DEF Alive
  <2> QED BY <1>1, <2>1 DEF Mapped, Alive
<1>14. (\A d : Kept(d)' <=> Kept(d)) /\ \A t \in Session : Busy(t)' => Busy(t)
  BY <1>1, <1>4 DEF Kept, Busy, Alive
<1>15. OneShell'
  BY <1>1, <1>14 DEF TerminalInv, OneShell
<1>16. StopsAlone'
  <2>1. ASSUME NEW f \in ending, f.why = "stop", Kept(f.client), NEW t \in Session, owner[t] = f.client
        PROVE  stage[t] # "creating" /\ pty'[t] # "alive"
    <3>1. stage[t] # "creating" /\ pty[t] # "alive"
      BY <2>1 DEF TerminalInv, StopsAlone
    <3> QED BY <1>4, <3>1
  <2> QED BY <1>1, <1>3, <1>14, <2>1 DEF StopsAlone
<1>17. Reachable'
  <2>1. ASSUME NEW t \in OpenSessions, owner[t] \in Patient, link[owner[t]] = "on", pty'[t] = "alive",
               \A u \in unkilled : owner[u] # owner[t]
        PROVE  mapping'[owner[t]] = t
    <3>1. t \in Session /\ t # s /\ pty[t] = "alive" /\ Kept(owner[t]) /\ owner[t] \in Socket
      BY <1>4, <2>1 DEF OpenSessions, Kept, TerminalInv, TypeOK
    <3>2. owner[t] # c
      BY <1>1, <1>2, <3>1 DEF TerminalInv, OneShell, Busy, Alive
    <3>3. mapping[owner[t]] = t
      BY <2>1, <3>1 DEF TerminalInv, Reachable
    <3> QED BY <1>5, <3>1, <3>2, <3>3
  <2>2. OpenSessions' = OpenSessions
    BY <1>1 DEF OpenSessions
  <2> QED BY <1>1, <2>1, <2>2 DEF Reachable
<1> QED BY <1>6, <1>7, <1>9, <1>10, <1>11, <1>12, <1>13, <1>15, <1>16, <1>17 DEF TerminalInv

\* The entry that is deleted is of a client that had no other session, or has gone.
LEMMA EndSavedStep == ASSUME TerminalInv, NEW e \in ending, EndSaved(e) PROVE TerminalInv'
<1> DEFINE s == e.session
           c == e.client
<1>1. e \in Ending /\ s \in Session /\ c \in Socket /\ e.session = s /\ e.client = c
  BY EndingFields DEF TerminalInv, TypeOK
<1> HIDE DEF s, c
<1>2. /\ ending' = ending \ {e} /\ stage' = [stage EXCEPT ![s] = "closed"]
      /\ \/ mapping' = mapping
         \/ e.why \in {"stop", "disconnect"} /\ mapping' = [mapping EXCEPT ![c] = NoSession]
      /\ \/ row' = [row EXCEPT ![s] = "ENDED"] /\ unsaved' = unsaved /\ ptyFaults' = ptyFaults
         \/ ptyFaults < MaxFaults /\ ptyFaults' = ptyFaults + 1 /\ unsaved' = unsaved \cup {s} /\ row' = row
      /\ UNCHANGED <<link, owner, pty, unkilled, crashes>>
  BY DEF EndSaved, Fault, s, c
<1>3. /\ stage' \in [Session -> {"unused", "creating", "open", "closed"}] /\ stage'[s] = "closed"
      /\ \A t \in Session \ {s} : stage'[t] = stage[t]
  BY <1>1, <1>2 DEF TerminalInv, TypeOK
<1>4. /\ row' \in [Session -> {"none", "ACTIVE", "ENDED", "ERROR"}]
      /\ \A t \in Session \ {s} : row'[t] = row[t]
      /\ row'[s] = "ENDED" \/ s \in unsaved'
      /\ unsaved \subseteq unsaved' /\ unsaved' \subseteq unsaved \cup {s} /\ ptyFaults' \in 0 .. MaxFaults
  BY <1>1, <1>2, Constants DEF TerminalInv, TypeOK
<1>5. /\ mapping' \in [Socket -> Session \cup {NoSession}]
      /\ \A d \in Socket : \/ mapping'[d] = mapping[d]
                           \/ e.why \in {"stop", "disconnect"} /\ d = c /\ mapping'[d] = NoSession
  BY <1>1, <1>2 DEF TerminalInv, TypeOK
<1>6. TypeOK'
  BY <1>1, <1>2, <1>3, <1>4, <1>5 DEF TerminalInv, TypeOK
<1>7. stage[s] \notin {"unused", "creating"} /\ (pty[s] # "alive" \/ s \in unkilled)
  BY <1>1 DEF TerminalInv, NotYet, EndingsKill
<1>8. UsedInOrder' /\ Starters'
  <2>1. \A t \in Session : stage'[t] = "unused" <=> stage[t] = "unused"
    BY <1>3, <1>7
  <2> QED BY <1>2, <2>1, UsedStays DEF TerminalInv, Starters, Used
<1>9. NotYet'
  BY <1>2, <1>3, <1>4 DEF TerminalInv, NotYet
<1>10. SessionsAccountedFor'
  BY <1>2, <1>3, <1>4, <1>7 DEF TerminalInv, SessionsAccountedFor
<1>11. EndingsKill' /\ GoneForGood'
  BY <1>2 DEF TerminalInv, EndingsKill, GoneForGood
<1>12. Mapped'
  BY <1>2, <1>5 DEF TerminalInv, Mapped, Alive
<1>13. (\A d : Kept(d)' <=> Kept(d)) /\ \A t \in Session : Busy(t)' => Busy(t)
  BY <1>2, <1>3 DEF Kept, Busy, Alive
<1>14. OneShell'
  BY <1>2, <1>13 DEF TerminalInv, OneShell
<1>15. StopsAlone'
  <2>1. \A t \in Session : stage[t] # "creating" => stage'[t] # "creating"
    BY <1>3
  <2> QED BY <1>2, <1>13, <2>1 DEF TerminalInv, StopsAlone
<1>16. Reachable'
  <2>1. ASSUME NEW t \in OpenSessions, owner[t] \in Patient, link[owner[t]] = "on", pty[t] = "alive",
               \A u \in unkilled : owner[u] # owner[t]
        PROVE  mapping'[owner[t]] = t
    <3>1. t \in Session /\ owner[t] \in Socket /\ Kept(owner[t])
      BY <2>1 DEF OpenSessions, Kept, TerminalInv, TypeOK
    <3>2. mapping[owner[t]] = t
      BY <2>1 DEF TerminalInv, Reachable
    <3>3. owner[t] # c \/ e.why \notin {"stop", "disconnect"}
      <4>1. e.why # "stop" \/ owner[t] # c
        BY <1>1, <2>1, <3>1 DEF TerminalInv, StopsAlone
      <4>2. e.why # "disconnect" \/ owner[t] # c
        BY <1>1, <2>1 DEF TerminalInv, GoneForGood
      <4> QED BY <4>1, <4>2
    <3> QED BY <1>5, <3>1, <3>2, <3>3
  <2>2. OpenSessions' \subseteq OpenSessions
    BY <1>3 DEF OpenSessions
  <2> QED BY <1>2, <2>1, <2>2 DEF Reachable
<1> QED BY <1>6, <1>8, <1>9, <1>10, <1>11, <1>12, <1>14, <1>15, <1>16 DEF TerminalInv

LEMMA CrashStep == ASSUME TerminalInv, Crash PROVE TerminalInv'
<1>1. PICK saved \in SUBSET {s \in Session : stage[s] = "creating"} :
             row' = [s \in Session |-> IF s \in saved THEN "ACTIVE" ELSE row[s]]
  BY DEF Crash
<1>2. /\ crashes < MaxCrashes /\ crashes' = crashes + 1 /\ ending' = {}
      /\ unsaved' = unsaved \cup {s \in Used : stage[s] # "closed"}
      /\ UNCHANGED <<owner, unkilled, ptyFaults>>
  BY DEF Crash
<1>3. link' \in [Socket -> Link] /\ \A d \in Socket : link[d] # "new" => link'[d] # "new"
  BY DEF Crash, TerminalInv, TypeOK, Link
<1>4. mapping' \in [Socket -> Session \cup {NoSession}] /\ \A d \in Socket : mapping'[d] = NoSession
  BY DEF Crash
<1>5. /\ stage' \in [Session -> {"unused", "creating", "open", "closed"}]
      /\ \A s \in Session : stage'[s] = IF stage[s] = "unused" THEN "unused" ELSE "closed"
  BY DEF Crash, Used
<1>6. /\ pty' \in [Session -> {"none", "alive", "killed", "exited"}]
      /\ \A s \in Session : pty'[s] \in {pty[s], "exited"} /\ pty'[s] \notin {"alive", "killed"}
      /\ \A s \in Session : pty[s] = "none" => pty'[s] = "none"
  BY DEF Crash, Alive, TerminalInv, TypeOK
<1>7. /\ row' \in [Session -> {"none", "ACTIVE", "ENDED", "ERROR"}]
      /\ \A s \in Session : stage[s] # "creating" => row'[s] = row[s]
  BY <1>1 DEF TerminalInv, TypeOK
<1>8. crashes' \in 0 .. MaxCrashes /\ unsaved' \subseteq Session
  <2>1. crashes' \in 0 .. MaxCrashes
    BY <1>2, Constants DEF TerminalInv, TypeOK
  <2> QED BY <1>2, <2>1 DEF TerminalInv, TypeOK, Used
<1>9. TypeOK'
  BY <1>2, <1>3, <1>4, <1>5, <1>6, <1>7, <1>8 DEF TerminalInv, TypeOK, Link
<1>10. UsedInOrder' /\ Starters'
  <2>1. \A s \in Used : owner[s] \in Socket
    BY DEF Used, TerminalInv, TypeOK
  <2>2. Used' = Used
    BY <1>5 DEF Used
  <2> QED BY <1>2, <1>3, <2>1, <2>2 DEF TerminalInv, UsedInOrder, Starters
<1>11. NotYet'
  BY <1>2, <1>5, <1>6, <1>7 DEF TerminalInv, NotYet
<1>12. SessionsAccountedFor'
  BY <1>2, <1>5, <1>6, <1>7 DEF TerminalInv, SessionsAccountedFor, Used
<1>13. EndingsKill' /\ StopsAlone' /\ GoneForGood'
  BY <1>2 DEF EndingsKill, StopsAlone, GoneForGood
<1>14. Mapped' /\ OneShell'
  <2>1. \A s \in Session : ~Busy(s)'
    BY <1>5, <1>6 DEF Busy, Alive
  <2> QED BY <1>4, <2>1 DEF Mapped, OneShell
<1>15. Reachable'
  BY <1>5 DEF Reachable, OpenSessions
<1> QED BY <1>9, <1>10, <1>11, <1>12, <1>13, <1>14, <1>15 DEF TerminalInv

LEMMA InitInv == ASSUME Init PROVE TerminalInv
<1>1. (CHOOSE c \in Socket : TRUE) \in Socket
  BY Constants
<1>2. TypeOK
  BY <1>1, Constants DEF Init, TypeOK
<1>3. Used = {} /\ OpenSessions = {}
  BY DEF Init, Used, OpenSessions
<1>4. UsedInOrder
  <2>1. 0 \in 0 .. MaxSessions /\ 1 .. 0 = {}
    BY Constants
  <2> QED BY <1>3, <2>1 DEF UsedInOrder
<1>5. Starters /\ Reachable
  BY <1>3 DEF Starters, Reachable
<1>6. NotYet /\ SessionsAccountedFor /\ EndingsKill /\ Mapped /\ StopsAlone /\ GoneForGood
  BY DEF Init, NotYet, SessionsAccountedFor, EndingsKill, Mapped, StopsAlone, GoneForGood
<1>7. OneShell
  BY DEF Init, OneShell, Busy, Alive
<1> QED BY <1>2, <1>4, <1>5, <1>6, <1>7 DEF TerminalInv

\* Nothing happens.
LEMMA Unchanged == ASSUME TerminalInv, UNCHANGED vars PROVE TerminalInv'
<1>1. UNCHANGED <<link, mapping, stage, owner, pty, row, ending, unkilled, unsaved, ptyFaults, crashes>>
  BY DEF vars, histVars
<1>2. (TypeOK' <=> TypeOK) /\ (UsedInOrder' <=> UsedInOrder) /\ (Starters' <=> Starters) /\ (NotYet' <=> NotYet)
  BY <1>1 DEF TypeOK, UsedInOrder, Starters, NotYet, Used
<1>3. /\ SessionsAccountedFor' <=> SessionsAccountedFor
      /\ (EndingsKill' <=> EndingsKill) /\ (GoneForGood' <=> GoneForGood)
  BY <1>1 DEF SessionsAccountedFor, EndingsKill, GoneForGood
<1>4. (Mapped' <=> Mapped) /\ (OneShell' <=> OneShell) /\ (StopsAlone' <=> StopsAlone)
  BY <1>1 DEF Mapped, OneShell, StopsAlone, Kept, Busy, Alive
<1>5. Reachable' <=> Reachable
  BY <1>1 DEF Reachable, OpenSessions
<1> QED BY <1>2, <1>3, <1>4, <1>5 DEF TerminalInv

\* The inductive invariant holds in every state.
THEOREM TerminalInvariant == Spec => []TerminalInv
<1>1. Init => TerminalInv
  BY InitInv
<1>2. TerminalInv /\ [Next]_vars => TerminalInv'
  <2> SUFFICES ASSUME TerminalInv, [Next]_vars PROVE TerminalInv'
    OBVIOUS
  <2>1. CASE \E c \in Socket : Connect(c) \/ Start(c) \/ Stop(c) \/ Disconnect(c)
    BY <2>1, ConnectStep, StartStep, StopStep, DisconnectStep
  <2>2. CASE \E s \in Session : Created(s) \/ InsertFails(s) \/ SpawnFails(s) \/ Cleanup(s) \/ Exit(s)
    BY <2>2, CreatedStep, NotCreatedStep, CleanupStep, ExitStep
  <2>3. CASE \E e \in ending : EndSaved(e)
    BY <2>3, EndSavedStep
  <2>4. CASE Crash
    BY <2>4, CrashStep
  <2>5. CASE UNCHANGED vars
    BY <2>5, Unchanged
  <2> QED BY <2>1, <2>2, <2>3, <2>4, <2>5 DEF Next
<1> QED BY <1>1, <1>2, PTL DEF Spec

\* The variables always have their types.
THEOREM TerminalTyped == Spec => []TypeOK
<1>1. TerminalInv => TypeOK
  BY DEF TerminalInv
<1> QED BY <1>1, TerminalInvariant, PTL

\* Every shell that runs is in the map and not shown as ended, unless it could not
\* be killed; every session that left the map is not shown as active, unless its
\* end could not be saved.
THEOREM EveryShellKnown == Spec => []SessionsAccountedFor
<1>1. TerminalInv => SessionsAccountedFor
  BY DEF TerminalInv
<1> QED BY <1>1, TerminalInvariant, PTL

\* The socket of a connected client that waits for answers knows its running shell.
THEOREM SocketKnowsShell == Spec => []Reachable
<1>1. TerminalInv => Reachable
  BY DEF TerminalInv
<1> QED BY <1>1, TerminalInvariant, PTL


-----------------------------------------------------------------------------
(* AccountFiles: the keys, the jobs and the lock of one account.            *)

\* What is left to do of a request, by the part it changes.
KeyCourses  == {<<"saveKey", "readKeys", "writeKeys">>, <<"deleteKey", "readKeys", "writeKeys">>,
                <<"readKeys", "writeKeys">>, <<"writeKeys">>}
CronCourses == {<<"saveJob", "readJobs", "writeCrontab">>, <<"readJobs", "writeCrontab">>, <<"writeCrontab">>}
RowCourses  == {<<"lock", "shell", "saveUser">>, <<"shell", "saveUser">>, <<"rmKeys", "saveUser">>, <<"saveUser">>}

CallRecord ==
  [part : Parts \cup {"none"}, on : Key \cup Cron \cup {"row", "none"},
   todo : KeyCourses \cup CronCourses \cup RowCourses \cup {<<>>}, alone : BOOLEAN,
   to : AccountRow \cup JobValues \cup {"none"}, read : SUBSET (Key \cup Cron)]

OnCourse(c) ==
  \/ c = NoCall
  \/ c.part = "keys" /\ c.todo \in KeyCourses  /\ c.on \in Key  /\ c.read \subseteq Key
  \/ c.part = "cron" /\ c.todo \in CronCourses /\ c.on \in Cron /\ c.read \subseteq Cron
                     /\ c.to \in JobValues \cup {"none"}
  \/ c.part \in {"sftp", "status", "ssh"} /\ c.todo \in RowCourses /\ c.to \in AccountRow
       /\ (c.part # "status" => Head(c.todo) # "lock")

CallsTyped ==
  /\ call \in [Caller -> CallRecord]
  /\ \A p \in Caller : OnCourse(call[p])

RowsTyped ==
  /\ account \in AccountRow /\ keyRows \subseteq Key /\ cronRow \in [Cron -> JobValues \cup {"none"}]

ServerTyped ==
  /\ authorized \subseteq Key /\ crontab \subseteq Cron
  /\ posix \in [locked : BOOLEAN, shell : {"bash", "nologin"}]

\* A request that is alone has nobody beside it.
CallsAlone == \A p, q \in Caller : call[p].alone /\ q # p => call[q] = NoCall

\* A request for the part is in flight.
Under(which) == \E p \in Caller : call[p].part = which

\* A key of the file has its row, or a request is at it, or it is known to be loose;
\* and so for what the request that is about to write the file has read.
KeysKept ==
  /\ "keys" \in loose \/ Under("keys") \/ authorized \subseteq keyRows
  /\ \A p \in Caller : call[p].alone /\ CallAt(p, "writeKeys") => call[p].read \subseteq keyRows

JobsKept ==
  /\ "cron" \in loose \/ Under("cron") \/ crontab = ActiveJobs
  /\ \A p \in Caller : call[p].alone /\ CallAt(p, "writeCrontab") => call[p].read = ActiveJobs

\* Every request that saves the row saves the status with it, as it was loaded.
LockKept ==
  /\ "status" \in loose \/ Under("status") \/ (posix.locked <=> account.status = "SUSPENDED")
  /\ \A p \in Caller : call[p].part \in {"sftp", "ssh"} =>
       "status" \in loose \/ Under("status") \/ call[p].to.status = account.status
  /\ \A p \in Caller : call[p].alone /\ call[p].part = "status" /\ ~CallAt(p, "lock") =>
       (posix.locked <=> call[p].to.status = "SUSPENDED")

AccountInv ==
  CallsTyped /\ RowsTyped /\ ServerTyped /\ CallsAlone /\ KeysKept /\ JobsKept /\ LockKept

-----------------------------------------------------------------------------
(* The courses of requests, and how requests move along them.               *)

LEMMA KeyTable ==
  ASSUME NEW s \in KeyCourses
  PROVE  /\ s # <<>> /\ Head(s) \in {"saveKey", "deleteKey", "readKeys", "writeKeys"}
         /\ Head(s) = "writeKeys" => ~(Len(s) > 1)
         /\ Head(s) # "writeKeys" => Len(s) > 1 /\ Tail(s) \in KeyCourses
         /\ Head(s) \in {"saveKey", "deleteKey"} => Head(Tail(s)) = "readKeys"
<1>1. CASE s = <<"saveKey", "readKeys", "writeKeys">>
  BY <1>1 DEF KeyCourses
<1>2. CASE s = <<"deleteKey", "readKeys", "writeKeys">>
  BY <1>2 DEF KeyCourses
<1>3. CASE s = <<"readKeys", "writeKeys">>
  BY <1>3 DEF KeyCourses
<1>4. CASE s = <<"writeKeys">>
  BY <1>4 DEF KeyCourses
<1> QED BY <1>1, <1>2, <1>3, <1>4 DEF KeyCourses

LEMMA CronTable ==
  ASSUME NEW s \in CronCourses
  PROVE  /\ s # <<>> /\ Head(s) \in {"saveJob", "readJobs", "writeCrontab"}
         /\ Head(s) = "writeCrontab" => ~(Len(s) > 1)
         /\ Head(s) # "writeCrontab" => Len(s) > 1 /\ Tail(s) \in CronCourses
         /\ Head(s) = "saveJob" => Head(Tail(s)) = "readJobs"
<1>1. CASE s = <<"saveJob", "readJobs", "writeCrontab">>
  BY <1>1 DEF CronCourses
<1>2. CASE s = <<"readJobs", "writeCrontab">>
  BY <1>2 DEF CronCourses
<1>3. CASE s = <<"writeCrontab">>
  BY <1>3 DEF CronCourses
<1> QED BY <1>1, <1>2, <1>3 DEF CronCourses

LEMMA RowTable ==
  ASSUME NEW s \in RowCourses
  PROVE  /\ s # <<>> /\ Head(s) \in {"lock", "shell", "rmKeys", "saveUser"}
         /\ Head(s) = "saveUser" => ~(Len(s) > 1)
         /\ Head(s) # "saveUser" => Len(s) > 1 /\ Tail(s) \in RowCourses /\ Head(Tail(s)) # "lock"
<1>1. CASE s = <<"lock", "shell", "saveUser">>
  BY <1>1 DEF RowCourses
<1>2. CASE s = <<"shell", "saveUser">>
  BY <1>2 DEF RowCourses
<1>3. CASE s = <<"rmKeys", "saveUser">>
  BY <1>3 DEF RowCourses
<1>4. CASE s = <<"saveUser">>
  BY <1>4 DEF RowCourses
<1> QED BY <1>1, <1>2, <1>3, <1>4 DEF RowCourses

\* What the step a request is at says of it.
LEMMA StepTable ==
  ASSUME NEW c, OnCourse(c), c.todo # <<>>, NEW s, Head(c.todo) = s
  PROVE  /\ s \in {"saveKey", "deleteKey", "readKeys", "writeKeys"} <=> c.part = "keys"
         /\ s \in {"saveJob", "readJobs", "writeCrontab"} <=> c.part = "cron"
         /\ s \in {"lock", "shell", "rmKeys", "saveUser"} <=> c.part \in {"sftp", "status", "ssh"}
         /\ s = "lock" => c.part = "status"
         /\ Len(c.todo) > 1 <=> s \notin {"writeKeys", "writeCrontab", "saveUser"}
<1>1. c # NoCall
  BY DEF NoCall
<1>2. CASE c.part = "keys"
  <2>1. c.todo \in KeyCourses
    BY <1>1, <1>2 DEF OnCourse
  <2> QED BY <1>1, <1>2, <2>1, KeyTable
<1>3. CASE c.part = "cron"
  <2>1. c.todo \in CronCourses
    BY <1>1, <1>3 DEF OnCourse
  <2> QED BY <1>1, <1>3, <2>1, CronTable
<1>4. CASE c.part \in {"sftp", "status", "ssh"}
  <2>1. c.todo \in RowCourses /\ (c.part # "status" => Head(c.todo) # "lock")
    BY <1>1, <1>4 DEF OnCourse
  <2> QED BY <1>1, <1>4, <2>1, RowTable
<1> QED BY <1>1, <1>2, <1>3, <1>4 DEF OnCourse

LEMMA CallTable ==
  ASSUME CallsTyped, NEW p \in Caller, NEW s, CallAt(p, s)
  PROVE  /\ call[p] \in CallRecord /\ OnCourse(call[p]) /\ call[p] # NoCall
         /\ s \in {"saveKey", "deleteKey", "readKeys", "writeKeys"} <=> call[p].part = "keys"
         /\ s \in {"saveJob", "readJobs", "writeCrontab"} <=> call[p].part = "cron"
         /\ s \in {"lock", "shell", "rmKeys", "saveUser"} <=> call[p].part \in {"sftp", "status", "ssh"}
         /\ s = "lock" => call[p].part = "status"
         /\ Len(call[p].todo) > 1 <=> s \notin {"writeKeys", "writeCrontab", "saveUser"}
<1>1. call[p] \in CallRecord /\ OnCourse(call[p]) /\ call[p] # NoCall
  BY DEF CallsTyped, CallAt, NoCall
<1>2. call[p].todo # <<>> /\ Head(call[p].todo) = s
  BY DEF CallAt
<1> QED BY <1>1, <1>2, StepTable

\* The request takes a step or ends; nobody else's changes.
Goes(p) ==
  /\ CallsTyped' /\ CallsAlone'
  /\ \A q \in Caller : q # p => call'[q] = call[q]
  /\ \/ call'[p] = NoCall
     \/ /\ call'[p].part = call[p].part /\ call'[p].to = call[p].to
        /\ call'[p].todo = Tail(call[p].todo) /\ (call'[p].alone => call[p].alone)
        /\ loose' = loose
  /\ \A which : which # call[p].part /\ which \in loose => which \in loose'

\* A step that is not the last.
LEMMA CallTail ==
  ASSUME CallsTyped, CallsAlone, NEW p \in Caller, NEW s, CallAt(p, s), Len(call[p].todo) > 1,
         NEW c \in CallRecord, c.part = call[p].part, c.to = call[p].to, c.on = call[p].on,
         c.todo = Tail(call[p].todo), c.alone => call[p].alone,
         c.part = "keys" => c.read \subseteq Key, c.part = "cron" => c.read \subseteq Cron,
         call' = [call EXCEPT ![p] = c], loose' = loose
  PROVE  Goes(p)
<1>1. call \in [Caller -> CallRecord] /\ OnCourse(call[p]) /\ call[p] # NoCall
  BY CallTable DEF CallsTyped
<1>2. call'[p] = c /\ (\A q \in Caller : q # p => call'[q] = call[q]) /\ call' \in [Caller -> CallRecord]
  BY <1>1
<1>3. OnCourse(c)
  <2>1. CASE call[p].part = "keys"
    <3>1. call[p].todo \in KeyCourses /\ call[p].on \in Key
      BY <1>1, <2>1 DEF OnCourse
    <3>2. Tail(call[p].todo) \in KeyCourses
      BY <3>1, KeyTable
    <3> QED BY <2>1, <3>1, <3>2 DEF OnCourse
  <2>2. CASE call[p].part = "cron"
    <3>1. call[p].todo \in CronCourses /\ call[p].on \in Cron /\ call[p].to \in JobValues \cup {"none"}
      BY <1>1, <2>2 DEF OnCourse
    <3>2. Tail(call[p].todo) \in CronCourses
      BY <3>1, CronTable
    <3> QED BY <2>2, <3>1, <3>2 DEF OnCourse
  <2>3. CASE call[p].part \in {"sftp", "status", "ssh"}
    <3>1. call[p].todo \in RowCourses /\ call[p].to \in AccountRow
      BY <1>1, <2>3 DEF OnCourse
    <3>2. Tail(call[p].todo) \in RowCourses /\ Head(Tail(call[p].todo)) # "lock"
      BY <3>1, RowTable
    <3> QED BY <2>3, <3>1, <3>2 DEF OnCourse
  <2> QED BY <1>1, <2>1, <2>2, <2>3 DEF OnCourse
<1>4. CallsTyped'
  BY <1>1, <1>2, <1>3 DEF CallsTyped
<1>5. CallsAlone'
  BY <1>1, <1>2 DEF CallsAlone
<1> QED BY <1>2, <1>4, <1>5 DEF Goes

\* A request that ends.
LEMMA CallEnds ==
  ASSUME CallsTyped, CallsAlone, NEW p \in Caller, call' = [call EXCEPT ![p] = NoCall],
         \A which : which # call[p].part /\ which \in loose => which \in loose'
  PROVE  Goes(p) /\ call'[p] = NoCall
<1>1. NoCall \in CallRecord /\ OnCourse(NoCall) /\ ~NoCall.alone
  BY DEF NoCall, CallRecord, OnCourse
<1>2. /\ call'[p] = NoCall /\ (\A q \in Caller : q # p => call'[q] = call[q])
      /\ call' \in [Caller -> CallRecord]
  BY <1>1 DEF CallsTyped
<1>3. CallsTyped'
  BY <1>1, <1>2 DEF CallsTyped
<1>4. CallsAlone'
  BY <1>1, <1>2 DEF CallsAlone
<1> QED BY <1>2, <1>3, <1>4 DEF Goes

LEMMA CallAdvanced ==
  ASSUME CallsTyped, CallsAlone, NEW p \in Caller, NEW s, CallAt(p, s), NEW went \in BOOLEAN,
         CallAdvance(p, went)
  PROVE  /\ Goes(p)
         /\ s \in {"writeKeys", "writeCrontab", "saveUser"} =>
              /\ call'[p] = NoCall
              /\ loose' = IF call[p].alone /\ went THEN loose \ {call[p].part} ELSE loose \cup {call[p].part}
         /\ s \notin {"writeKeys", "writeCrontab", "saveUser"} =>
              call'[p].part = call[p].part /\ (call'[p].alone => went)
<1> DEFINE c0 == [call[p] EXCEPT !.todo = Tail(call[p].todo)]
           c  == [c0 EXCEPT !.alone = call[p].alone /\ went]
<1>1. call \in [Caller -> CallRecord] /\ OnCourse(call[p]) /\ call[p] \in CallRecord /\ call[p] # NoCall
  BY CallTable DEF CallsTyped
<1>2. CASE s \notin {"writeKeys", "writeCrontab", "saveUser"}
  <2>1. Len(call[p].todo) > 1
    BY <1>2, CallTable
  <2>2. call' = [call EXCEPT ![p] = c] /\ loose' = loose
    BY <2>1, <1>1 DEF CallAdvance
  <2>3. Tail(call[p].todo) \in KeyCourses \cup CronCourses \cup RowCourses
    BY <1>1, <1>2, CallTable, KeyTable, CronTable, RowTable DEF OnCourse, CallAt
  <2>0. /\ c0 \in CallRecord /\ c0.part = call[p].part /\ c0.to = call[p].to /\ c0.on = call[p].on
        /\ c0.read = call[p].read /\ c0.todo = Tail(call[p].todo)
    BY <1>1, <2>3 DEF CallRecord
  <2> HIDE DEF c0
  <2>4. c \in CallRecord
    BY <2>0 DEF CallRecord
  <2>5. /\ c.part = call[p].part /\ c.to = call[p].to /\ c.on = call[p].on /\ c.read = call[p].read
        /\ c.todo = Tail(call[p].todo) /\ c.alone = (call[p].alone /\ went)
    BY <2>0 DEF CallRecord
  <2>6. (c.part = "keys" => c.read \subseteq Key) /\ (c.part = "cron" => c.read \subseteq Cron)
    BY <1>1, <2>5 DEF OnCourse
  <2> HIDE DEF c
  <2>7. Goes(p)
    BY <2>1, <2>2, <2>4, <2>5, <2>6, CallTail
  <2>8. call'[p] = c
    BY <1>1, <2>2
  <2> QED BY <1>2, <2>5, <2>7, <2>8
<1>3. CASE s \in {"writeKeys", "writeCrontab", "saveUser"}
  <2>1. ~(Len(call[p].todo) > 1)
    BY <1>3, CallTable
  <2>2. /\ call' = [call EXCEPT ![p] = NoCall]
        /\ loose' = IF call[p].alone /\ went THEN loose \ {call[p].part} ELSE loose \cup {call[p].part}
    BY <2>1 DEF CallAdvance
  <2>3. \A which : which # call[p].part /\ which \in loose => which \in loose'
    BY <2>2
  <2> QED BY <1>3, <2>2, <2>3, CallEnds
<1> QED BY <1>2, <1>3

LEMMA CallGoesOn ==
  ASSUME AccountInv, NEW p \in Caller, NEW went \in BOOLEAN, CallAdvance(p, went),
         NEW s \in {"saveKey", "deleteKey", "rmKeys", "lock", "shell", "saveJob"}, CallAt(p, s)
  PROVE  Goes(p) /\ call'[p].part = call[p].part /\ (call'[p].alone => went)
<1>1. CallsTyped /\ CallsAlone
  BY DEF AccountInv
<1>2. s \notin {"writeKeys", "writeCrontab", "saveUser"}
  OBVIOUS
<1> QED BY <1>1, <1>2, CallAdvanced


-----------------------------------------------------------------------------
(* A request leaves the parts of others as they were.                       *)

LEMMA UnderOthers ==
  ASSUME CallsTyped, NEW p \in Caller, Goes(p), NEW which \in Parts
  PROVE  /\ which # call[p].part => (Under(which)' <=> Under(which))
         /\ call'[p] # NoCall => (Under(which)' <=> Under(which))
         /\ call'[p] # NoCall /\ which = call[p].part => Under(which)'
<1>1. NoCall.part \notin Parts
  BY DEF NoCall, Parts
<1>2. call'[p] = NoCall \/ call'[p].part = call[p].part
  BY DEF Goes
<1>3. \A q \in Caller : q # p => call'[q] = call[q]
  BY DEF Goes
<1> QED BY <1>1, <1>2, <1>3 DEF Under

LEMMA KeysFrame ==
  ASSUME AccountInv, NEW p \in Caller, Goes(p), call[p].part # "keys",
         keyRows' = keyRows, authorized' \in {authorized, {}}
  PROVE  KeysKept'
<1>1. "keys" \in loose' \/ Under("keys")' \/ authorized' \subseteq keyRows'
  BY UnderOthers DEF AccountInv, KeysKept, Goes, Parts
<1>2. ASSUME NEW q \in Caller, call'[q].alone, CallAt(q, "writeKeys")'
      PROVE  call'[q].read \subseteq keyRows'
  <2>1. q = p => call'[q].part = call[p].part \/ call'[q] = NoCall
    BY DEF Goes
  <2>2. call'[q].part = "keys"
    <3>1. OnCourse(call'[q]) /\ call'[q].todo # <<>> /\ Head(call'[q].todo) = "writeKeys"
      BY <1>2 DEF Goes, CallsTyped, CallAt
    <3> QED BY <3>1, StepTable
  <2>3. q # p /\ call'[q] = call[q]
    BY <2>1, <2>2 DEF NoCall, Goes
  <2> QED BY <1>2, <2>3 DEF AccountInv, KeysKept, CallAt
<1> QED BY <1>1, <1>2 DEF KeysKept

LEMMA JobsFrame ==
  ASSUME AccountInv, NEW p \in Caller, Goes(p), call[p].part # "cron",
         cronRow' = cronRow, crontab' = crontab
  PROVE  JobsKept'
<1>1. ActiveJobs' = ActiveJobs
  BY DEF ActiveJobs
<1>2. "cron" \in loose' \/ Under("cron")' \/ crontab' = ActiveJobs'
  BY <1>1, UnderOthers DEF AccountInv, JobsKept, Goes, Parts
<1>3. ASSUME NEW q \in Caller, call'[q].alone, CallAt(q, "writeCrontab")'
      PROVE  call'[q].read = ActiveJobs'
  <2>1. q = p => call'[q].part = call[p].part \/ call'[q] = NoCall
    BY DEF Goes
  <2>2. call'[q].part = "cron"
    <3>1. OnCourse(call'[q]) /\ call'[q].todo # <<>> /\ Head(call'[q].todo) = "writeCrontab"
      BY <1>3 DEF Goes, CallsTyped, CallAt
    <3> QED BY <3>1, StepTable
  <2>3. q # p /\ call'[q] = call[q]
    BY <2>1, <2>2 DEF NoCall, Goes
  <2> QED BY <1>1, <1>3, <2>3 DEF AccountInv, JobsKept, CallAt
<1> QED BY <1>2, <1>3 DEF JobsKept

LEMMA LockFrame ==
  ASSUME AccountInv, NEW p \in Caller, Goes(p), call[p].part # "status", posix'.locked = posix.locked,
         \/ account'.status = account.status
         \/ call[p].part \in {"sftp", "ssh"} /\ account'.status = call[p].to.status
  PROVE  LockKept'
<1>1. /\ "status" \in loose => "status" \in loose'
      /\ Under("status") <=> Under("status")'
  BY UnderOthers DEF AccountInv, Goes, Parts
<1>2. "status" \in loose \/ Under("status") \/ account'.status = account.status
  BY DEF AccountInv, LockKept
<1>3. "status" \in loose' \/ Under("status")' \/ (posix'.locked <=> account'.status = "SUSPENDED")
  BY <1>1, <1>2 DEF AccountInv, LockKept
<1>4. ASSUME NEW q \in Caller, call'[q].part \in {"sftp", "ssh"}
      PROVE  "status" \in loose' \/ Under("status")' \/ call'[q].to.status = account'.status
  <2>1. call'[q].to = call[q].to /\ call'[q].part = call[q].part
    BY <1>4 DEF Goes, NoCall
  <2> QED BY <1>1, <1>2, <1>4, <2>1 DEF AccountInv, LockKept
<1>5. ASSUME NEW q \in Caller, call'[q].alone, call'[q].part = "status", ~CallAt(q, "lock")'
      PROVE  posix'.locked <=> call'[q].to.status = "SUSPENDED"
  <2>1. q # p /\ call'[q] = call[q]
    BY <1>5 DEF Goes, NoCall
  <2> QED BY <1>5, <2>1 DEF AccountInv, LockKept, CallAt
<1> QED BY <1>3, <1>4, <1>5 DEF LockKept

-----------------------------------------------------------------------------
(* The steps of a request for keys.                                         *)

LEMMA KeySteps ==
  ASSUME AccountInv, NEW p \in Caller, SaveKey(p) \/ DeleteKey(p) \/ ReadKeys(p) \/ WriteKeys(p)
  PROVE  AccountInv'
<1> USE DEF AccountInv
<1>1. call[p].part = "keys" /\ call[p].on \in Key /\ call[p].read \subseteq Key
  <2>1. \E s \in {"saveKey", "deleteKey", "readKeys", "writeKeys"} : CallAt(p, s)
    BY DEF SaveKey, DeleteKey, ReadKeys, WriteKeys
  <2>2. call[p].part = "keys" /\ OnCourse(call[p]) /\ call[p] # NoCall
    BY <2>1, CallTable
  <2> QED BY <2>2 DEF OnCourse
<1>2. UNCHANGED <<account, cronRow, posix, crontab>>
  BY DEF SaveKey, DeleteKey, ReadKeys, WriteKeys, rows, server
<1>3. CASE SaveKey(p) \/ DeleteKey(p)
  <2>1. PICK s \in {"saveKey", "deleteKey"} : CallAt(p, s) /\ CallAdvance(p, TRUE)
    BY <1>3 DEF SaveKey, DeleteKey
  <2>2. Goes(p) /\ call'[p].part = call[p].part
    BY <2>1, CallAdvanced
  <2>3. RowsTyped' /\ ServerTyped'
    BY <1>1, <1>2, <1>3 DEF RowsTyped, ServerTyped, SaveKey, DeleteKey, server
  <2>4. KeysKept'
    <3>1. Under("keys")'
      BY <1>1, <2>2 DEF Under
    <3>2. ASSUME NEW q \in Caller, call'[q].alone, CallAt(q, "writeKeys")' PROVE FALSE
      <4>1. q # p => call'[q] = NoCall
        BY <2>1, <2>2, <3>2, CallTable DEF CallsAlone, Goes
      <4>2. q = p => call'[q] # NoCall /\ call'[q].todo = Tail(call[p].todo)
        BY <1>1, <2>2 DEF Goes, NoCall
      <4>3. call[p].todo \in KeyCourses /\ Head(call[p].todo) = s
        BY <1>1, <2>1, CallTable DEF OnCourse, NoCall, CallAt
      <4>4. Head(Tail(call[p].todo)) = "readKeys"
        BY <4>3, KeyTable
      <4>5. call'[q].todo # <<>> /\ Head(call'[q].todo) = "writeKeys"
        BY <3>2 DEF CallAt
      <4>6. q = p
        BY <4>1, <4>5 DEF NoCall
      <4> QED BY <4>2, <4>4, <4>5, <4>6
    <3> QED BY <3>1, <3>2 DEF KeysKept
  <2>5. JobsKept'
    BY <1>1, <1>2, <2>2, JobsFrame
  <2>6. LockKept'
    BY <1>1, <1>2, <2>2, LockFrame
  <2> QED BY <2>2, <2>3, <2>4, <2>5, <2>6 DEF Goes
<1>4. CASE ReadKeys(p)
  <2> DEFINE c == [call[p] EXCEPT !.todo = Tail(@), !.read = keyRows \ expired]
  <2>1. CallAt(p, "readKeys") /\ call' = [call EXCEPT ![p] = c] /\ loose' = loose /\ keyRows' = keyRows
    BY <1>4 DEF ReadKeys, rows
  <2>2. /\ call[p] \in CallRecord /\ Len(call[p].todo) > 1
        /\ call[p].todo \in KeyCourses /\ Tail(call[p].todo) \in KeyCourses
    BY <1>1, <2>1, CallTable, KeyTable DEF OnCourse, NoCall, CallAt
  <2>3. keyRows \ expired \subseteq Key
    BY DEF RowsTyped
  <2>4. c \in CallRecord
    BY <2>2, <2>3 DEF CallRecord
  <2>5. /\ c.part = call[p].part /\ c.to = call[p].to /\ c.on = call[p].on
        /\ c.read = keyRows \ expired
        /\ c.todo = Tail(call[p].todo) /\ c.alone = call[p].alone
    BY <2>2 DEF CallRecord
  <2> HIDE DEF c
  <2>6. Goes(p) /\ call'[p] = c
    BY <1>1, <2>1, <2>2, <2>3, <2>4, <2>5, CallTail DEF CallsTyped
  <2>7. RowsTyped' /\ ServerTyped'
    BY <1>2, <1>4 DEF RowsTyped, ServerTyped, ReadKeys, rows, server
  <2>8. KeysKept'
    <3>1. Under("keys")'
      BY <1>1, <2>5, <2>6 DEF Under
    <3>2. ASSUME NEW q \in Caller, call'[q].alone, CallAt(q, "writeKeys")'
          PROVE  call'[q].read \subseteq keyRows'
      <4>1. q # p => call'[q] = NoCall
        BY <2>1, <2>6, <3>2, CallTable DEF CallsAlone, Goes
      <4> QED BY <2>1, <2>5, <2>6, <3>2, <4>1 DEF CallAt, NoCall
    <3> QED BY <3>1, <3>2 DEF KeysKept
  <2>9. JobsKept'
    BY <1>1, <1>2, <2>6, JobsFrame
  <2>10. LockKept'
    BY <1>1, <1>2, <2>6, LockFrame
  <2> QED BY <2>6, <2>7, <2>8, <2>9, <2>10 DEF Goes
<1>5. CASE WriteKeys(p)
  <2>1. CallAt(p, "writeKeys") /\ CallAdvance(p, TRUE) /\ keyRows' = keyRows /\ authorized' = call[p].read
    BY <1>5 DEF WriteKeys, rows
  <2>2. /\ Goes(p) /\ call'[p] = NoCall
        /\ loose' = IF call[p].alone THEN loose \ {"keys"} ELSE loose \cup {"keys"}
    BY <1>1, <2>1, CallAdvanced
  <2>3. RowsTyped' /\ ServerTyped'
    BY <1>1, <1>2, <2>1, <1>5 DEF RowsTyped, ServerTyped, WriteKeys, rows, server
  <2>4. KeysKept'
    <3>1. "keys" \in loose' \/ authorized' \subseteq keyRows'
      BY <2>1, <2>2 DEF KeysKept
    <3>2. ASSUME NEW q \in Caller, call'[q].alone, CallAt(q, "writeKeys")'
          PROVE  call'[q].read \subseteq keyRows'
      <4>1. q # p /\ call'[q] = call[q]
        BY <2>2, <3>2 DEF Goes, NoCall
      <4> QED BY <2>1, <3>2, <4>1 DEF KeysKept, CallAt
    <3> QED BY <3>1, <3>2 DEF KeysKept
  <2>5. JobsKept'
    BY <1>1, <1>2, <2>2, JobsFrame
  <2>6. LockKept'
    BY <1>1, <1>2, <2>2, LockFrame
  <2> QED BY <2>2, <2>3, <2>4, <2>5, <2>6 DEF Goes
<1> QED BY <1>3, <1>4, <1>5

-----------------------------------------------------------------------------
(* The steps of a request for jobs.                                         *)

LEMMA JobSteps ==
  ASSUME AccountInv, NEW p \in Caller, SaveJob(p) \/ ReadJobs(p) \/ WriteCrontab(p)
  PROVE  AccountInv'
<1> USE DEF AccountInv
<1>1. /\ call[p].part = "cron" /\ call[p].on \in Cron /\ call[p].read \subseteq Cron
      /\ call[p].to \in JobValues \cup {"none"}
  <2>1. \E s \in {"saveJob", "readJobs", "writeCrontab"} : CallAt(p, s)
    BY DEF SaveJob, ReadJobs, WriteCrontab
  <2>2. call[p].part = "cron" /\ OnCourse(call[p]) /\ call[p] # NoCall
    BY <2>1, CallTable
  <2> QED BY <2>2 DEF OnCourse
<1>2. UNCHANGED <<account, keyRows, posix, authorized>>
  BY DEF SaveJob, ReadJobs, WriteCrontab, rows, server
<1>3. CASE SaveJob(p)
  <2>1. CallAt(p, "saveJob") /\ CallAdvance(p, TRUE)
    BY <1>3 DEF SaveJob
  <2>2. Goes(p) /\ call'[p].part = call[p].part
    BY <2>1, CallGoesOn
  <2>3. RowsTyped' /\ ServerTyped'
    BY <1>1, <1>2, <1>3 DEF RowsTyped, ServerTyped, SaveJob, server
  <2>4. JobsKept'
    <3>1. Under("cron")'
      BY <1>1, <2>2 DEF Under
    <3>2. ASSUME NEW q \in Caller, call'[q].alone, CallAt(q, "writeCrontab")' PROVE FALSE
      <4>1. q # p => call'[q] = NoCall
        BY <2>1, <2>2, <3>2, CallTable DEF CallsAlone, Goes
      <4>2. q = p => call'[q] # NoCall /\ call'[q].todo = Tail(call[p].todo)
        BY <1>1, <2>2 DEF Goes, NoCall
      <4>3. call[p].todo \in CronCourses /\ Head(call[p].todo) = "saveJob"
        BY <1>1, <2>1, CallTable DEF OnCourse, NoCall, CallAt
      <4>4. Head(Tail(call[p].todo)) = "readJobs"
        BY <4>3, CronTable
      <4>5. call'[q].todo # <<>> /\ Head(call'[q].todo) = "writeCrontab"
        BY <3>2 DEF CallAt
      <4>6. q = p
        BY <4>1, <4>5 DEF NoCall
      <4> QED BY <4>2, <4>4, <4>5, <4>6
    <3> QED BY <3>1, <3>2 DEF JobsKept
  <2>5. KeysKept'
    BY <1>1, <1>2, <2>2, KeysFrame
  <2>6. LockKept'
    BY <1>1, <1>2, <2>2, LockFrame
  <2> QED BY <2>2, <2>3, <2>4, <2>5, <2>6 DEF Goes
<1>4. CASE ReadJobs(p)
  <2> DEFINE c == [call[p] EXCEPT !.todo = Tail(@), !.read = ActiveJobs]
  <2>1. CallAt(p, "readJobs") /\ call' = [call EXCEPT ![p] = c] /\ loose' = loose /\ cronRow' = cronRow
    BY <1>4 DEF ReadJobs, rows
  <2>2. /\ call[p] \in CallRecord /\ Len(call[p].todo) > 1
        /\ call[p].todo \in CronCourses /\ Tail(call[p].todo) \in CronCourses
    BY <1>1, <2>1, CallTable, CronTable DEF OnCourse, NoCall, CallAt
  <2>3. ActiveJobs \subseteq Cron /\ ActiveJobs' = ActiveJobs
    BY <2>1 DEF ActiveJobs
  <2>4. c \in CallRecord
    BY <2>2, <2>3 DEF CallRecord
  <2>5. /\ c.part = call[p].part /\ c.to = call[p].to /\ c.on = call[p].on
        /\ c.read = ActiveJobs
        /\ c.todo = Tail(call[p].todo) /\ c.alone = call[p].alone
    BY <2>2 DEF CallRecord
  <2> HIDE DEF c
  <2>6. Goes(p) /\ call'[p] = c
    BY <1>1, <2>1, <2>2, <2>3, <2>4, <2>5, CallTail DEF CallsTyped
  <2>7. RowsTyped' /\ ServerTyped'
    BY <1>2, <1>4 DEF RowsTyped, ServerTyped, ReadJobs, rows, server
  <2>8. JobsKept'
    <3>1. Under("cron")'
      BY <1>1, <2>5, <2>6 DEF Under
    <3>2. ASSUME NEW q \in Caller, call'[q].alone, CallAt(q, "writeCrontab")'
          PROVE  call'[q].read = ActiveJobs'
      <4>1. q # p => call'[q] = NoCall
        BY <2>1, <2>6, <3>2, CallTable DEF CallsAlone, Goes
      <4> QED BY <2>3, <2>5, <2>6, <3>2, <4>1 DEF CallAt, NoCall
    <3> QED BY <3>1, <3>2 DEF JobsKept
  <2>9. KeysKept'
    BY <1>1, <1>2, <2>6, KeysFrame
  <2>10. LockKept'
    BY <1>1, <1>2, <2>6, LockFrame
  <2> QED BY <2>6, <2>7, <2>8, <2>9, <2>10 DEF Goes
<1>5. CASE WriteCrontab(p)
  <2>1. CallAt(p, "writeCrontab") /\ CallAdvance(p, TRUE) /\ cronRow' = cronRow /\ crontab' = call[p].read
    BY <1>5 DEF WriteCrontab, rows
  <2>2. /\ Goes(p) /\ call'[p] = NoCall
        /\ loose' = IF call[p].alone THEN loose \ {"cron"} ELSE loose \cup {"cron"}
    BY <1>1, <2>1, CallAdvanced
  <2>3. RowsTyped' /\ ServerTyped'
    BY <1>1, <1>2, <2>1, <1>5 DEF RowsTyped, ServerTyped, WriteCrontab, rows, server
  <2>4. JobsKept'
    <3>1. "cron" \in loose' \/ crontab' = ActiveJobs'
      BY <2>1, <2>2 DEF JobsKept, ActiveJobs
    <3>2. ASSUME NEW q \in Caller, call'[q].alone, CallAt(q, "writeCrontab")'
          PROVE  call'[q].read = ActiveJobs'
      <4>1. q # p /\ call'[q] = call[q]
        BY <2>2, <3>2 DEF Goes, NoCall
      <4> QED BY <2>1, <3>2, <4>1 DEF JobsKept, CallAt, ActiveJobs
    <3> QED BY <3>1, <3>2 DEF JobsKept
  <2>5. KeysKept'
    BY <1>1, <1>2, <2>2, KeysFrame
  <2>6. LockKept'
    BY <1>1, <1>2, <2>2, LockFrame
  <2> QED BY <2>2, <2>3, <2>4, <2>5, <2>6 DEF Goes
<1> QED BY <1>3, <1>4, <1>5

-----------------------------------------------------------------------------
(* The steps of a request for the row of the account.                       *)

LEMMA RowPart ==
  ASSUME AccountInv, NEW p \in Caller, NEW s \in {"lock", "shell", "rmKeys", "saveUser"}, CallAt(p, s)
  PROVE  /\ call[p].part \in {"sftp", "status", "ssh"} /\ call[p].to \in AccountRow
         /\ call[p].todo \in RowCourses
<1>1. call[p].part \in {"sftp", "status", "ssh"} /\ OnCourse(call[p]) /\ call[p] # NoCall
  BY CallTable DEF AccountInv
<1> QED BY <1>1 DEF OnCourse

LEMMA RmKeysStep ==
  ASSUME AccountInv, NEW p \in Caller, RmKeys(p)
  PROVE  AccountInv'
<1> USE DEF AccountInv
<1>1. CallAt(p, "rmKeys") /\ CallAdvance(p, TRUE) /\ authorized' = {} /\ UNCHANGED <<rows, posix, crontab>>
  BY DEF RmKeys
<1>2. call[p].part \in {"sftp", "status", "ssh"} /\ Goes(p)
  BY <1>1, CallTable, CallAdvanced
<1>3. RowsTyped' /\ ServerTyped'
  BY <1>1 DEF RowsTyped, ServerTyped, rows
<1>4. KeysKept' /\ JobsKept'
  BY <1>1, <1>2, KeysFrame, JobsFrame DEF rows
<1>5. LockKept'
  <2>1. CASE call[p].part # "status"
    BY <1>1, <1>2, <2>1, LockFrame DEF rows
  <2>2. CASE call[p].part = "status"
    <3>1. Under("status")'
      BY <1>1, <2>2, CallGoesOn DEF Under
    <3>2. ASSUME NEW q \in Caller, call'[q].alone, call'[q].part = "status", ~CallAt(q, "lock")'
          PROVE  posix'.locked <=> call'[q].to.status = "SUSPENDED"
      <4>1. call[q].alone /\ call[q].part = "status" /\ call'[q].to = call[q].to
        BY <1>2, <3>2 DEF Goes, NoCall
      <4>2. ~CallAt(q, "lock")
        <5>1. q = p => ~CallAt(q, "lock")
          BY <1>1 DEF CallAt
        <5>2. q # p => call'[q] = call[q]
          BY <1>2 DEF Goes
        <5> QED BY <3>2, <5>1, <5>2 DEF CallAt
      <4> QED BY <1>1, <4>1, <4>2 DEF LockKept
    <3> QED BY <3>1, <3>2 DEF LockKept
  <2> QED BY <2>1, <2>2
<1> QED BY <1>2, <1>3, <1>4, <1>5 DEF Goes

LEMMA UserLockStep ==
  ASSUME AccountInv, NEW p \in Caller, UserLock(p)
  PROVE  AccountInv'
<1> USE DEF AccountInv
<1>1. /\ CallAt(p, "lock") /\ CallAdvance(p, TRUE) /\ UNCHANGED <<rows, authorized, crontab>>
      /\ posix' = [posix EXCEPT !.locked = Lock(p)]
  BY DEF UserLock
<1>2. call[p].part = "status" /\ call[p] # NoCall
  BY <1>1, CallTable
<1>3. Goes(p) /\ call'[p].part = "status"
  BY <1>1, <1>2, CallGoesOn
<1>4. posix'.locked = Lock(p) /\ Lock(p) \in BOOLEAN /\ posix' \in [locked : BOOLEAN, shell : {"bash", "nologin"}]
  BY <1>1 DEF ServerTyped, Lock
<1>5. RowsTyped' /\ ServerTyped'
  BY <1>1, <1>4 DEF RowsTyped, ServerTyped, rows
<1>6. KeysKept' /\ JobsKept'
  BY <1>1, <1>2, <1>3, KeysFrame, JobsFrame DEF rows
<1>7. LockKept'
  <2>1. Under("status")'
    BY <1>3 DEF Under
  <2>2. ASSUME NEW q \in Caller, call'[q].alone, call'[q].part = "status", ~CallAt(q, "lock")'
        PROVE  posix'.locked <=> call'[q].to.status = "SUSPENDED"
    <3>1. q = p
      BY <1>2, <1>3, <2>2 DEF CallsAlone, Goes
    <3>2. call'[p].to = call[p].to
      BY <1>3 DEF Goes, NoCall
    <3> QED BY <1>4, <3>1, <3>2 DEF Lock
  <2> QED BY <2>1, <2>2 DEF LockKept
<1> QED BY <1>3, <1>5, <1>6, <1>7 DEF Goes

LEMMA UserShellStep ==
  ASSUME AccountInv, NEW p \in Caller, UserShell(p)
  PROVE  AccountInv'
<1> USE DEF AccountInv
<1>1. /\ CallAt(p, "shell") /\ CallAdvance(p, TRUE) /\ UNCHANGED <<rows, authorized, crontab>>
      /\ posix' = [posix EXCEPT !.shell = NewShell(call[p])]
  BY DEF UserShell
<1>2. call[p].part \in {"sftp", "status", "ssh"} /\ call[p] # NoCall
  BY <1>1, CallTable
<1>3. Goes(p) /\ call'[p].part = call[p].part
  BY <1>1, CallGoesOn
<1>4. NewShell(call[p]) \in {"bash", "nologin"}
  BY DEF NewShell
<1>5. posix'.locked = posix.locked /\ posix' \in [locked : BOOLEAN, shell : {"bash", "nologin"}]
  BY <1>1, <1>4 DEF ServerTyped
<1>6. RowsTyped' /\ ServerTyped'
  BY <1>1, <1>5 DEF RowsTyped, ServerTyped, rows
<1>7. KeysKept' /\ JobsKept'
  BY <1>1, <1>2, <1>3, KeysFrame, JobsFrame DEF rows
<1>8. LockKept'
  <2>1. CASE call[p].part # "status"
    BY <1>1, <1>3, <1>5, <2>1, LockFrame DEF rows
  <2>2. CASE call[p].part = "status"
    <3>1. Under("status")'
      BY <1>3, <2>2 DEF Under
    <3>2. ASSUME NEW q \in Caller, call'[q].alone, call'[q].part = "status", ~CallAt(q, "lock")'
          PROVE  posix'.locked <=> call'[q].to.status = "SUSPENDED"
      <4>1. call[q].alone /\ call[q].part = "status" /\ call'[q].to = call[q].to
        BY <1>3, <3>2 DEF Goes, NoCall
      <4>2. q = p
        BY <1>2, <4>1 DEF CallsAlone
      <4>3. ~CallAt(q, "lock")
        BY <1>1, <4>2 DEF CallAt
      <4> QED BY <1>5, <4>1, <4>3 DEF LockKept
    <3> QED BY <3>1, <3>2 DEF LockKept
  <2> QED BY <2>1, <2>2
<1> QED BY <1>3, <1>6, <1>7, <1>8 DEF Goes

LEMMA SaveUserStep ==
  ASSUME AccountInv, NEW p \in Caller, SaveUserRow(p)
  PROVE  AccountInv'
<1> USE DEF AccountInv
<1>1. /\ CallAt(p, "saveUser") /\ CallAdvance(p, TRUE) /\ account' = call[p].to
      /\ UNCHANGED <<keyRows, expired, cronRow, server>>
  BY DEF SaveUserRow
<1>2. /\ call[p].part \in {"sftp", "status", "ssh"} /\ call[p] # NoCall /\ call[p].to \in AccountRow
  BY <1>1, CallTable, RowPart
<1>3. /\ Goes(p) /\ call'[p] = NoCall
      /\ loose' = IF call[p].alone THEN loose \ {call[p].part} ELSE loose \cup {call[p].part}
  BY <1>1, CallAdvanced
<1>4. RowsTyped' /\ ServerTyped'
  BY <1>1, <1>2 DEF RowsTyped, ServerTyped, server
<1>5. KeysKept' /\ JobsKept'
  BY <1>1, <1>2, <1>3, KeysFrame, JobsFrame DEF server
<1>6. LockKept'
  <2>1. CASE call[p].part # "status"
    BY <1>1, <1>2, <1>3, <2>1, LockFrame DEF server
  <2>2. CASE call[p].part = "status"
    <3>1. posix' = posix /\ ~CallAt(p, "lock")
      BY <1>1 DEF server, CallAt
    <3>2. "status" \in loose' \/ (posix'.locked <=> account'.status = "SUSPENDED")
      BY <1>1, <1>3, <2>2, <3>1 DEF LockKept
    <3>3. ASSUME NEW q \in Caller, call'[q].part \in {"sftp", "status", "ssh"}
          PROVE  "status" \in loose' /\ ~call'[q].alone
      <4>1. q # p /\ call'[q] = call[q] /\ call[q] # NoCall
        BY <1>3, <3>3 DEF NoCall, Goes
      <4>2. ~call[p].alone /\ ~call[q].alone
        BY <1>2, <4>1 DEF CallsAlone
      <4> QED BY <1>3, <2>2, <4>1, <4>2
    <3> QED BY <3>2, <3>3 DEF LockKept
  <2> QED BY <2>1, <2>2
<1> QED BY <1>3, <1>4, <1>5, <1>6 DEF Goes

-----------------------------------------------------------------------------
(* Steps that fail.                                                         *)

\* A request that ends with its part loose.
LEMMA Loosened ==
  ASSUME AccountInv, NEW p \in Caller, call[p] # NoCall, Goes(p), call'[p] = NoCall,
         call[p].part \in loose', UNCHANGED <<rows, server>>
  PROVE  AccountInv'
<1> USE DEF AccountInv
<1>1. RowsTyped' /\ ServerTyped' /\ ActiveJobs' = ActiveJobs
  BY DEF RowsTyped, ServerTyped, rows, server, ActiveJobs
<1>2. \A q \in Caller : q # p => call'[q] = call[q]
  BY DEF Goes
<1>3. KeysKept'
  <2>1. CASE call[p].part # "keys"
    BY <2>1, KeysFrame DEF rows, server
  <2>2. CASE call[p].part = "keys"
    BY <1>2, <2>2 DEF KeysKept, NoCall, CallAt, rows
  <2> QED BY <2>1, <2>2
<1>4. JobsKept'
  <2>1. CASE call[p].part # "cron"
    BY <2>1, JobsFrame DEF rows, server
  <2>2. CASE call[p].part = "cron"
    BY <1>1, <1>2, <2>2 DEF JobsKept, NoCall, CallAt
  <2> QED BY <2>1, <2>2
<1>5. LockKept'
  <2>1. CASE call[p].part # "status"
    BY <2>1, LockFrame DEF rows, server
  <2>2. CASE call[p].part = "status"
    <3>1. \A q \in Caller : call'[q].alone => FALSE
      BY <1>2 DEF CallsAlone, NoCall
    <3> QED BY <2>2, <3>1 DEF LockKept
  <2> QED BY <2>1, <2>2
<1> QED BY <1>1, <1>3, <1>4, <1>5 DEF Goes

LEMMA CallFailsStep ==
  ASSUME AccountInv, NEW p \in Caller, CallFails(p)
  PROVE  AccountInv'
<1>1. CallFailed(p) /\ UNCHANGED <<rows, server>> /\ \E s : CallAt(p, s)
  BY DEF CallFails
<1>2. CallsTyped /\ CallsAlone /\ call[p] # NoCall
  BY <1>1, CallTable DEF AccountInv
<1>3. call' = [call EXCEPT ![p] = NoCall] /\ loose' = loose \cup {call[p].part}
  BY <1>1 DEF CallFailed
<1>4. Goes(p) /\ call'[p] = NoCall /\ call[p].part \in loose'
  BY <1>2, <1>3, CallEnds
<1> QED BY <1>1, <1>2, <1>4, Loosened

LEMMA CommandIgnoredStep ==
  ASSUME AccountInv, NEW p \in Caller, CommandIgnored(p)
  PROVE  AccountInv'
<1>1. CallsTyped /\ CallsAlone /\ CallAdvance(p, FALSE) /\ UNCHANGED <<rows, server>>
  BY DEF CommandIgnored, AccountInv
<1>2. PICK s \in {"writeCrontab", "rmKeys", "lock", "shell"} : CallAt(p, s)
  BY DEF CommandIgnored
<1>3. call[p] # NoCall
  BY <1>1, <1>2, CallTable
<1>4. CASE s = "writeCrontab"
  <2>1. Goes(p) /\ call'[p] = NoCall /\ call[p].part \in loose'
    BY <1>1, <1>2, <1>4, CallAdvanced
  <2> QED BY <1>1, <1>3, <2>1, Loosened
<1>5. CASE s \in {"rmKeys", "lock", "shell"}
  <2>1. call[p].part \in {"sftp", "status", "ssh"}
    BY <1>2, <1>5, RowPart
  <2>2. Goes(p) /\ call'[p].part = call[p].part /\ ~call'[p].alone
    BY <1>1, <1>2, <1>5, CallGoesOn
  <2>3. RowsTyped' /\ ServerTyped'
    BY <1>1 DEF AccountInv, RowsTyped, ServerTyped, rows, server
  <2>4. KeysKept' /\ JobsKept'
    BY <1>1, <2>1, <2>2, KeysFrame, JobsFrame DEF rows, server
  <2>5. LockKept'
    <3>1. CASE call[p].part # "status"
      BY <1>1, <2>2, <3>1, LockFrame DEF rows, server
    <3>2. CASE call[p].part = "status"
      <4>1. Under("status")'
        BY <2>2, <3>2 DEF Under
      <4>2. \A q \in Caller : call'[q].alone => FALSE
        BY <1>1, <1>3, <2>2 DEF CallsAlone, Goes
      <4> QED BY <4>1, <4>2 DEF LockKept
    <3> QED BY <3>1, <3>2
  <2> QED BY <2>2, <2>3, <2>4, <2>5 DEF Goes, AccountInv
<1> QED BY <1>2, <1>4, <1>5

-----------------------------------------------------------------------------
(* Requests that start, and time that passes.                               *)

LEMMA CallOpened ==
  ASSUME AccountInv, NEW p \in Caller, NEW which \in Parts, NEW on \in Key \cup Cron \cup {"row"},
         NEW to \in AccountRow \cup JobValues \cup {"none"},
         NEW steps \in KeyCourses \cup CronCourses \cup RowCourses, CallOpen(p, which, on, to, steps),
         \/ which = "keys" /\ steps \in KeyCourses  /\ on \in Key /\ Head(steps) # "writeKeys"
         \/ which = "cron" /\ steps \in CronCourses /\ on \in Cron /\ to \in JobValues \cup {"none"}
                          /\ Head(steps) # "writeCrontab"
         \/ which = "status" /\ steps \in RowCourses /\ to \in AccountRow /\ Head(steps) = "lock"
         \/ which \in {"sftp", "ssh"} /\ steps \in RowCourses /\ to \in AccountRow /\ Head(steps) # "lock"
                          /\ to.status = account.status
  PROVE  AccountInv'
<1> USE DEF AccountInv
<1> DEFINE new == [NoCall EXCEPT !.part = which, !.on = on, !.to = to, !.todo = steps, !.alone = CallsQuiet]
<1> DEFINE joined(q) == [call[q] EXCEPT !.alone = FALSE]
<1>1. /\ call[p] = NoCall /\ UNCHANGED <<rows, server>> /\ loose' = loose
      /\ call' = [q \in Caller |->
           IF q = p THEN [NoCall EXCEPT !.part = which, !.on = on, !.to = to, !.todo = steps,
                                        !.alone = CallsQuiet]
           ELSE [call[q] EXCEPT !.alone = FALSE]]
  BY DEF CallOpen
<1>2. /\ new \in CallRecord
      /\ new.part = which /\ new.on = on /\ new.todo = steps /\ new.alone = CallsQuiet
      /\ new.to = to /\ new.read = {}
  <2>1. NoCall \in CallRecord /\ NoCall.read = {}
    BY DEF NoCall, CallRecord
  <2>2. CallsQuiet \in BOOLEAN
    BY DEF CallsQuiet
  <2> DEFINE a == [NoCall EXCEPT !.part = which]
             b == [a EXCEPT !.on = on]
             c == [b EXCEPT !.to = to]
             d == [c EXCEPT !.todo = steps]
             e == [d EXCEPT !.alone = CallsQuiet]
  <2>3. a \in CallRecord /\ a.part = which /\ a.read = {}
    BY <2>1 DEF CallRecord
  <2> HIDE DEF a
  <2>4. b \in CallRecord /\ b.part = which /\ b.read = {} /\ b.on = on
    BY <2>3 DEF CallRecord
  <2> HIDE DEF b
  <2>5. c \in CallRecord /\ c.part = which /\ c.read = {} /\ c.on = on /\ c.to = to
    BY <2>4 DEF CallRecord
  <2> HIDE DEF c
  <2>6. /\ d \in CallRecord /\ d.part = which /\ d.read = {} /\ d.on = on /\ d.to = to
        /\ d.todo = steps
    BY <2>5 DEF CallRecord
  <2> HIDE DEF d
  <2>7. /\ e \in CallRecord /\ e.part = which /\ e.read = {} /\ e.on = on /\ e.to = to
        /\ e.todo = steps /\ e.alone = CallsQuiet
    BY <2>2, <2>6 DEF CallRecord
  <2> QED BY <2>7 DEF a, b, c, d, e
<1>3. call'[p] = new /\ \A q \in Caller : q # p => call'[q] = joined(q)
  BY <1>1, <1>2
<1>4. new \in CallRecord /\ OnCourse(new)
  <2> HIDE DEF new
  <2> QED BY <1>2 DEF OnCourse
<1>5. ASSUME NEW q \in Caller, q # p
      PROVE  /\ joined(q) \in CallRecord /\ OnCourse(joined(q)) /\ ~joined(q).alone
             /\ joined(q).part = call[q].part /\ joined(q).to = call[q].to
             /\ call[q] = NoCall => joined(q) = NoCall
  <2>1. call[q] \in CallRecord /\ OnCourse(call[q])
    BY DEF CallsTyped
  <2>2. joined(q) \in CallRecord /\ ~joined(q).alone
    BY <2>1 DEF CallRecord
  <2>3. /\ joined(q).part = call[q].part /\ joined(q).on = call[q].on /\ joined(q).todo = call[q].todo
        /\ joined(q).to = call[q].to /\ joined(q).read = call[q].read
    BY <2>1 DEF CallRecord
  <2>4. call[q] = NoCall => joined(q) = NoCall
    <3>1. NoCall \in CallRecord /\ ~NoCall.alone
      BY DEF NoCall, CallRecord
    <3> QED BY <2>1, <2>2, <2>3, <3>1 DEF CallRecord
  <2> HIDE DEF joined
  <2>5. OnCourse(joined(q))
    BY <2>1, <2>3, <2>4 DEF OnCourse
  <2> QED BY <2>2, <2>3, <2>4, <2>5
<1>6. call' \in [Caller -> CallRecord]
  <2>1. \A q \in Caller : call'[q] \in CallRecord
    BY <1>3, <1>4, <1>5
  <2> QED BY <1>1, <2>1
<1> HIDE DEF joined, new
<1>7. CallsTyped'
  BY <1>3, <1>4, <1>5, <1>6 DEF CallsTyped
<1>8. \A q \in Caller : call'[q].alone => q = p
  BY <1>3, <1>5
<1>9. CallsAlone'
  <2>1. call'[p].alone => \A q \in Caller : q # p => call'[q] = NoCall
    BY <1>2, <1>3, <1>5 DEF CallsQuiet
  <2> QED BY <1>8, <2>1 DEF CallsAlone
<1>10. \A x \in Parts : Under(x) => Under(x)'
  <2>1. \A q \in Caller, x \in Parts : call[q].part = x => call'[q].part = x
    BY <1>1, <1>3, <1>5 DEF NoCall, Parts
  <2> QED BY <2>1 DEF Under
<1>11. call'[p].todo = steps /\ call'[p].part = which /\ call'[p].to = to
  BY <1>2, <1>3
<1>12. RowsTyped' /\ ServerTyped' /\ ActiveJobs' = ActiveJobs
  BY <1>1 DEF RowsTyped, ServerTyped, rows, server, ActiveJobs
<1>13. KeysKept'
  <2>1. "keys" \in loose' \/ Under("keys")' \/ authorized' \subseteq keyRows'
    BY <1>1, <1>10 DEF KeysKept, Parts, rows, server
  <2>2. \A q \in Caller : call'[q].alone => ~CallAt(q, "writeKeys")'
    <3>1. Head(steps) # "writeKeys"
      BY CronTable, RowTable
    <3> QED BY <1>8, <1>11, <3>1 DEF CallAt
  <2> QED BY <2>1, <2>2 DEF KeysKept
<1>14. JobsKept'
  <2>1. "cron" \in loose' \/ Under("cron")' \/ crontab' = ActiveJobs'
    BY <1>1, <1>10, <1>12 DEF JobsKept, Parts, server
  <2>2. \A q \in Caller : call'[q].alone => ~CallAt(q, "writeCrontab")'
    <3>1. Head(steps) # "writeCrontab"
      BY KeyTable, RowTable
    <3> QED BY <1>8, <1>11, <3>1 DEF CallAt
  <2> QED BY <2>1, <2>2 DEF JobsKept
<1>15. LockKept'
  <2>1. "status" \in loose' \/ Under("status")' \/ (posix'.locked <=> account'.status = "SUSPENDED")
    BY <1>1, <1>10 DEF LockKept, Parts, rows, server
  <2>2. ASSUME NEW q \in Caller, call'[q].part \in {"sftp", "ssh"}
        PROVE  "status" \in loose' \/ Under("status")' \/ call'[q].to.status = account'.status
    <3>1. CASE q = p
      BY <1>1, <1>11, <2>2, <3>1 DEF rows
    <3>2. CASE q # p
      <4>1. call[q].part \in {"sftp", "ssh"} /\ call'[q].to = call[q].to
        BY <1>3, <1>5, <2>2, <3>2
      <4>2. "status" \in loose \/ Under("status") \/ call[q].to.status = account.status
        BY <4>1 DEF LockKept
      <4> QED BY <1>1, <1>10, <4>1, <4>2 DEF rows, Parts
    <3> QED BY <3>1, <3>2
  <2>3. \A q \in Caller : call'[q].alone /\ call'[q].part = "status" => CallAt(q, "lock")'
    <3>1. steps # <<>> /\ (which = "status" => Head(steps) = "lock")
      BY KeyTable, CronTable, RowTable
    <3> QED BY <1>8, <1>11, <3>1 DEF CallAt
  <2> QED BY <2>1, <2>2, <2>3 DEF LockKept
<1> QED BY <1>7, <1>9, <1>12, <1>13, <1>14, <1>15

LEMMA StepBefore ==
  ASSUME NEW x, NEW y, NEW z
  PROVE  <<x>> \o <<y, z>> = <<x, y, z>>
<1> DEFINE S == {x, y, z}
           a == <<x>>
           b == <<y, z>>
           c == <<x, y, z>>
<1>1. a \in Seq(S) /\ b \in Seq(S) /\ c \in Seq(S) /\ Len(a) = 1 /\ Len(b) = 2 /\ Len(c) = 3
  OBVIOUS
<1>2. a[1] = x /\ b[1] = y /\ b[2] = z /\ c[1] = x /\ c[2] = y /\ c[3] = z
  OBVIOUS
<1> HIDE DEF S, a, b, c
<1>3. /\ a \o b \in Seq(S) /\ Len(a \o b) = 3
      /\ \A i \in 1 .. 3 : (a \o b)[i] = IF i <= 1 THEN a[i] ELSE b[i - 1]
  <2>1. Len(a) + Len(b) = 3
    BY <1>1
  <2>2. /\ a \o b \in Seq(S) /\ Len(a \o b) = Len(a) + Len(b)
        /\ \A i \in 1 .. Len(a) + Len(b) : (a \o b)[i] = IF i <= Len(a) THEN a[i] ELSE b[i - Len(a)]
    BY <1>1, ConcatProperties
  <2> QED BY <1>1, <2>1, <2>2
<1>4. (a \o b)[1] = x /\ (a \o b)[2] = y /\ (a \o b)[3] = z
  <2>1. 1 \in 1 .. 3 /\ 2 \in 1 .. 3 /\ 3 \in 1 .. 3 /\ 1 <= 1 /\ ~(2 <= 1) /\ ~(3 <= 1)
    OBVIOUS
  <2> QED BY <1>2, <1>3, <2>1
<1>5. \A i \in 1 .. Len(c) : (a \o b)[i] = c[i]
  <2>1. \A i \in 1 .. 3 : i = 1 \/ i = 2 \/ i = 3
    OBVIOUS
  <2> QED BY <1>1, <1>2, <1>4, <2>1
<1>6. a \o b = c
  BY <1>1, <1>3, <1>5, SeqEqual
<1> QED BY <1>6 DEF a, b, c

LEMMA CallStarts ==
  ASSUME AccountInv, NEW p \in Caller,
         \/ \E k \in Key : AddSSHKey(p, k) \/ RemoveSSHKey(p, k)
         \/ UpdateUser(p)
         \/ \E j \in Cron : CreateCron(p, j) \/ UpdateCron(p, j) \/ DeleteCron(p, j)
  PROVE  AccountInv'
<1>0. account \in AccountRow
  BY DEF AccountInv, RowsTyped
<1>1. ASSUME NEW k \in Key, AddSSHKey(p, k) \/ RemoveSSHKey(p, k) PROVE AccountInv'
  <2>1. /\ <<"saveKey">> \o SyncKeys = <<"saveKey", "readKeys", "writeKeys">>
        /\ <<"deleteKey">> \o SyncKeys = <<"deleteKey", "readKeys", "writeKeys">>
    BY StepBefore DEF SyncKeys
  <2>2. PICK steps \in {<<"saveKey", "readKeys", "writeKeys">>, <<"deleteKey", "readKeys", "writeKeys">>} :
          CallOpen(p, "keys", k, account, steps)
    BY <1>1, <2>1 DEF AddSSHKey, RemoveSSHKey
  <2>3. steps \in KeyCourses /\ Head(steps) # "writeKeys"
    BY DEF KeyCourses
  <2>4. "keys" \in Parts
    BY DEF Parts
  <2> HIDE DEF AccountInv
  <2> QED BY <1>0, <2>2, <2>3, <2>4, CallOpened
<1>2. ASSUME NEW j \in Cron, CreateCron(p, j) \/ UpdateCron(p, j) \/ DeleteCron(p, j) PROVE AccountInv'
  <2>1. <<"saveJob">> \o SyncCrontab = <<"saveJob", "readJobs", "writeCrontab">>
    BY StepBefore DEF SyncCrontab
  <2> DEFINE steps == <<"saveJob", "readJobs", "writeCrontab">>
  <2>2. PICK v \in JobValues \cup {"none"} : CallOpen(p, "cron", j, v, steps)
    BY <1>2, <2>1 DEF CreateCron, UpdateCron, DeleteCron, JobValues
  <2>3. steps \in CronCourses /\ Head(steps) # "writeCrontab"
    BY DEF CronCourses
  <2>4. "cron" \in Parts
    BY DEF Parts
  <2> HIDE DEF steps
  <2> QED BY <2>2, <2>3, <2>4, CallOpened
<1>3. ASSUME UpdateUser(p) PROVE AccountInv'
  <2> DEFINE shell   == [account EXCEPT !.sftp = ~@]
             flipped == [account EXCEPT !.status = IF @ = "ACTIVE" THEN "SUSPENDED" ELSE "ACTIVE"]
             ssh     == [account EXCEPT !.ssh = ~@]
  <2>1. /\ shell \in AccountRow /\ flipped \in AccountRow /\ ssh \in AccountRow
        /\ shell.status = account.status /\ ssh.status = account.status
    BY <1>0 DEF AccountRow
  <2>2. /\ <<"lock", "shell", "saveUser">> \in RowCourses /\ <<"shell", "saveUser">> \in RowCourses
        /\ <<"rmKeys", "saveUser">> \in RowCourses /\ <<"saveUser">> \in RowCourses
        /\ Head(<<"lock", "shell", "saveUser">>) = "lock" /\ Head(<<"shell", "saveUser">>) # "lock"
        /\ Head(<<"rmKeys", "saveUser">>) # "lock" /\ Head(<<"saveUser">>) # "lock"
    BY DEF RowCourses
  <2>3. {"sftp", "status", "ssh"} \subseteq Parts
    BY DEF Parts
  <2>4. \/ CallOpen(p, "sftp", "row", shell, <<"shell", "saveUser">>)
        \/ CallOpen(p, "status", "row", flipped, <<"lock", "shell", "saveUser">>)
        \/ CallOpen(p, "ssh", "row", ssh, <<"rmKeys", "saveUser">>)
        \/ CallOpen(p, "ssh", "row", ssh, <<"saveUser">>)
    BY <1>3 DEF UpdateUser
  <2> HIDE DEF shell, flipped, ssh
  <2>5. CASE CallOpen(p, "sftp", "row", shell, <<"shell", "saveUser">>)
    BY <2>1, <2>2, <2>3, <2>5, CallOpened
  <2>6. CASE CallOpen(p, "status", "row", flipped, <<"lock", "shell", "saveUser">>)
    BY <2>1, <2>2, <2>3, <2>6, CallOpened
  <2>7. CASE CallOpen(p, "ssh", "row", ssh, <<"rmKeys", "saveUser">>)
    BY <2>1, <2>2, <2>3, <2>7, CallOpened
  <2>8. CASE CallOpen(p, "ssh", "row", ssh, <<"saveUser">>)
    BY <2>1, <2>2, <2>3, <2>8, CallOpened
  <2> QED BY <2>4, <2>5, <2>6, <2>7, <2>8
<1> QED BY <1>1, <1>2, <1>3

LEMMA KeyExpiresStep ==
  ASSUME AccountInv, NEW k \in Key, KeyExpires(k)
  PROVE  AccountInv'
<1>1. UNCHANGED <<account, keyRows, cronRow, posix, authorized, crontab, call, loose>>
  BY DEF KeyExpires, server
<1> QED BY <1>1 DEF AccountInv, CallsTyped, RowsTyped, ServerTyped, CallsAlone, KeysKept, JobsKept, LockKept,
             Under, CallAt, ActiveJobs

\* The rows and the server of one account, its requests in flight and what they have
\* read, in every state: the invariant the property below is read from.
THEOREM AccountInvariant == AccountSpec => []AccountInv
<1>1. AccountInit => AccountInv
  <2> SUFFICES ASSUME AccountInit PROVE AccountInv
    OBVIOUS
  <2>1. call = [p \in Caller |-> NoCall] /\ NoCall \in CallRecord /\ OnCourse(NoCall) /\ ~NoCall.alone
    BY DEF AccountInit, NoCall, CallRecord, OnCourse
  <2>2. \A p \in Caller : call[p] = NoCall
    BY <2>1
  <2>3. CallsTyped /\ CallsAlone
    BY <2>1 DEF CallsTyped, CallsAlone
  <2>4. RowsTyped /\ ServerTyped
    BY DEF AccountInit, RowsTyped, ServerTyped, AccountRow
  <2>5. KeysKept /\ JobsKept
    BY <2>1, <2>2 DEF AccountInit, KeysKept, JobsKept, ActiveJobs
  <2>6. LockKept
    BY <2>2 DEF AccountInit, LockKept, NoCall
  <2> QED BY <2>3, <2>4, <2>5, <2>6 DEF AccountInv
<1>2. AccountInv /\ [AccountNext]_accountVars => AccountInv'
  <2> SUFFICES ASSUME AccountInv, [AccountNext]_accountVars PROVE AccountInv'
    OBVIOUS
  <2>1. CASE UNCHANGED accountVars
    BY <2>1 DEF accountVars, rows, server, AccountInv, CallsTyped, RowsTyped, ServerTyped, CallsAlone,
                KeysKept, JobsKept, LockKept, Under, CallAt, ActiveJobs
  <2>2. ASSUME NEW p \in Caller, SaveKey(p) \/ DeleteKey(p) \/ ReadKeys(p) \/ WriteKeys(p) PROVE AccountInv'
    BY <2>2, KeySteps
  <2>3. ASSUME NEW p \in Caller, SaveJob(p) \/ ReadJobs(p) \/ WriteCrontab(p) PROVE AccountInv'
    BY <2>3, JobSteps
  <2>4. ASSUME NEW p \in Caller, RmKeys(p) \/ UserLock(p) \/ UserShell(p) \/ SaveUserRow(p) PROVE AccountInv'
    BY <2>4, RmKeysStep, UserLockStep, UserShellStep, SaveUserStep
  <2>5. ASSUME NEW p \in Caller, CommandIgnored(p) \/ CallFails(p) PROVE AccountInv'
    BY <2>5, CommandIgnoredStep, CallFailsStep
  <2> QED BY <2>1, <2>2, <2>3, <2>4, <2>5, CallStarts, KeyExpiresStep DEF AccountNext
<1> QED BY <1>1, <1>2, PTL DEF AccountSpec

\* Types of the rows, of the account and of the files; a request with no steps left is
\* none: the handlers of system-users and cron end with their last await.
THEOREM AccountTyped == AccountSpec => []AccountTypeOK
<1>1. AccountInv => AccountTypeOK
  <2> SUFFICES ASSUME AccountInv PROVE AccountTypeOK
    OBVIOUS
  <2>1. ASSUME NEW p \in Caller, call[p].todo = <<>> PROVE call[p] = NoCall
    <3>1. OnCourse(call[p])
      BY DEF AccountInv, CallsTyped
    <3> QED BY <2>1, <3>1, KeyTable, CronTable, RowTable DEF OnCourse
  <2> QED BY <2>1 DEF AccountInv, RowsTyped, ServerTyped, AccountTypeOK
<1> QED BY <1>1, AccountInvariant, PTL

\* With nothing in flight a removed key opens nothing, the crontab runs the jobs that
\* are on, and the lock is as the status says, unless a request for that part failed
\* or overlapped another since: the full rewrites of syncAuthorizedKeys() and of
\* syncUserCrontab(), for any number of requests, keys and jobs.
THEOREM AccountInStep == AccountSpec => []AccountFollowsRows
<1>1. AccountInv => AccountFollowsRows
  <2> SUFFICES ASSUME AccountInv, CallsQuiet PROVE AccountFollowsRows
    BY DEF AccountFollowsRows
  <2>1. \A x \in Parts : ~Under(x)
    BY DEF CallsQuiet, Under, NoCall, Parts
  <2>2. ~Under("keys") /\ ~Under("cron") /\ ~Under("status")
    BY <2>1 DEF Parts
  <2> QED BY <2>2 DEF AccountInv, KeysKept, JobsKept, LockKept, AccountFollowsRows
<1> QED BY <1>1, AccountInvariant, PTL

-----------------------------------------------------------------------------
(* Databases: its inductive invariant, by parts.                             *)

UserRowType == [id : Nat, of : Nat, priv : SUBSET UNION Privileges, pw : Password \cup {0}]
AccountType == [pw : Password \cup {0}, grants : [Schema -> SUBSET UNION Privileges]]

\* What may be left of a request for the user u.
InsertsUser == {<<"insertUser">>, <<"grantNew", "insertUser">>, NewUser, <<"dropBack">>}
QueryCourses(k, u) ==
  CASE k = "create" /\ u = "none" -> {<<"createSchema", "insertDb">>, <<"insertDb">>}
    [] k = "create" /\ u # "none" ->
         InsertsUser \cup
         {<<"checkUser", "createAccount", "grantNew", "insertUser">>,
          <<"insertDb", "checkUser", "createAccount", "grantNew", "insertUser">>,
          <<"createSchema", "insertDb", "checkUser", "createAccount", "grantNew", "insertUser">>}
    [] k = "createUser" -> InsertsUser
    [] k = "password" -> {<<"alter", "saveUser">>, <<"saveUser">>}
    [] k = "privileges" -> {<<"revoke", "grant", "saveUser">>, <<"grant", "saveUser">>, <<"saveUser">>}
    [] k = "deleteUser" -> {<<"dropAccount", "removeUser">>, <<"removeUser">>}
    [] k = "delete" -> {<<"dropUsers", "dropSchema", "removeDb">>, <<"dropSchema", "removeDb">>, <<"removeDb">>}
    [] k = "stats" -> {<<"stats", "saveDb">>, <<"saveDb">>}
    [] k = "backup" -> {<<"dump", "saveDb">>, <<"saveDb">>}

MakesUser == {"create", "createUser"}
OfUser    == {"password", "privileges", "deleteUser"}
OfSchema  == {"delete", "stats", "backup"}
QueryKinds == MakesUser \cup OfUser \cup OfSchema

QueryType ==
  [kind : QueryKinds, db : Schema, dbId : Nat, user : DbUser \cup {"none"}, row : UserRowType,
   users : SUBSET DbUser, left : SUBSET DbUser,
   todo : UNION {QueryCourses(k, u) : k \in QueryKinds, u \in DbUser \cup {"none"}},
   sound : BOOLEAN, number : Nat]

\* The id of the row of its database, or the one it will get.
IdOf(q) == IF q.dbId = 0 THEN q.number ELSE q.dbId

FineQuery(q) ==
  /\ q \in QueryType /\ q.todo \in QueryCourses(q.kind, q.user)
  /\ q.kind \in OfUser \cup {"createUser"} => q.user # "none"
  /\ q.kind \in OfSchema => q.user = "none"
  /\ q.kind = "create" => q.dbId = IF Head(q.todo) \in {"createSchema", "insertDb"} THEN 0 ELSE q.number
  /\ q.kind # "create" => q.dbId # 0
  /\ q.number # 0
  /\ q.kind # "delete" => q.users = {}
  /\ q.left \subseteq q.users
  /\ q.kind \in MakesUser /\ q.user # "none" => q.row.id = 0 /\ q.row.pw # 0
  /\ q.kind = "password" => q.row.pw # 0
  /\ q.kind \in OfUser => q.row.id # 0 /\ q.row.of = q.dbId

QueriesTyped ==
  /\ dbRow \in [Schema -> Nat] /\ userRow \in [DbUser -> UserRowType]
  /\ schemas \subseteq Schema /\ sqlUsers \in [DbUser -> AccountType]
  /\ query \in [Client -> QueryType \cup {NoQuery}]
  /\ \A p \in Client : query[p] # NoQuery => FineQuery(query[p])
  /\ queries \in 0 .. MaxQueries

\* An account has a password; a row of a user is that of a database that is there.
RowsRefer ==
  /\ \A u \in DbUser : sqlUsers[u] # NoAccount => sqlUsers[u].pw # 0
  /\ \A u \in DbUser : userRow[u].id = 0 => userRow[u] = NoUserRow
  /\ \A u \in DbUser : userRow[u].id # 0 =>
       userRow[u].of # 0 /\ \E d \in Schema : dbRow[d] = userRow[u].of

\* Different databases have different ids, those of requests included.
IdsApart ==
  /\ \A d, e \in Schema : d # e /\ dbRow[d] # 0 => dbRow[d] # dbRow[e]
  /\ \A d \in Schema : dbRow[d] <= queries
  /\ \A p \in Client : query[p] # NoQuery =>
       /\ query[p].number <= queries /\ query[p].dbId <= queries
       /\ \A d \in Schema : d # query[p].db => dbRow[d] # IdOf(query[p])
  /\ \A p, o \in Client : query[p] # NoQuery /\ query[o] # NoQuery /\ query[p].db # query[o].db =>
       IdOf(query[p]) # IdOf(query[o])

QUsers(q) == ({q.user} \cap DbUser) \cup q.users

\* A sound request has what it touches to itself.
SoundAlone ==
  \A p, o \in Client : p # o /\ query[p] # NoQuery /\ query[o] # NoQuery /\ query[p].sound =>
    query[p].db # query[o].db /\ QUsers(query[p]) \cap QUsers(query[o]) = {}

\* A user made while its database is being deleted is in doubt, or will be.
Unforeseen ==
  \A p \in Client : query[p].kind = "delete" =>
    \A u \in DbUser \ query[p].users : userRow[u].of = query[p].dbId =>
      \/ UserParts(u) \subseteq doubt
      \/ \E o \in Client : query[o] # NoQuery /\ ~query[o].sound /\ u \in QUsers(query[o])

SchemaFine(d) == <<"schema", d>> \notin doubt => (dbRow[d] # 0 <=> d \in schemas)

InDoubt(u) ==
  userRow[u].id = 0 /\ <<"account", u>> \in doubt =>
    <<"password", u>> \in doubt /\ <<"grants", u>> \in doubt

PasswordFine(u) ==
  userRow[u].id # 0 /\ <<"account", u>> \notin doubt /\ <<"password", u>> \notin doubt =>
    sqlUsers[u].pw = userRow[u].pw

GrantsFine(u) ==
  userRow[u].id # 0 /\ <<"account", u>> \notin doubt /\ <<"grants", u>> \notin doubt =>
    \A d \in Schema : dbRow[d] = userRow[u].of => sqlUsers[u].grants[d] = userRow[u].priv

AccountFine(u) == <<"account", u>> \notin doubt => (userRow[u].id # 0 <=> sqlUsers[u] # NoAccount)

UserFine(u) == InDoubt(u) /\ PasswordFine(u) /\ GrantsFine(u) /\ AccountFine(u)

\* What a sound request has done to its database and to its user.
SchemaPromise(q) ==
  LET s == Head(q.todo) IN
  IF q.kind = "create"
  THEN IF s \in {"createSchema", "insertDb"}
       THEN dbRow[q.db] = 0 /\ (IF s = "insertDb" THEN q.db \in schemas ELSE SchemaFine(q.db))
       ELSE dbRow[q.db] = q.dbId /\ q.db \in schemas
  ELSE /\ dbRow[q.db] = q.dbId
       /\ IF s = "removeDb" THEN q.db \notin schemas ELSE SchemaFine(q.db)

NewPromise(q) ==
  LET s == Head(q.todo)  u == q.user IN
  /\ s \in {"createSchema", "insertDb", "checkUser", "createAccount"} => UserFine(u)
  /\ s \in {"createAccount", "grantNew", "insertUser"} => userRow[u].id = 0 /\ InDoubt(u)
  /\ s \in {"grantNew", "insertUser"} => sqlUsers[u] # NoAccount
  /\ (s \in {"grantNew", "insertUser"} /\ <<"account", u>> \notin doubt) =>
       /\ sqlUsers[u].pw = q.row.pw
       /\ sqlUsers[u].grants[q.db] = IF s = "grantNew" THEN {} ELSE q.row.priv

\* The row of its user is the one it has loaded.
Holds(q) == userRow[q.user].id = q.row.id /\ userRow[q.user].of = q.row.of

OldPromise(q) ==
  LET s == Head(q.todo)  u == q.user IN
  /\ Holds(q)
  /\ q.kind = "password" =>
       /\ userRow[u].priv = q.row.priv /\ GrantsFine(u) /\ AccountFine(u)
       /\ s = "saveUser" => sqlUsers[u].pw = q.row.pw
  /\ q.kind = "privileges" =>
       /\ userRow[u].pw = q.row.pw /\ PasswordFine(u) /\ AccountFine(u)
       /\ s = "grant" => sqlUsers[u].grants[q.db] = {}
       /\ s = "saveUser" => sqlUsers[u].grants[q.db] = q.row.priv
  /\ q.kind = "deleteUser" /\ s = "removeUser" => sqlUsers[u] = NoAccount

DropPromise(q) ==
  \A u \in q.users : /\ userRow[u].id # 0 /\ userRow[u].of = q.dbId
                     /\ (u \in q.left /\ Head(q.todo) = "dropUsers") \/ sqlUsers[u] = NoAccount

Promise(q) ==
  /\ SchemaPromise(q)
  /\ q.kind \in MakesUser /\ q.user # "none" => NewPromise(q)
  /\ q.kind \in OfUser => OldPromise(q)
  /\ q.kind = "delete" => DropPromise(q)

PromisesKept == \A p \in Client : query[p] # NoQuery /\ query[p].sound => Promise(query[p])

\* What no request touches is fine, but for what is in doubt.
RestFine ==
  /\ \A d \in Schema : (\A p \in Client : query[p] # NoQuery => query[p].db # d) => SchemaFine(d)
  /\ \A u \in DbUser : (\A p \in Client : query[p] # NoQuery => u \notin QUsers(query[p])) => UserFine(u)

DatabasesInv ==
  /\ QueriesTyped /\ RowsRefer /\ IdsApart /\ SoundAlone /\ Unforeseen /\ PromisesKept /\ RestFine

-----------------------------------------------------------------------------
(* The courses of the requests.                                             *)

\* After step s of a request of kind k for the user u comes step n.
QueryAfter(k, u, s, n) ==
  \/ k = "create" /\ s = "createSchema" /\ n = "insertDb"
  \/ k = "create" /\ u # "none" /\ s = "insertDb" /\ n = "checkUser"
  \/ k = "create" /\ u # "none" /\ s = "checkUser" /\ n = "createAccount"
  \/ k \in MakesUser /\ u # "none" /\ s = "createAccount" /\ n = "grantNew"
  \/ k \in MakesUser /\ u # "none" /\ s = "grantNew" /\ n = "insertUser"
  \/ k = "password" /\ s = "alter" /\ n = "saveUser"
  \/ k = "privileges" /\ s = "revoke" /\ n = "grant"
  \/ k = "privileges" /\ s = "grant" /\ n = "saveUser"
  \/ k = "deleteUser" /\ s = "dropAccount" /\ n = "removeUser"
  \/ k = "delete" /\ s = "dropUsers" /\ n = "dropSchema"
  \/ k = "delete" /\ s = "dropSchema" /\ n = "removeDb"
  \/ k = "stats" /\ s = "stats" /\ n = "saveDb"
  \/ k = "backup" /\ s = "dump" /\ n = "saveDb"

\* Step s is the last one.
QueryLast(k, u, s) ==
  \/ k = "create" /\ u = "none" /\ s = "insertDb"
  \/ k \in MakesUser /\ u # "none" /\ s \in {"insertUser", "dropBack"}
  \/ k \in {"password", "privileges"} /\ s = "saveUser"
  \/ k = "deleteUser" /\ s = "removeUser"
  \/ k = "delete" /\ s = "removeDb"
  \/ k \in {"stats", "backup"} /\ s = "saveDb"

QueryCourse(k, u, t) ==
  /\ t # <<>>
  /\ Len(t) > 1 => /\ Tail(t) # <<>> /\ Tail(t) \in QueryCourses(k, u)
                   /\ QueryAfter(k, u, Head(t), Head(Tail(t)))
  /\ ~(Len(t) > 1) => QueryLast(k, u, Head(t))

LEMMA One == ASSUME NEW a PROVE <<a>> # <<>> /\ Head(<<a>>) = a /\ ~(Len(<<a>>) > 1)
OBVIOUS

LEMMA Two ==
  ASSUME NEW a, NEW b
  PROVE  /\ <<a, b>> # <<>> /\ Head(<<a, b>>) = a /\ Len(<<a, b>>) > 1 /\ Tail(<<a, b>>) = <<b>>
         /\ <<b>> # <<>> /\ Head(<<b>>) = b
OBVIOUS

LEMMA Three ==
  ASSUME NEW a, NEW b, NEW c
  PROVE  /\ <<a, b, c>> # <<>> /\ Head(<<a, b, c>>) = a /\ Len(<<a, b, c>>) > 1 /\ Tail(<<a, b, c>>) = <<b, c>>
         /\ <<b, c>> # <<>> /\ Head(<<b, c>>) = b
OBVIOUS

LEMMA InsertCourses ==
  ASSUME NEW k \in MakesUser, NEW u, u # "none", InsertsUser \subseteq QueryCourses(k, u), NEW t \in InsertsUser
  PROVE  QueryCourse(k, u, t)
<1>1. t \in {<<"insertUser">>, <<"grantNew", "insertUser">>, <<"createAccount", "grantNew", "insertUser">>, <<"dropBack">>}
  BY DEF InsertsUser, NewUser
<1>2. /\ <<"insertUser">> \in QueryCourses(k, u) /\ <<"grantNew", "insertUser">> \in QueryCourses(k, u)
  BY DEF InsertsUser
<1>3. CASE t = <<"insertUser">> \/ t = <<"dropBack">>
  BY <1>3, One DEF QueryCourse, QueryLast
<1>4. CASE t = <<"grantNew", "insertUser">>
  BY <1>2, <1>4, Two DEF QueryCourse, QueryAfter
<1>5. CASE t = <<"createAccount", "grantNew", "insertUser">>
  BY <1>2, <1>5, Three DEF QueryCourse, QueryAfter
<1> QED BY <1>1, <1>3, <1>4, <1>5

LEMMA CreateCourses ==
  ASSUME NEW u, u # "none", NEW t \in QueryCourses("create", u)
  PROVE  QueryCourse("create", u, t)
<1> DEFINE c4 == <<"checkUser", "createAccount", "grantNew", "insertUser">>
           c5 == <<"insertDb", "checkUser", "createAccount", "grantNew", "insertUser">>
           c6 == <<"createSchema", "insertDb", "checkUser", "createAccount", "grantNew", "insertUser">>
<1>1. QueryCourses("create", u) = InsertsUser \cup {c4, c5, c6}
  BY DEF QueryCourses
<1>2. NewUser \in QueryCourses("create", u)
  BY <1>1 DEF InsertsUser
<1>3. CASE t \in InsertsUser
  BY <1>1, <1>3, InsertCourses DEF MakesUser
<1>4. CASE t = c4
  <2>1. c4 # <<>> /\ Head(c4) = "checkUser" /\ Len(c4) > 1 /\ Tail(c4) = NewUser
    BY DEF NewUser
  <2>2. NewUser # <<>> /\ Head(NewUser) = "createAccount"
    BY DEF NewUser
  <2> QED BY <1>2, <1>4, <2>1, <2>2 DEF QueryCourse, QueryAfter
<1>5. CASE t = c5
  <2>1. c5 # <<>> /\ Head(c5) = "insertDb" /\ Len(c5) > 1 /\ Tail(c5) = c4
    OBVIOUS
  <2>2. c4 # <<>> /\ Head(c4) = "checkUser"
    OBVIOUS
  <2> QED BY <1>1, <1>5, <2>1, <2>2 DEF QueryCourse, QueryAfter
<1>6. CASE t = c6
  <2>1. c6 # <<>> /\ Head(c6) = "createSchema" /\ Len(c6) > 1 /\ Tail(c6) = c5
    OBVIOUS
  <2>2. c5 # <<>> /\ Head(c5) = "insertDb"
    OBVIOUS
  <2> QED BY <1>1, <1>6, <2>1, <2>2 DEF QueryCourse, QueryAfter
<1> QED BY <1>1, <1>3, <1>4, <1>5, <1>6

LEMMA QueryCoursesAre ==
  ASSUME NEW k \in QueryKinds, NEW u \in DbUser \cup {"none"}, k \in OfUser \cup {"createUser"} => u # "none",
         NEW t \in QueryCourses(k, u)
  PROVE  QueryCourse(k, u, t)
<1>1. CASE k = "create" /\ u = "none"
  <2>1. QueryCourses(k, u) = {<<"createSchema", "insertDb">>, <<"insertDb">>}
    BY <1>1 DEF QueryCourses
  <2>2. CASE t = <<"insertDb">>
    BY <1>1, <2>2, One DEF QueryCourse, QueryLast
  <2>3. CASE t = <<"createSchema", "insertDb">>
    BY <1>1, <2>1, <2>3, Two DEF QueryCourse, QueryAfter
  <2> QED BY <2>1, <2>2, <2>3
<1>2. CASE k = "create" /\ u # "none"
  BY <1>2, CreateCourses
<1>3. CASE k = "createUser"
  <2>1. QueryCourses(k, u) = InsertsUser
    BY <1>3 DEF QueryCourses
  <2> QED BY <1>3, <2>1, InsertCourses DEF MakesUser
<1>4. CASE k = "password"
  <2>1. QueryCourses(k, u) = {<<"alter", "saveUser">>, <<"saveUser">>}
    BY <1>4 DEF QueryCourses
  <2>2. CASE t = <<"saveUser">>
    BY <1>4, <2>2, One DEF QueryCourse, QueryLast
  <2>3. CASE t = <<"alter", "saveUser">>
    BY <1>4, <2>1, <2>3, Two DEF QueryCourse, QueryAfter
  <2> QED BY <2>1, <2>2, <2>3
<1>5. CASE k = "privileges"
  <2>1. QueryCourses(k, u) = {<<"revoke", "grant", "saveUser">>, <<"grant", "saveUser">>, <<"saveUser">>}
    BY <1>5 DEF QueryCourses
  <2>2. CASE t = <<"saveUser">>
    BY <1>5, <2>2, One DEF QueryCourse, QueryLast
  <2>3. CASE t = <<"grant", "saveUser">>
    BY <1>5, <2>1, <2>3, Two DEF QueryCourse, QueryAfter
  <2>4. CASE t = <<"revoke", "grant", "saveUser">>
    BY <1>5, <2>1, <2>4, Three DEF QueryCourse, QueryAfter
  <2> QED BY <2>1, <2>2, <2>3, <2>4
<1>6. CASE k = "deleteUser"
  <2>1. QueryCourses(k, u) = {<<"dropAccount", "removeUser">>, <<"removeUser">>}
    BY <1>6 DEF QueryCourses
  <2>2. CASE t = <<"removeUser">>
    BY <1>6, <2>2, One DEF QueryCourse, QueryLast
  <2>3. CASE t = <<"dropAccount", "removeUser">>
    BY <1>6, <2>1, <2>3, Two DEF QueryCourse, QueryAfter
  <2> QED BY <2>1, <2>2, <2>3
<1>7. CASE k = "delete"
  <2>1. QueryCourses(k, u) = {<<"dropUsers", "dropSchema", "removeDb">>, <<"dropSchema", "removeDb">>, <<"removeDb">>}
    BY <1>7 DEF QueryCourses
  <2>2. CASE t = <<"removeDb">>
    BY <1>7, <2>2, One DEF QueryCourse, QueryLast
  <2>3. CASE t = <<"dropSchema", "removeDb">>
    BY <1>7, <2>1, <2>3, Two DEF QueryCourse, QueryAfter
  <2>4. CASE t = <<"dropUsers", "dropSchema", "removeDb">>
    BY <1>7, <2>1, <2>4, Three DEF QueryCourse, QueryAfter
  <2> QED BY <2>1, <2>2, <2>3, <2>4
<1>8. CASE k \in {"stats", "backup"}
  <2> DEFINE n == IF k = "stats" THEN "stats" ELSE "dump"
  <2>1. QueryCourses(k, u) = {<<n, "saveDb">>, <<"saveDb">>}
    BY <1>8 DEF QueryCourses
  <2>2. CASE t = <<"saveDb">>
    BY <1>8, <2>2, One DEF QueryCourse, QueryLast
  <2>3. CASE t = <<n, "saveDb">>
    <3>1. QueryAfter(k, u, n, "saveDb")
      BY <1>8 DEF QueryAfter
    <3> HIDE DEF n
    <3> QED BY <2>1, <2>3, <3>1, Two DEF QueryCourse
  <2> QED BY <2>1, <2>2, <2>3
<1> QED BY <1>1, <1>2, <1>3, <1>4, <1>5, <1>6, <1>7, <1>8 DEF QueryKinds, MakesUser, OfUser, OfSchema

-----------------------------------------------------------------------------
(* What a step leaves alone.                                                *)

UserPart == {"account", "grants", "password"}

LEMMA TouchesAre ==
  ASSUME NEW q, q.user \in DbUser \cup {"none"}, q.users \subseteq DbUser
  PROVE  /\ \A d : <<"schema", d>> \in Touches(q) <=> d = q.db
         /\ \A t \in UserPart : \A u : <<t, u>> \in Touches(q) <=> u \in QUsers(q)
         /\ \A u \in QUsers(q) : UserParts(u) \subseteq Touches(q)
<1>1. ASSUME NEW u PROVE UserParts(u) = IF u \in DbUser THEN UserPart \X {u} ELSE {}
  BY DEF UserParts, UserPart
<1>2. Touches(q) = {<<"schema", q.db>>} \cup UserParts(q.user) \cup UNION {UserParts(u) : u \in q.users}
  BY DEF Touches
<1>3. ASSUME NEW d PROVE <<"schema", d>> \in Touches(q) <=> d = q.db
  <2>1. \A u : <<"schema", d>> \notin UserParts(u)
    BY <1>1 DEF UserPart
  <2> QED BY <1>2, <2>1
<1>4. ASSUME NEW t \in UserPart, NEW u PROVE <<t, u>> \in Touches(q) <=> u \in QUsers(q)
  <2>1. \A v : <<t, u>> \in UserParts(v) <=> v \in DbUser /\ u = v
    BY <1>1
  <2>2. <<t, u>> # <<"schema", q.db>>
    BY DEF UserPart
  <2> QED BY <1>2, <2>1, <2>2 DEF QUsers
<1>5. ASSUME NEW u \in QUsers(q) PROVE UserParts(u) \subseteq Touches(q)
  BY <1>2 DEF QUsers
<1> QED BY <1>3, <1>4, <1>5

LEMMA FineTouches ==
  ASSUME NEW q, FineQuery(q)
  PROVE  /\ \A d : <<"schema", d>> \in Touches(q) <=> d = q.db
         /\ \A t \in UserPart : \A u : <<t, u>> \in Touches(q) <=> u \in QUsers(q)
         /\ \A u \in QUsers(q) : UserParts(u) \subseteq Touches(q)
<1>1. q.user \in DbUser \cup {"none"} /\ q.users \subseteq DbUser
  BY DEF FineQuery, QueryType
<1> QED BY <1>1, TouchesAre

LEMMA PartsAre ==
  ASSUME NEW u \in DbUser PROVE UserParts(u) = {<<"account", u>>, <<"grants", u>>, <<"password", u>>}
BY DEF UserParts

\* Where all of a user is in doubt nothing is claimed of it.
LEMMA DoubtfulIsFine ==
  ASSUME NEW u \in DbUser, UserParts(u) \subseteq doubt PROVE UserFine(u)
BY PartsAre DEF UserFine, InDoubt, PasswordFine, GrantsFine, AccountFine

\* The same, after a step.
LEMMA DoubtfulIsFineNext ==
  ASSUME NEW u \in DbUser, UserParts(u) \subseteq doubt' PROVE UserFine(u)'
<1>1. <<"account", u>> \in doubt' /\ <<"grants", u>> \in doubt' /\ <<"password", u>> \in doubt'
  BY PartsAre
<1> QED BY <1>1 DEF UserFine, InDoubt, PasswordFine, GrantsFine, AccountFine

SameUser(u) ==
  /\ userRow'[u] = userRow[u] /\ sqlUsers'[u] = sqlUsers[u]
  /\ \A t \in UserPart : <<t, u>> \in doubt' <=> <<t, u>> \in doubt
  /\ userRow[u].id # 0 => \A d \in Schema : dbRow'[d] = userRow[u].of => dbRow[d] = userRow[u].of

LEMMA UserStays ==
  ASSUME NEW u, SameUser(u)
  PROVE  /\ InDoubt(u) => InDoubt(u)'
         /\ PasswordFine(u) => PasswordFine(u)'
         /\ GrantsFine(u) => GrantsFine(u)'
         /\ AccountFine(u) => AccountFine(u)'
         /\ UserFine(u) => UserFine(u)'
<1>1. /\ userRow'[u] = userRow[u] /\ sqlUsers'[u] = sqlUsers[u]
      /\ (<<"account", u>> \in doubt' <=> <<"account", u>> \in doubt)
      /\ (<<"grants", u>> \in doubt' <=> <<"grants", u>> \in doubt)
      /\ (<<"password", u>> \in doubt' <=> <<"password", u>> \in doubt)
  BY DEF SameUser, UserPart
<1>2. InDoubt(u) => InDoubt(u)'
  BY <1>1 DEF InDoubt
<1>3. PasswordFine(u) => PasswordFine(u)'
  BY <1>1 DEF PasswordFine
<1>4. GrantsFine(u) => GrantsFine(u)'
  BY <1>1 DEF GrantsFine, SameUser
<1>5. AccountFine(u) => AccountFine(u)'
  BY <1>1 DEF AccountFine
<1> QED BY <1>2, <1>3, <1>4, <1>5 DEF UserFine

SameSchema(d) ==
  dbRow'[d] = dbRow[d] /\ (d \in schemas' <=> d \in schemas) /\ (<<"schema", d>> \in doubt' <=> <<"schema", d>> \in doubt)

LEMMA SchemaStays == ASSUME NEW d, SameSchema(d) PROVE SchemaFine(d) => SchemaFine(d)'
BY DEF SameSchema, SchemaFine

\* What a request has done stays when another leaves its database and its users.
LEMMA PromiseStays ==
  ASSUME NEW q, FineQuery(q), SameSchema(q.db), \A u \in QUsers(q) : SameUser(u), Promise(q)
  PROVE  Promise(q)'
<1>1. SchemaPromise(q)'
  BY SchemaStays DEF SameSchema, SchemaPromise, Promise
<1>2. q.user # "none" => q.user \in DbUser /\ SameUser(q.user)
  BY DEF FineQuery, QueryType, QUsers
<1>3. ASSUME q.kind \in MakesUser, q.user # "none" PROVE NewPromise(q)'
  <2>1. PICK u : u = q.user
    OBVIOUS
  <2>2. SameUser(u) /\ NewPromise(q)
    BY <1>2, <1>3, <2>1 DEF Promise
  <2>3. InDoubt(u) => InDoubt(u)'
    BY <2>2, UserStays
  <2>4. UserFine(u) => UserFine(u)'
    BY <2>2, UserStays
  <2>5. userRow'[u] = userRow[u] /\ sqlUsers'[u] = sqlUsers[u] /\ (<<"account", u>> \in doubt' <=> <<"account", u>> \in doubt)
    BY <2>2 DEF SameUser, UserPart
  <2> QED BY <2>1, <2>2, <2>3, <2>4, <2>5 DEF NewPromise
<1>4. ASSUME q.kind \in OfUser PROVE OldPromise(q)'
  <2>1. PICK u : u = q.user
    OBVIOUS
  <2>2. SameUser(u) /\ OldPromise(q)
    BY <1>2, <1>4, <2>1 DEF Promise, FineQuery
  <2>3. /\ PasswordFine(u) => PasswordFine(u)'
        /\ GrantsFine(u) => GrantsFine(u)'
        /\ AccountFine(u) => AccountFine(u)'
    BY <2>2, UserStays
  <2>4. userRow'[u] = userRow[u] /\ sqlUsers'[u] = sqlUsers[u]
    BY <2>2 DEF SameUser
  <2> QED BY <2>1, <2>2, <2>3, <2>4 DEF OldPromise, Holds
<1>5. ASSUME q.kind = "delete" PROVE DropPromise(q)'
  <2>1. \A u \in q.users : userRow'[u] = userRow[u] /\ sqlUsers'[u] = sqlUsers[u]
    BY DEF QUsers, SameUser
  <2> QED BY <1>5, <2>1 DEF DropPromise, Promise
<1> QED BY <1>1, <1>3, <1>4, <1>5 DEF Promise

-----------------------------------------------------------------------------
(* A step of a request.                                                     *)

\* The row of the user u goes with that of its database.
Cascades(q, u) == q.kind = "delete" /\ userRow[u].of = q.dbId /\ userRow'[u] = NoUserRow

\* What a request changes of the databases and the users.
Changes(q) ==
  /\ schemas' \subseteq Schema /\ \A d \in Schema \ {q.db} : d \in schemas' <=> d \in schemas
  /\ dbRow' \in [Schema -> Nat] /\ dbRow'[q.db] \in {dbRow[q.db], 0, IdOf(q)}
  /\ \A d \in Schema \ {q.db} : dbRow'[d] = dbRow[d]
  /\ sqlUsers' \in [DbUser -> AccountType] /\ \A u \in DbUser \ QUsers(q) : sqlUsers'[u] = sqlUsers[u]
  /\ userRow' \in [DbUser -> UserRowType]
  /\ \A u \in DbUser \ QUsers(q) : userRow'[u] = userRow[u] \/ Cascades(q, u)
  /\ \A u \in DbUser : \/ userRow'[u].of \in {userRow[u].of, 0}
                       \/ userRow'[u].of = q.dbId /\ q.kind # "delete"
  /\ RowsRefer' /\ queries' = queries

\* It goes on as z.
GoesOn(q, z) ==
  /\ FineQuery(z) /\ z.kind = q.kind /\ z.db = q.db /\ z.user = q.user /\ z.users = q.users
  /\ z.number = q.number /\ IdOf(z) = IdOf(q) /\ z.dbId <= queries
  /\ q.kind # "create" => z.dbId = q.dbId
  /\ z.sound => q.sound
  /\ doubt' = doubt /\ (z.sound => Promise(z)')

\* It has ended.
Ends(q) ==
  \/ doubt' = doubt \cup Touches(q)
  \/ /\ q.sound /\ doubt' \subseteq doubt /\ doubt \subseteq doubt' \cup Touches(q)
     /\ SchemaFine(q.db)'
     /\ \A u \in QUsers(q) : UserFine(u)' /\ userRow[u].of \in {0, q.dbId}

QMoves(p, q, z) ==
  /\ q = query[p] /\ q # NoQuery /\ query' = [query EXCEPT ![p] = z]
  /\ Changes(q)
  /\ (z # NoQuery /\ GoesOn(q, z)) \/ (z = NoQuery /\ Ends(q))

LEMMA NoQueryIs == NoQuery.kind = "none" /\ NoQuery.kind \notin QueryKinds
BY DEF NoQuery, QueryKinds, MakesUser, OfUser, OfSchema

LEMMA QMovesKeep ==
  ASSUME DatabasesInv, NEW p \in Client, NEW q, NEW z, QMoves(p, q, z) PROVE DatabasesInv'
<1>1. /\ q = query[p] /\ q # NoQuery /\ FineQuery(q) /\ Changes(q) /\ query' = [query EXCEPT ![p] = z]
      /\ query'[p] = z /\ \A o \in Client \ {p} : query'[o] = query[o]
      /\ QueriesTyped
  BY DEF QMoves, DatabasesInv, QueriesTyped
<1>2. /\ q.db \in Schema /\ q.number \in Nat /\ q.dbId \in Nat /\ q.number # 0 /\ IdOf(q) \in Nat /\ IdOf(q) # 0
      /\ q.user \in DbUser \cup {"none"} /\ q.users \subseteq DbUser /\ q.kind \in QueryKinds
      /\ q.dbId # 0 => IdOf(q) = q.dbId
      /\ QUsers(q) \subseteq DbUser
  BY <1>1 DEF FineQuery, QueryType, IdOf, QUsers
<1>3. z # NoQuery => /\ FineQuery(z) /\ z.kind = q.kind /\ z.db = q.db /\ z.user = q.user /\ z.users = q.users
                     /\ z.number = q.number /\ IdOf(z) = IdOf(q) /\ z.dbId <= queries
                     /\ q.kind # "create" => z.dbId = q.dbId
                     /\ z.sound => q.sound
                     /\ QUsers(z) = QUsers(q)
                     /\ doubt' = doubt
  BY DEF QMoves, GoesOn, QUsers
<1>4. z = NoQuery => Ends(q)
  BY DEF QMoves
<1>5. QueriesTyped'
  <2>1. query' \in [Client -> QueryType \cup {NoQuery}]
    BY <1>1, <1>3 DEF QueriesTyped, FineQuery
  <2>2. \A o \in Client : query'[o] # NoQuery => FineQuery(query'[o])
    BY <1>1, <1>3 DEF QueriesTyped
  <2> QED BY <1>1, <2>1, <2>2 DEF QueriesTyped, Changes
<1>6. RowsRefer'
  BY <1>1 DEF Changes
<1>7. IdsApart
  BY DEF DatabasesInv
<1>8. \A d \in Schema : d # q.db => dbRow[d] # IdOf(q)
  BY <1>1, <1>7 DEF IdsApart
<1>9. q.number <= queries /\ q.dbId <= queries /\ IdOf(q) <= queries
  BY <1>1, <1>7 DEF IdsApart, IdOf
<1>10. queries \in Nat /\ queries' = queries
  BY <1>1 DEF QueriesTyped, Changes
<1>11. IdsApart'
  <2>1. ASSUME NEW d \in Schema, NEW e \in Schema, d # e, dbRow'[d] # 0 PROVE dbRow'[d] # dbRow'[e]
    <3>1. CASE d = q.db
      BY <1>1, <1>7, <1>8, <2>1, <3>1 DEF Changes, IdsApart
    <3>2. CASE e = q.db
      BY <1>1, <1>7, <1>8, <2>1, <3>2 DEF Changes, IdsApart
    <3>3. CASE d # q.db /\ e # q.db
      BY <1>1, <1>7, <2>1, <3>3 DEF Changes, IdsApart
    <3> QED BY <3>1, <3>2, <3>3
  <2>2. ASSUME NEW d \in Schema PROVE dbRow'[d] <= queries'
    <3>1. dbRow[d] <= queries
      BY <1>7 DEF IdsApart
    <3> QED BY <1>1, <1>9, <1>10, <3>1 DEF Changes
  <2>3. ASSUME NEW o \in Client, query'[o] # NoQuery
        PROVE  /\ query'[o].number <= queries' /\ query'[o].dbId <= queries'
               /\ \A d \in Schema : d # query'[o].db => dbRow'[d] # IdOf(query'[o])
    <3>1. CASE o = p
      BY <1>1, <1>3, <1>8, <1>9, <1>10, <2>3, <3>1 DEF Changes
    <3>2. CASE o # p
      <4>1. PICK r : r = query[o]
        OBVIOUS
      <4>2. query'[o] = r /\ r # NoQuery /\ r.number <= queries /\ r.dbId <= queries
        BY <1>1, <1>7, <2>3, <3>2, <4>1 DEF IdsApart
      <4>3. \A d \in Schema : d # r.db => dbRow[d] # IdOf(r)
        BY <1>7, <4>1, <4>2 DEF IdsApart
      <4>4. IdOf(r) # 0
        BY <1>1, <4>1, <4>2 DEF QueriesTyped, FineQuery, IdOf
      <4>5. r.db # q.db => IdOf(r) # IdOf(q)
        BY <1>1, <1>7, <4>1, <4>2 DEF IdsApart
      <4>6. \A d \in Schema : d # r.db => dbRow'[d] # IdOf(r)
        BY <1>1, <4>3, <4>4, <4>5 DEF Changes
      <4> QED BY <1>10, <4>2, <4>6
    <3> QED BY <3>1, <3>2
  <2>4. ASSUME NEW o \in Client, NEW n \in Client, query'[o] # NoQuery, query'[n] # NoQuery,
               query'[o].db # query'[n].db
        PROVE  IdOf(query'[o]) # IdOf(query'[n])
    <3>1. CASE o = p
      <4>1. n # p
        BY <2>4, <3>1
      <4>2. query'[n] = query[n] /\ query'[o] = z /\ z # NoQuery
        BY <1>1, <2>4, <3>1, <4>1
      <4>3. IdOf(query[p]) # IdOf(query[n])
        BY <1>1, <1>3, <1>7, <2>4, <4>1, <4>2 DEF IdsApart
      <4> QED BY <1>1, <1>3, <4>2, <4>3
    <3>2. CASE n = p
      <4>1. o # p
        BY <2>4, <3>2
      <4>2. query'[o] = query[o] /\ query'[n] = z /\ z # NoQuery
        BY <1>1, <2>4, <3>2, <4>1
      <4>3. IdOf(query[p]) # IdOf(query[o])
        BY <1>1, <1>3, <1>7, <2>4, <4>1, <4>2 DEF IdsApart
      <4> QED BY <1>1, <1>3, <4>2, <4>3
    <3>3. CASE o # p /\ n # p
      <4>1. query'[o] = query[o] /\ query'[n] = query[n]
        BY <1>1, <3>3
      <4> QED BY <1>7, <2>4, <4>1 DEF IdsApart
    <3> QED BY <3>1, <3>2, <3>3
  <2> QED BY <2>1, <2>2, <2>3, <2>4 DEF IdsApart, IdOf
<1>12. \A o \in Client \ {p} : query[o] # NoQuery /\ (query[o].sound \/ q.sound) =>
         query[o].db # q.db /\ QUsers(query[o]) \cap QUsers(q) = {}
  BY <1>1 DEF DatabasesInv, SoundAlone
<1>13. SoundAlone'
  <2>1. SUFFICES ASSUME NEW o \in Client, NEW n \in Client, o # n, query'[o] # NoQuery, query'[n] # NoQuery,
                        query'[o].sound
                 PROVE  query'[o].db # query'[n].db /\ QUsers(query'[o]) \cap QUsers(query'[n]) = {}
    BY DEF SoundAlone, QUsers
  <2>2. CASE o = p
    <3>1. query'[n] = query[n] /\ query'[o] = z
      BY <1>1, <2>1, <2>2
    <3>2. query[n].db # q.db /\ QUsers(query[n]) \cap QUsers(q) = {}
      BY <1>3, <1>12, <2>1, <2>2, <3>1
    <3> QED BY <1>3, <2>1, <3>1, <3>2
  <2>3. CASE n = p
    <3>1. query'[o] = query[o] /\ query'[n] = z
      BY <1>1, <2>1, <2>3
    <3>2. query[o].db # q.db /\ QUsers(query[o]) \cap QUsers(q) = {}
      BY <1>12, <2>1, <2>3, <3>1
    <3> QED BY <1>3, <2>1, <3>1, <3>2
  <2>4. CASE o # p /\ n # p
    <3>1. query'[o] = query[o] /\ query'[n] = query[n]
      BY <1>1, <2>4
    <3> QED BY <2>1, <3>1 DEF DatabasesInv, SoundAlone
  <2> QED BY <2>2, <2>3, <2>4
<1>14. /\ \A d : <<"schema", d>> \in Touches(q) <=> d = q.db
       /\ \A t \in UserPart : \A u : <<t, u>> \in Touches(q) <=> u \in QUsers(q)
       /\ \A u \in QUsers(q) : UserParts(u) \subseteq Touches(q)
  BY <1>1, FineTouches
<1>15. /\ \A d : d # q.db => (<<"schema", d>> \in doubt' <=> <<"schema", d>> \in doubt)
       /\ \A t \in UserPart : \A u : u \notin QUsers(q) => (<<t, u>> \in doubt' <=> <<t, u>> \in doubt)
  <2>1. doubt' \subseteq doubt \cup Touches(q) /\ doubt \subseteq doubt' \cup Touches(q)
    BY <1>3, <1>4 DEF Ends
  <2> QED BY <1>14, <2>1
<1>16. ASSUME NEW u \in DbUser, UserParts(u) \subseteq doubt
       PROVE  \/ UserParts(u) \subseteq doubt'
              \/ z = NoQuery /\ q.sound /\ u \in QUsers(q) /\ userRow[u].of \in {0, q.dbId}
  <2>1. CASE u \notin QUsers(q)
    BY <1>15, <1>16, <2>1, PartsAre DEF UserPart
  <2>2. CASE u \in QUsers(q)
    BY <1>3, <1>4, <1>16, <2>2 DEF Ends
  <2> QED BY <2>1, <2>2
<1>17. ASSUME NEW u \in DbUser, NEW o \in Client, query[o] # NoQuery, ~query[o].sound, u \in QUsers(query[o])
       PROVE  \/ UserParts(u) \subseteq doubt'
              \/ query'[o] # NoQuery /\ ~query'[o].sound /\ u \in QUsers(query'[o])
  <2>1. CASE o # p
    <3>1. query'[o] = query[o]
      BY <1>1, <2>1
    <3> QED BY <1>17, <3>1
  <2>2. CASE o = p /\ z # NoQuery
    <3>1. query'[o] = z /\ ~z.sound /\ u \in QUsers(z)
      BY <1>1, <1>3, <1>17, <2>2
    <3> QED BY <2>2, <3>1
  <2>3. CASE o = p /\ z = NoQuery
    <3>1. doubt' = doubt \cup Touches(q)
      BY <1>1, <1>4, <1>17, <2>3 DEF Ends
    <3> QED BY <1>1, <1>14, <1>17, <2>3, <3>1
  <2> QED BY <2>1, <2>2, <2>3
<1>18. Unforeseen'
  <2>1. SUFFICES ASSUME NEW r \in Client, query'[r].kind = "delete", NEW u \in DbUser, u \notin query'[r].users,
                        userRow'[u].of = query'[r].dbId
                 PROVE  \/ UserParts(u) \subseteq doubt'
                        \/ \E o \in Client : query'[o] # NoQuery /\ ~query'[o].sound /\ u \in QUsers(query'[o])
    BY DEF Unforeseen, UserParts, QUsers
  <2>2. /\ query[r].kind = "delete" /\ query[r] # NoQuery /\ query[r].db = query'[r].db
        /\ query[r].dbId = query'[r].dbId /\ query[r].users = query'[r].users
    <3>1. CASE r = p
      <4>1. query'[r] = z
        BY <1>1, <3>1
      <4>2. z # NoQuery
        BY <2>1, <4>1, NoQueryIs
      <4>3. q.kind = "delete"
        BY <1>3, <2>1, <4>1, <4>2
      <4> QED BY <1>1, <1>3, <3>1, <4>1, <4>2, <4>3
    <3>2. CASE r # p
      BY <1>1, <2>1, <3>2, NoQueryIs
    <3> QED BY <3>1, <3>2
  <2>3. query[r].dbId # 0 /\ IdOf(query[r]) = query[r].dbId
    BY <1>1, <2>2 DEF QueriesTyped, FineQuery, IdOf
  <2>4. CASE userRow'[u].of = userRow[u].of
    <3>1. \/ UserParts(u) \subseteq doubt
          \/ \E o \in Client : query[o] # NoQuery /\ ~query[o].sound /\ u \in QUsers(query[o])
      BY <2>1, <2>2, <2>4 DEF DatabasesInv, Unforeseen
    <3>2. ASSUME z = NoQuery, q.sound, u \in QUsers(q), userRow[u].of \in {0, q.dbId} PROVE FALSE
      <4>1. r # p
        BY <1>1, <2>1, <3>2, NoQueryIs
      <4>2. q.dbId = query[r].dbId /\ IdOf(q) = IdOf(query[r])
        BY <1>2, <2>1, <2>2, <2>3, <2>4, <3>2
      <4>3. query[r].db = q.db
        BY <1>1, <1>7, <2>2, <4>2 DEF IdsApart
      <4> QED BY <1>12, <2>2, <3>2, <4>1, <4>3
    <3>3. CASE UserParts(u) \subseteq doubt
      BY <1>16, <3>2, <3>3
    <3>4. ASSUME NEW o \in Client, query[o] # NoQuery, ~query[o].sound, u \in QUsers(query[o])
          PROVE  \/ UserParts(u) \subseteq doubt'
                 \/ query'[o] # NoQuery /\ ~query'[o].sound /\ u \in QUsers(query'[o])
      BY <1>17, <3>4
    <3> QED BY <3>1, <3>3, <3>4
  <2>5. CASE userRow'[u].of # userRow[u].of
    <3>1. userRow'[u].of = q.dbId /\ q.kind # "delete" /\ u \in QUsers(q)
      <4>1. userRow'[u].of = q.dbId /\ q.kind # "delete"
        BY <1>1, <2>1, <2>2, <2>3, <2>5 DEF Changes
      <4> QED BY <1>1, <2>5, <4>1 DEF Changes, Cascades
    <3>2. r # p
      BY <1>1, <2>2, <3>1
    <3>3. q.dbId # 0 /\ IdOf(q) = IdOf(query[r])
      BY <1>2, <2>1, <2>2, <2>3, <3>1
    <3>4. query[r].db = q.db
      BY <1>1, <1>7, <2>2, <3>3 DEF IdsApart
    <3>5. ~q.sound
      BY <1>12, <2>2, <3>2, <3>4
    <3> QED BY <1>1, <1>17, <3>1, <3>5
  <2> QED BY <2>4, <2>5
\* A user the request does not touch stays as it is, or all of it is in doubt, or another
\* request that is not sound touches it.
<1>19. ASSUME NEW u \in DbUser, u \notin QUsers(q), userRow'[u] = userRow[u] PROVE SameUser(u)
  <2>1. ASSUME userRow[u].id # 0, NEW d \in Schema, dbRow'[d] = userRow[u].of
        PROVE  dbRow[d] = userRow[u].of
    <3>1. userRow[u].of # 0 /\ \E e \in Schema : dbRow[e] = userRow[u].of
      BY <2>1 DEF DatabasesInv, RowsRefer
    <3>2. PICK e \in Schema : dbRow[e] = userRow[u].of
      BY <3>1
    <3>3. CASE d # q.db \/ dbRow'[d] = dbRow[d]
      BY <1>1, <2>1, <3>3 DEF Changes
    <3>4. CASE d = q.db /\ dbRow'[d] # dbRow[d]
      <4>1. dbRow'[d] = IdOf(q)
        BY <1>1, <2>1, <3>1, <3>4 DEF Changes
      <4>2. e = q.db
        BY <1>8, <2>1, <3>2, <4>1
      <4> QED BY <2>1, <3>2, <3>4, <4>2
    <3> QED BY <3>3, <3>4
  <2>2. sqlUsers'[u] = sqlUsers[u]
    BY <1>1, <1>19 DEF Changes
  <2>3. \A t \in UserPart : <<t, u>> \in doubt' <=> <<t, u>> \in doubt
    BY <1>15, <1>19
  <2> QED BY <1>19, <2>1, <2>2, <2>3 DEF SameUser
<1>20. ASSUME NEW u \in DbUser, u \notin QUsers(q), userRow'[u] # userRow[u]
       PROVE  /\ userRow[u].of = q.dbId /\ q.dbId # 0 /\ userRow[u].id # 0
              /\ \/ UserParts(u) \subseteq doubt
                 \/ \E o \in Client : query[o] # NoQuery /\ ~query[o].sound /\ u \in QUsers(query[o])
  <2>1. Cascades(q, u)
    BY <1>1, <1>20 DEF Changes
  <2>2. userRow[u].of = q.dbId /\ q.kind = "delete" /\ q.dbId # 0
    BY <1>1, <2>1 DEF Cascades, FineQuery
  <2>3. userRow[u].id # 0
    BY <1>20, <2>1 DEF Cascades, DatabasesInv, RowsRefer
  <2>4. u \notin q.users
    BY <1>20 DEF QUsers
  <2> QED BY <1>1, <2>2, <2>3, <2>4 DEF DatabasesInv, Unforeseen
<1>21. PromisesKept'
  <2>1. SUFFICES ASSUME NEW o \in Client, query'[o] # NoQuery, query'[o].sound PROVE Promise(query[o])'
    BY DEF PromisesKept
  <2>2. CASE o = p
    <3>1. query'[o] = z
      BY <1>1, <2>2
    <3>2. Promise(z)'
      BY <2>1, <3>1 DEF QMoves, GoesOn
    <3> QED BY <3>1, <3>2
  <2>3. CASE o # p
    <3>1. PICK r : r = query[o]
      OBVIOUS
    <3>2. query'[o] = r /\ r # NoQuery /\ r.sound /\ FineQuery(r) /\ Promise(r)
      BY <1>1, <2>1, <2>3, <3>1 DEF QueriesTyped, DatabasesInv, PromisesKept
    <3>3. r.db # q.db /\ QUsers(r) \cap QUsers(q) = {}
      BY <1>12, <2>3, <3>1, <3>2
    <3>4. r.db \in Schema /\ QUsers(r) \subseteq DbUser
      BY <3>2 DEF FineQuery, QueryType, QUsers
    <3>5. SameSchema(r.db)
      BY <1>1, <1>15, <3>3, <3>4 DEF Changes, SameSchema
    <3>6. ASSUME \A u \in QUsers(r) : userRow'[u] = userRow[u] PROVE Promise(r)'
      <4>1. \A u \in QUsers(r) : SameUser(u)
        BY <1>19, <3>3, <3>4, <3>6
      <4>2. Promise(r)'
        BY <3>2, <3>5, <4>1, PromiseStays
      <4> QED BY <4>2
    <3>7. ASSUME NEW u \in QUsers(r), userRow'[u] # userRow[u] PROVE Promise(r)'
      <4>1. u \in DbUser /\ u \notin QUsers(q)
        BY <3>3, <3>4
      <4>2. userRow[u].of = q.dbId /\ q.dbId # 0 /\ userRow[u].id # 0
        BY <1>20, <3>7, <4>1
      <4>3. userRow[u].of # r.dbId
        <5>1. r.dbId # 0 => IdOf(r) = r.dbId
          BY DEF IdOf
        <5>2. IdOf(r) # IdOf(q)
          BY <1>1, <1>7, <3>1, <3>2, <3>3 DEF IdsApart
        <5> QED BY <1>2, <4>2, <5>1, <5>2
      <4>4. r.kind \in MakesUser /\ r.user = u /\ u # "none"
        <5>1. r.kind # "delete"
          <6>1. SUFFICES ASSUME r.kind = "delete" PROVE FALSE
            OBVIOUS
          <6>2. r.user = "none" /\ DropPromise(r)
            BY <3>2, <6>1 DEF Promise, FineQuery, OfSchema
          <6>3. "none" \notin DbUser
            BY DatabasesAssumption
          <6>4. u \in r.users
            BY <3>7, <6>2, <6>3 DEF QUsers
          <6> QED BY <4>3, <6>2, <6>4 DEF DropPromise
        <5>2. r.kind \notin OfUser
          <6>1. SUFFICES ASSUME r.kind \in OfUser PROVE FALSE
            OBVIOUS
          <6>2. r.users = {} /\ r.row.of = r.dbId /\ Holds(r)
            BY <3>2, <5>1, <6>1 DEF Promise, OldPromise, FineQuery
          <6>3. u = r.user
            BY <3>7, <6>2 DEF QUsers
          <6> QED BY <4>3, <6>2, <6>3 DEF Holds
        <5>3. r.users = {}
          BY <3>2, <5>1 DEF FineQuery
        <5>4. u = r.user
          BY <3>7, <5>3 DEF QUsers
        <5>5. u # "none"
          BY <4>1, DatabasesAssumption
        <5>6. r.kind \notin OfSchema
          BY <3>2, <5>4, <5>5 DEF FineQuery
        <5> QED BY <3>2, <5>2, <5>4, <5>5, <5>6 DEF FineQuery, QueryType, QueryKinds
      <4>5. NewPromise(r) /\ SchemaPromise(r)
        BY <3>2, <4>4 DEF Promise
      <4>6. Head(r.todo) \notin {"createAccount", "grantNew", "insertUser"}
        BY <4>2, <4>4, <4>5 DEF NewPromise
      <4>7. UserParts(u) \subseteq doubt
        <5>1. ASSUME NEW n \in Client, query[n] # NoQuery, ~query[n].sound, u \in QUsers(query[n]) PROVE FALSE
          <6>1. n # o
            BY <3>1, <3>2, <5>1
          <6>2. QUsers(query[o]) \cap QUsers(query[n]) = {}
            BY <3>1, <3>2, <5>1, <6>1 DEF DatabasesInv, SoundAlone
          <6> QED BY <3>1, <3>7, <5>1, <6>2
        <5> QED BY <1>20, <3>7, <4>1, <5>1
      <4>8. UserParts(u) \subseteq doubt'
        BY <1>16, <4>1, <4>7
      <4>9. UserFine(u)'
        BY <4>1, <4>8, DoubtfulIsFineNext
      <4>10. NewPromise(r)'
        BY <4>4, <4>6, <4>9 DEF NewPromise
      <4>11. SchemaPromise(r)'
        BY <3>5, <4>5, SchemaStays DEF SameSchema, SchemaPromise
      <4>12. r.kind \notin OfUser /\ r.kind # "delete"
        BY <4>4 DEF MakesUser, OfUser
      <4> QED BY <4>10, <4>11, <4>12 DEF Promise
    <3>8. Promise(r)'
      BY <3>6, <3>7
    <3> QED BY <3>2, <3>8
  <2> QED BY <2>2, <2>3
<1>22. RestFine'
  <2>1. ASSUME NEW d \in Schema, \A o \in Client : query'[o] # NoQuery => query'[o].db # d
        PROVE  SchemaFine(d)'
    <3>1. CASE d = q.db
      <4>1. z = NoQuery
        BY <1>1, <1>3, <2>1, <3>1
      <4>2. CASE doubt' = doubt \cup Touches(q)
        BY <1>14, <3>1, <4>2 DEF SchemaFine
      <4> QED BY <1>4, <3>1, <4>1, <4>2 DEF Ends
    <3>2. CASE d # q.db
      <4>1. \A o \in Client : query[o] # NoQuery => query[o].db # d
        BY <1>1, <2>1, <3>2
      <4>2. SchemaFine(d)
        BY <4>1 DEF DatabasesInv, RestFine
      <4>3. SameSchema(d)
        BY <1>1, <1>15, <3>2 DEF Changes, SameSchema
      <4> QED BY <4>2, <4>3, SchemaStays
    <3> QED BY <3>1, <3>2
  <2>2. ASSUME NEW u \in DbUser, \A o \in Client : query'[o] # NoQuery => u \notin QUsers(query'[o])
        PROVE  UserFine(u)'
    <3>1. CASE u \in QUsers(q)
      <4>1. z = NoQuery
        BY <1>1, <1>3, <2>2, <3>1
      <4>2. CASE doubt' = doubt \cup Touches(q)
        <5>1. UserParts(u) \subseteq doubt'
          BY <1>14, <3>1, <4>2
        <5> QED BY <5>1, DoubtfulIsFineNext
      <4> QED BY <1>4, <3>1, <4>1, <4>2 DEF Ends
    <3>2. CASE u \notin QUsers(q)
      <4>1. \A o \in Client : query[o] # NoQuery => u \notin QUsers(query[o])
        BY <1>1, <2>2, <3>2
      <4>2. UserFine(u)
        BY <4>1 DEF DatabasesInv, RestFine
      <4>3. CASE userRow'[u] = userRow[u]
        BY <1>19, <3>2, <4>2, <4>3, UserStays
      <4>4. CASE userRow'[u] # userRow[u]
        <5>1. UserParts(u) \subseteq doubt
          BY <1>20, <3>2, <4>1, <4>4
        <5>2. UserParts(u) \subseteq doubt'
          BY <1>16, <3>2, <5>1
        <5> QED BY <5>2, DoubtfulIsFineNext
      <4> QED BY <4>3, <4>4
    <3> QED BY <3>1, <3>2
  <2> QED BY <2>1, <2>2 DEF RestFine, QUsers
<1> QED BY <1>5, <1>6, <1>11, <1>13, <1>18, <1>21, <1>22 DEF DatabasesInv

-----------------------------------------------------------------------------
(* The next step of a request, and its end.                                 *)

\* A request that is at a step.
QueryIs(p, q, s) ==
  /\ q = query[p] /\ q # NoQuery /\ FineQuery(q) /\ Head(q.todo) = s
  /\ QueryCourse(q.kind, q.user, q.todo)
  /\ q.dbId <= queries /\ q.number <= queries
  /\ q.sound => Promise(q)

LEMMA AtAStep ==
  ASSUME DatabasesInv, NEW p \in Client, NEW s, QueryAt(p, s)
  PROVE  QueryIs(p, query[p], s)
<1>1. PICK q : q = query[p]
  OBVIOUS
<1>2. q # NoQuery /\ Head(q.todo) = s
  BY <1>1 DEF QueryAt, NoQuery
<1>3. FineQuery(q)
  BY <1>1, <1>2 DEF DatabasesInv, QueriesTyped
<1>4. QueryCourse(q.kind, q.user, q.todo)
  BY <1>3, QueryCoursesAre DEF FineQuery, QueryType
<1>5. q.dbId <= queries /\ q.number <= queries
  BY <1>1, <1>2 DEF DatabasesInv, IdsApart
<1>6. q.sound => Promise(q)
  BY <1>1, <1>2 DEF DatabasesInv, PromisesKept
<1> QED BY <1>1, <1>2, <1>3, <1>4, <1>5, <1>6 DEF QueryIs

\* z is q at its next step n.
Follows(q, z, n) ==
  /\ z.kind = q.kind /\ z.db = q.db /\ z.dbId = q.dbId /\ z.user = q.user /\ z.row = q.row
  /\ z.users = q.users /\ z.left = q.left /\ z.number = q.number
  /\ Head(z.todo) = n /\ QueryAfter(q.kind, q.user, Head(q.todo), n)

OnTo(q, b) == [q EXCEPT !.todo = Tail(q.todo), !.sound = b]

LEMMA NextIsFine ==
  ASSUME NEW q, FineQuery(q), QueryCourse(q.kind, q.user, q.todo), Len(q.todo) > 1,
         q.kind = "create" => Head(q.todo) # "insertDb",
         NEW b \in BOOLEAN, NEW z, z = OnTo(q, b)
  PROVE  FineQuery(z) /\ Follows(q, z, Head(Tail(q.todo))) /\ z.sound = b /\ z # NoQuery
<1>1. q \in QueryType /\ q.kind \in QueryKinds
  BY DEF FineQuery, QueryType
<1> DEFINE t == Tail(q.todo)  n == Head(t)
<1>2. t # <<>> /\ t \in QueryCourses(q.kind, q.user) /\ QueryAfter(q.kind, q.user, Head(q.todo), n)
  BY DEF QueryCourse
<1>3. t \in UNION {QueryCourses(k, u) : k \in QueryKinds, u \in DbUser \cup {"none"}}
  <2>1. q.user \in DbUser \cup {"none"}
    BY <1>1 DEF QueryType
  <2> QED BY <1>1, <1>2, <2>1
<1> HIDE DEF t
<1>4. PICK y : y = [q EXCEPT !.todo = t]
  OBVIOUS
<1>45. z = [y EXCEPT !.sound = b]
  BY <1>4 DEF t, OnTo
<1>46. /\ y.kind = q.kind /\ y.db = q.db /\ y.dbId = q.dbId /\ y.user = q.user /\ y.row = q.row
       /\ y.users = q.users /\ y.left = q.left /\ y.number = q.number /\ y.todo = t
       /\ y \in QueryType
  BY <1>1, <1>3, <1>4 DEF QueryType
<1>5. /\ z.kind = q.kind /\ z.db = q.db /\ z.dbId = q.dbId /\ z.user = q.user /\ z.row = q.row
      /\ z.users = q.users /\ z.left = q.left /\ z.number = q.number /\ z.todo = t /\ z.sound = b
      /\ z \in QueryType
  BY <1>45, <1>46 DEF QueryType
<1>6. z \in QueryType
  BY <1>5
<1>7. q.kind = "create" =>
        (Head(q.todo) \in {"createSchema", "insertDb"} <=> n \in {"createSchema", "insertDb"})
  BY <1>2 DEF QueryAfter
<1>8. q.kind = "create" => z.dbId = IF n \in {"createSchema", "insertDb"} THEN 0 ELSE z.number
  BY <1>5, <1>7 DEF FineQuery
<1>9. FineQuery(z)
  BY <1>2, <1>5, <1>6, <1>8 DEF FineQuery
<1>10. z # NoQuery
  BY <1>1, <1>5, NoQueryIs
<1> QED BY <1>2, <1>5, <1>9, <1>10 DEF Follows, t

\* It goes on.
LEMMA QueryGoesOn ==
  ASSUME DatabasesInv, NEW p \in Client, NEW q, NEW s, QueryIs(p, q, s), Changes(q), doubt' = doubt,
         NEW z, z # NoQuery, FineQuery(z), query' = [query EXCEPT ![p] = z], NEW n, Follows(q, z, n),
         z.sound => q.sound, z.sound => Promise(z)'
  PROVE  DatabasesInv'
<1>1. /\ FineQuery(z) /\ z.kind = q.kind /\ z.db = q.db /\ z.user = q.user /\ z.users = q.users
      /\ z.number = q.number /\ IdOf(z) = IdOf(q) /\ z.dbId <= queries /\ z.dbId = q.dbId
  BY DEF Follows, QueryIs, IdOf
<1>2. GoesOn(q, z)
  BY <1>1 DEF GoesOn
<1>3. QMoves(p, q, z)
  BY <1>2 DEF QMoves, QueryIs
<1> QED BY <1>3, QMovesKeep

LEMMA SettlesAre ==
  ASSUME NEW q, FineQuery(q)
  PROVE  /\ Settles(q) \subseteq Touches(q)
         /\ <<"schema", q.db>> \in Settles(q) <=> q.kind \in {"create", "delete"}
         /\ \A u \in QUsers(q) : <<"account", u>> \in Settles(q) <=> q.kind \in {"create", "createUser", "deleteUser", "delete"}
         /\ \A u \in QUsers(q) : <<"password", u>> \in Settles(q) <=> q.kind \in {"password", "deleteUser", "delete"}
         /\ \A u \in QUsers(q) : <<"grants", u>> \in Settles(q) <=> q.kind \in {"privileges", "deleteUser", "delete"}
<1>1. PICK k : k = q.kind
  OBVIOUS
<1>2. /\ k \in QueryKinds /\ q.user \in DbUser \cup {"none"}
      /\ k \in OfUser \cup {"createUser"} => q.user # "none" /\ q.user \in DbUser
      /\ k # "delete" => q.users = {}
      /\ QUsers(q) \subseteq DbUser
      /\ k # "delete" => \A u \in QUsers(q) : u = q.user
  BY <1>1 DEF FineQuery, QueryType, QUsers
<1>3. /\ \A d : <<"schema", d>> \in Touches(q) <=> d = q.db
      /\ \A t \in UserPart : \A u : <<t, u>> \in Touches(q) <=> u \in QUsers(q)
      /\ \A u \in QUsers(q) : UserParts(u) \subseteq Touches(q)
  BY FineTouches
<1>4. CASE k = "create"
  <2>1. Settles(q) = {<<"schema", q.db>>} \cup ({"account"} \X ({q.user} \cap DbUser))
    BY <1>1, <1>4 DEF Settles
  <2>2. QUsers(q) = {q.user} \cap DbUser
    BY <1>2, <1>4 DEF QUsers
  <2> QED BY <1>1, <1>3, <1>4, <2>1, <2>2 DEF UserPart
<1>5. CASE k = "createUser"
  <2>1. Settles(q) = {<<"account", q.user>>}
    BY <1>1, <1>5 DEF Settles
  <2>2. QUsers(q) = {q.user}
    BY <1>2, <1>5 DEF QUsers
  <2> QED BY <1>1, <1>3, <1>5, <2>1, <2>2 DEF UserPart
<1>6. CASE k = "password"
  <2>1. Settles(q) = {<<"password", q.user>>}
    BY <1>1, <1>6 DEF Settles
  <2>2. QUsers(q) = {q.user}
    BY <1>2, <1>6 DEF QUsers, OfUser
  <2> QED BY <1>1, <1>3, <1>6, <2>1, <2>2 DEF UserPart
<1>7. CASE k = "privileges"
  <2>1. Settles(q) = {<<"grants", q.user>>}
    BY <1>1, <1>7 DEF Settles
  <2>2. QUsers(q) = {q.user}
    BY <1>2, <1>7 DEF QUsers, OfUser
  <2> QED BY <1>1, <1>3, <1>7, <2>1, <2>2 DEF UserPart
<1>8. CASE k = "deleteUser"
  <2>1. Settles(q) = UserParts(q.user)
    BY <1>1, <1>8 DEF Settles
  <2>2. QUsers(q) = {q.user} /\ q.user \in DbUser
    BY <1>2, <1>8 DEF QUsers, OfUser
  <2>3. UserParts(q.user) = {<<"account", q.user>>, <<"grants", q.user>>, <<"password", q.user>>}
    BY <2>2, PartsAre
  <2>4. UserParts(q.user) \subseteq Touches(q)
    BY <1>3, <2>2
  <2> QED BY <1>1, <1>8, <2>1, <2>2, <2>3, <2>4
<1>9. CASE k = "delete"
  <2>1. Settles(q) = Touches(q)
    BY <1>1, <1>9 DEF Settles
  <2> QED BY <1>1, <1>3, <1>9, <2>1 DEF UserPart
<1>10. CASE k \in {"stats", "backup"}
  <2>1. Settles(q) = {}
    BY <1>1, <1>10 DEF Settles
  <2> QED BY <1>1, <1>10, <2>1
<1> QED BY <1>2, <1>4, <1>5, <1>6, <1>7, <1>8, <1>9, <1>10 DEF QueryKinds, MakesUser, OfUser, OfSchema

\* It ends: badly, or with all it touches in order.
EndsWell(q) ==
  /\ SchemaFine(q.db)'
  /\ \A u \in QUsers(q) : UserFine(u)' /\ userRow[u].of \in {0, q.dbId}

LEMMA QueryHasEnded ==
  ASSUME DatabasesInv, NEW p \in Client, NEW q, NEW s, QueryIs(p, q, s), Changes(q),
         NEW well \in BOOLEAN, QueryEnds(p, well), well /\ q.sound /\ doubt' = doubt \ Settles(q) => EndsWell(q)
  PROVE  DatabasesInv'
<1>1. query' = [query EXCEPT ![p] = NoQuery] /\ q = query[p] /\ FineQuery(q) /\ q # NoQuery
  BY DEF QueryEnds, QueryIs
<1>2. Ends(q)
  <2>1. CASE well /\ q.sound
    <3>1. doubt' = doubt \ Settles(q)
      BY <1>1, <2>1 DEF QueryEnds
    <3>2. Settles(q) \subseteq Touches(q)
      BY <1>1, SettlesAre
    <3> QED BY <2>1, <3>1, <3>2 DEF Ends, EndsWell
  <2>2. CASE ~(well /\ q.sound)
    BY <1>1, <2>2 DEF QueryEnds, Ends
  <2> QED BY <2>1, <2>2
<1>3. QMoves(p, q, NoQuery)
  BY <1>1, <1>2 DEF QMoves
<1> QED BY <1>3, QMovesKeep

\* The end of a step that went well.
LEMMA QueryHasAdvanced ==
  ASSUME DatabasesInv, NEW p \in Client, NEW q, NEW s, QueryIs(p, q, s), Changes(q), QueryAdvance(p),
         q.kind = "create" => s # "insertDb",
         \A z, n : Follows(q, z, n) /\ q.sound /\ doubt' = doubt => Promise(z)',
         QueryLast(q.kind, q.user, s) /\ q.sound /\ doubt' = doubt \ Settles(q) => EndsWell(q)
  PROVE  DatabasesInv'
<1>1. q = query[p] /\ FineQuery(q) /\ Head(q.todo) = s /\ QueryCourse(q.kind, q.user, q.todo) /\ q \in QueryType
  BY DEF QueryIs, FineQuery
<1>2. CASE Len(q.todo) > 1
  <2>1. PICK z : z = OnTo(q, q.sound)
    OBVIOUS
  <2>2. q.sound \in BOOLEAN
    BY <1>1 DEF QueryType
  <2>3. FineQuery(z) /\ Follows(q, z, Head(Tail(q.todo))) /\ z.sound = q.sound /\ z # NoQuery
    BY <1>1, <1>2, <2>1, <2>2, NextIsFine
  <2>4. z = [q EXCEPT !.todo = Tail(q.todo)]
    BY <1>1, <2>1 DEF QueryType, OnTo
  <2>5. query' = [query EXCEPT ![p] = z] /\ doubt' = doubt
    <3>1. p \in DOMAIN query
      BY DEF DatabasesInv, QueriesTyped
    <3> QED BY <1>1, <1>2, <2>4, <3>1 DEF QueryAdvance
  <2> QED BY <2>3, <2>5, QueryGoesOn
<1>3. CASE ~(Len(q.todo) > 1)
  <2>1. QueryEnds(p, TRUE) /\ QueryLast(q.kind, q.user, s)
    BY <1>1, <1>3 DEF QueryAdvance, QueryCourse
  <2> QED BY <2>1, QueryHasEnded
<1> QED BY <1>2, <1>3

-----------------------------------------------------------------------------
(* Commands of MariaDB.                                                     *)

LEMMA NoAccountIs == NoAccount \in AccountType /\ NoAccount.pw = 0 /\ \A d \in Schema : NoAccount.grants[d] = {}
BY DEF NoAccount, AccountType

\* An account that is there has a password.
LEMMA AccountIs ==
  ASSUME RowsRefer, NEW u \in DbUser PROVE sqlUsers[u] # NoAccount <=> sqlUsers[u].pw # 0
BY NoAccountIs DEF RowsRefer

\* What a command changes: a schema, or accounts of its request.
CommandIs(q) ==
  /\ dbRow' = dbRow /\ userRow' = userRow /\ queries' = queries
  /\ schemas' \in {schemas, schemas \cup {q.db}, schemas \ {q.db}}
  /\ sqlUsers' \in [DbUser -> AccountType]
  /\ \A u \in DbUser : \/ sqlUsers'[u] = sqlUsers[u]
                       \/ u \in QUsers(q) /\ (sqlUsers'[u] # NoAccount => sqlUsers'[u].pw # 0)

LEMMA CommandChanges ==
  ASSUME DatabasesInv, NEW q, FineQuery(q), CommandIs(q) PROVE Changes(q)
<1>1. QueriesTyped /\ RowsRefer
  BY DEF DatabasesInv
<1>2. q.db \in Schema
  BY DEF FineQuery, QueryType
<1>3. schemas' \subseteq Schema /\ \A d \in Schema \ {q.db} : d \in schemas' <=> d \in schemas
  BY <1>1, <1>2 DEF CommandIs, QueriesTyped
<1>4. \A u \in DbUser \ QUsers(q) : sqlUsers'[u] = sqlUsers[u]
  BY DEF CommandIs
<1>5. RowsRefer'
  BY <1>1 DEF CommandIs, RowsRefer, NoAccount
<1> QED BY <1>1, <1>3, <1>4, <1>5 DEF CommandIs, Changes, QueriesTyped

LEMMA OneAccount ==
  ASSUME DatabasesInv, NEW q, FineQuery(q), dbRow' = dbRow, userRow' = userRow, queries' = queries,
         schemas' = schemas, NEW u \in QUsers(q), NEW a \in AccountType, a # NoAccount => a.pw # 0,
         sqlUsers' = [sqlUsers EXCEPT ![u] = a]
  PROVE  CommandIs(q) /\ sqlUsers'[u] = a /\ \A v \in DbUser \ {u} : sqlUsers'[v] = sqlUsers[v]
<1>1. sqlUsers \in [DbUser -> AccountType] /\ u \in DbUser
  BY DEF DatabasesInv, QueriesTyped, FineQuery, QueryType, QUsers
<1> QED BY <1>1 DEF CommandIs

\* A user whose account and rows stay, while nothing is put in doubt.
LEMMA KeptUser ==
  ASSUME NEW u, dbRow' = dbRow, userRow' = userRow, sqlUsers'[u] = sqlUsers[u], doubt' = doubt
  PROVE  SameUser(u)
BY DEF SameUser

LEMMA CreateSchemaKeeps == ASSUME DatabasesInv, NEW p \in Client, CreateSchema(p) PROVE DatabasesInv'
<1>1. PICK q : q = query[p]
  OBVIOUS
<1>2. /\ QueryAt(p, "createSchema") /\ QueryAdvance(p) /\ schemas' = schemas \cup {q.db} /\ sqlUsers' = sqlUsers
      /\ dbRow' = dbRow /\ userRow' = userRow /\ queries' = queries
  BY <1>1 DEF CreateSchema, Command, dbRows
<1>3. QueryIs(p, q, "createSchema")
  BY <1>1, <1>2, AtAStep
<1>4. FineQuery(q) /\ Head(q.todo) = "createSchema" /\ (q.sound => Promise(q))
  BY <1>3 DEF QueryIs
<1>5. Changes(q)
  <2>1. CommandIs(q)
    BY <1>2 DEF CommandIs, DatabasesInv, QueriesTyped
  <2> QED BY <1>4, <2>1, CommandChanges
<1>6. ASSUME NEW z, NEW n, Follows(q, z, n), q.sound, doubt' = doubt PROVE Promise(z)'
  <2>1. z.kind = "create" /\ q.kind = "create" /\ n = "insertDb" /\ z.db = q.db /\ z.user = q.user /\ Head(z.todo) = n
    BY <1>4, <1>6 DEF Follows, QueryAfter
  <2>2. SchemaPromise(z)'
    BY <1>2, <1>4, <1>6, <2>1 DEF Promise, SchemaPromise
  <2>3. ASSUME z.user # "none" PROVE NewPromise(z)'
    <3>1. PICK u : u = z.user
      OBVIOUS
    <3>2. UserFine(u)
      BY <1>4, <1>6, <2>1, <2>3, <3>1 DEF Promise, NewPromise, MakesUser
    <3>3. SameUser(u)
      BY <1>2, <1>6, KeptUser
    <3>4. UserFine(u)'
      BY <3>2, <3>3, UserStays
    <3> QED BY <2>1, <3>1, <3>4 DEF NewPromise
  <2> QED BY <2>1, <2>2, <2>3 DEF Promise, OfUser
<1>7. ~QueryLast(q.kind, q.user, "createSchema")
  BY DEF QueryLast
<1> QED BY <1>2, <1>3, <1>5, <1>6, <1>7, QueryHasAdvanced

LEMMA DropSchemaKeeps == ASSUME DatabasesInv, NEW p \in Client, DropSchema(p) PROVE DatabasesInv'
<1>1. PICK q : q = query[p]
  OBVIOUS
<1>2. /\ QueryAt(p, "dropSchema") /\ QueryAdvance(p) /\ schemas' = schemas \ {q.db} /\ sqlUsers' = sqlUsers
      /\ dbRow' = dbRow /\ userRow' = userRow /\ queries' = queries
  BY <1>1 DEF DropSchema, Command, dbRows
<1>3. QueryIs(p, q, "dropSchema")
  BY <1>1, <1>2, AtAStep
<1>4. FineQuery(q) /\ Head(q.todo) = "dropSchema" /\ (q.sound => Promise(q))
  BY <1>3 DEF QueryIs
<1>5. Changes(q)
  <2>1. CommandIs(q)
    BY <1>2 DEF CommandIs, DatabasesInv, QueriesTyped
  <2> QED BY <1>4, <2>1, CommandChanges
<1>6. ASSUME NEW z, NEW n, Follows(q, z, n), q.sound, doubt' = doubt PROVE Promise(z)'
  <2>1. /\ z.kind = "delete" /\ q.kind = "delete" /\ n = "removeDb" /\ z.db = q.db /\ z.dbId = q.dbId
        /\ z.users = q.users /\ z.left = q.left /\ Head(z.todo) = n
    BY <1>4, <1>6 DEF Follows, QueryAfter
  <2>2. SchemaPromise(z)'
    BY <1>2, <1>4, <1>6, <2>1 DEF Promise, SchemaPromise
  <2>3. DropPromise(z)'
    BY <1>2, <1>4, <1>6, <2>1 DEF Promise, DropPromise
  <2> QED BY <2>1, <2>2, <2>3 DEF Promise, OfUser, MakesUser
<1>7. ~QueryLast(q.kind, q.user, "dropSchema")
  BY DEF QueryLast
<1> QED BY <1>2, <1>3, <1>5, <1>6, <1>7, QueryHasAdvanced

LEMMA ReadSchemaKeeps == ASSUME DatabasesInv, NEW p \in Client, ReadSchema(p) PROVE DatabasesInv'
<1>1. PICK q : q = query[p]
  OBVIOUS
<1>2. PICK s \in {"stats", "dump"} : QueryAt(p, s)
  BY DEF ReadSchema, Command
<1>3. /\ QueryAdvance(p) /\ schemas' = schemas /\ sqlUsers' = sqlUsers
      /\ dbRow' = dbRow /\ userRow' = userRow /\ queries' = queries
  BY DEF ReadSchema, Command, dbRows, mariadb
<1>4. QueryIs(p, q, s)
  BY <1>1, <1>2, AtAStep
<1>5. FineQuery(q) /\ Head(q.todo) = s /\ (q.sound => Promise(q))
  BY <1>4 DEF QueryIs
<1>6. Changes(q)
  <2>1. CommandIs(q)
    BY <1>3 DEF CommandIs, DatabasesInv, QueriesTyped
  <2> QED BY <1>5, <2>1, CommandChanges
<1>7. ASSUME NEW z, NEW n, Follows(q, z, n), q.sound, doubt' = doubt PROVE Promise(z)'
  <2>1. /\ z.kind \in {"stats", "backup"} /\ q.kind = z.kind /\ n = "saveDb" /\ z.db = q.db /\ z.dbId = q.dbId
        /\ Head(z.todo) = n
    BY <1>2, <1>5, <1>7 DEF Follows, QueryAfter
  <2>2. SchemaPromise(z)'
    BY <1>3, <1>2, <1>5, <1>7, <2>1 DEF Promise, SchemaPromise, SchemaFine
  <2> QED BY <2>1, <2>2 DEF Promise, OfUser, MakesUser
<1>8. ~QueryLast(q.kind, q.user, s)
  BY <1>2 DEF QueryLast
<1> QED BY <1>2, <1>3, <1>4, <1>6, <1>7, <1>8, QueryHasAdvanced

\* Requests for a user.
NeedsUser == {"createAccount", "grantNew", "grant", "revoke", "alter", "dropAccount", "dropBack",
              "insertUser", "saveUser", "removeUser", "checkUser"}

LEMMA HasUser ==
  ASSUME DatabasesInv, NEW p \in Client, NEW q, NEW s \in NeedsUser, QueryIs(p, q, s)
  PROVE  /\ q.user # "none" /\ q.user \in DbUser /\ q.user \in QUsers(q) /\ q.users = {}
         /\ q.kind \in MakesUser \cup OfUser
         /\ QUsers(q) = {q.user}
<1>1. FineQuery(q) /\ QueryCourse(q.kind, q.user, q.todo) /\ Head(q.todo) = s
  BY DEF QueryIs
<1>2. QueryLast(q.kind, q.user, s) \/ \E n : QueryAfter(q.kind, q.user, s, n)
  BY <1>1 DEF QueryCourse
<1>3. /\ q.user # "none" \/ q.kind \in OfUser
      /\ q.kind \in MakesUser \cup OfUser
  BY <1>2 DEF QueryLast, QueryAfter, NeedsUser, MakesUser, OfUser
<1>4. q.user # "none" /\ q.user \in DbUser /\ q.users = {}
  BY <1>1, <1>3 DEF FineQuery, QueryType, MakesUser, OfUser
<1> QED BY <1>3, <1>4 DEF QUsers

LEMMA CreateAccountKeeps == ASSUME DatabasesInv, NEW p \in Client, CreateAccount(p) PROVE DatabasesInv'
<1>1. PICK q : q = query[p]
  OBVIOUS
<1>2. PICK u : u = q.user
  OBVIOUS
<1>3. /\ QueryAt(p, "createAccount") /\ QueryAdvance(p) /\ schemas' = schemas
      /\ dbRow' = dbRow /\ userRow' = userRow /\ queries' = queries
      /\ sqlUsers' = IF sqlUsers[u] # NoAccount THEN sqlUsers
                     ELSE [sqlUsers EXCEPT ![u] = [NoAccount EXCEPT !.pw = q.row.pw]]
  BY <1>1, <1>2 DEF CreateAccount, Command, dbRows
<1>4. QueryIs(p, q, "createAccount")
  BY <1>1, <1>3, AtAStep
<1>5. FineQuery(q) /\ Head(q.todo) = "createAccount" /\ (q.sound => Promise(q))
  BY <1>4 DEF QueryIs
<1>6. u # "none" /\ u \in DbUser /\ u \in QUsers(q) /\ q.kind \in MakesUser
  <2>1. QueryLast(q.kind, q.user, "createAccount") \/ \E n : QueryAfter(q.kind, q.user, "createAccount", n)
    BY <1>4, <1>5 DEF QueryCourse, QueryIs
  <2> QED BY <1>2, <1>4, <2>1, HasUser DEF NeedsUser, QueryAfter, QueryLast, OfUser
<1>7. PICK a : a = [NoAccount EXCEPT !.pw = q.row.pw]
  OBVIOUS
<1>8. a \in AccountType /\ a.pw = q.row.pw /\ a.pw # 0 /\ a # NoAccount /\ \A d \in Schema : a.grants[d] = {}
  <2>1. q.row.pw # 0 /\ q.row.pw \in Password \cup {0}
    BY <1>2, <1>5, <1>6 DEF FineQuery, QueryType, UserRowType
  <2> QED BY <1>7, <2>1, NoAccountIs DEF AccountType
<1>9. /\ CommandIs(q) /\ sqlUsers'[u] # NoAccount
      /\ sqlUsers[u] = NoAccount => sqlUsers'[u] = a
  <2>1. CASE sqlUsers[u] # NoAccount
    BY <1>3, <2>1 DEF CommandIs, DatabasesInv, QueriesTyped
  <2>2. CASE sqlUsers[u] = NoAccount
    <3>1. sqlUsers' = [sqlUsers EXCEPT ![u] = a]
      BY <1>3, <1>7, <2>2
    <3>2. a \in AccountType /\ (a # NoAccount => a.pw # 0) /\ a # NoAccount
      BY <1>8
    <3>3. CommandIs(q) /\ sqlUsers'[u] = a
      BY <1>3, <1>5, <1>6, <3>1, <3>2, OneAccount
    <3> QED BY <3>2, <3>3
  <2> QED BY <2>1, <2>2
<1>10. Changes(q)
  BY <1>5, <1>9, CommandChanges
<1>11. ASSUME NEW z, NEW n, Follows(q, z, n), q.sound, doubt' = doubt PROVE Promise(z)'
  <2>1. /\ z.kind \in MakesUser /\ n = "grantNew" /\ z.db = q.db /\ z.user = u /\ Head(z.todo) = n
        /\ z.row = q.row /\ z.dbId = q.dbId /\ z.kind = q.kind
    BY <1>2, <1>5, <1>6, <1>11 DEF Follows, QueryAfter
  <2>2. SchemaPromise(z)'
    BY <1>3, <1>5, <1>11, <2>1 DEF Promise, SchemaPromise, SchemaFine
  <2>3. NewPromise(q)
    BY <1>2, <1>5, <1>6, <1>11 DEF Promise
  <2>4. userRow[u].id = 0 /\ InDoubt(u) /\ AccountFine(u)
    BY <1>2, <1>5, <2>3 DEF NewPromise, UserFine
  <2>5. userRow'[u].id = 0 /\ InDoubt(u)'
    BY <1>3, <1>11, <2>4 DEF InDoubt
  <2>6. <<"account", u>> \notin doubt => sqlUsers'[u] = a
    BY <1>9, <2>4 DEF AccountFine
  <2>7. q.db \in Schema
    BY <1>5 DEF FineQuery, QueryType
  <2>8. NewPromise(z)'
    BY <1>8, <1>9, <1>11, <2>1, <2>5, <2>6, <2>7 DEF NewPromise
  <2> QED BY <2>1, <2>2, <2>8 DEF Promise, OfUser, MakesUser
<1>12. ~QueryLast(q.kind, q.user, "createAccount")
  BY DEF QueryLast
<1> QED BY <1>3, <1>4, <1>10, <1>11, <1>12, QueryHasAdvanced

LEMMA GrantKeeps == ASSUME DatabasesInv, NEW p \in Client, Grant(p) PROVE DatabasesInv'
<1>1. PICK q : q = query[p]
  OBVIOUS
<1>2. PICK u : u = q.user
  OBVIOUS
<1>3. PICK s \in {"grantNew", "grant"} : QueryAt(p, s)
  BY DEF Grant, Command
<1>4. /\ QueryAdvance(p) /\ schemas' = schemas /\ sqlUsers[u] # NoAccount
      /\ dbRow' = dbRow /\ userRow' = userRow /\ queries' = queries
      /\ sqlUsers' = [sqlUsers EXCEPT ![u].grants[q.db] = @ \cup q.row.priv]
  BY <1>1, <1>2 DEF Grant, Command, dbRows
<1>5. QueryIs(p, q, s)
  BY <1>1, <1>3, AtAStep
<1>6. FineQuery(q) /\ Head(q.todo) = s /\ (q.sound => Promise(q)) /\ q.db \in Schema /\ q.row.priv \in SUBSET UNION Privileges
  BY <1>5 DEF QueryIs, FineQuery, QueryType, UserRowType
<1>7. u # "none" /\ u \in DbUser /\ u \in QUsers(q)
  BY <1>2, <1>3, <1>5, HasUser DEF NeedsUser
<1>8. PICK a : a = [sqlUsers[u] EXCEPT !.grants[q.db] = @ \cup q.row.priv]
  OBVIOUS
<1>9. sqlUsers \in [DbUser -> AccountType] /\ RowsRefer
  BY DEF DatabasesInv, QueriesTyped
<1>10. sqlUsers[u].pw # 0 /\ sqlUsers[u] \in AccountType
  BY <1>4, <1>7, <1>9, AccountIs
<1>11. a \in AccountType /\ a.pw = sqlUsers[u].pw /\ a.grants[q.db] = sqlUsers[u].grants[q.db] \cup q.row.priv
  BY <1>6, <1>8, <1>10 DEF AccountType
<1>12. sqlUsers' = [sqlUsers EXCEPT ![u] = a]
  BY <1>4, <1>7, <1>8, <1>9
<1>13. a # NoAccount /\ (a # NoAccount => a.pw # 0)
  BY <1>10, <1>11, NoAccountIs
<1>14. CommandIs(q) /\ sqlUsers'[u] = a
  <2>1. dbRow' = dbRow /\ userRow' = userRow /\ queries' = queries /\ schemas' = schemas
    BY <1>4
  <2> QED BY <1>6, <1>7, <1>11, <1>12, <1>13, <2>1, OneAccount
<1>15. Changes(q)
  BY <1>6, <1>14, CommandChanges
<1>16. ASSUME NEW z, NEW n, Follows(q, z, n), q.sound, doubt' = doubt PROVE Promise(z)'
  <2>1. /\ z.kind = q.kind /\ z.db = q.db /\ z.user = u /\ Head(z.todo) = n
        /\ z.row = q.row /\ z.dbId = q.dbId
        /\ \/ s = "grantNew" /\ q.kind \in MakesUser /\ n = "insertUser"
           \/ s = "grant" /\ q.kind = "privileges" /\ n = "saveUser"
    BY <1>2, <1>3, <1>6, <1>16 DEF Follows, QueryAfter
  <2>2. SchemaPromise(z)'
    BY <1>3, <1>4, <1>6, <1>16, <2>1 DEF Promise, SchemaPromise, SchemaFine, MakesUser
  <2>3. CASE s = "grantNew"
    <3>1. NewPromise(q)
      BY <1>2, <1>6, <1>7, <1>16, <2>1, <2>3 DEF Promise
    <3>2. userRow[u].id = 0 /\ InDoubt(u)
      BY <1>2, <1>6, <2>3, <3>1 DEF NewPromise
    <3>3. userRow'[u].id = 0 /\ InDoubt(u)'
      BY <1>4, <1>16, <3>2 DEF InDoubt
    <3>4. <<"account", u>> \notin doubt' => sqlUsers'[u].pw = q.row.pw /\ sqlUsers'[u].grants[q.db] = q.row.priv
      BY <1>2, <1>6, <1>11, <1>14, <1>16, <2>3, <3>1 DEF NewPromise
    <3>5. NewPromise(z)'
      BY <1>13, <1>14, <2>1, <2>3, <3>3, <3>4 DEF NewPromise
    <3> QED BY <2>1, <2>2, <2>3, <3>5 DEF Promise, OfUser, MakesUser
  <2>4. CASE s = "grant"
    <3>1. OldPromise(q)
      BY <1>6, <1>16, <2>1, <2>4 DEF Promise, OfUser
    <3>2. sqlUsers'[u].grants[q.db] = q.row.priv
      BY <1>2, <1>6, <1>11, <1>14, <2>1, <2>4, <3>1 DEF OldPromise
    <3>3. userRow[u].pw = q.row.pw /\ PasswordFine(u) /\ AccountFine(u)
      BY <1>2, <2>1, <2>4, <3>1 DEF OldPromise
    <3>4. PasswordFine(u)' /\ AccountFine(u)'
      BY <1>4, <1>11, <1>13, <1>14, <1>16, <3>3 DEF PasswordFine, AccountFine
    <3>5. OldPromise(z)'
      BY <1>2, <1>4, <2>1, <2>4, <3>1, <3>2, <3>3, <3>4 DEF OldPromise, Holds
    <3> QED BY <2>1, <2>2, <2>4, <3>5 DEF Promise, OfUser, MakesUser
  <2> QED BY <1>3, <2>3, <2>4
<1>17. ~QueryLast(q.kind, q.user, s) /\ s # "insertDb"
  BY <1>3 DEF QueryLast
<1> QED BY <1>4, <1>5, <1>15, <1>16, <1>17, QueryHasAdvanced

LEMMA RevokeKeeps == ASSUME DatabasesInv, NEW p \in Client, Revoke(p) PROVE DatabasesInv'
<1>1. PICK q : q = query[p]
  OBVIOUS
<1>2. PICK u : u = q.user
  OBVIOUS
<1>3. /\ QueryAt(p, "revoke") /\ QueryAdvance(p) /\ schemas' = schemas
      /\ dbRow' = dbRow /\ userRow' = userRow /\ queries' = queries
      /\ sqlUsers' = [sqlUsers EXCEPT ![u].grants[q.db] = {}]
  BY <1>1, <1>2 DEF Revoke, Command, dbRows
<1>4. QueryIs(p, q, "revoke")
  BY <1>1, <1>3, AtAStep
<1>5. FineQuery(q) /\ Head(q.todo) = "revoke" /\ (q.sound => Promise(q)) /\ q.db \in Schema
  BY <1>4 DEF QueryIs, FineQuery, QueryType
<1>6. u # "none" /\ u \in DbUser /\ u \in QUsers(q)
  BY <1>2, <1>4, HasUser DEF NeedsUser
<1>7. PICK a : a = [sqlUsers[u] EXCEPT !.grants[q.db] = {}]
  OBVIOUS
<1>8. sqlUsers \in [DbUser -> AccountType] /\ RowsRefer
  BY DEF DatabasesInv, QueriesTyped
<1>9. sqlUsers[u] \in AccountType /\ (sqlUsers[u] # NoAccount <=> sqlUsers[u].pw # 0)
  BY <1>6, <1>8, AccountIs
<1>10. a \in AccountType /\ a.pw = sqlUsers[u].pw /\ a.grants[q.db] = {}
  BY <1>5, <1>7, <1>9 DEF AccountType
<1>11. sqlUsers' = [sqlUsers EXCEPT ![u] = a]
  BY <1>3, <1>6, <1>7, <1>8
<1>12. sqlUsers[u] = NoAccount => a = NoAccount
  <2>1. SUFFICES ASSUME sqlUsers[u] = NoAccount PROVE a = NoAccount
    OBVIOUS
  <2>2. sqlUsers[u].grants \in [Schema -> SUBSET UNION Privileges] /\ sqlUsers[u].grants[q.db] = {}
    BY <1>5, <1>9, <2>1, NoAccountIs DEF AccountType
  <2>3. [sqlUsers[u].grants EXCEPT ![q.db] = {}] = sqlUsers[u].grants
    BY <1>5, <2>2
  <2>4. a = [sqlUsers[u] EXCEPT !.grants = sqlUsers[u].grants]
    BY <1>7, <2>3
  <2>5. a = sqlUsers[u]
    BY <1>9, <2>4 DEF AccountType
  <2> QED BY <2>1, <2>5
<1>13. a # NoAccount <=> sqlUsers[u] # NoAccount
  BY <1>9, <1>10, <1>12, NoAccountIs
<1>14. CommandIs(q) /\ sqlUsers'[u] = a
  <2>1. a # NoAccount => a.pw # 0
    BY <1>9, <1>10, <1>13
  <2>2. dbRow' = dbRow /\ userRow' = userRow /\ queries' = queries /\ schemas' = schemas
    BY <1>3
  <2> QED BY <1>5, <1>6, <1>10, <1>11, <2>1, <2>2, OneAccount
<1>15. Changes(q)
  BY <1>5, <1>14, CommandChanges
<1>16. ASSUME NEW z, NEW n, Follows(q, z, n), q.sound, doubt' = doubt PROVE Promise(z)'
  <2>1. /\ z.kind = q.kind /\ z.db = q.db /\ z.user = u /\ Head(z.todo) = n
        /\ z.row = q.row /\ z.dbId = q.dbId /\ q.kind = "privileges" /\ n = "grant"
    BY <1>2, <1>5, <1>16 DEF Follows, QueryAfter
  <2>2. SchemaPromise(z)'
    BY <1>3, <1>5, <1>16, <2>1 DEF Promise, SchemaPromise, SchemaFine
  <2>3. OldPromise(q)
    BY <1>5, <1>16, <2>1 DEF Promise, OfUser
  <2>4. userRow[u].pw = q.row.pw /\ PasswordFine(u) /\ AccountFine(u)
    BY <1>2, <2>1, <2>3 DEF OldPromise
  <2>5. PasswordFine(u)' /\ AccountFine(u)'
    BY <1>3, <1>10, <1>13, <1>14, <1>16, <2>4 DEF PasswordFine, AccountFine
  <2>6. sqlUsers'[u].grants[q.db] = {}
    BY <1>10, <1>14
  <2>7. OldPromise(z)'
    BY <1>2, <1>3, <2>1, <2>3, <2>4, <2>5, <2>6 DEF OldPromise, Holds
  <2> QED BY <2>1, <2>2, <2>7 DEF Promise, OfUser, MakesUser
<1>17. ~QueryLast(q.kind, q.user, "revoke")
  BY DEF QueryLast
<1> QED BY <1>3, <1>4, <1>15, <1>16, <1>17, QueryHasAdvanced

LEMMA AlterPasswordKeeps == ASSUME DatabasesInv, NEW p \in Client, AlterPassword(p) PROVE DatabasesInv'
<1>1. PICK q : q = query[p]
  OBVIOUS
<1>2. PICK u : u = q.user
  OBVIOUS
<1>3. /\ QueryAt(p, "alter") /\ QueryAdvance(p) /\ schemas' = schemas /\ sqlUsers[u] # NoAccount
      /\ dbRow' = dbRow /\ userRow' = userRow /\ queries' = queries
      /\ sqlUsers' = [sqlUsers EXCEPT ![u].pw = q.row.pw]
  BY <1>1, <1>2 DEF AlterPassword, Command, dbRows
<1>4. QueryIs(p, q, "alter")
  BY <1>1, <1>3, AtAStep
<1>5. FineQuery(q) /\ Head(q.todo) = "alter" /\ (q.sound => Promise(q)) /\ q.db \in Schema /\ q.row.pw \in Password \cup {0}
  BY <1>4 DEF QueryIs, FineQuery, QueryType, UserRowType
<1>6. u # "none" /\ u \in DbUser /\ u \in QUsers(q)
  BY <1>2, <1>4, HasUser DEF NeedsUser
<1>7. q.kind = "password" /\ q.row.pw # 0
  <2>1. QueryLast(q.kind, q.user, "alter") \/ \E n : QueryAfter(q.kind, q.user, "alter", n)
    BY <1>4, <1>5 DEF QueryCourse, QueryIs
  <2> QED BY <1>5, <2>1 DEF QueryLast, QueryAfter, FineQuery
<1>8. PICK a : a = [sqlUsers[u] EXCEPT !.pw = q.row.pw]
  OBVIOUS
<1>9. sqlUsers \in [DbUser -> AccountType]
  BY DEF DatabasesInv, QueriesTyped
<1>10. a \in AccountType /\ a.pw = q.row.pw /\ a.grants = sqlUsers[u].grants
  BY <1>5, <1>6, <1>8, <1>9 DEF AccountType
<1>11. sqlUsers' = [sqlUsers EXCEPT ![u] = a]
  BY <1>3, <1>6, <1>8, <1>9
<1>12. a # NoAccount /\ (a # NoAccount => a.pw # 0)
  BY <1>7, <1>10, NoAccountIs
<1>13. CommandIs(q) /\ sqlUsers'[u] = a
  <2>1. dbRow' = dbRow /\ userRow' = userRow /\ queries' = queries /\ schemas' = schemas
    BY <1>3
  <2> QED BY <1>5, <1>6, <1>10, <1>11, <1>12, <2>1, OneAccount
<1>14. Changes(q)
  BY <1>5, <1>13, CommandChanges
<1>15. ASSUME NEW z, NEW n, Follows(q, z, n), q.sound, doubt' = doubt PROVE Promise(z)'
  <2>1. /\ z.kind = q.kind /\ z.db = q.db /\ z.user = u /\ Head(z.todo) = n
        /\ z.row = q.row /\ z.dbId = q.dbId /\ n = "saveUser"
    BY <1>2, <1>5, <1>7, <1>15 DEF Follows, QueryAfter
  <2>2. SchemaPromise(z)'
    BY <1>3, <1>5, <1>7, <1>15, <2>1 DEF Promise, SchemaPromise, SchemaFine
  <2>3. OldPromise(q)
    BY <1>5, <1>7, <1>15 DEF Promise, OfUser
  <2>4. userRow[u].priv = q.row.priv /\ GrantsFine(u) /\ AccountFine(u)
    BY <1>2, <1>7, <2>3 DEF OldPromise
  <2>5. GrantsFine(u)' /\ AccountFine(u)'
    BY <1>3, <1>10, <1>12, <1>13, <1>15, <2>4 DEF GrantsFine, AccountFine
  <2>6. sqlUsers'[u].pw = q.row.pw
    BY <1>10, <1>13
  <2>7. OldPromise(z)'
    BY <1>2, <1>3, <1>7, <2>1, <2>3, <2>4, <2>5, <2>6 DEF OldPromise, Holds
  <2> QED BY <1>7, <2>1, <2>2, <2>7 DEF Promise, OfUser, MakesUser
<1>16. ~QueryLast(q.kind, q.user, "alter")
  BY DEF QueryLast
<1> QED BY <1>3, <1>4, <1>14, <1>15, <1>16, QueryHasAdvanced

LEMMA DropAccountKeeps == ASSUME DatabasesInv, NEW p \in Client, DropAccount(p) PROVE DatabasesInv'
<1>1. PICK q : q = query[p]
  OBVIOUS
<1>2. PICK u : u = q.user
  OBVIOUS
<1>3. PICK s \in {"dropAccount", "dropBack"} : QueryAt(p, s)
  BY DEF DropAccount, Command
<1>4. /\ schemas' = schemas /\ dbRow' = dbRow /\ userRow' = userRow /\ queries' = queries
      /\ sqlUsers' = [sqlUsers EXCEPT ![u] = NoAccount]
      /\ IF QueryAt(p, "dropBack") THEN QueryEnds(p, FALSE) ELSE QueryAdvance(p)
  BY <1>1, <1>2 DEF DropAccount, Command, dbRows
<1>5. QueryIs(p, q, s)
  BY <1>1, <1>3, AtAStep
<1>6. FineQuery(q) /\ Head(q.todo) = s /\ (q.sound => Promise(q))
  BY <1>5 DEF QueryIs
<1>7. u # "none" /\ u \in DbUser /\ u \in QUsers(q)
  BY <1>2, <1>3, <1>5, HasUser DEF NeedsUser
<1>8. CommandIs(q) /\ sqlUsers'[u] = NoAccount
  <2>1. dbRow' = dbRow /\ userRow' = userRow /\ queries' = queries /\ schemas' = schemas
    BY <1>4
  <2> QED BY <1>4, <1>6, <1>7, <2>1, OneAccount, NoAccountIs
<1>9. Changes(q)
  BY <1>6, <1>8, CommandChanges
<1>10. CASE s = "dropBack"
  <2>1. QueryEnds(p, FALSE)
    BY <1>3, <1>4, <1>10
  <2> QED BY <1>5, <1>9, <2>1, QueryHasEnded
<1>11. CASE s = "dropAccount"
  <2>1. ~QueryAt(p, "dropBack") /\ QueryAdvance(p)
    BY <1>3, <1>4, <1>11 DEF QueryAt
  <2>2. ASSUME NEW z, NEW n, Follows(q, z, n), q.sound, doubt' = doubt PROVE Promise(z)'
    <3>1. /\ z.kind = q.kind /\ q.kind = "deleteUser" /\ z.db = q.db /\ z.user = u /\ Head(z.todo) = n
          /\ z.row = q.row /\ z.dbId = q.dbId /\ n = "removeUser"
      BY <1>2, <1>6, <1>11, <2>2 DEF Follows, QueryAfter
    <3>2. SchemaPromise(z)'
      BY <1>4, <1>6, <1>11, <2>2, <3>1 DEF Promise, SchemaPromise, SchemaFine
    <3>3. OldPromise(q)
      BY <1>6, <2>2, <3>1 DEF Promise, OfUser
    <3>4. OldPromise(z)'
      BY <1>2, <1>4, <1>8, <3>1, <3>3 DEF OldPromise, Holds
    <3> QED BY <3>1, <3>2, <3>4 DEF Promise, OfUser, MakesUser
  <2>3. ~QueryLast(q.kind, q.user, s) /\ s # "insertDb"
    BY <1>11 DEF QueryLast
  <2> QED BY <1>5, <1>9, <2>1, <2>2, <2>3, QueryHasAdvanced
<1> QED BY <1>10, <1>11

LEMMA DropNextKeeps ==
  ASSUME DatabasesInv, NEW p \in Client, NEW q, QueryIs(p, q, "dropUsers"), NEW u \in q.left, NEW went \in BOOLEAN,
         DropNext(p, u, went), doubt' = doubt, Changes(q), dbRow' = dbRow, userRow' = userRow, schemas' = schemas,
         went => sqlUsers'[u] = NoAccount /\ \A v \in DbUser \ {u} : sqlUsers'[v] = sqlUsers[v]
  PROVE  DatabasesInv'
<1>1. /\ q = query[p] /\ FineQuery(q) /\ Head(q.todo) = "dropUsers" /\ (q.sound => Promise(q)) /\ q # NoQuery
      /\ q.dbId <= queries /\ q \in QueryType /\ QueryCourse(q.kind, q.user, q.todo)
  BY DEF QueryIs, FineQuery
<1>2. q.kind = "delete" /\ Len(q.todo) > 1 /\ Tail(q.todo) \in QueryCourses(q.kind, q.user) /\ Head(Tail(q.todo)) = "dropSchema"
  BY <1>1 DEF QueryCourse, QueryLast, QueryAfter
<1>3. PICK b : b = (q.sound /\ went)
  OBVIOUS
<1>4. PICK t : t = IF q.left = {u} THEN Tail(q.todo) ELSE q.todo
  OBVIOUS
<1>5. PICK l : l = q.left \ {u}
  OBVIOUS
<1>6. /\ b \in BOOLEAN /\ l \subseteq q.left /\ l \in SUBSET DbUser /\ t \in QueryCourses(q.kind, q.user)
      /\ q.users \subseteq DbUser /\ q.left \subseteq q.users
  BY <1>1, <1>2, <1>3, <1>4, <1>5 DEF QueryType, FineQuery
<1>7. t \in UNION {QueryCourses(k, v) : k \in QueryKinds, v \in DbUser \cup {"none"}}
  <2>1. q.user \in DbUser \cup {"none"} /\ q.kind \in QueryKinds
    BY <1>1 DEF QueryType
  <2> QED BY <1>6, <2>1
<1>8. PICK x : x = [q EXCEPT !.left = l]
  OBVIOUS
<1>9. PICK y : y = [x EXCEPT !.sound = b]
  OBVIOUS
<1>10. PICK z : z = [y EXCEPT !.todo = t]
  OBVIOUS
<1>11. /\ x \in QueryType /\ x.kind = q.kind /\ x.db = q.db /\ x.dbId = q.dbId /\ x.user = q.user /\ x.row = q.row
       /\ x.users = q.users /\ x.left = l /\ x.number = q.number /\ x.todo = q.todo /\ x.sound = q.sound
  BY <1>1, <1>6, <1>8 DEF QueryType
<1>12. /\ y \in QueryType /\ y.kind = q.kind /\ y.db = q.db /\ y.dbId = q.dbId /\ y.user = q.user /\ y.row = q.row
       /\ y.users = q.users /\ y.left = l /\ y.number = q.number /\ y.todo = q.todo /\ y.sound = b
  BY <1>6, <1>9, <1>11 DEF QueryType
<1>13. /\ z \in QueryType /\ z.kind = q.kind /\ z.db = q.db /\ z.dbId = q.dbId /\ z.user = q.user /\ z.row = q.row
       /\ z.users = q.users /\ z.left = l /\ z.number = q.number /\ z.todo = t /\ z.sound = b
  BY <1>7, <1>10, <1>12 DEF QueryType
<1>14. query' = [query EXCEPT ![p] = z]
  <2>1. p \in DOMAIN query
    BY DEF DatabasesInv, QueriesTyped
  <2>2. z = [q EXCEPT !.left = @ \ {u}, !.sound = @ /\ went, !.todo = IF q.left = {u} THEN Tail(@) ELSE @]
    BY <1>3, <1>4, <1>5, <1>8, <1>9, <1>10, <1>11, <1>12
  <2> QED BY <1>1, <2>1, <2>2 DEF DropNext
<1>15. FineQuery(z)
  BY <1>1, <1>2, <1>6, <1>13 DEF FineQuery, MakesUser, OfUser
<1>16. z # NoQuery
  BY <1>1, <1>2, <1>13, NoQueryIs DEF QueryKinds, OfSchema
<1>17. ASSUME z.sound PROVE Promise(z)'
  <2>1. q.sound /\ went /\ Promise(q)
    BY <1>1, <1>3, <1>13, <1>17
  <2>2. Head(t) \in {"dropUsers", "dropSchema"} /\ Head(t) # "removeDb" /\ (Head(t) # "dropUsers" => q.left = {u})
        /\ (Head(t) = "dropUsers" => q.left # {u})
    BY <1>1, <1>2, <1>4
  <2>3. SchemaPromise(z)'
    BY <1>1, <1>2, <1>13, <2>1, <2>2 DEF Promise, SchemaPromise, SchemaFine
  <2>4. DropPromise(q)
    BY <1>2, <2>1 DEF Promise
  <2>5. DropPromise(z)'
    <3>1. SUFFICES ASSUME NEW v \in q.users
                   PROVE  /\ userRow'[v].id # 0 /\ userRow'[v].of = q.dbId
                          /\ (v \in l /\ Head(t) = "dropUsers") \/ sqlUsers'[v] = NoAccount
      BY <1>13 DEF DropPromise
    <3>2. userRow[v].id # 0 /\ userRow[v].of = q.dbId /\ (v \in q.left \/ sqlUsers[v] = NoAccount)
      BY <1>1, <2>4 DEF DropPromise
    <3>3. v \in DbUser
      BY <1>6
    <3>4. CASE v = u
      BY <2>1, <3>2, <3>4
    <3>5. CASE v # u
      <4>1. sqlUsers'[v] = sqlUsers[v]
        BY <2>1, <3>3, <3>5
      <4>2. v \in q.left => v \in l /\ Head(t) = "dropUsers"
        BY <1>5, <2>2, <3>5
      <4> QED BY <3>2, <4>1, <4>2
    <3> QED BY <3>4, <3>5
  <2> QED BY <1>2, <1>13, <2>3, <2>5 DEF Promise, MakesUser, OfUser
<1>18. GoesOn(q, z)
  BY <1>1, <1>2, <1>3, <1>13, <1>15, <1>17 DEF GoesOn, IdOf
<1>19. QMoves(p, q, z)
  BY <1>1, <1>14, <1>16, <1>18 DEF QMoves
<1> QED BY <1>19, QMovesKeep

LEMMA DropUsersKeeps == ASSUME DatabasesInv, NEW p \in Client, NEW u \in DbUser, DropUsers(p, u) PROVE DatabasesInv'
<1>1. PICK q : q = query[p]
  OBVIOUS
<1>2. /\ QueryAt(p, "dropUsers") /\ u \in q.left /\ schemas' = schemas /\ doubt' = doubt
      /\ dbRow' = dbRow /\ userRow' = userRow /\ queries' = queries /\ DropNext(p, u, TRUE)
      /\ sqlUsers' = [sqlUsers EXCEPT ![u] = NoAccount]
  BY <1>1 DEF DropUsers, Command, dbRows
<1>3. QueryIs(p, q, "dropUsers")
  BY <1>1, <1>2, AtAStep
<1>4. FineQuery(q) /\ u \in QUsers(q)
  BY <1>2, <1>3 DEF QueryIs, FineQuery, QUsers
<1>5. CommandIs(q) /\ sqlUsers'[u] = NoAccount /\ \A v \in DbUser \ {u} : sqlUsers'[v] = sqlUsers[v]
  <2>1. dbRow' = dbRow /\ userRow' = userRow /\ queries' = queries /\ schemas' = schemas
    BY <1>2
  <2> QED BY <1>2, <1>4, <2>1, OneAccount, NoAccountIs
<1>6. Changes(q)
  BY <1>4, <1>5, CommandChanges
<1> QED BY <1>2, <1>3, <1>5, <1>6, DropNextKeeps

LEMMA CommandFailsKeeps == ASSUME DatabasesInv, NEW p \in Client, CommandFails(p) PROVE DatabasesInv'
<1>1. PICK q : q = query[p]
  OBVIOUS
<1>2. PICK s \in {"createSchema", "dropSchema", "createAccount", "dropAccount", "dropBack",
                  "grantNew", "grant", "alter", "dump", "revoke", "dropUsers", "stats"} : QueryAt(p, s)
  BY DEF CommandFails
<1>3. schemas' = schemas /\ dbRow' = dbRow /\ userRow' = userRow /\ queries' = queries /\ sqlUsers' = sqlUsers
  BY DEF CommandFails, dbRows, mariadb
<1>4. QueryIs(p, q, s)
  BY <1>1, <1>2, AtAStep
<1>5. /\ q = query[p] /\ FineQuery(q) /\ Head(q.todo) = s /\ (q.sound => Promise(q)) /\ q # NoQuery
      /\ q.dbId <= queries /\ q \in QueryType /\ QueryCourse(q.kind, q.user, q.todo)
  BY <1>4 DEF QueryIs, FineQuery
<1>6. Changes(q)
  <2>1. CommandIs(q)
    BY <1>3 DEF CommandIs, DatabasesInv, QueriesTyped
  <2> QED BY <1>5, <2>1, CommandChanges
<1>7. \A r : QueryAt(p, r) => r = s
  BY <1>2 DEF QueryAt
<1>8. CASE s = "grantNew"
  <2>1. query' = [query EXCEPT ![p].todo = <<"dropBack">>] /\ doubt' = doubt
    BY <1>2, <1>7, <1>8 DEF CommandFails
  <2>2. PICK t : t = <<"dropBack">>
    OBVIOUS
  <2>3. q.kind \in MakesUser /\ q.user # "none" /\ q.kind # "delete" /\ q.kind \in QueryKinds /\ q.user \in DbUser \cup {"none"}
    BY <1>5, <1>8 DEF QueryCourse, QueryLast, QueryAfter, MakesUser, QueryType
  <2>4. t \in QueryCourses(q.kind, q.user)
    <3>1. t \in InsertsUser
      BY <2>2 DEF InsertsUser
    <3>2. InsertsUser \subseteq QueryCourses(q.kind, q.user)
      BY <2>3 DEF QueryCourses, MakesUser
    <3> QED BY <3>1, <3>2
  <2>5. t \in UNION {QueryCourses(k, v) : k \in QueryKinds, v \in DbUser \cup {"none"}} /\ Head(t) = "dropBack"
    BY <2>2, <2>3, <2>4
  <2>6. PICK z : z = [q EXCEPT !.todo = t]
    OBVIOUS
  <2>7. /\ z \in QueryType /\ z.kind = q.kind /\ z.db = q.db /\ z.dbId = q.dbId /\ z.user = q.user /\ z.row = q.row
        /\ z.users = q.users /\ z.left = q.left /\ z.number = q.number /\ z.todo = t /\ z.sound = q.sound
    BY <1>5, <2>5, <2>6 DEF QueryType
  <2>8. query' = [query EXCEPT ![p] = z]
    BY <1>5, <2>1, <2>2, <2>6 DEF DatabasesInv, QueriesTyped
  <2>9. FineQuery(z) /\ z # NoQuery
    <3>1. q.kind = "create" => z.dbId = IF Head(z.todo) \in {"createSchema", "insertDb"} THEN 0 ELSE z.number
      BY <1>5, <1>8, <2>5, <2>7 DEF FineQuery
    <3>2. FineQuery(z)
      BY <1>5, <2>3, <2>4, <2>5, <2>7, <3>1 DEF FineQuery
    <3> QED BY <2>3, <2>7, <3>2, NoQueryIs
  <2>10. ASSUME z.sound PROVE Promise(z)'
    <3>1. SchemaPromise(q)
      BY <1>5, <2>7, <2>10 DEF Promise
    <3>2. SchemaPromise(z)'
      BY <1>3, <1>5, <1>8, <2>1, <2>5, <2>7, <3>1 DEF SchemaPromise, SchemaFine
    <3>3. NewPromise(z)'
      BY <2>5, <2>7 DEF NewPromise
    <3> QED BY <2>3, <2>7, <3>2, <3>3 DEF Promise, MakesUser, OfUser
  <2>11. GoesOn(q, z)
    BY <1>5, <2>1, <2>7, <2>9, <2>10 DEF GoesOn, IdOf
  <2>12. QMoves(p, q, z)
    BY <1>5, <1>6, <2>8, <2>9, <2>11 DEF QMoves
  <2> QED BY <2>12, QMovesKeep
<1>9. CASE s = "stats"
  <2>1. QueryEnds(p, TRUE)
    BY <1>2, <1>7, <1>9 DEF CommandFails
  <2>2. q.kind = "stats"
    BY <1>5, <1>9 DEF QueryCourse, QueryLast, QueryAfter
  <2>3. QUsers(q) = {}
    BY <1>5, <2>2, DatabasesAssumption DEF FineQuery, OfSchema, QUsers
  <2>4. ASSUME q.sound, doubt' = doubt \ Settles(q) PROVE EndsWell(q)
    <3>1. SchemaFine(q.db)
      BY <1>5, <1>9, <2>2, <2>4 DEF Promise, SchemaPromise
    <3>2. <<"schema", q.db>> \notin Settles(q)
      BY <1>5, <2>2, SettlesAre
    <3>3. SchemaFine(q.db)'
      BY <1>3, <2>4, <3>1, <3>2 DEF SchemaFine
    <3> QED BY <2>3, <3>3 DEF EndsWell
  <2> QED BY <1>4, <1>6, <2>1, <2>4, QueryHasEnded
<1>10. CASE s = "revoke"
  <2>1. query' = [query EXCEPT ![p].todo = Tail(@), ![p].sound = FALSE] /\ doubt' = doubt
    BY <1>2, <1>7, <1>10 DEF CommandFails
  <2>2. Len(q.todo) > 1
    BY <1>5, <1>10 DEF QueryCourse, QueryLast
  <2>3. PICK z : z = OnTo(q, FALSE)
    OBVIOUS
  <2>4. FineQuery(z) /\ Follows(q, z, Head(Tail(q.todo))) /\ z.sound = FALSE /\ z # NoQuery
    BY <1>5, <1>10, <2>2, <2>3, NextIsFine
  <2>5. query' = [query EXCEPT ![p] = z]
    BY <1>5, <2>1, <2>3 DEF DatabasesInv, QueriesTyped, OnTo
  <2> QED BY <1>4, <1>6, <2>1, <2>4, <2>5, QueryGoesOn
<1>11. CASE s = "dropUsers"
  <2>1. PICK u \in q.left : DropNext(p, u, FALSE)
    BY <1>2, <1>5, <1>7, <1>11 DEF CommandFails
  <2>2. doubt' = doubt
    BY <1>2, <1>7, <1>11 DEF CommandFails
  <2> QED BY <1>3, <1>4, <1>6, <1>11, <2>1, <2>2, DropNextKeeps
<1>12. CASE s \notin {"grantNew", "stats", "revoke", "dropUsers"}
  <2>1. QueryEnds(p, FALSE)
    BY <1>2, <1>7, <1>12 DEF CommandFails
  <2> QED BY <1>4, <1>6, <2>1, QueryHasEnded
<1> QED BY <1>8, <1>9, <1>10, <1>11, <1>12

-----------------------------------------------------------------------------
(* Rows of the panel.                                                       *)

\* A step of the panel's database that writes no row.
LEMMA NothingChanges ==
  ASSUME DatabasesInv, NEW q, FineQuery(q), UNCHANGED <<dbRows, mariadb, queries>> PROVE Changes(q)
<1>1. CommandIs(q)
  BY DEF CommandIs, DatabasesInv, QueriesTyped, dbRows, mariadb
<1> QED BY <1>1, CommandChanges

LEMMA CheckUserKeeps == ASSUME DatabasesInv, NEW p \in Client, CheckUser(p) PROVE DatabasesInv'
<1>1. PICK q : q = query[p]
  OBVIOUS
<1>2. PICK u : u = q.user
  OBVIOUS
<1>3. /\ QueryAt(p, "checkUser") /\ QueryAdvance(p) /\ userRow[u].id = 0
      /\ dbRow' = dbRow /\ userRow' = userRow /\ schemas' = schemas /\ sqlUsers' = sqlUsers
      /\ UNCHANGED <<dbRows, mariadb, queries>>
  BY <1>1, <1>2 DEF CheckUser, RowStep, dbRows, mariadb
<1>4. QueryIs(p, q, "checkUser")
  BY <1>1, <1>3, AtAStep
<1>5. FineQuery(q) /\ Head(q.todo) = "checkUser" /\ (q.sound => Promise(q))
  BY <1>4 DEF QueryIs
<1>6. u # "none" /\ u \in DbUser
  BY <1>2, <1>4, HasUser DEF NeedsUser
<1>7. Changes(q)
  BY <1>3, <1>5, NothingChanges
<1>8. ASSUME NEW z, NEW n, Follows(q, z, n), q.sound, doubt' = doubt PROVE Promise(z)'
  <2>1. /\ z.kind = "create" /\ q.kind = "create" /\ n = "createAccount" /\ z.db = q.db /\ z.user = u /\ Head(z.todo) = n
        /\ z.dbId = q.dbId
    BY <1>2, <1>5, <1>8 DEF Follows, QueryAfter
  <2>2. SchemaPromise(z)'
    BY <1>3, <1>5, <1>8, <2>1 DEF Promise, SchemaPromise
  <2>3. UserFine(u)
    BY <1>2, <1>5, <1>6, <1>8, <2>1 DEF Promise, NewPromise, MakesUser
  <2>4. UserFine(u)'
    BY <1>3, <1>8, <2>3, KeptUser, UserStays
  <2>5. NewPromise(z)'
    BY <1>3, <2>1, <2>4 DEF NewPromise, UserFine
  <2> QED BY <2>1, <2>2, <2>5 DEF Promise, OfUser
<1>9. ~QueryLast(q.kind, q.user, "checkUser")
  BY DEF QueryLast
<1> QED BY <1>3, <1>4, <1>7, <1>8, <1>9, QueryHasAdvanced

LEMMA RowFailsKeeps == ASSUME DatabasesInv, NEW p \in Client, RowFails(p) PROVE DatabasesInv'
<1>1. PICK q : q = query[p]
  OBVIOUS
<1>2. PICK s : QueryAt(p, s)
  BY DEF RowFails
<1>3. QueryEnds(p, FALSE) /\ UNCHANGED <<dbRows, mariadb, queries>>
  BY DEF RowFails, dbRows, mariadb
<1>4. QueryIs(p, q, s)
  BY <1>1, <1>2, AtAStep
<1>5. Changes(q)
  BY <1>3, <1>4, NothingChanges DEF QueryIs
<1> QED BY <1>3, <1>4, <1>5, QueryHasEnded

LEMMA SaveDatabaseRowKeeps == ASSUME DatabasesInv, NEW p \in Client, SaveDatabaseRow(p) PROVE DatabasesInv'
<1>1. PICK q : q = query[p]
  OBVIOUS
<1>2. PICK s \in {"insertDb", "saveDb"} : QueryAt(p, s)
  BY DEF SaveDatabaseRow
<1>3. PICK id : id = IdOf(q)
  OBVIOUS
<1>4. /\ dbRow[q.db] \in {0, id} /\ dbRow' = [dbRow EXCEPT ![q.db] = id]
      /\ userRow' = userRow /\ schemas' = schemas /\ sqlUsers' = sqlUsers /\ queries' = queries
      /\ IF Len(q.todo) > 1
         THEN query' = [query EXCEPT ![p].todo = Tail(@), ![p].dbId = id] /\ doubt' = doubt
         ELSE QueryEnds(p, TRUE)
  BY <1>1, <1>3 DEF SaveDatabaseRow, RowStep, mariadb, IdOf
<1>5. QueryIs(p, q, s)
  BY <1>1, <1>2, AtAStep
<1>6. /\ q = query[p] /\ FineQuery(q) /\ Head(q.todo) = s /\ (q.sound => Promise(q)) /\ q # NoQuery
      /\ q.dbId <= queries /\ q.number <= queries /\ q \in QueryType /\ QueryCourse(q.kind, q.user, q.todo)
      /\ q.db \in Schema /\ id \in Nat /\ id # 0 /\ q.dbId \in Nat /\ q.number \in Nat
  BY <1>3, <1>5 DEF QueryIs, FineQuery, QueryType, IdOf
<1>7. /\ dbRow \in [Schema -> Nat] /\ userRow \in [DbUser -> UserRowType] /\ schemas \subseteq Schema
      /\ sqlUsers \in [DbUser -> AccountType] /\ RowsRefer /\ IdsApart
  BY DEF DatabasesInv, QueriesTyped
<1>8. dbRow'[q.db] = id /\ \A d \in Schema \ {q.db} : dbRow'[d] = dbRow[d] /\ dbRow[d] # id
  BY <1>1, <1>3, <1>4, <1>6, <1>7 DEF IdsApart
<1>9. RowsRefer'
  <2>1. ASSUME NEW u \in DbUser, userRow[u].id # 0
        PROVE  userRow[u].of # 0 /\ \E d \in Schema : dbRow'[d] = userRow[u].of
    <3>1. userRow[u].of # 0 /\ \E d \in Schema : dbRow[d] = userRow[u].of
      BY <1>7, <2>1 DEF RowsRefer
    <3>2. PICK d \in Schema : dbRow[d] = userRow[u].of
      BY <3>1
    <3>3. dbRow'[d] = userRow[u].of
      BY <1>4, <1>6, <1>8, <3>1, <3>2
    <3> QED BY <3>1, <3>3
  <2> QED BY <1>4, <1>7, <2>1 DEF RowsRefer, NoAccount, NoUserRow
<1>10. Changes(q)
  <2>1. dbRow' \in [Schema -> Nat] /\ dbRow'[q.db] \in {dbRow[q.db], 0, IdOf(q)}
    BY <1>3, <1>4, <1>6, <1>7, <1>8
  <2> QED BY <1>4, <1>7, <1>8, <1>9, <2>1 DEF Changes
\* Its users stay as they are: a row of a user of a database with this id is there
\* only if the database had its row.
<1>11. ASSUME NEW u \in DbUser, doubt' = doubt PROVE SameUser(u)
  <2>1. ASSUME userRow[u].id # 0, NEW d \in Schema, dbRow'[d] = userRow[u].of PROVE dbRow[d] = userRow[u].of
    <3>1. PICK e \in Schema : dbRow[e] = userRow[u].of
      BY <1>7, <2>1 DEF RowsRefer
    <3>2. CASE d = q.db
      BY <1>8, <2>1, <3>1, <3>2
    <3>3. CASE d # q.db
      BY <1>8, <2>1, <3>3
    <3> QED BY <3>2, <3>3
  <2> QED BY <1>4, <1>11, <2>1 DEF SameUser
<1>12. CASE Len(q.todo) > 1
  <2>1. /\ q.kind = "create" /\ s = "insertDb" /\ q.user # "none" /\ Head(Tail(q.todo)) = "checkUser"
        /\ Tail(q.todo) \in QueryCourses(q.kind, q.user) /\ q.dbId = 0 /\ id = q.number
    <3>1. q.kind = "create" /\ s = "insertDb" /\ q.user # "none" /\ Head(Tail(q.todo)) = "checkUser"
      BY <1>2, <1>6, <1>12 DEF QueryCourse, QueryAfter
    <3> QED BY <1>3, <1>6, <1>12, <3>1 DEF QueryCourse, FineQuery, IdOf
  <2>2. PICK t : t = Tail(q.todo)
    OBVIOUS
  <2>3. t \in UNION {QueryCourses(k, v) : k \in QueryKinds, v \in DbUser \cup {"none"}} /\ Head(t) = "checkUser"
    <3>1. q.kind \in QueryKinds /\ q.user \in DbUser \cup {"none"}
      BY <1>6 DEF QueryType
    <3>2. t \in QueryCourses(q.kind, q.user) /\ Head(t) = "checkUser"
      BY <2>1, <2>2
    <3> QED BY <3>1, <3>2
  <2>4. PICK y : y = [q EXCEPT !.todo = t]
    OBVIOUS
  <2>5. PICK z : z = [y EXCEPT !.dbId = id]
    OBVIOUS
  <2>6. /\ y \in QueryType /\ y.kind = q.kind /\ y.db = q.db /\ y.user = q.user /\ y.row = q.row
        /\ y.users = q.users /\ y.left = q.left /\ y.number = q.number /\ y.todo = t /\ y.sound = q.sound
    BY <1>6, <2>3, <2>4 DEF QueryType
  <2>7. /\ z \in QueryType /\ z.kind = q.kind /\ z.db = q.db /\ z.dbId = id /\ z.user = q.user /\ z.row = q.row
        /\ z.users = q.users /\ z.left = q.left /\ z.number = q.number /\ z.todo = t /\ z.sound = q.sound
    BY <1>6, <2>5, <2>6 DEF QueryType
  <2>8. query' = [query EXCEPT ![p] = z] /\ doubt' = doubt
    <3>1. z = [q EXCEPT !.todo = Tail(@), !.dbId = id]
      BY <2>2, <2>4, <2>5
    <3> QED BY <1>4, <1>6, <1>12, <3>1 DEF DatabasesInv, QueriesTyped
  <2>9. FineQuery(z) /\ z # NoQuery
    <3>1. FineQuery(z)
      BY <1>6, <2>1, <2>2, <2>3, <2>7 DEF FineQuery, OfSchema, OfUser
    <3> QED BY <1>6, <2>7, <3>1, NoQueryIs DEF QueryType
  <2>10. ASSUME z.sound PROVE Promise(z)'
    <3>1. PICK u : u = q.user
      OBVIOUS
    <3>2. u \in DbUser
      BY <1>6, <2>1, <3>1 DEF QueryType
    <3>3. SchemaPromise(q) /\ NewPromise(q)
      BY <1>6, <2>1, <2>7, <2>10 DEF Promise, MakesUser
    <3>4. q.db \in schemas /\ UserFine(u)
      BY <1>6, <2>1, <3>1, <3>3 DEF SchemaPromise, NewPromise
    <3>5. UserFine(u)'
      BY <1>11, <2>8, <3>2, <3>4, UserStays
    <3>6. NewPromise(z)'
      BY <2>3, <2>7, <3>1, <3>5 DEF NewPromise
    <3>7. SchemaPromise(z)'
      BY <1>4, <1>8, <2>1, <2>3, <2>7, <3>4 DEF SchemaPromise
    <3> QED BY <2>1, <2>7, <3>6, <3>7 DEF Promise, OfUser
  <2>11. GoesOn(q, z)
    BY <1>3, <1>6, <2>1, <2>7, <2>8, <2>9, <2>10 DEF GoesOn, IdOf
  <2>12. QMoves(p, q, z)
    BY <1>6, <1>10, <2>8, <2>9, <2>11 DEF QMoves
  <2> QED BY <2>12, QMovesKeep
<1>13. CASE ~(Len(q.todo) > 1)
  <2>1. QueryEnds(p, TRUE) /\ QueryLast(q.kind, q.user, s)
    BY <1>4, <1>6, <1>13 DEF QueryCourse
  <2>2. \/ q.kind = "create" /\ s = "insertDb" /\ q.user = "none"
        \/ q.kind \in {"stats", "backup"} /\ s = "saveDb"
    BY <1>2, <2>1 DEF QueryLast
  <2>3. QUsers(q) = {}
    BY <1>6, <2>2, DatabasesAssumption DEF FineQuery, OfSchema, QUsers
  <2>4. ASSUME q.sound, doubt' = doubt \ Settles(q) PROVE EndsWell(q)
    <3>1. SchemaPromise(q)
      BY <1>6, <2>4 DEF Promise
    <3>2. CASE q.kind = "create"
      <4>1. q.db \in schemas
        BY <1>6, <2>2, <3>1, <3>2 DEF SchemaPromise
      <4>2. SchemaFine(q.db)'
        BY <1>4, <1>6, <1>8, <4>1 DEF SchemaFine
      <4> QED BY <2>3, <4>2 DEF EndsWell
    <3>3. CASE q.kind # "create"
      <4>1. dbRow[q.db] = q.dbId /\ SchemaFine(q.db) /\ q.dbId # 0
        BY <1>6, <2>2, <3>1, <3>3 DEF SchemaPromise, FineQuery
      <4>2. <<"schema", q.db>> \notin Settles(q)
        BY <1>6, <2>2, <3>3, SettlesAre
      <4>3. SchemaFine(q.db)'
        BY <1>3, <1>4, <1>8, <2>4, <4>1, <4>2 DEF SchemaFine, IdOf
      <4> QED BY <2>3, <4>3 DEF EndsWell
    <3> QED BY <3>2, <3>3
  <2> QED BY <1>5, <1>10, <2>1, <2>4, QueryHasEnded
<1> QED BY <1>12, <1>13

LEMMA SaveDatabaseUserKeeps == ASSUME DatabasesInv, NEW p \in Client, SaveDatabaseUser(p) PROVE DatabasesInv'
<1>1. PICK q : q = query[p]
  OBVIOUS
<1>2. PICK u : u = q.user
  OBVIOUS
<1>3. PICK s \in {"insertUser", "saveUser"} : QueryAt(p, s)
  BY DEF SaveDatabaseUser
<1>4. PICK id : id = IF q.row.id = 0 THEN q.number ELSE q.row.id
  OBVIOUS
<1>5. PICK r : r = [q.row EXCEPT !.id = id, !.of = q.dbId]
  OBVIOUS
<1>6. /\ userRow[u].id \in {0, id} /\ dbRow[q.db] = q.dbId /\ userRow' = [userRow EXCEPT ![u] = r]
      /\ dbRow' = dbRow /\ schemas' = schemas /\ sqlUsers' = sqlUsers /\ queries' = queries /\ QueryAdvance(p)
  BY <1>1, <1>2, <1>4, <1>5 DEF SaveDatabaseUser, RowStep, mariadb
<1>7. QueryIs(p, q, s)
  BY <1>1, <1>3, AtAStep
<1>8. /\ q = query[p] /\ FineQuery(q) /\ Head(q.todo) = s /\ (q.sound => Promise(q)) /\ q # NoQuery
      /\ q \in QueryType /\ QueryCourse(q.kind, q.user, q.todo)
      /\ q.db \in Schema /\ q.dbId \in Nat /\ q.number \in Nat /\ q.number # 0 /\ q.row \in UserRowType /\ q.row.id \in Nat
  BY <1>7 DEF QueryIs, FineQuery, QueryType, UserRowType
<1>9. u \in DbUser /\ u # "none" /\ u \in QUsers(q) /\ QUsers(q) = {u}
  BY <1>2, <1>3, <1>7, HasUser DEF NeedsUser
<1>10. \/ s = "insertUser" /\ q.kind \in MakesUser
       \/ s = "saveUser" /\ q.kind \in {"password", "privileges"}
  <2>1. QueryLast(q.kind, q.user, s) \/ \E n : QueryAfter(q.kind, q.user, s, n)
    BY <1>8 DEF QueryCourse
  <2> QED BY <1>3, <2>1 DEF QueryLast, QueryAfter
<1>11. q.dbId # 0 /\ IdOf(q) = q.dbId /\ q.kind # "delete"
  BY <1>8, <1>10 DEF FineQuery, IdOf, MakesUser
<1>12. /\ dbRow \in [Schema -> Nat] /\ userRow \in [DbUser -> UserRowType] /\ schemas \subseteq Schema
       /\ sqlUsers \in [DbUser -> AccountType] /\ RowsRefer /\ IdsApart
  BY DEF DatabasesInv, QueriesTyped
<1>13. id \in Nat /\ id # 0
  BY <1>4, <1>8
<1>14. r \in UserRowType /\ r.id = id /\ r.of = q.dbId /\ r.priv = q.row.priv /\ r.pw = q.row.pw
  <2>1. PICK y : y = [q.row EXCEPT !.id = id]
    OBVIOUS
  <2>2. r = [y EXCEPT !.of = q.dbId]
    BY <1>5, <2>1
  <2>3. y \in UserRowType /\ y.id = id /\ y.priv = q.row.priv /\ y.pw = q.row.pw
    BY <1>8, <1>13, <2>1 DEF UserRowType
  <2> QED BY <1>8, <2>2, <2>3 DEF UserRowType
<1>15. userRow'[u] = r /\ userRow' \in [DbUser -> UserRowType] /\ \A v \in DbUser \ {u} : userRow'[v] = userRow[v]
  BY <1>6, <1>9, <1>12, <1>14
<1>16. RowsRefer'
  <2>1. \A v \in DbUser : sqlUsers'[v] # NoAccount' => sqlUsers'[v].pw # 0
    BY <1>6, <1>12 DEF RowsRefer, NoAccount
  <2>2. \A v \in DbUser : userRow'[v].id = 0 => userRow'[v] = NoUserRow'
    BY <1>12, <1>13, <1>14, <1>15 DEF RowsRefer, NoUserRow
  <2>3. ASSUME NEW v \in DbUser, userRow'[v].id # 0
        PROVE  userRow'[v].of # 0 /\ \E d \in Schema : dbRow'[d] = userRow'[v].of
    <3>1. CASE v = u
      BY <1>6, <1>8, <1>11, <1>14, <1>15, <3>1
    <3>2. CASE v # u
      BY <1>6, <1>12, <1>15, <2>3, <3>2 DEF RowsRefer
    <3> QED BY <3>1, <3>2
  <2> QED BY <2>1, <2>2, <2>3 DEF RowsRefer
<1>17. Changes(q)
  <2>1. \A v \in DbUser : \/ userRow'[v].of \in {userRow[v].of, 0}
                          \/ userRow'[v].of = q.dbId /\ q.kind # "delete"
    BY <1>11, <1>14, <1>15
  <2> QED BY <1>6, <1>9, <1>12, <1>15, <1>16, <2>1 DEF Changes
<1>18. ASSUME NEW z, NEW n, Follows(q, z, n) PROVE FALSE
  BY <1>3, <1>8, <1>18 DEF Follows, QueryAfter
<1>19. ASSUME q.sound, doubt' = doubt \ Settles(q) PROVE EndsWell(q)
  <2>1. Promise(q) /\ SchemaPromise(q)
    BY <1>8, <1>19 DEF Promise
  <2>2. SchemaFine(q.db)'
    <3>1. CASE q.kind = "create"
      <4>1. q.db \in schemas
        BY <1>8, <1>10, <2>1, <3>1 DEF SchemaPromise
      <4> QED BY <1>6, <1>11, <4>1 DEF SchemaFine
    <3>2. CASE q.kind # "create"
      <4>1. SchemaFine(q.db)
        BY <1>8, <1>10, <2>1, <3>2 DEF SchemaPromise
      <4>2. <<"schema", q.db>> \notin Settles(q)
        BY <1>8, <1>11, <3>2, SettlesAre
      <4> QED BY <1>6, <1>19, <4>1, <4>2 DEF SchemaFine
    <3> QED BY <3>1, <3>2
  <2>3. InDoubt(u)'
    BY <1>13, <1>14, <1>15 DEF InDoubt
  <2>4. CASE q.kind \in MakesUser
    <3>1. NewPromise(q) /\ s = "insertUser"
      BY <1>2, <1>9, <1>10, <2>1, <2>4 DEF Promise, MakesUser
    <3>2. userRow[u].id = 0 /\ InDoubt(u) /\ sqlUsers[u] # NoAccount
      BY <1>2, <1>8, <3>1 DEF NewPromise
    <3>3. <<"account", u>> \notin doubt => sqlUsers[u].pw = r.pw /\ sqlUsers[u].grants[q.db] = r.priv
      BY <1>2, <1>8, <1>14, <3>1 DEF NewPromise
    <3>4. userRow[u].of = 0
      BY <1>9, <1>12, <3>2 DEF RowsRefer, NoUserRow
    <3>5. /\ <<"password", u>> \in doubt => <<"password", u>> \in doubt'
          /\ <<"grants", u>> \in doubt => <<"grants", u>> \in doubt'
      BY <1>8, <1>9, <1>19, <2>4, SettlesAre DEF MakesUser
    <3>6. <<"account", u>> \in doubt => <<"password", u>> \in doubt' /\ <<"grants", u>> \in doubt'
      BY <3>2, <3>5 DEF InDoubt
    <3>7. AccountFine(u)'
      BY <1>6, <1>13, <1>14, <1>15, <3>2 DEF AccountFine, NoAccount
    <3>8. PasswordFine(u)'
      BY <1>6, <1>15, <3>3, <3>6 DEF PasswordFine
    <3>9. GrantsFine(u)'
      <4>1. \A d \in Schema : dbRow[d] = q.dbId => d = q.db
        BY <1>8, <1>11, <1>12 DEF IdsApart
      <4>2. ASSUME NEW d \in Schema, dbRow'[d] = userRow'[u].of, <<"account", u>> \notin doubt', <<"grants", u>> \notin doubt'
            PROVE  sqlUsers'[u].grants[d] = userRow'[u].priv
        BY <1>6, <1>14, <1>15, <3>3, <3>6, <4>1, <4>2
      <4> QED BY <4>2 DEF GrantsFine
    <3> QED BY <1>9, <2>2, <2>3, <3>4, <3>7, <3>8, <3>9 DEF EndsWell, UserFine
  <2>5. CASE q.kind \in {"password", "privileges"}
    <3>1. OldPromise(q) /\ s = "saveUser"
      BY <1>10, <2>1, <2>5 DEF Promise, OfUser, MakesUser
    <3>2. userRow[u].id = q.row.id /\ userRow[u].of = q.row.of /\ q.row.of = q.dbId /\ q.row.id # 0
      BY <1>2, <1>8, <2>5, <3>1 DEF OldPromise, Holds, FineQuery, OfUser
    <3>3. r.id = userRow[u].id /\ r.of = userRow[u].of
      BY <1>4, <1>14, <3>2
    <3>4. /\ <<"account", u>> \in doubt => <<"account", u>> \in doubt'
          /\ q.kind = "password" => (<<"grants", u>> \in doubt => <<"grants", u>> \in doubt')
          /\ q.kind = "privileges" => (<<"password", u>> \in doubt => <<"password", u>> \in doubt')
      BY <1>8, <1>9, <1>19, <2>5, SettlesAre
    <3>5. AccountFine(u)
      BY <1>2, <2>5, <3>1 DEF OldPromise
    <3>6. AccountFine(u)'
      BY <1>6, <1>15, <3>3, <3>4, <3>5 DEF AccountFine, NoAccount
    <3>7. CASE q.kind = "password"
      <4>1. userRow[u].priv = q.row.priv /\ GrantsFine(u) /\ sqlUsers[u].pw = q.row.pw
        BY <1>2, <1>8, <3>1, <3>7 DEF OldPromise
      <4>2. PasswordFine(u)'
        BY <1>6, <1>14, <1>15, <4>1 DEF PasswordFine
      <4>3. GrantsFine(u)'
        BY <1>6, <1>14, <1>15, <3>3, <3>4, <3>7, <4>1 DEF GrantsFine
      <4> QED BY <1>9, <2>2, <2>3, <3>2, <3>6, <4>2, <4>3 DEF EndsWell, UserFine
    <3>8. CASE q.kind = "privileges"
      <4>1. userRow[u].pw = q.row.pw /\ PasswordFine(u) /\ sqlUsers[u].grants[q.db] = q.row.priv
        BY <1>2, <1>8, <3>1, <3>8 DEF OldPromise
      <4>2. PasswordFine(u)'
        BY <1>6, <1>14, <1>15, <3>3, <3>4, <3>8, <4>1 DEF PasswordFine
      <4>3. GrantsFine(u)'
        <5>1. \A d \in Schema : dbRow[d] = q.dbId => d = q.db
          BY <1>8, <1>11, <1>12 DEF IdsApart
        <5> QED BY <1>6, <1>14, <1>15, <4>1, <5>1 DEF GrantsFine
      <4> QED BY <1>9, <2>2, <2>3, <3>2, <3>6, <4>2, <4>3 DEF EndsWell, UserFine
    <3> QED BY <2>5, <3>7, <3>8
  <2> QED BY <1>10, <2>4, <2>5
<1>20. s # "insertDb"
  BY <1>3
<1> QED BY <1>6, <1>7, <1>17, <1>18, <1>19, <1>20, QueryHasAdvanced

LEMMA RemoveDatabaseUserKeeps == ASSUME DatabasesInv, NEW p \in Client, RemoveDatabaseUser(p) PROVE DatabasesInv'
<1>1. PICK q : q = query[p]
  OBVIOUS
<1>2. PICK u : u = q.user
  OBVIOUS
<1>3. /\ QueryAt(p, "removeUser")
      /\ userRow' = IF userRow[u].id = q.row.id THEN [userRow EXCEPT ![u] = NoUserRow] ELSE userRow
      /\ dbRow' = dbRow /\ schemas' = schemas /\ sqlUsers' = sqlUsers /\ queries' = queries /\ QueryAdvance(p)
  BY <1>1, <1>2 DEF RemoveDatabaseUser, RowStep, mariadb
<1>4. QueryIs(p, q, "removeUser")
  BY <1>1, <1>3, AtAStep
<1>5. FineQuery(q) /\ Head(q.todo) = "removeUser" /\ (q.sound => Promise(q)) /\ QueryCourse(q.kind, q.user, q.todo)
  BY <1>4 DEF QueryIs
<1>6. u \in DbUser /\ u # "none" /\ u \in QUsers(q) /\ QUsers(q) = {u}
  BY <1>2, <1>4, HasUser DEF NeedsUser
<1>7. q.kind = "deleteUser"
  <2>1. QueryLast(q.kind, q.user, "removeUser") \/ \E n : QueryAfter(q.kind, q.user, "removeUser", n)
    BY <1>5 DEF QueryCourse
  <2> QED BY <2>1 DEF QueryLast, QueryAfter
<1>8. /\ dbRow \in [Schema -> Nat] /\ userRow \in [DbUser -> UserRowType] /\ schemas \subseteq Schema
      /\ sqlUsers \in [DbUser -> AccountType] /\ RowsRefer
  BY DEF DatabasesInv, QueriesTyped
<1>9. NoUserRow \in UserRowType /\ NoUserRow.id = 0 /\ NoUserRow.of = 0
  BY DEF NoUserRow, UserRowType
<1>10. /\ userRow' \in [DbUser -> UserRowType] /\ \A v \in DbUser \ {u} : userRow'[v] = userRow[v]
       /\ userRow'[u] \in {userRow[u], NoUserRow}
       /\ userRow[u].id = q.row.id => userRow'[u] = NoUserRow
  BY <1>3, <1>6, <1>8, <1>9
<1>11. \A v \in DbUser : userRow'[v] \in {userRow[v], NoUserRow}
  BY <1>10
<1>12. RowsRefer'
  <2>1. \A v \in DbUser : sqlUsers'[v] # NoAccount' => sqlUsers'[v].pw # 0
    BY <1>3, <1>8 DEF RowsRefer, NoAccount
  <2>2. \A v \in DbUser : userRow'[v].id = 0 => userRow'[v] = NoUserRow'
    BY <1>8, <1>11 DEF RowsRefer, NoUserRow
  <2>3. ASSUME NEW v \in DbUser, userRow'[v].id # 0
        PROVE  userRow'[v].of # 0 /\ \E d \in Schema : dbRow'[d] = userRow'[v].of
    <3>1. userRow'[v] = userRow[v]
      BY <1>9, <1>11, <2>3
    <3> QED BY <1>3, <1>8, <2>3, <3>1 DEF RowsRefer
  <2> QED BY <2>1, <2>2, <2>3 DEF RowsRefer
<1>13. Changes(q)
  <2>1. \A v \in DbUser : userRow'[v].of \in {userRow[v].of, 0}
    BY <1>9, <1>11
  <2> QED BY <1>3, <1>6, <1>8, <1>10, <1>12, <2>1 DEF Changes
<1>14. ASSUME NEW z, NEW n, Follows(q, z, n) PROVE FALSE
  BY <1>5, <1>14 DEF Follows, QueryAfter
<1>15. ASSUME q.sound, doubt' = doubt \ Settles(q) PROVE EndsWell(q)
  <2>1. SchemaPromise(q) /\ OldPromise(q)
    BY <1>5, <1>7, <1>15 DEF Promise, OfUser
  <2>2. SchemaFine(q.db)'
    <3>1. SchemaFine(q.db)
      BY <1>5, <1>7, <2>1 DEF SchemaPromise
    <3>2. <<"schema", q.db>> \notin Settles(q)
      BY <1>5, <1>7, SettlesAre
    <3> QED BY <1>3, <1>15, <3>1, <3>2 DEF SchemaFine
  <2>3. userRow[u].id = q.row.id /\ userRow[u].of = q.dbId /\ sqlUsers[u] = NoAccount
    BY <1>2, <1>5, <1>7, <2>1 DEF OldPromise, Holds, FineQuery, OfUser
  <2>4. userRow'[u].id = 0 /\ <<"account", u>> \notin doubt'
    BY <1>5, <1>6, <1>7, <1>9, <1>10, <1>15, <2>3, SettlesAre
  <2>5. UserFine(u)'
    BY <1>3, <2>3, <2>4 DEF UserFine, InDoubt, PasswordFine, GrantsFine, AccountFine, NoAccount
  <2> QED BY <1>6, <2>2, <2>3, <2>5 DEF EndsWell
<1> QED BY <1>3, <1>4, <1>13, <1>14, <1>15, QueryHasAdvanced

LEMMA RemoveDatabaseRowKeeps == ASSUME DatabasesInv, NEW p \in Client, RemoveDatabaseRow(p) PROVE DatabasesInv'
<1>1. PICK q : q = query[p]
  OBVIOUS
<1>2. /\ QueryAt(p, "removeDb")
      /\ dbRow' = IF dbRow[q.db] = q.dbId THEN [dbRow EXCEPT ![q.db] = 0] ELSE dbRow
      /\ userRow' = [u \in DbUser |-> IF userRow[u].of = q.dbId THEN NoUserRow ELSE userRow[u]]
      /\ schemas' = schemas /\ sqlUsers' = sqlUsers /\ queries' = queries /\ QueryAdvance(p)
  BY <1>1 DEF RemoveDatabaseRow, RowStep, mariadb
<1>3. QueryIs(p, q, "removeDb")
  BY <1>1, <1>2, AtAStep
<1>4. /\ FineQuery(q) /\ Head(q.todo) = "removeDb" /\ (q.sound => Promise(q)) /\ QueryCourse(q.kind, q.user, q.todo)
      /\ q.db \in Schema /\ q.dbId \in Nat /\ q.users \subseteq DbUser /\ q = query[p] /\ q # NoQuery
  BY <1>3 DEF QueryIs, FineQuery, QueryType
<1>5. q.kind = "delete" /\ q.user = "none" /\ QUsers(q) = q.users /\ q.dbId # 0 /\ IdOf(q) = q.dbId
  <2>1. QueryLast(q.kind, q.user, "removeDb") \/ \E n : QueryAfter(q.kind, q.user, "removeDb", n)
    BY <1>4 DEF QueryCourse
  <2>2. q.kind = "delete"
    BY <2>1 DEF QueryLast, QueryAfter
  <2>3. q.user = "none" /\ q.dbId # 0
    BY <1>4, <2>2 DEF FineQuery, OfSchema
  <2> QED BY <2>2, <2>3, DatabasesAssumption DEF QUsers, IdOf
<1>6. /\ dbRow \in [Schema -> Nat] /\ userRow \in [DbUser -> UserRowType] /\ schemas \subseteq Schema
      /\ sqlUsers \in [DbUser -> AccountType] /\ RowsRefer /\ IdsApart
  BY DEF DatabasesInv, QueriesTyped
<1>7. NoUserRow \in UserRowType /\ NoUserRow.id = 0 /\ NoUserRow.of = 0
  BY DEF NoUserRow, UserRowType
<1>8. /\ userRow' \in [DbUser -> UserRowType]
      /\ \A v \in DbUser : userRow'[v] = IF userRow[v].of = q.dbId THEN NoUserRow ELSE userRow[v]
  BY <1>2, <1>6, <1>7
<1>9. \A d \in Schema : d # q.db => dbRow[d] # q.dbId
  BY <1>4, <1>5, <1>6 DEF IdsApart
<1>10. /\ dbRow' \in [Schema -> Nat] /\ dbRow'[q.db] \in {dbRow[q.db], 0} /\ dbRow'[q.db] # q.dbId
       /\ (dbRow[q.db] # q.dbId => dbRow'[q.db] = dbRow[q.db])
       /\ (dbRow[q.db] = q.dbId => dbRow'[q.db] = 0)
       /\ \A d \in Schema \ {q.db} : dbRow'[d] = dbRow[d]
  BY <1>2, <1>4, <1>5, <1>6
<1>11. RowsRefer'
  <2>1. \A v \in DbUser : sqlUsers'[v] # NoAccount' => sqlUsers'[v].pw # 0
    BY <1>2, <1>6 DEF RowsRefer, NoAccount
  <2>2. \A v \in DbUser : userRow'[v].id = 0 => userRow'[v] = NoUserRow'
    BY <1>6, <1>8 DEF RowsRefer, NoUserRow
  <2>3. ASSUME NEW v \in DbUser, userRow'[v].id # 0
        PROVE  userRow'[v].of # 0 /\ \E d \in Schema : dbRow'[d] = userRow'[v].of
    <3>1. userRow'[v] = userRow[v] /\ userRow[v].of # q.dbId /\ userRow[v].id # 0
      BY <1>7, <1>8, <2>3
    <3>2. userRow[v].of # 0 /\ \E d \in Schema : dbRow[d] = userRow[v].of
      BY <1>6, <3>1 DEF RowsRefer
    <3>3. PICK d \in Schema : dbRow[d] = userRow[v].of
      BY <3>2
    <3>4. dbRow'[d] = dbRow[d]
      BY <1>10, <3>1, <3>3
    <3> QED BY <3>1, <3>2, <3>3, <3>4
  <2> QED BY <2>1, <2>2, <2>3 DEF RowsRefer
<1>12. Changes(q)
  <2>1. \A v \in DbUser : userRow'[v].of \in {userRow[v].of, 0}
    BY <1>7, <1>8
  <2>2. \A v \in DbUser : userRow'[v] = userRow[v] \/ Cascades(q, v)
    BY <1>5, <1>8 DEF Cascades
  <2> QED BY <1>2, <1>6, <1>8, <1>10, <1>11, <2>1, <2>2 DEF Changes
<1>13. ASSUME NEW z, NEW n, Follows(q, z, n) PROVE FALSE
  BY <1>4, <1>13 DEF Follows, QueryAfter
<1>14. ASSUME q.sound, doubt' = doubt \ Settles(q) PROVE EndsWell(q)
  <2>1. SchemaPromise(q) /\ DropPromise(q)
    BY <1>4, <1>5, <1>14 DEF Promise
  <2>2. SchemaFine(q.db)'
    <3>1. dbRow[q.db] = q.dbId /\ q.db \notin schemas
      BY <1>4, <1>5, <2>1 DEF SchemaPromise
    <3> QED BY <1>2, <1>10, <3>1 DEF SchemaFine
  <2>3. ASSUME NEW u \in QUsers(q) PROVE UserFine(u)' /\ userRow[u].of \in {0, q.dbId}
    <3>1. u \in DbUser /\ userRow[u].of = q.dbId /\ sqlUsers[u] = NoAccount
      BY <1>4, <1>5, <2>1 DEF DropPromise
    <3>2. userRow'[u].id = 0 /\ <<"account", u>> \notin doubt'
      BY <1>4, <1>5, <1>7, <1>8, <1>14, <3>1, SettlesAre
    <3>3. UserFine(u)'
      BY <1>2, <3>1, <3>2 DEF UserFine, InDoubt, PasswordFine, GrantsFine, AccountFine, NoAccount
    <3> QED BY <3>1, <3>3
  <2> QED BY <2>2, <2>3 DEF EndsWell
<1> QED BY <1>2, <1>3, <1>12, <1>13, <1>14, QueryHasAdvanced

-----------------------------------------------------------------------------
(* Requests as they are made.                                               *)

\* A request as it is made, and as it is once it has its number.
QueryMade(k, d, i, u, r, us, t) ==
  [kind |-> k, db |-> d, dbId |-> i, user |-> u, row |-> r, users |-> us, left |-> us,
   todo |-> t, sound |-> FALSE, number |-> 0]
QueryTaken(k, d, i, u, r, us, t, b, n) ==
  [kind |-> k, db |-> d, dbId |-> i, user |-> u, row |-> r, users |-> us, left |-> us,
   todo |-> t, sound |-> b, number |-> n]

LEMMA AskedIs ==
  ASSUME NEW k, NEW d, NEW t PROVE Asked(k, d, t) = QueryMade(k, d, dbRow[d], "none", NoUserRow, {}, t)
<1>1. PICK a : a = [NoQuery EXCEPT !.kind = k]
  OBVIOUS
<1>2. PICK b : b = [a EXCEPT !.db = d]
  OBVIOUS
<1>3. PICK c : c = [b EXCEPT !.dbId = dbRow[d]]
  OBVIOUS
<1>4. PICK e : e = [c EXCEPT !.todo = t]
  OBVIOUS
<1>5. a = QueryMade(k, "none", 0, "none", NoUserRow, {}, <<>>)
  BY <1>1 DEF NoQuery, QueryMade
<1>6. b = QueryMade(k, d, 0, "none", NoUserRow, {}, <<>>)
  BY <1>2, <1>5 DEF QueryMade
<1>7. c = QueryMade(k, d, dbRow[d], "none", NoUserRow, {}, <<>>)
  BY <1>3, <1>6 DEF QueryMade
<1>8. e = QueryMade(k, d, dbRow[d], "none", NoUserRow, {}, t)
  BY <1>4, <1>7 DEF QueryMade
<1>9. Asked(k, d, t) = e
  BY <1>1, <1>2, <1>3, <1>4 DEF Asked
<1> QED BY <1>8, <1>9

ForUser(a, u, r) == [a EXCEPT !.user = u, !.row = r]

LEMMA ForUserIs ==
  ASSUME NEW k, NEW d, NEW t, NEW u, NEW r
  PROVE  ForUser(Asked(k, d, t), u, r) = QueryMade(k, d, dbRow[d], u, r, {}, t)
<1>1. PICK a : a = Asked(k, d, t)
  OBVIOUS
<1>2. PICK b : b = [a EXCEPT !.user = u]
  OBVIOUS
<1>3. PICK c : c = [b EXCEPT !.row = r]
  OBVIOUS
<1>4. a = QueryMade(k, d, dbRow[d], "none", NoUserRow, {}, t)
  BY <1>1, AskedIs
<1>5. b = QueryMade(k, d, dbRow[d], u, NoUserRow, {}, t)
  BY <1>2, <1>4 DEF QueryMade
<1>6. c = QueryMade(k, d, dbRow[d], u, r, {}, t)
  BY <1>3, <1>5 DEF QueryMade
<1> QED BY <1>1, <1>2, <1>3, <1>6 DEF ForUser

LEMMA TakenIs ==
  ASSUME NEW k, NEW d, NEW i, NEW u, NEW r, NEW us, NEW t, NEW b, NEW n
  PROVE  [QueryMade(k, d, i, u, r, us, t) EXCEPT !.sound = b, !.number = n] = QueryTaken(k, d, i, u, r, us, t, b, n)
<1>1. PICK x : x = QueryMade(k, d, i, u, r, us, t)
  OBVIOUS
<1>2. PICK y : y = [x EXCEPT !.sound = b]
  OBVIOUS
<1>3. PICK z : z = [y EXCEPT !.number = n]
  OBVIOUS
<1>4. y = QueryTaken(k, d, i, u, r, us, t, b, 0)
  BY <1>1, <1>2 DEF QueryMade, QueryTaken
<1>5. z = QueryTaken(k, d, i, u, r, us, t, b, n)
  BY <1>3, <1>4 DEF QueryTaken
<1> QED BY <1>1, <1>2, <1>3, <1>5

LEMMA NoQueryStays == [NoQuery EXCEPT !.sound = FALSE] = NoQuery
<1> DEFINE N == [kind : {"none"}, db : {"none"}, dbId : {0}, user : {"none"}, row : {NoUserRow}, users : {{}},
                 left : {{}}, todo : {<<>>}, sound : {FALSE}, number : {0}]
<1>1. NoQuery \in N
  BY DEF NoQuery
<1>2. ASSUME NEW x \in N PROVE [x EXCEPT !.sound = FALSE] = x
  OBVIOUS
<1> QED BY <1>1, <1>2

\* A request whose soundness is taken away stays what it is.
LEMMA LoweredIs ==
  ASSUME NEW r, FineQuery(r), NEW b \in BOOLEAN, NEW y, y = [r EXCEPT !.sound = b]
  PROVE  /\ FineQuery(y) /\ y.kind = r.kind /\ y.db = r.db /\ y.dbId = r.dbId /\ y.user = r.user
         /\ y.users = r.users /\ y.number = r.number /\ y.sound = b /\ IdOf(y) = IdOf(r) /\ QUsers(y) = QUsers(r)
         /\ r # NoQuery /\ y # NoQuery /\ (b = r.sound => y = r)
<1>1. r \in QueryType
  BY DEF FineQuery
<1>2. /\ y.kind = r.kind /\ y.db = r.db /\ y.dbId = r.dbId /\ y.user = r.user /\ y.row = r.row
      /\ y.users = r.users /\ y.left = r.left /\ y.number = r.number /\ y.todo = r.todo /\ y.sound = b
      /\ y \in QueryType
  BY <1>1 DEF QueryType
<1>3. FineQuery(y)
  BY <1>2 DEF FineQuery
<1>4. r # NoQuery /\ y # NoQuery
  <2>1. r.kind \in QueryKinds
    BY <1>1 DEF QueryType
  <2> QED BY <1>2, <2>1, NoQueryIs
<1>5. b = r.sound => y = r
  BY <1>1 DEF QueryType
<1> QED BY <1>2, <1>3, <1>4, <1>5 DEF IdOf, QUsers

\* What every request has checked, and comes with.
QueryFits(k, d, u, r, us, t) ==
  /\ k = "create" => dbRow[d] = 0 /\ Head(t) = "createSchema"
  /\ k # "create" => dbRow[d] # 0
  /\ k \in OfUser \cup {"createUser"} => u # "none"
  /\ k \in OfSchema => u = "none"
  /\ k # "delete" => us = {}
  /\ k \in MakesUser /\ u # "none" => r.id = 0 /\ r.pw # 0
  /\ k = "password" => r.pw # 0
  /\ k \in OfUser => r.id # 0 /\ r.of = dbRow[d]
  /\ k = "delete" => \A v \in DbUser \ us : userRow[v].of # dbRow[d]

LEMMA QueryOpens ==
  ASSUME DatabasesInv, NEW p \in Client, NEW q, QueryOpen(p, q),
         NEW k \in QueryKinds, NEW d \in Schema, NEW u \in DbUser \cup {"none"}, NEW r \in UserRowType,
         NEW us \in SUBSET DbUser, NEW t \in QueryCourses(k, u),
         q = QueryMade(k, d, dbRow[d], u, r, us, t),
         QueryFits(k, d, u, r, us, t),
         \A z : /\ z = QueryTaken(k, d, dbRow[d], u, r, us, t, TRUE, queries + 1)
                /\ SchemaFine(d) /\ \A v \in QUsers(z) : UserFine(v)
                => Promise(z)
  PROVE  DatabasesInv'
<1>1. /\ QueriesTyped /\ RowsRefer /\ IdsApart /\ SoundAlone /\ Unforeseen /\ PromisesKept /\ RestFine
      /\ dbRow \in [Schema -> Nat] /\ queries \in Nat /\ queries \in 0 .. MaxQueries /\ MaxQueries \in Nat
  BY DatabasesAssumption DEF DatabasesInv, QueriesTyped
<1>2. PICK crossed : crossed = {o \in Client : Touches(query[o]) \cap Touches(q) # {} /\ query[o] # NoQuery}
  OBVIOUS
<1>3. PICK b : b = (crossed = {})
  OBVIOUS
<1>4. PICK z : z = QueryTaken(k, d, dbRow[d], u, r, us, t, b, queries + 1)
  OBVIOUS
<1>5. z = [q EXCEPT !.sound = (crossed = {}), !.number = queries + 1]
  BY <1>3, <1>4, TakenIs
<1>6. /\ query[p] = NoQuery /\ queries < MaxQueries /\ queries' = queries + 1
      /\ query' = [o \in Client |-> IF o = p THEN z ELSE [query[o] EXCEPT !.sound = @ /\ o \notin crossed]]
      /\ dbRow' = dbRow /\ userRow' = userRow /\ schemas' = schemas /\ sqlUsers' = sqlUsers /\ doubt' = doubt
  BY <1>2, <1>5 DEF QueryOpen, dbRows, mariadb
<1>7. /\ z.kind = k /\ z.db = d /\ z.dbId = dbRow[d] /\ z.user = u /\ z.row = r /\ z.users = us /\ z.left = us
      /\ z.todo = t /\ z.sound = b /\ z.number = queries + 1
  BY <1>4 DEF QueryTaken
<1>8. FineQuery(z) /\ z # NoQuery
  <2>1. t \in UNION {QueryCourses(n, v) : n \in QueryKinds, v \in DbUser \cup {"none"}}
    OBVIOUS
  <2>2. b \in BOOLEAN /\ dbRow[d] \in Nat /\ queries + 1 \in Nat /\ queries + 1 # 0
    BY <1>1, <1>3
  <2>3. z \in QueryType
    BY <1>4, <2>1, <2>2 DEF QueryTaken, QueryType
  <2>4. FineQuery(z)
    BY <1>7, <2>2, <2>3 DEF FineQuery, QueryFits
  <2> QED BY <1>7, <2>4, NoQueryIs
<1>9. query'[p] = z
  BY <1>6
\* The others, as they are after the step.
<1>10. ASSUME NEW o \in Client, o # p, query[o] = NoQuery PROVE query'[o] = NoQuery
  <2>1. query'[o] = [NoQuery EXCEPT !.sound = @ /\ o \notin crossed]
    BY <1>6, <1>10
  <2>2. NoQuery.sound = FALSE
    BY DEF NoQuery
  <2> QED BY <2>1, <2>2, NoQueryStays
<1>11. ASSUME NEW o \in Client, o # p, query[o] # NoQuery
       PROVE  /\ FineQuery(query[o]) /\ FineQuery(query'[o]) /\ query'[o] # NoQuery
              /\ query'[o].kind = query[o].kind /\ query'[o].db = query[o].db /\ query'[o].dbId = query[o].dbId
              /\ query'[o].users = query[o].users /\ query'[o].number = query[o].number
              /\ IdOf(query'[o]) = IdOf(query[o]) /\ QUsers(query'[o]) = QUsers(query[o])
              /\ (query'[o].sound => query[o].sound /\ query'[o] = query[o] /\ o \notin crossed)
  <2>1. PICK x : x = query[o]
    OBVIOUS
  <2>2. FineQuery(x) /\ x.sound \in BOOLEAN
    BY <1>1, <1>11, <2>1 DEF QueriesTyped, FineQuery, QueryType
  <2>3. PICK c \in BOOLEAN : c = (x.sound /\ o \notin crossed)
    BY <2>2
  <2>4. PICK y : y = [x EXCEPT !.sound = c]
    OBVIOUS
  <2>5. query'[o] = y
    BY <1>6, <1>11, <2>1, <2>3, <2>4
  <2>6. /\ FineQuery(y) /\ y.kind = x.kind /\ y.db = x.db /\ y.dbId = x.dbId
        /\ y.users = x.users /\ y.number = x.number /\ y.sound = c /\ IdOf(y) = IdOf(x) /\ QUsers(y) = QUsers(x)
        /\ y # NoQuery /\ (c = x.sound => y = x)
    BY <2>2, <2>4, LoweredIs
  <2>7. c => x.sound /\ o \notin crossed /\ c = x.sound
    BY <2>2, <2>3
  <2> QED BY <2>1, <2>2, <2>5, <2>6, <2>7
<1>12. \A o \in Client : o # p /\ query'[o] # NoQuery => query[o] # NoQuery
  BY <1>10
<1>13. QueriesTyped'
  <2>1. query' \in [Client -> QueryType \cup {NoQuery}]
    <3>1. \A o \in Client : query'[o] \in QueryType \cup {NoQuery}
      BY <1>8, <1>9, <1>10, <1>11 DEF FineQuery
    <3> QED BY <1>6, <3>1
  <2>2. \A o \in Client : query'[o] # NoQuery => FineQuery(query'[o])
    BY <1>8, <1>9, <1>10, <1>11
  <2> QED BY <1>1, <1>6, <2>1, <2>2 DEF QueriesTyped
<1>14. RowsRefer'
  BY <1>1, <1>6 DEF RowsRefer, NoAccount, NoUserRow
<1>15. /\ IdOf(z) = IF dbRow[d] = 0 THEN queries + 1 ELSE dbRow[d]
       /\ \A e \in Schema : dbRow[e] \in Nat /\ dbRow[e] <= queries
  BY <1>1, <1>7 DEF IdOf, IdsApart
<1>16. \A e \in Schema : e # d => dbRow[e] # IdOf(z)
  BY <1>1, <1>15 DEF IdsApart
<1>17. ASSUME NEW o \in Client, query[o] # NoQuery, query[o].db # d PROVE IdOf(query[o]) # IdOf(z)
  <2>1. PICK x : x = query[o]
    OBVIOUS
  <2>2. FineQuery(x) /\ x.number <= queries /\ x.dbId <= queries /\ x.number \in Nat /\ x.dbId \in Nat
    BY <1>1, <1>17, <2>1 DEF QueriesTyped, IdsApart, FineQuery, QueryType
  <2>3. dbRow[d] # IdOf(x)
    BY <1>1, <1>17, <2>1 DEF IdsApart
  <2> QED BY <1>1, <1>15, <2>1, <2>2, <2>3 DEF IdOf
<1>18. IdsApart'
  <2>1. \A e, f \in Schema : e # f /\ dbRow'[e] # 0 => dbRow'[e] # dbRow'[f]
    BY <1>1, <1>6 DEF IdsApart
  <2>2. \A e \in Schema : dbRow'[e] <= queries'
    BY <1>1, <1>6, <1>15
  <2>3. ASSUME NEW o \in Client, query'[o] # NoQuery
        PROVE  /\ query'[o].number <= queries' /\ query'[o].dbId <= queries'
               /\ \A e \in Schema : e # query'[o].db => dbRow'[e] # IdOf(query'[o])
    <3>1. CASE o = p
      BY <1>1, <1>6, <1>7, <1>9, <1>15, <1>16, <3>1
    <3>2. CASE o # p
      <4>1. query[o] # NoQuery
        BY <1>12, <2>3, <3>2
      <4>2. /\ query'[o].number = query[o].number /\ query'[o].dbId = query[o].dbId /\ query'[o].db = query[o].db
            /\ IdOf(query'[o]) = IdOf(query[o])
        BY <1>11, <3>2, <4>1
      <4>3. query[o].number <= queries /\ query[o].dbId <= queries /\ query[o].number \in Nat /\ query[o].dbId \in Nat
        BY <1>1, <4>1 DEF IdsApart, QueriesTyped, FineQuery, QueryType
      <4>4. \A e \in Schema : e # query[o].db => dbRow[e] # IdOf(query[o])
        BY <1>1, <4>1 DEF IdsApart
      <4> QED BY <1>1, <1>6, <4>2, <4>3, <4>4
    <3> QED BY <3>1, <3>2
  <2>4. ASSUME NEW o \in Client, NEW n \in Client, query'[o] # NoQuery, query'[n] # NoQuery,
               query'[o].db # query'[n].db
        PROVE  IdOf(query'[o]) # IdOf(query'[n])
    <3>1. CASE o = p /\ n # p
      BY <1>7, <1>9, <1>11, <1>12, <1>17, <2>4, <3>1
    <3>2. CASE n = p /\ o # p
      BY <1>7, <1>9, <1>11, <1>12, <1>17, <2>4, <3>2
    <3>3. CASE o # p /\ n # p
      BY <1>1, <1>11, <1>12, <2>4, <3>3 DEF IdsApart
    <3>4. CASE o = p /\ n = p
      BY <2>4, <3>4
    <3> QED BY <3>1, <3>2, <3>3, <3>4
  <2> QED BY <2>1, <2>2, <2>3, <2>4 DEF IdsApart, IdOf
\* One that is not crossed shares nothing with the new one.
<1>19. ASSUME NEW o \in Client, o # p, query[o] # NoQuery, o \notin crossed
       PROVE  query[o].db # d /\ QUsers(query[o]) \cap QUsers(z) = {}
  <2>1. Touches(query[o]) \cap Touches(q) = {}
    BY <1>2, <1>19
  <2>2. Touches(q) = Touches(z)
    <3>1. q.db = d /\ q.user = u /\ q.users = us
      BY DEF QueryMade
    <3> QED BY <1>7, <3>1 DEF Touches
  <2>3. FineQuery(query[o])
    BY <1>11, <1>19
  <2>4. query[o].db # d
    <3>1. <<"schema", query[o].db>> \in Touches(query[o])
      BY <2>3, FineTouches
    <3>2. <<"schema", d>> \in Touches(z)
      BY <1>7, <1>8, FineTouches
    <3> QED BY <2>1, <2>2, <3>1, <3>2
  <2>5. ASSUME NEW v \in QUsers(query[o]), v \in QUsers(z) PROVE FALSE
    <3>1. "account" \in UserPart
      BY DEF UserPart
    <3>2. <<"account", v>> \in Touches(query[o]) /\ <<"account", v>> \in Touches(z)
      BY <1>8, <2>3, <2>5, <3>1, FineTouches
    <3> QED BY <2>1, <2>2, <3>2
  <2> QED BY <2>4, <2>5
<1>20. SoundAlone'
  <2>1. SUFFICES ASSUME NEW o \in Client, NEW n \in Client, o # n, query'[o] # NoQuery, query'[n] # NoQuery,
                        query'[o].sound
                 PROVE  query'[o].db # query'[n].db /\ QUsers(query'[o]) \cap QUsers(query'[n]) = {}
    BY DEF SoundAlone, QUsers
  <2>2. CASE o = p
    <3>1. query[n] # NoQuery /\ n # p /\ n \notin crossed
      BY <1>3, <1>7, <1>9, <1>12, <2>1, <2>2
    <3> QED BY <1>7, <1>9, <1>11, <1>19, <2>2, <3>1
  <2>3. CASE n = p
    <3>1. query[o] # NoQuery /\ o # p
      BY <1>12, <2>1, <2>3
    <3>2. o \notin crossed
      BY <1>11, <2>1, <3>1
    <3> QED BY <1>7, <1>9, <1>11, <1>19, <2>3, <3>1, <3>2
  <2>4. CASE o # p /\ n # p
    <3>1. query[o] # NoQuery /\ query[n] # NoQuery
      BY <1>12, <2>1, <2>4
    <3>2. query[o].sound
      BY <1>11, <2>1, <2>4, <3>1
    <3>3. query[o].db # query[n].db /\ QUsers(query[o]) \cap QUsers(query[n]) = {}
      BY <1>1, <2>1, <3>1, <3>2 DEF SoundAlone
    <3> QED BY <1>11, <2>4, <3>1, <3>3
  <2> QED BY <2>2, <2>3, <2>4
<1>21. Unforeseen'
  <2>1. SUFFICES ASSUME NEW o \in Client, query'[o].kind = "delete", NEW v \in DbUser, v \notin query'[o].users,
                        userRow'[v].of = query'[o].dbId
                 PROVE  \/ UserParts(v) \subseteq doubt'
                        \/ \E n \in Client : query'[n] # NoQuery /\ ~query'[n].sound /\ v \in QUsers(query'[n])
    BY DEF Unforeseen, UserParts, QUsers
  <2>2. o # p
    BY <1>6, <1>7, <1>9, <2>1 DEF QueryFits
  <2>3. query[o] # NoQuery
    BY <1>10, <2>1, <2>2, NoQueryIs
  <2>4. query[o].kind = "delete" /\ v \notin query[o].users /\ userRow[v].of = query[o].dbId
    BY <1>6, <1>11, <2>1, <2>2, <2>3
  <2>5. \/ UserParts(v) \subseteq doubt
        \/ \E n \in Client : query[n] # NoQuery /\ ~query[n].sound /\ v \in QUsers(query[n])
    BY <1>1, <2>4 DEF Unforeseen
  <2>6. ASSUME NEW n \in Client, query[n] # NoQuery, ~query[n].sound, v \in QUsers(query[n])
        PROVE  query'[n] # NoQuery /\ ~query'[n].sound /\ v \in QUsers(query'[n])
    <3>1. n # p
      BY <1>6, <2>6
    <3> QED BY <1>11, <2>6, <3>1
  <2> QED BY <1>6, <2>5, <2>6
<1>22. ASSUME NEW x, FineQuery(x), Promise(x) PROVE Promise(x)'
  <2>1. SameSchema(x.db)
    BY <1>6 DEF SameSchema
  <2>2. \A v \in QUsers(x) : SameUser(v)
    BY <1>6, KeptUser
  <2> QED BY <1>22, <2>1, <2>2, PromiseStays
<1>23. PromisesKept'
  <2>1. SUFFICES ASSUME NEW o \in Client, query'[o] # NoQuery, query'[o].sound PROVE Promise(query[o])'
    BY DEF PromisesKept
  <2>2. CASE o = p
    <3>1. b /\ crossed = {}
      BY <1>3, <1>7, <1>9, <2>1, <2>2
    <3>2. z = QueryTaken(k, d, dbRow[d], u, r, us, t, TRUE, queries + 1)
      BY <1>3, <1>4, <3>1
    <3>3. \A n \in Client : query[n] # NoQuery => query[n].db # d /\ QUsers(query[n]) \cap QUsers(z) = {}
      BY <1>6, <1>19, <3>1
    <3>4. QUsers(z) \subseteq DbUser
      BY <1>8 DEF FineQuery, QueryType, QUsers
    <3>5. SchemaFine(d)
      BY <1>1, <3>3 DEF RestFine
    <3>6. \A v \in QUsers(z) : UserFine(v)
      BY <1>1, <3>3, <3>4 DEF RestFine
    <3>7. Promise(z)
      BY <3>2, <3>5, <3>6
    <3>8. Promise(z)'
      BY <1>8, <1>22, <3>7
    <3> QED BY <1>9, <2>2, <3>8
  <2>3. CASE o # p
    <3>1. query[o] # NoQuery
      BY <1>12, <2>1, <2>3
    <3>2. PICK x : x = query[o]
      OBVIOUS
    <3>3. query'[o] = x /\ x.sound
      BY <1>11, <2>1, <2>3, <3>1, <3>2
    <3>4. Promise(x)
      BY <1>1, <3>1, <3>2, <3>3 DEF PromisesKept
    <3>5. Promise(x)'
      BY <1>11, <1>22, <2>3, <3>1, <3>2, <3>4
    <3> QED BY <3>3, <3>5
  <2> QED BY <2>2, <2>3
<1>24. RestFine'
  <2>1. ASSUME NEW e \in Schema, \A o \in Client : query'[o] # NoQuery => query'[o].db # e
        PROVE  SchemaFine(e)'
    <3>1. \A o \in Client : query[o] # NoQuery => query[o].db # e
      BY <1>6, <1>11, <2>1
    <3>2. SchemaFine(e)
      BY <1>1, <3>1 DEF RestFine
    <3> QED BY <1>6, <3>2 DEF SchemaFine
  <2>2. ASSUME NEW v \in DbUser, \A o \in Client : query'[o] # NoQuery => v \notin QUsers(query'[o])
        PROVE  UserFine(v)'
    <3>1. \A o \in Client : query[o] # NoQuery => v \notin QUsers(query[o])
      BY <1>6, <1>11, <2>2
    <3>2. UserFine(v)
      BY <1>1, <3>1 DEF RestFine
    <3> QED BY <1>6, <3>2, KeptUser, UserStays
  <2> QED BY <2>1, <2>2 DEF RestFine, QUsers
<1> QED BY <1>13, <1>14, <1>18, <1>20, <1>21, <1>23, <1>24 DEF DatabasesInv

LEMMA CreateSteps ==
  (<<"createSchema", "insertDb">> \o <<"checkUser">>) \o NewUser =
    <<"createSchema", "insertDb", "checkUser", "createAccount", "grantNew", "insertUser">>
<1> DEFINE W == {"createSchema", "insertDb", "checkUser", "createAccount", "grantNew", "insertUser"}
           x == <<"createSchema", "insertDb">>  y == <<"checkUser">>
           xy == <<"createSchema", "insertDb", "checkUser">>
           all == <<"createSchema", "insertDb", "checkUser", "createAccount", "grantNew", "insertUser">>
<1>1. x \in Seq(W) /\ y \in Seq(W) /\ xy \in Seq(W) /\ all \in Seq(W) /\ NewUser \in Seq(W)
  BY DEF NewUser
<1>2. x \o y = xy
  <2>1. /\ x \o y \in Seq(W) /\ Len(x \o y) = Len(x) + Len(y)
        /\ \A i \in 1 .. Len(x) + Len(y) : (x \o y)[i] = IF i <= Len(x) THEN x[i] ELSE y[i - Len(x)]
    BY <1>1, ConcatProperties
  <2>2. Len(x) = 2 /\ Len(y) = 1 /\ Len(xy) = 3
    OBVIOUS
  <2>3. \A i \in 1 .. 3 : (x \o y)[i] = xy[i]
    BY <2>1, <2>2
  <2>4. Len(x \o y) = Len(xy) /\ \A i \in 1 .. Len(x \o y) : (x \o y)[i] = xy[i]
    BY <2>1, <2>2, <2>3
  <2> QED BY <1>1, <2>1, <2>4, SeqEqual
<1>3. xy \o NewUser = all
  <2>1. /\ xy \o NewUser \in Seq(W) /\ Len(xy \o NewUser) = Len(xy) + Len(NewUser)
        /\ \A i \in 1 .. Len(xy) + Len(NewUser) :
             (xy \o NewUser)[i] = IF i <= Len(xy) THEN xy[i] ELSE NewUser[i - Len(xy)]
    BY <1>1, ConcatProperties
  <2>2. Len(NewUser) = 3 /\ Len(xy) = 3 /\ Len(all) = 6
    BY DEF NewUser
  <2>3. \A i \in 1 .. 6 : (xy \o NewUser)[i] = all[i]
    BY <2>1, <2>2 DEF NewUser
  <2>4. Len(xy \o NewUser) = Len(all) /\ \A i \in 1 .. Len(xy \o NewUser) : (xy \o NewUser)[i] = all[i]
    BY <2>1, <2>2, <2>3
  <2> QED BY <1>1, <2>1, <2>4, SeqEqual
<1> QED BY <1>2, <1>3

LEMMA TablesTyped ==
  ASSUME DatabasesInv
  PROVE  /\ dbRow \in [Schema -> Nat] /\ userRow \in [DbUser -> UserRowType]
         /\ NoUserRow \in UserRowType /\ NoUserRow.id = 0 /\ RowsRefer /\ "none" \notin DbUser
BY DatabasesAssumption DEF DatabasesInv, QueriesTyped, NoUserRow, UserRowType

\* The rows of new users.
LEMMA NewRow ==
  ASSUME NEW v, v \subseteq UNION Privileges, NEW w \in Password
  PROVE  \E r \in UserRowType : r = [NoUserRow EXCEPT !.priv = v, !.pw = w] /\ r.id = 0 /\ r.pw # 0
<1>1. PICK y : y = [NoUserRow EXCEPT !.priv = v]
  OBVIOUS
<1>2. y = [id |-> 0, of |-> 0, priv |-> v, pw |-> 0]
  BY <1>1 DEF NoUserRow
<1>3. PICK r : r = [y EXCEPT !.pw = w]
  OBVIOUS
<1>4. r = [id |-> 0, of |-> 0, priv |-> v, pw |-> w]
  BY <1>2, <1>3
<1>5. w # 0 /\ w \in Password \cup {0}
  BY DatabasesAssumption
<1>6. r.id = 0 /\ r.pw # 0
  BY <1>4, <1>5
<1>7. r \in UserRowType
  BY <1>4, <1>5 DEF UserRowType
<1> QED BY <1>1, <1>3, <1>6, <1>7

LEMMA CreateDatabaseKeeps ==
  ASSUME DatabasesInv, NEW p \in Client, NEW d \in Schema, CreateDatabase(p, d) PROVE DatabasesInv'
<1>1. dbRow[d] = 0
  BY DEF CreateDatabase
<1> DEFINE short == <<"createSchema", "insertDb">>
           long == <<"createSchema", "insertDb", "checkUser", "createAccount", "grantNew", "insertUser">>
           plain == Asked("create", d, short)
<1>2. plain = QueryMade("create", d, dbRow[d], "none", NoUserRow, {}, short)
  BY AskedIs
<1>3. CASE QueryOpen(p, plain)
  <2>1. short \in QueryCourses("create", "none") /\ Head(short) = "createSchema"
    BY DEF QueryCourses
  <2>2. ASSUME NEW z, z = QueryTaken("create", d, dbRow[d], "none", NoUserRow, {}, short, TRUE, queries + 1),
               SchemaFine(d)
        PROVE  Promise(z)
    <3>1. z.kind = "create" /\ z.db = d /\ z.user = "none" /\ Head(z.todo) = "createSchema"
      BY <2>1, <2>2 DEF QueryTaken
    <3> QED BY <1>1, <2>2, <3>1 DEF Promise, SchemaPromise, OfUser
  <2> HIDE DEF short, plain
  <2>3. "create" \in QueryKinds /\ "create" \notin OfUser \cup OfSchema
    BY DEF QueryKinds, MakesUser, OfUser, OfSchema
  <2>4. QueryFits("create", d, "none", NoUserRow, {}, short)
    BY <1>1, <2>1, <2>3 DEF QueryFits
  <2> QED BY <1>2, <1>3, <2>1, <2>2, <2>3, <2>4, TablesTyped, QueryOpens
<1>4. ASSUME NEW u \in DbUser, NEW w \in Password,
             QueryOpen(p, [plain EXCEPT !.user = u, !.todo = @ \o <<"checkUser">> \o NewUser,
                                        !.row = [NoUserRow EXCEPT !.priv = UNION Privileges, !.pw = w]])
      PROVE  DatabasesInv'
  <2>1. PICK r \in UserRowType : /\ r = [NoUserRow EXCEPT !.priv = UNION Privileges, !.pw = w]
                                 /\ r.id = 0 /\ r.pw # 0
    BY NewRow
  <2>2. r \in UserRowType /\ r.id = 0 /\ r.pw # 0
    BY <2>1
  <2>3. PICK q : q = [plain EXCEPT !.user = u, !.todo = @ \o <<"checkUser">> \o NewUser, !.row = r]
    OBVIOUS
  <2>4. QueryOpen(p, q)
    BY <1>4, <2>1, <2>3
  <2>5. q = QueryMade("create", d, dbRow[d], u, r, {}, long)
    <3>1. PICK x : x = [plain EXCEPT !.user = u]
      OBVIOUS
    <3>2. PICK y : y = [x EXCEPT !.todo = (@ \o <<"checkUser">>) \o NewUser]
      OBVIOUS
    <3>21. PICK pl : pl = plain
      OBVIOUS
    <3>22. PICK sh : sh = short
      OBVIOUS
    <3>23. pl = QueryMade("create", d, dbRow[d], "none", NoUserRow, {}, sh) /\ x = [pl EXCEPT !.user = u]
      BY <1>2, <3>1, <3>21, <3>22
    <3>24. x = QueryMade("create", d, dbRow[d], u, NoUserRow, {}, sh)
      BY <3>23 DEF QueryMade
    <3>3. x = QueryMade("create", d, dbRow[d], u, NoUserRow, {}, short)
      BY <3>22, <3>24
    <3>4. x.todo = short
      BY <3>24, <3>22 DEF QueryMade
    <3>5. (x.todo \o <<"checkUser">>) \o NewUser = long
      BY <3>4, CreateSteps
    <3> HIDE DEF long, short, plain
    <3>6. y = [x EXCEPT !.todo = long]
      BY <3>2, <3>5
    <3>7. y = QueryMade("create", d, dbRow[d], u, NoUserRow, {}, long)
      BY <3>3, <3>6 DEF QueryMade
    <3>8. q = [y EXCEPT !.row = r]
      BY <2>3, <3>1, <3>2
    <3> QED BY <3>7, <3>8 DEF QueryMade
  <2>6. u # "none"
    BY DatabasesAssumption
  <2>7. long \in QueryCourses("create", u) /\ Head(long) = "createSchema"
    BY <2>6 DEF QueryCourses
  <2>8. ASSUME NEW z, z = QueryTaken("create", d, dbRow[d], u, r, {}, long, TRUE, queries + 1),
               SchemaFine(d), \A v \in QUsers(z) : UserFine(v)
        PROVE  Promise(z)
    <3>1. z.kind = "create" /\ z.db = d /\ z.user = u /\ Head(z.todo) = "createSchema" /\ u \in QUsers(z)
      BY <2>7, <2>8 DEF QueryTaken, QUsers
    <3> QED BY <1>1, <2>8, <3>1 DEF Promise, SchemaPromise, NewPromise, OfUser
  <2> HIDE DEF long, plain
  <2>9. "create" \in QueryKinds /\ "create" \notin OfUser \cup OfSchema
    BY DEF QueryKinds, MakesUser, OfUser, OfSchema
  <2>10. QueryFits("create", d, u, r, {}, long)
    BY <1>1, <2>2, <2>7, <2>9 DEF QueryFits
  <2> QED BY <2>2, <2>4, <2>5, <2>7, <2>8, <2>9, <2>10, QueryOpens
<1> QED BY <1>3, <1>4 DEF CreateDatabase

LEMMA DeleteDatabaseKeeps ==
  ASSUME DatabasesInv, NEW p \in Client, NEW d \in Schema, DeleteDatabase(p, d) PROVE DatabasesInv'
<1>1. PICK us : us = UsersOf(d)
  OBVIOUS
<1> DEFINE three == <<"dropUsers", "dropSchema", "removeDb">>
           two == <<"dropSchema", "removeDb">>
<1>2. PICK t : t = IF us = {} THEN two ELSE three
  OBVIOUS
<1>3. PICK a : a = Asked("delete", d, three)
  OBVIOUS
<1>4. PICK q : q = [a EXCEPT !.users = us, !.left = us, !.todo = IF us = {} THEN Tail(@) ELSE @]
  OBVIOUS
<1>5. dbRow[d] # 0 /\ QueryOpen(p, q)
  BY <1>1, <1>3, <1>4 DEF DeleteDatabase
<1>6. q = QueryMade("delete", d, dbRow[d], "none", NoUserRow, us, t)
  <2>1. a = QueryMade("delete", d, dbRow[d], "none", NoUserRow, {}, three)
    BY <1>3, AskedIs
  <2>2. PICK x : x = [a EXCEPT !.users = us]
    OBVIOUS
  <2>3. PICK y : y = [x EXCEPT !.left = us]
    OBVIOUS
  <2>4. Tail(three) = two
    OBVIOUS
  <2> HIDE DEF three, two
  <2>5. y = QueryMade("delete", d, dbRow[d], "none", NoUserRow, us, three)
    BY <2>1, <2>2, <2>3 DEF QueryMade
  <2>6. y.todo = three
    BY <2>5 DEF QueryMade
  <2>7. q = [y EXCEPT !.todo = t]
    BY <1>2, <1>4, <2>2, <2>3, <2>4, <2>6
  <2> QED BY <2>5, <2>7 DEF QueryMade
<1>7. /\ t \in QueryCourses("delete", "none") /\ us \in SUBSET DbUser /\ Head(t) \in {"dropUsers", "dropSchema"}
      /\ us # {} => Head(t) = "dropUsers"
  BY <1>1, <1>2 DEF QueryCourses, UsersOf
<1>8. \A v \in us : userRow[v].id # 0 /\ userRow[v].of = dbRow[d]
  BY <1>1 DEF UsersOf
<1>9. \A v \in DbUser \ us : userRow[v].of # dbRow[d]
  <2>1. ASSUME NEW v \in DbUser \ us, userRow[v].of = dbRow[d] PROVE FALSE
    <3>1. userRow[v].id = 0
      BY <1>1, <2>1 DEF UsersOf
    <3>2. userRow[v].of = 0
      BY <3>1, TablesTyped DEF RowsRefer, NoUserRow
    <3> QED BY <1>5, <2>1, <3>2
  <2> QED BY <2>1
<1>10. ASSUME NEW z, z = QueryTaken("delete", d, dbRow[d], "none", NoUserRow, us, t, TRUE, queries + 1), SchemaFine(d)
       PROVE  Promise(z)
  <2>1. z.kind = "delete" /\ z.db = d /\ z.dbId = dbRow[d] /\ z.users = us /\ z.left = us /\ z.todo = t
    BY <1>10 DEF QueryTaken
  <2>2. DropPromise(z)
    BY <1>7, <1>8, <2>1 DEF DropPromise
  <2>3. SchemaPromise(z)
    BY <1>7, <1>10, <2>1 DEF SchemaPromise
  <2> QED BY <2>1, <2>2, <2>3 DEF Promise, OfUser, MakesUser
<1>11. "delete" \in QueryKinds /\ "delete" \notin OfUser \cup MakesUser
  BY DEF QueryKinds, MakesUser, OfUser, OfSchema
<1> HIDE DEF three, two
<1>12. \A z : /\ z = QueryTaken("delete", d, dbRow[d], "none", NoUserRow, us, t, TRUE, queries + 1)
              /\ SchemaFine(d) /\ \A v \in QUsers(z) : UserFine(v)
              => Promise(z)
  BY <1>10
<1>13. PICK k : k = "delete"
  OBVIOUS
<1>14. /\ k \in QueryKinds /\ k \notin OfUser \cup MakesUser /\ k # "create" /\ k # "createUser" /\ k # "password"
       /\ NoUserRow \in UserRowType
  BY <1>11, <1>13, TablesTyped
<1>15. /\ t \in QueryCourses(k, "none") /\ us \in SUBSET DbUser
       /\ q = QueryMade(k, d, dbRow[d], "none", NoUserRow, us, t)
  BY <1>6, <1>7, <1>13
<1>16. \A z : /\ z = QueryTaken(k, d, dbRow[d], "none", NoUserRow, us, t, TRUE, queries + 1)
              /\ SchemaFine(d) /\ \A v \in QUsers(z) : UserFine(v)
              => Promise(z)
  BY <1>12, <1>13
<1>17. QueryFits(k, d, "none", NoUserRow, us, t)
  BY <1>5, <1>9, <1>13, <1>14 DEF QueryFits
<1> QED BY <1>5, <1>14, <1>15, <1>16, <1>17, QueryOpens

\* updateStats() and backup().
LEMMA StatsOpens ==
  ASSUME DatabasesInv, NEW p \in Client, NEW d \in Schema, dbRow[d] # 0, NEW k \in {"stats", "backup"},
         NEW t, t = IF k = "stats" THEN <<"stats", "saveDb">> ELSE <<"dump", "saveDb">>, QueryOpen(p, Asked(k, d, t))
  PROVE  DatabasesInv'
<1>1. Asked(k, d, t) = QueryMade(k, d, dbRow[d], "none", NoUserRow, {}, t)
  BY AskedIs
<1>2. t \in QueryCourses(k, "none") /\ Head(t) # "removeDb"
  BY DEF QueryCourses
<1>3. k \in QueryKinds /\ k \notin OfUser \cup MakesUser /\ k # "delete"
  BY DEF QueryKinds, MakesUser, OfUser, OfSchema
<1>4. ASSUME NEW z, z = QueryTaken(k, d, dbRow[d], "none", NoUserRow, {}, t, TRUE, queries + 1), SchemaFine(d)
      PROVE  Promise(z)
  <2>1. z.kind = k /\ z.db = d /\ z.dbId = dbRow[d] /\ z.todo = t
    BY <1>4 DEF QueryTaken
  <2> QED BY <1>2, <1>3, <1>4, <2>1 DEF Promise, SchemaPromise, MakesUser
<1>5. NoUserRow \in UserRowType /\ k # "create" /\ k # "createUser" /\ k # "password"
  BY TablesTyped
<1>6. QueryFits(k, d, "none", NoUserRow, {}, t)
  BY <1>3, <1>5 DEF QueryFits
<1> QED BY <1>1, <1>2, <1>3, <1>4, <1>5, <1>6, QueryOpens

\* Requests about a user.
LEMMA UserOpens ==
  ASSUME DatabasesInv, NEW p \in Client, NEW d \in Schema, NEW u \in DbUser, dbRow[d] # 0,
         NEW k \in OfUser \cup {"createUser"}, NEW t \in QueryCourses(k, u), NEW r \in UserRowType,
         NEW q, q = QueryMade(k, d, dbRow[d], u, r, {}, t), QueryOpen(p, q),
         k \in {"createUser", "password"} => r.pw # 0,
         k = "createUser" => r.id = 0 /\ userRow[u].id = 0 /\ Head(t) = "createAccount",
         k \in OfUser => r.id = userRow[u].id /\ r.id # 0 /\ r.of = userRow[u].of /\ r.of = dbRow[d],
         k = "password" => r.priv = userRow[u].priv /\ Head(t) = "alter",
         k = "privileges" => r.pw = userRow[u].pw /\ Head(t) = "revoke",
         k = "deleteUser" => Head(t) = "dropAccount"
  PROVE  DatabasesInv'
<1>1. u # "none"
  BY DatabasesAssumption
<1>2. k \in QueryKinds /\ k \notin OfSchema /\ k # "create" /\ k # "delete"
  BY DEF QueryKinds, MakesUser, OfUser, OfSchema
<1>3. QueryFits(k, d, u, r, {}, t)
  BY <1>1, <1>2 DEF QueryFits, MakesUser
<1>4. ASSUME NEW z, z = QueryTaken(k, d, dbRow[d], u, r, {}, t, TRUE, queries + 1), SchemaFine(d),
             \A v \in QUsers(z) : UserFine(v)
      PROVE  Promise(z)
  <2>1. /\ z.kind = k /\ z.db = d /\ z.dbId = dbRow[d] /\ z.user = u /\ z.row = r /\ z.todo = t
    BY <1>4 DEF QueryTaken
  <2>2. UserFine(u)
    BY <1>4, <2>1 DEF QUsers
  <2>3. Head(t) \in {"createAccount", "alter", "revoke", "dropAccount"}
    BY DEF OfUser
  <2>4. SchemaPromise(z)
    BY <1>2, <1>4, <2>1, <2>3 DEF SchemaPromise
  <2>5. k = "createUser" => NewPromise(z)
    BY <2>1, <2>2 DEF NewPromise, UserFine
  <2>6. k \in OfUser => OldPromise(z)
    BY <2>1, <2>2, <2>3 DEF OldPromise, Holds, UserFine
  <2> QED BY <1>2, <2>1, <2>4, <2>5, <2>6 DEF Promise, MakesUser, OfUser
<1> QED BY <1>2, <1>3, <1>4, QueryOpens

LEMMA CreateDatabaseUserKeeps ==
  ASSUME DatabasesInv, NEW p \in Client, NEW d \in Schema, NEW u \in DbUser, CreateDatabaseUser(p, d, u)
  PROVE  DatabasesInv'
<1>1. PICK v \in Privileges, w \in Password :
        QueryOpen(p, ForUser(Asked("createUser", d, NewUser), u, [NoUserRow EXCEPT !.priv = v, !.pw = w]))
  BY DEF CreateDatabaseUser, ForUser
<1>2. dbRow[d] # 0 /\ userRow[u].id = 0
  BY DEF CreateDatabaseUser
<1>3. v \subseteq UNION Privileges
  OBVIOUS
<1>4. PICK r \in UserRowType : r = [NoUserRow EXCEPT !.priv = v, !.pw = w] /\ r.id = 0 /\ r.pw # 0
  BY <1>3, NewRow
<1>5. PICK q : q = QueryMade("createUser", d, dbRow[d], u, r, {}, NewUser)
  OBVIOUS
<1>6. QueryOpen(p, q)
  BY <1>1, <1>4, <1>5, ForUserIs
<1>7. NewUser \in QueryCourses("createUser", u) /\ Head(NewUser) = "createAccount"
  BY DEF QueryCourses, InsertsUser, NewUser
<1>8. PICK k : k = "createUser"
  OBVIOUS
<1>9. /\ k \in OfUser \cup {"createUser"} /\ NewUser \in QueryCourses(k, u) /\ q = QueryMade(k, d, dbRow[d], u, r, {}, NewUser)
      /\ k \notin OfUser /\ k # "password" /\ k # "privileges" /\ k # "deleteUser"
  BY <1>5, <1>7, <1>8 DEF OfUser
<1> QED BY <1>2, <1>4, <1>6, <1>7, <1>9, UserOpens

LEMMA UpdateDatabaseUserKeeps ==
  ASSUME DatabasesInv, NEW p \in Client, NEW d \in Schema, NEW u \in DbUser, UpdateDatabaseUser(p, d, u)
  PROVE  DatabasesInv'
<1>1. dbRow[d] # 0 /\ userRow[u].id # 0 /\ userRow[u].of = dbRow[d]
  BY DEF UpdateDatabaseUser, UsersOf
<1>2. PICK old : old = userRow[u]
  OBVIOUS
<1>3. old \in UserRowType
  BY <1>2, TablesTyped
<1>4. ASSUME NEW w \in Password,
             QueryOpen(p, ForUser(Asked("password", d, <<"alter", "saveUser">>), u, [userRow[u] EXCEPT !.pw = w]))
      PROVE  DatabasesInv'
  <2>1. PICK r : r = [old EXCEPT !.pw = w]
    OBVIOUS
  <2>2. r \in UserRowType /\ r.id = old.id /\ r.of = old.of /\ r.priv = old.priv /\ r.pw = w
    BY <1>3, <2>1 DEF UserRowType
  <2>3. w # 0
    BY DatabasesAssumption
  <2>4. PICK t : t = <<"alter", "saveUser">>
    OBVIOUS
  <2>5. PICK q : q = QueryMade("password", d, dbRow[d], u, r, {}, t)
    OBVIOUS
  <2>6. QueryOpen(p, q)
    <3>1. ForUser(Asked("password", d, t), u, r) = q
      BY <2>5, ForUserIs
    <3> QED BY <1>2, <1>4, <2>1, <2>4, <3>1
  <2>7. t \in QueryCourses("password", u) /\ Head(t) = "alter"
    BY <2>4 DEF QueryCourses
  <2>8. PICK k : k = "password"
    OBVIOUS
  <2>9. k \in OfUser /\ t \in QueryCourses(k, u) /\ q = QueryMade(k, d, dbRow[d], u, r, {}, t)
        /\ k # "createUser" /\ k # "privileges" /\ k # "deleteUser"
    BY <2>5, <2>7, <2>8 DEF OfUser
  <2> QED BY <1>1, <1>2, <2>2, <2>3, <2>6, <2>7, <2>9, UserOpens
<1>5. ASSUME NEW v \in Privileges,
             QueryOpen(p, ForUser(Asked("privileges", d, <<"revoke", "grant", "saveUser">>), u,
                                  [userRow[u] EXCEPT !.priv = v]))
      PROVE  DatabasesInv'
  <2>1. PICK r : r = [old EXCEPT !.priv = v]
    OBVIOUS
  <2>2. r \in UserRowType /\ r.id = old.id /\ r.of = old.of /\ r.priv = v /\ r.pw = old.pw
    BY <1>3, <2>1 DEF UserRowType
  <2>4. PICK t : t = <<"revoke", "grant", "saveUser">>
    OBVIOUS
  <2>5. PICK q : q = QueryMade("privileges", d, dbRow[d], u, r, {}, t)
    OBVIOUS
  <2>6. QueryOpen(p, q)
    <3>1. ForUser(Asked("privileges", d, t), u, r) = q
      BY <2>5, ForUserIs
    <3> QED BY <1>2, <1>5, <2>1, <2>4, <3>1
  <2>7. t \in QueryCourses("privileges", u) /\ Head(t) = "revoke"
    BY <2>4 DEF QueryCourses
  <2>8. PICK k : k = "privileges"
    OBVIOUS
  <2>9. k \in OfUser /\ t \in QueryCourses(k, u) /\ q = QueryMade(k, d, dbRow[d], u, r, {}, t)
        /\ k # "createUser" /\ k # "password" /\ k # "deleteUser"
    BY <2>5, <2>7, <2>8 DEF OfUser
  <2> QED BY <1>1, <1>2, <2>2, <2>6, <2>7, <2>9, UserOpens
<1> QED BY <1>4, <1>5 DEF UpdateDatabaseUser, ForUser

LEMMA DeleteDatabaseUserKeeps ==
  ASSUME DatabasesInv, NEW p \in Client, NEW d \in Schema, NEW u \in DbUser, DeleteDatabaseUser(p, d, u)
  PROVE  DatabasesInv'
<1>1. dbRow[d] # 0 /\ userRow[u].id # 0 /\ userRow[u].of = dbRow[d]
  BY DEF DeleteDatabaseUser, UsersOf
<1>2. PICK r : r = userRow[u]
  OBVIOUS
<1>3. r \in UserRowType
  BY <1>2, TablesTyped
<1>4. PICK t : t = <<"dropAccount", "removeUser">>
  OBVIOUS
<1>5. PICK q : q = QueryMade("deleteUser", d, dbRow[d], u, r, {}, t)
  OBVIOUS
<1>6. QueryOpen(p, q)
  <2>1. ForUser(Asked("deleteUser", d, t), u, r) = q
    BY <1>5, ForUserIs
  <2> QED BY <1>2, <1>4, <2>1 DEF DeleteDatabaseUser, ForUser
<1>7. t \in QueryCourses("deleteUser", u) /\ Head(t) = "dropAccount"
  BY <1>4 DEF QueryCourses
<1>8. PICK k : k = "deleteUser"
  OBVIOUS
<1>9. k \in OfUser /\ t \in QueryCourses(k, u) /\ q = QueryMade(k, d, dbRow[d], u, r, {}, t)
      /\ k # "createUser" /\ k # "password" /\ k # "privileges"
  BY <1>5, <1>7, <1>8 DEF OfUser
<1> QED BY <1>1, <1>2, <1>3, <1>6, <1>7, <1>9, UserOpens

LEMMA UpdateStatsKeeps ==
  ASSUME DatabasesInv, NEW p \in Client, NEW d \in Schema, UpdateStats(p, d) PROVE DatabasesInv'
<1>1. dbRow[d] # 0 /\ QueryOpen(p, Asked("stats", d, <<"stats", "saveDb">>))
  BY DEF UpdateStats
<1> QED BY <1>1, StatsOpens

LEMMA BackupDatabaseKeeps ==
  ASSUME DatabasesInv, NEW p \in Client, NEW d \in Schema, BackupDatabase(p, d) PROVE DatabasesInv'
<1>1. dbRow[d] # 0 /\ QueryOpen(p, Asked("backup", d, <<"dump", "saveDb">>))
  BY DEF BackupDatabase
<1> QED BY <1>1, StatsOpens

LEMMA DatabasesInitInv == DatabasesInit => DatabasesInv
<1>1. SUFFICES ASSUME DatabasesInit PROVE DatabasesInv
  OBVIOUS
<1>2. /\ dbRow = [d \in Schema |-> 0] /\ userRow = [u \in DbUser |-> NoUserRow]
      /\ schemas = {} /\ sqlUsers = [u \in DbUser |-> NoAccount]
      /\ query = [p \in Client |-> NoQuery] /\ doubt = {} /\ queries = 0
  BY <1>1 DEF DatabasesInit
<1>3. NoUserRow \in UserRowType /\ NoUserRow.id = 0
  BY DEF NoUserRow, UserRowType
<1>4. QueriesTyped
  BY <1>2, <1>3, NoAccountIs, DatabasesAssumption DEF QueriesTyped
<1>5. RowsRefer
  BY <1>2, <1>3 DEF RowsRefer
<1>6. IdsApart
  BY <1>2 DEF IdsApart
<1>7. SoundAlone /\ PromisesKept
  BY <1>2 DEF SoundAlone, PromisesKept
<1>8. Unforeseen
  BY <1>2, NoQueryIs DEF Unforeseen, QueryKinds, OfSchema
<1>9. \A d \in Schema : SchemaFine(d)
  BY <1>2 DEF SchemaFine
<1>10. \A u \in DbUser : UserFine(u)
  BY <1>2, <1>3 DEF UserFine, InDoubt, PasswordFine, GrantsFine, AccountFine
<1> QED BY <1>4, <1>5, <1>6, <1>7, <1>8, <1>9, <1>10 DEF DatabasesInv, RestFine

LEMMA DatabasesNextInv == DatabasesInv /\ [DatabasesNext]_databaseVars => DatabasesInv'
<1>1. SUFFICES ASSUME DatabasesInv, [DatabasesNext]_databaseVars PROVE DatabasesInv'
  OBVIOUS
<1>2. CASE UNCHANGED databaseVars
  <2>1. /\ dbRow' = dbRow /\ userRow' = userRow /\ schemas' = schemas /\ sqlUsers' = sqlUsers
        /\ query' = query /\ doubt' = doubt /\ queries' = queries
    BY <1>2 DEF databaseVars, dbRows, mariadb
  <2>2. QueriesTyped' /\ RowsRefer' /\ IdsApart' /\ SoundAlone' /\ Unforeseen'
    <3>1. QueriesTyped'
      BY <1>1, <2>1 DEF DatabasesInv, QueriesTyped
    <3>2. RowsRefer'
      BY <1>1, <2>1 DEF DatabasesInv, RowsRefer, NoAccount, NoUserRow
    <3>3. IdsApart'
      BY <1>1, <2>1 DEF DatabasesInv, IdsApart
    <3>4. SoundAlone'
      BY <1>1, <2>1 DEF DatabasesInv, SoundAlone
    <3>5. Unforeseen'
      BY <1>1, <2>1 DEF DatabasesInv, Unforeseen
    <3> QED BY <3>1, <3>2, <3>3, <3>4, <3>5
  <2>3. PromisesKept'
    <3>1. SUFFICES ASSUME NEW o \in Client, query'[o] # NoQuery, query'[o].sound PROVE Promise(query[o])'
      BY DEF PromisesKept
    <3>2. PICK x : x = query[o]
      OBVIOUS
    <3>3. query'[o] = x /\ FineQuery(x) /\ Promise(x)
      BY <1>1, <2>1, <3>1, <3>2 DEF DatabasesInv, QueriesTyped, PromisesKept
    <3>4. SameSchema(x.db) /\ \A v \in QUsers(x) : SameUser(v)
      BY <2>1, KeptUser DEF SameSchema
    <3>5. Promise(x)'
      BY <3>3, <3>4, PromiseStays
    <3> QED BY <3>3, <3>5
  <2>4. RestFine'
    <3>1. \A u : UserFine(u) => UserFine(u)'
      BY <2>1, KeptUser, UserStays
    <3>2. \A d : SchemaFine(d) => SchemaFine(d)'
      BY <2>1 DEF SchemaFine
    <3>3. RestFine
      BY <1>1 DEF DatabasesInv
    <3> QED BY <2>1, <3>1, <3>2, <3>3 DEF RestFine
  <2> QED BY <2>2, <2>3, <2>4 DEF DatabasesInv
<1>3. ASSUME NEW p \in Client, NEW d \in Schema,
             CreateDatabase(p, d) \/ DeleteDatabase(p, d) \/ UpdateStats(p, d) \/ BackupDatabase(p, d)
      PROVE  DatabasesInv'
  BY <1>1, <1>3, CreateDatabaseKeeps, DeleteDatabaseKeeps, UpdateStatsKeeps, BackupDatabaseKeeps
<1>4. ASSUME NEW p \in Client, NEW d \in Schema, NEW u \in DbUser,
             CreateDatabaseUser(p, d, u) \/ UpdateDatabaseUser(p, d, u) \/ DeleteDatabaseUser(p, d, u)
      PROVE  DatabasesInv'
  BY <1>1, <1>4, CreateDatabaseUserKeeps, UpdateDatabaseUserKeeps, DeleteDatabaseUserKeeps
<1>5. ASSUME NEW p \in Client,
             CreateSchema(p) \/ DropSchema(p) \/ ReadSchema(p) \/ CreateAccount(p) \/ Grant(p) \/ Revoke(p)
      PROVE  DatabasesInv'
  BY <1>1, <1>5, CreateSchemaKeeps, DropSchemaKeeps, ReadSchemaKeeps, CreateAccountKeeps, GrantKeeps, RevokeKeeps
<1>6. ASSUME NEW p \in Client, NEW u \in DbUser, DropUsers(p, u) PROVE DatabasesInv'
  BY <1>1, <1>6, DropUsersKeeps
<1>7. ASSUME NEW p \in Client,
             \/ AlterPassword(p) \/ DropAccount(p) \/ CommandFails(p) \/ SaveDatabaseRow(p) \/ RemoveDatabaseRow(p)
             \/ SaveDatabaseUser(p) \/ RemoveDatabaseUser(p) \/ CheckUser(p) \/ RowFails(p)
      PROVE  DatabasesInv'
  BY <1>1, <1>7, AlterPasswordKeeps, DropAccountKeeps, CommandFailsKeeps, SaveDatabaseRowKeeps, RemoveDatabaseRowKeeps,
     SaveDatabaseUserKeeps, RemoveDatabaseUserKeeps, CheckUserKeeps, RowFailsKeeps
<1> QED BY <1>1, <1>2, <1>3, <1>4, <1>5, <1>6, <1>7 DEF DatabasesNext

LEMMA DatabasesAlways == DatabasesSpec => []DatabasesInv
BY DatabasesInitInv, DatabasesNextInv, PTL DEF DatabasesSpec

LEMMA DatabasesInvTypes == DatabasesInv => DatabasesTypeOK
<1>1. SUFFICES ASSUME DatabasesInv PROVE DatabasesTypeOK
  OBVIOUS
<1>2. QueriesTyped /\ RowsRefer /\ IdsApart
  BY <1>1 DEF DatabasesInv
<1>3. dbRow \in [Schema -> 0 .. MaxQueries]
  BY <1>2, DatabasesAssumption DEF QueriesTyped, IdsApart
<1>4. ASSUME NEW u \in DbUser
      PROVE  /\ userRow[u].id # 0 => \E d \in Schema : dbRow[d] = userRow[u].of
             /\ userRow[u].priv \subseteq UNION Privileges /\ sqlUsers[u].pw \in Password \cup {0}
  BY <1>2 DEF QueriesTyped, RowsRefer, UserRowType, AccountType
<1> QED BY <1>2, <1>3, <1>4 DEF DatabasesTypeOK, QueriesTyped

\* The types of the databases' state, and that the row of a user refers to a database
\* whose row is there, whatever requests interleave, fail or are refused by the server.
THEOREM DatabasesTyped == DatabasesSpec => []DatabasesTypeOK
BY DatabasesAlways, DatabasesInvTypes, PTL

LEMMA DatabasesInvMatch == DatabasesInv => DatabasesMatch
<1>1. SUFFICES ASSUME DatabasesInv, QueriesQuiet PROVE DatabasesMatch
  BY DEF DatabasesMatch
<1>2. (\A d \in Schema : SchemaFine(d)) /\ (\A u \in DbUser : UserFine(u))
  BY <1>1 DEF DatabasesInv, RestFine, QueriesQuiet
<1> QED BY <1>2 DEF DatabasesMatch, SchemaFine, UserFine, PasswordFine, GrantsFine, AccountFine

\* Once no request is in flight MariaDB has what the panel's rows say: the schemas, the
\* accounts, their passwords and their privileges, but for what a request that failed or two
\* that crossed have touched and no later request has put in order.
THEOREM DatabasesInStep == DatabasesSpec => []DatabasesMatch
BY DatabasesAlways, DatabasesInvMatch, PTL
=============================================================================
