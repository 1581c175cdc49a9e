-------------------------- MODULE TerminalSessions --------------------------
(***************************************************************************)
(* Web terminals: the gateway (modules/terminal/terminal.gateway.ts), the  *)
(* terminal service and the session manager.  A client is one socket; the  *)
(* gateway remembers one session per socket (socketSessions), the session  *)
(* manager has a map of the sessions with a PTY, and each has a row.  One  *)
(* action is what runs between two awaits: messages, the exits of PTYs and *)
(* the idle timer come between a database write and what follows it.       *)
(***************************************************************************)
EXTENDS Naturals, FiniteSets

CONSTANTS Socket,      \* sockets
          PanelUser,   \* panel users
          UserOf,      \* who is logged in on a socket
          NoSession,   \* no session
          MaxSessions, \* bound on sessions ever started
          Noisy,       \* sessions whose program never stops writing output
          Patient,     \* clients that wait for the answers to what they sent before
          MaxFaults,   \* bound on failing database writes, spawns and kills
          MaxCrashes   \* bound on restarts of the panel process

Session == 1..MaxSessions

ASSUME UserAssumption    == Socket # {} /\ UserOf \in [Socket -> PanelUser]
ASSUME SessionAssumption == MaxSessions \in Nat /\ Noisy \subseteq Session
                            /\ NoSession \notin Session
ASSUME BoundAssumption   == Patient \subseteq Socket /\ MaxFaults \in Nat /\ MaxCrashes \in Nat

VARIABLES
  link,      \* a socket: not yet connected, connected, or gone
  mapping,   \* socketSessions: the session of a socket
  stage,     \* unused, being created, in the sessions map, or deleted from it
  owner,     \* the client that started a session
  pty,       \* the shell process
  row,       \* TerminalSession.status
  ending,    \* destroySession() and handlePtyExit() calls that await their save
  unkilled,  \* history: sessions whose process could not be killed
  unsaved,   \* history: sessions whose last status could not be saved
  ptyFaults,
  crashes

histVars == <<unkilled, unsaved, ptyFaults, crashes>>
vars == <<link, mapping, stage, owner, pty, row, ending, histVars>>

\* Why a session is being ended, and for the gateway's handlers which client's
\* entry they delete afterwards.
Ending == [session : Session, why : {"exit", "idle", "stop", "disconnect"},
           client : Socket]

Used == {s \in Session : stage[s] # "unused"}
OpenSessions == {s \in Session : stage[s] = "open"}
Alive(s) == pty[s] \in {"alive", "killed"}

Init ==
  /\ link     = [c \in Socket |-> "new"]
  /\ mapping  = [c \in Socket |-> NoSession]
  /\ stage    = [s \in Session |-> "unused"]
  /\ owner    \in [Session -> {CHOOSE c \in Socket : TRUE}]
  /\ pty      = [s \in Session |-> "none"]
  /\ row      = [s \in Session |-> "none"]
  /\ ending   = {}
  /\ unkilled = {} /\ unsaved = {}
  /\ ptyFaults = 0 /\ crashes = 0

Fault == ptyFaults < MaxFaults /\ ptyFaults' = ptyFaults + 1

-----------------------------------------------------------------------------
(* Starting a session.                                                     *)

\* handleConnection(): the token is verified and the user attached.
Connect(c) ==
  /\ link[c] = "new"
  /\ link' = [link EXCEPT ![c] = "on"]
  /\ UNCHANGED <<mapping, stage, owner, pty, row, ending, histVars>>

\* What a patient client waits for: terminal:started, :exit and :stopped.
Waiting(c) ==
  \/ \E s \in Used : owner[s] = c /\ (stage[s] = "creating" \/ pty[s] = "killed")
  \/ \E e \in ending : e.why = "stop" /\ e.client = c

\* Mutant: does not ask whether the session of the socket still runs.
Start_NoCheck(c) ==
  LET s == Cardinality(Used) + 1 IN
  /\ link[c] = "on" /\ s \in Session
  /\ c \in Patient => ~Waiting(c)
  /\ mapping' = [mapping EXCEPT ![c] = NoSession]
  /\ stage'   = [stage EXCEPT ![s] = "creating"]
  /\ owner'   = [owner EXCEPT ![s] = c]
  /\ UNCHANGED <<link, pty, row, ending, histVars>>

\* handleTerminalStart() up to its first await: a client with a session in the
\* map is refused, an entry without a session is dropped.
Start(c) ==
  LET s == Cardinality(Used) + 1 IN
  /\ link[c] = "on" /\ s \in Session
  /\ mapping[c] \notin OpenSessions
  /\ c \in Patient => ~Waiting(c)
  /\ mapping' = [mapping EXCEPT ![c] = NoSession]
  /\ stage'   = [stage EXCEPT ![s] = "creating"]
  /\ owner'   = [owner EXCEPT ![s] = c]
  /\ UNCHANGED <<link, pty, row, ending, histVars>>

\* The row is saved; the PTY is spawned and both maps are set, also when the
\* client has gone in the meantime.
Created(s) ==
  /\ stage[s] = "creating"
  /\ stage'   = [stage EXCEPT ![s] = "open"]
  /\ pty'     = [pty EXCEPT ![s] = "alive"]
  /\ row'     = [row EXCEPT ![s] = "ACTIVE"]
  /\ mapping' = [mapping EXCEPT ![owner[s]] = s]
  /\ UNCHANGED <<link, owner, ending, histVars>>

\* verifyTerminalAccess() refuses, or the row cannot be saved.
InsertFails(s) ==
  /\ stage[s] = "creating"
  /\ stage' = [stage EXCEPT ![s] = "closed"]
  /\ UNCHANGED <<link, mapping, owner, pty, row, ending, histVars>>

\* The row is saved and the PTY cannot be spawned.
SpawnFails(s) ==
  /\ stage[s] = "creating"
  /\ Fault
  /\ stage' = [stage EXCEPT ![s] = "closed"]
  /\ row'   = [row EXCEPT ![s] = "ERROR"]
  /\ UNCHANGED <<link, mapping, owner, pty, ending, unkilled, unsaved, crashes>>

-----------------------------------------------------------------------------
(* Ending a session.                                                       *)

\* Mutant: the session is ended but its process is not.
Destroy_NoKill(s, why, c) ==
  /\ s \in OpenSessions
  /\ ending' = ending \cup {[session |-> s, why |-> why, client |-> c]}
  /\ UNCHANGED <<stage, owner, pty, row, histVars>>

\* destroySession() of the session manager, up to its save.  A kill that throws
\* is logged.
Destroy(s, why, c) ==
  /\ s \in OpenSessions
  /\ ending' = ending \cup {[session |-> s, why |-> why, client |-> c]}
  /\ \/ /\ pty' = [pty EXCEPT ![s] = IF @ = "alive" THEN "killed" ELSE @]
        /\ UNCHANGED <<unkilled, ptyFaults>>
     \/ /\ Fault
        /\ unkilled' = unkilled \cup {s}
        /\ UNCHANGED pty
  /\ UNCHANGED <<stage, owner, row, unsaved, crashes>>

\* handleTerminalStop(): of the session named in the message, or of the one of
\* the socket.  Only sessions of the same user.
Stop(c) ==
  \E s \in OpenSessions :
    /\ link[c] = "on" /\ UserOf[owner[s]] = UserOf[c]
    /\ c \in Patient => s = mapping[c]
    /\ Destroy(s, "stop", c)
    /\ UNCHANGED <<link, mapping>>

\* handleDisconnect(): the session of the socket, if there is one yet.
Disconnect(c) ==
  /\ link[c] = "on"
  /\ link' = [link EXCEPT ![c] = "gone"]
  /\ IF mapping[c] \in OpenSessions
     THEN Destroy(mapping[c], "disconnect", c) /\ UNCHANGED mapping
     ELSE /\ mapping' = [mapping EXCEPT ![c] = NoSession]
          /\ UNCHANGED <<stage, owner, pty, row, ending, histVars>>

\* Mutant: the timer looks at the sessions of connected clients only.
Cleanup_Connected(s) ==
  /\ s \notin Noisy /\ link[owner[s]] = "on"
  /\ Destroy(s, "idle", owner[s])
  /\ UNCHANGED <<link, mapping>>

\* cleanupIdleSessions(), or terminateUserSessions() by an administrator.
Cleanup(s) ==
  /\ s \notin Noisy
  /\ Destroy(s, "idle", owner[s])
  /\ UNCHANGED <<link, mapping>>

\* The process ends, of itself or killed: handlePtyExit() up to its save, then
\* the gateway's onExit, which forgets whatever session the socket has.
Exit(s) ==
  /\ Alive(s)
  /\ pty'     = [pty EXCEPT ![s] = "exited"]
  /\ mapping' = [mapping EXCEPT ![owner[s]] = NoSession]
  /\ ending'  = IF s \in OpenSessions
                THEN ending \cup {[session |-> s, why |-> "exit", client |-> owner[s]]}
                ELSE ending
  /\ UNCHANGED <<link, stage, owner, row, histVars>>

\* The save is over; the session leaves the map, and the handler of a message or
\* of a disconnect deletes the entry of its client.
EndSaved(e) ==
  /\ e \in ending
  /\ ending' = ending \ {e}
  /\ stage'  = [stage EXCEPT ![e.session] = "closed"]
  /\ mapping' = IF e.why \in {"stop", "disconnect"}
                THEN [mapping EXCEPT ![e.client] = NoSession] ELSE mapping
  /\ \/ /\ row' = [row EXCEPT ![e.session] = "ENDED"]
        /\ UNCHANGED <<unsaved, ptyFaults>>
     \/ /\ Fault
        /\ unsaved' = unsaved \cup {e.session}
        /\ UNCHANGED row
  /\ UNCHANGED <<link, owner, pty, unkilled, crashes>>

\* The panel process ends: its PTYs with it, and both maps.
Crash ==
  /\ crashes < MaxCrashes
  /\ crashes' = crashes + 1
  /\ link'    = [c \in Socket |-> IF link[c] = "new" THEN "new" ELSE "gone"]
  /\ mapping' = [c \in Socket |-> NoSession]
  /\ stage'   = [s \in Session |-> IF s \in Used THEN "closed" ELSE "unused"]
  /\ pty'     = [s \in Session |-> IF Alive(s) THEN "exited" ELSE pty[s]]
  /\ ending'  = {}
  /\ unsaved' = unsaved \cup {s \in Used : stage[s] # "closed"}
  /\ \E saved \in SUBSET {s \in Session : stage[s] = "creating"} :
       row' = [s \in Session |-> IF s \in saved THEN "ACTIVE" ELSE row[s]]
  /\ UNCHANGED <<owner, unkilled, ptyFaults>>

Next ==
  \/ \E c \in Socket : Connect(c) \/ Start(c) \/ Stop(c) \/ Disconnect(c)
  \/ \E s \in Session : Created(s) \/ InsertFails(s) \/ SpawnFails(s) \/ Cleanup(s)
                        \/ Exit(s)
  \/ \E e \in ending : EndSaved(e)
  \/ Crash

\* Every awaited save ends, a killed shell exits, and the five-minute timer finds
\* a session that nobody writes to idle in the end.
Fairness ==
  /\ \A s \in Session : /\ WF_vars(Created(s) \/ InsertFails(s))
                        /\ WF_vars(pty[s] = "killed" /\ Exit(s))
                        /\ WF_vars(Cleanup(s))
  /\ \A e \in Ending : WF_vars(EndSaved(e))

Spec     == Init /\ [][Next]_vars
FairSpec == Spec /\ Fairness

-----------------------------------------------------------------------------
(* Properties.                                                             *)

\* Types of the variables.
TypeOK ==
  /\ link     \in [Socket -> {"new", "on", "gone"}]
  /\ mapping  \in [Socket -> Session \cup {NoSession}]
  /\ stage    \in [Session -> {"unused", "creating", "open", "closed"}]
  /\ owner    \in [Session -> Socket]
  /\ pty      \in [Session -> {"none", "alive", "killed", "exited"}]
  /\ row      \in [Session -> {"none", "ACTIVE", "ENDED", "ERROR"}]
  /\ ending   \subseteq Ending
  /\ unkilled \subseteq Session /\ unsaved \subseteq Session
  /\ ptyFaults \in 0..MaxFaults /\ crashes \in 0..MaxCrashes

\* A running shell can be found: unless killing it failed, it is in the sessions
\* map, where the idle timer and the administrator look, and its row does not say
\* that it has ended.  A session that has left the map is not shown as active,
\* unless saving its end failed or the process stopped in between.  Stop,
\* disconnect, idle timer and exit may all be ending it (session-manager
\* destroySession, handlePtyExit).
SessionsAccountedFor ==
  \A s \in Session :
    /\ s \notin unkilled /\ pty[s] = "alive" => stage[s] = "open" /\ row[s] # "ENDED"
    /\ s \notin unsaved /\ stage[s] = "closed" => row[s] # "ACTIVE"

\* The socket of a connected client knows the client's running session, so that
\* input reaches it and a disconnect ends it.  (Of patient clients, none of whose
\* shells could not be killed.)
Reachable ==
  \A s \in OpenSessions :
    /\ owner[s] \in Patient /\ link[owner[s]] = "on" /\ pty[s] = "alive"
    /\ (\A u \in unkilled : owner[u] # owner[s])
    => mapping[owner[s]] = s

\* A shell whose client has gone ends, unless its output never pauses: the idle
\* timer refreshes on output, or killing it failed.
OrphanEnds ==
  \A s \in Session \ Noisy :
    (pty[s] = "alive" /\ link[owner[s]] = "gone") ~> (pty[s] = "exited" \/ s \in unkilled)

=============================================================================
