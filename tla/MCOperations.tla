---------------------------- MODULE MCOperations ----------------------------
(***************************************************************************)
(* Running a panel: installing it, alerts and who is told of them, the     *)
(* firewall and SSH, logins, and the pages that show all of it.  The parts *)
(* share no state: a behaviour exercises one of them, chosen at the start. *)
(***************************************************************************)
EXTENDS Alerts, Notifications, ServerAccess, LoginSessions, PanelCache, Installer

VARIABLE part

operationsVars == <<alertVars, noticeVars, accessVars, loginVars, cacheVars, installerVars, part>>

MCInit ==
  /\ part \in {"alerts", "notices", "access", "logins", "pages", "installer"}
  /\ AlertInit /\ NotificationInit /\ AccessInit /\ LoginInit /\ CacheInit /\ InstallerInit
  /\ part # "pages" => looked = "domains"

MCNext ==
  /\ UNCHANGED part
  /\ \/ part = "alerts"    /\ AlertNext
        /\ UNCHANGED <<noticeVars, accessVars, loginVars, cacheVars, installerVars>>
     \/ part = "notices"   /\ NotificationNext
        /\ UNCHANGED <<alertVars, accessVars, loginVars, cacheVars, installerVars>>
     \/ part = "access"    /\ AccessNext
        /\ UNCHANGED <<alertVars, noticeVars, loginVars, cacheVars, installerVars>>
     \/ part = "logins"    /\ LoginNext
        /\ UNCHANGED <<alertVars, noticeVars, accessVars, cacheVars, installerVars>>
     \/ part = "pages"     /\ CacheNext
        /\ UNCHANGED <<alertVars, noticeVars, accessVars, loginVars, installerVars>>
     \/ part = "installer" /\ InstallerNext
        /\ UNCHANGED <<alertVars, noticeVars, accessVars, loginVars, cacheVars>>

MCSpec == MCInit /\ [][MCNext]_operationsVars

\* The others never move: two states are told apart by this part.
Moving ==
  CASE part = "alerts"    -> <<part, alertVars>>
    [] part = "notices"   -> <<part, noticeVars>>
    [] part = "access"    -> <<part, accessVars>>
    [] part = "logins"    -> <<part, loginVars>>
    [] part = "pages"     -> <<part, cacheVars>>
    [] part = "installer" -> <<part, installerVars>>

\* The type invariant of the part that moves; the others keep their first state.
OperationsTypeOK ==
  CASE part = "alerts"    -> AlertTypeOK
    [] part = "notices"   -> NotificationTypeOK
    [] part = "access"    -> AccessTypeOK
    [] part = "logins"    -> LoginTypeOK
    [] part = "pages"     -> CacheTypeOK
    [] part = "installer" -> InstallerTypeOK
=============================================================================
