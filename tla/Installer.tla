----------------------------- MODULE Installer -----------------------------
(***************************************************************************)
(* installer/install.sh and uninstall.sh, one action a step: what they     *)
(* leave of sshd, the firewall, MariaDB, the credentials file, the panel.  *)
(* The first goes on when a step fails, the second stops (set -e); either  *)
(* may be interrupted and run again, and installing is also how the panel  *)
(* is updated.  Passwords are numbered as they are generated.  Commands    *)
(* that write plain files of their own do not fail.                        *)
(***************************************************************************)
EXTENDS Naturals, Sequences

CONSTANTS SshPort,     \* values of SSH_PORT; sshd starts on 22
          Package,     \* what the steps before MariaDB install
          MaxPasswords, MaxRuns, MaxScriptFaults \* bounds

ASSUME InstallerAssumption ==
  /\ "22" \notin SshPort /\ "nodejs" \in Package
  /\ MaxPasswords \in Nat /\ MaxRuns \in Nat /\ MaxScriptFaults \in Nat

VARIABLES
  script,      \* the script under way: its steps left, and its options
  packages,
  sshServer,   \* sshd_config's port, the port sshd listens on, backups made of the file, and
               \* what was last done to it: nothing, changed, failed, restored
  firewall,    \* csf: is it installed, TCP_IN of csf.conf, ports the rules in force let in
  mariadb,     \* root's password (0: the socket will do), the panel's (0: no account)
  credentials, \* the lines of .serverhubx-credentials, root's and the panel's
  panel,       \* user, sudo rules, app (none, cloned, built), .env (0: none), unit, is it running
  issued, runs, scriptFaults

installerVars == <<script, packages, sshServer, firewall, mariadb, credentials, panel, issued,
                   runs, scriptFaults>>

InstallSteps ==
  <<"packages", "mariadb", "firewalls", "ssh", "csf", "configure", "start", "user", "sudo", "database",
    "app", "env", "service", "admin", "panel">>

UninstallSteps ==
  <<"stop", "unit", "drop", "remove", "userdel", "sudoers", "uncsf", "restore", "credentials">>

NoScript == [what |-> "none", todo |-> <<>>, port |-> "22", options |-> {}]
Everyone == {"22"} \cup SshPort \* no rules: every port is open

InstallerInit ==
  /\ script = NoScript /\ packages = {} /\ sshServer = [port |-> "22", runs |-> "22", backups |-> 0, last |-> "nothing"]
  /\ firewall = [csf |-> FALSE, conf |-> {}, open |-> Everyone]
  /\ mariadb = [root |-> 0, panel |-> 0] /\ credentials = [root |-> <<>>, panel |-> <<>>, admin |-> FALSE]
  /\ panel = [user |-> FALSE, sudo |-> FALSE, app |-> "none", env |-> 0, unit |-> FALSE, runs |-> FALSE]
  /\ issued = 0 /\ runs = 0 /\ scriptFaults = 0

-----------------------------------------------------------------------------
(* Running a script.                                                        *)

Install(port) ==
  /\ script = NoScript /\ runs < MaxRuns /\ runs' = runs + 1
  /\ script' = [what |-> "install", todo |-> InstallSteps, port |-> port, options |-> {}]
  /\ UNCHANGED <<packages, sshServer, firewall, mariadb, credentials, panel, issued, scriptFaults>>

\* The flags, or the questions answered with yes.
Uninstall(options) ==
  /\ script = NoScript /\ runs < MaxRuns /\ runs' = runs + 1
  /\ script' = [what |-> "uninstall", todo |-> UninstallSteps, port |-> "22", options |-> options]
  /\ UNCHANGED <<packages, sshServer, firewall, mariadb, credentials, panel, issued, scriptFaults>>

Interrupt ==
  /\ script # NoScript /\ scriptFaults < MaxScriptFaults /\ scriptFaults' = scriptFaults + 1
  /\ script' = NoScript
  /\ UNCHANGED <<packages, sshServer, firewall, mariadb, credentials, panel, issued, runs>>

Doing(step) == script.todo # <<>> /\ Head(script.todo) = step

Proceed ==
  /\ script' = IF Len(script.todo) = 1 THEN NoScript ELSE [script EXCEPT !.todo = Tail(@)]
  /\ runs' = runs

\* A step does its work, or one of its commands fails.
Works == scriptFaults' = scriptFaults
Fails == scriptFaults < MaxScriptFaults /\ scriptFaults' = scriptFaults + 1

Generate == issued < MaxPasswords /\ issued' = issued + 1

-----------------------------------------------------------------------------
(* Installing.                                                              *)

\* Each package by itself; PHP in the versions there are, or the system's.
InstallPackages ==
  /\ Doing("packages") /\ Proceed
  /\ \/ Works /\ packages' = Package
     \/ \E p \in Package : Fails /\ packages' = packages \cup (Package \ {p})
  /\ UNCHANGED <<sshServer, firewall, mariadb, credentials, panel, issued>>

\* What mysql returns is not looked at: the password is noted in any case.
install_mariadb ==
  /\ Doing("mariadb") /\ Proceed /\ Generate
  /\ \/ Works /\ mariadb' = IF mariadb.root = 0 THEN [mariadb EXCEPT !.root = issued + 1] ELSE mariadb
     \/ Fails /\ mariadb.root = 0 /\ mariadb' = mariadb
  /\ credentials' = [credentials EXCEPT !.root = Append(@, issued + 1)]
  /\ UNCHANGED <<packages, sshServer, firewall, panel>>

\* Mutant: the rules in force stay.
remove_existing_firewalls_KeepRules ==
  /\ Doing("firewalls") /\ Proceed /\ Works
  /\ UNCHANGED <<packages, sshServer, firewall, mariadb, credentials, panel, issued>>

remove_existing_firewalls ==
  /\ Doing("firewalls") /\ Proceed /\ Works
  /\ firewall' = [firewall EXCEPT !.open = Everyone]
  /\ UNCHANGED <<packages, sshServer, mariadb, credentials, panel, issued>>

\* An invalid file is replaced by its backup, but cp takes only one.
change_ssh_port ==
  /\ Doing("ssh") /\ Proceed
  /\ \/ Works /\ sshServer' = [port |-> script.port, runs |-> script.port, backups |-> sshServer.backups + 1,
                          last |-> "changed"]
     \/ Fails /\ sshServer' = [sshServer EXCEPT !.port = IF sshServer.backups = 0 THEN @ ELSE script.port,
                                      !.backups = @ + 1, !.last = "failed"]
  /\ UNCHANGED <<packages, firewall, mariadb, credentials, panel, issued>>

\* The file a new csf comes with lets in the usual ports.
install_csf ==
  /\ Doing("csf") /\ Proceed
  /\ \/ Works /\ firewall' = [firewall EXCEPT !.csf = TRUE, !.conf = IF firewall.csf THEN @ ELSE {"22"}]
     \/ Fails /\ firewall' = firewall
  /\ UNCHANGED <<packages, sshServer, mariadb, credentials, panel, issued>>

configure_csf ==
  /\ Doing("configure") /\ Proceed /\ Works
  /\ firewall' = IF firewall.csf THEN [firewall EXCEPT !.conf = {script.port}] ELSE firewall
  /\ UNCHANGED <<packages, sshServer, mariadb, credentials, panel, issued>>

start_csf ==
  /\ Doing("start") /\ Proceed
  /\ \/ Works /\ firewall' = IF firewall.csf THEN [firewall EXCEPT !.open = firewall.conf] ELSE firewall
     \/ Fails /\ firewall.csf /\ firewall' = firewall
  /\ UNCHANGED <<packages, sshServer, mariadb, credentials, panel, issued>>

create_serverhubx_user ==
  /\ Doing("user") /\ Proceed /\ Works /\ panel' = [panel EXCEPT !.user = TRUE]
  /\ UNCHANGED <<packages, sshServer, firewall, mariadb, credentials, issued>>

setup_sudo_rules ==
  /\ Doing("sudo") /\ Proceed /\ Works /\ panel' = [panel EXCEPT !.sudo = TRUE]
  /\ UNCHANGED <<packages, sshServer, firewall, mariadb, credentials, issued>>

\* grep finds every line there is: two of them are no password.
RootLogin == credentials.root = <<mariadb.root>>

\* CREATE USER IF NOT EXISTS leaves the password of an account that is there.
create_database ==
  /\ Doing("database") /\ Proceed /\ Generate
  /\ \/ /\ Works /\ RootLogin
        /\ mariadb' = IF mariadb.panel = 0 THEN [mariadb EXCEPT !.panel = issued + 1] ELSE mariadb
        /\ credentials' = [credentials EXCEPT !.panel = Append(@, issued + 1)]
     \/ (Fails \/ (Works /\ ~RootLogin)) /\ UNCHANGED <<mariadb, credentials>>
  /\ UNCHANGED <<packages, sshServer, firewall, panel>>

\* An existing installation is updated in place, a new one replaces the directory; a
\* build that fails leaves no program.
install_serverhubx ==
  /\ Doing("app") /\ Proceed
  /\ LET there == IF panel.app = "none" THEN [panel EXCEPT !.env = 0] ELSE panel
         Got(app) == panel' = [there EXCEPT !.app = app]
     IN \/ Works /\ Got(IF "nodejs" \in packages THEN "built" ELSE "cloned")
        \/ \E app \in {panel.app, "cloned"} : Fails /\ Got(app)
  /\ UNCHANGED <<packages, sshServer, firewall, mariadb, credentials, issued>>

\* Mutant: grep of PASSWORD, which root's line has too, and first.
WithEnv_Root == IF credentials.panel = <<>> THEN panel
                ELSE [panel EXCEPT !.env = Head(credentials.root \o credentials.panel)]

\* Of several passwords the first line counts; without one no file is written.
WithEnv == IF credentials.panel = <<>> THEN panel ELSE [panel EXCEPT !.env = Head(credentials.panel)]

create_env_file ==
  /\ Doing("env") /\ Proceed /\ Works /\ panel' = WithEnv
  /\ UNCHANGED <<packages, sshServer, firewall, mariadb, credentials, issued>>

create_systemd_service ==
  /\ Doing("service") /\ Proceed /\ Works /\ panel' = [panel EXCEPT !.unit = TRUE]
  /\ UNCHANGED <<packages, sshServer, firewall, mariadb, credentials, issued>>

\* A password for admin@localhost is noted, and left in a file.
create_admin_user ==
  /\ Doing("admin") /\ Proceed /\ Works /\ credentials' = [credentials EXCEPT !.admin = TRUE]
  /\ UNCHANGED <<packages, sshServer, firewall, mariadb, panel, issued>>

\* The panel is started anew if there is a program and a file .env, and runs if it can
\* log in to its database; it makes its tables.
start_serverhubx ==
  /\ Doing("panel") /\ Proceed /\ Works
  /\ LET ready == IF panel.env = 0 THEN WithEnv ELSE panel IN
     panel' = IF panel.app # "built" THEN panel
              ELSE IF ready.env = 0 THEN ready ELSE [ready EXCEPT !.runs = ready.env = mariadb.panel]
  /\ UNCHANGED <<packages, sshServer, firewall, mariadb, credentials, issued>>

-----------------------------------------------------------------------------
(* Uninstalling.                                                            *)

stop_services ==
  /\ Doing("stop") /\ Proceed /\ Works /\ panel' = [panel EXCEPT !.runs = FALSE]
  /\ UNCHANGED <<packages, sshServer, firewall, mariadb, credentials, issued>>

remove_systemd_service ==
  /\ Doing("unit") /\ Proceed /\ Works /\ panel' = [panel EXCEPT !.unit = FALSE]
  /\ UNCHANGED <<packages, sshServer, firewall, mariadb, credentials, issued>>

remove_database ==
  /\ Doing("drop") /\ Proceed
  /\ \/ Works /\ mariadb' = IF "database" \in script.options /\ RootLogin
                               THEN [mariadb EXCEPT !.panel = 0] ELSE mariadb
     \/ Fails /\ "database" \in script.options /\ mariadb' = mariadb
  /\ UNCHANGED <<packages, sshServer, firewall, credentials, panel, issued>>

remove_application ==
  /\ Doing("remove") /\ Proceed /\ Works /\ panel' = [panel EXCEPT !.app = "none", !.env = 0]
  /\ UNCHANGED <<packages, sshServer, firewall, mariadb, credentials, issued>>

\* userdel fails while the user has processes, and the script stops.
remove_system_user ==
  /\ Doing("userdel")
  /\ \/ Works /\ Proceed /\ panel' = [panel EXCEPT !.user = FALSE]
     \/ Fails /\ panel.user /\ script' = NoScript /\ UNCHANGED <<runs, panel>>
  /\ UNCHANGED <<packages, sshServer, firewall, mariadb, credentials, issued>>

remove_sudo_rules ==
  /\ Doing("sudoers") /\ Proceed /\ Works /\ panel' = [panel EXCEPT !.sudo = FALSE]
  /\ UNCHANGED <<packages, sshServer, firewall, mariadb, credentials, issued>>

remove_csf ==
  /\ Doing("uncsf") /\ Proceed /\ Works
  /\ firewall' = IF "csf" \in script.options THEN [csf |-> FALSE, conf |-> {}, open |-> Everyone] ELSE firewall
  /\ UNCHANGED <<packages, sshServer, mariadb, credentials, panel, issued>>

\* The backup is the file as it was.
restore_ssh_port ==
  /\ Doing("restore") /\ Proceed
  /\ \/ /\ Works
        /\ sshServer' = IF "ssh" \in script.options
                   THEN [sshServer EXCEPT !.port = "22", !.runs = "22", !.last = "restored"] ELSE sshServer
     \/ Fails /\ "ssh" \in script.options /\ sshServer' = sshServer
  /\ UNCHANGED <<packages, firewall, mariadb, credentials, panel, issued>>

remove_credentials ==
  /\ Doing("credentials") /\ Proceed /\ Works
  /\ credentials' = [root |-> <<>>, panel |-> <<>>, admin |-> FALSE]
  /\ UNCHANGED <<packages, sshServer, firewall, mariadb, panel, issued>>

Installing ==
  \/ InstallPackages \/ install_mariadb \/ remove_existing_firewalls \/ change_ssh_port \/ install_csf
  \/ configure_csf \/ start_csf \/ create_serverhubx_user \/ setup_sudo_rules \/ create_database
  \/ install_serverhubx \/ create_env_file \/ create_systemd_service \/ create_admin_user \/ start_serverhubx

Uninstalling ==
  \/ stop_services \/ remove_systemd_service \/ remove_database \/ remove_application \/ remove_system_user
  \/ remove_sudo_rules \/ remove_csf \/ restore_ssh_port \/ remove_credentials

InstallerNext ==
  \/ \E port \in SshPort : Install(port)
  \/ \E options \in SUBSET {"database", "csf", "ssh"} : Uninstall(options)
  \/ Interrupt \/ Installing \/ Uninstalling

InstallerSpec == InstallerInit /\ [][InstallerNext]_installerVars

-----------------------------------------------------------------------------
\* Types; while no script runs there is nothing left of one.
InstallerTypeOK ==
  /\ packages \subseteq Package /\ {sshServer.port, sshServer.runs} \subseteq Everyone
  /\ firewall.conf \cup firewall.open \subseteq Everyone
  /\ {mariadb.root, mariadb.panel, panel.env} \subseteq 0..issued
  /\ script.what = "none" <=> script.todo = <<>>

\* However often the scripts run, with which port, and wherever they stop: the firewall
\* lets in the port sshd listens on, unless changing it failed, or it was set back to 22
\* behind a firewall that stayed.
SSHStaysReachable == sshServer.runs \in firewall.open \/ sshServer.last \in {"failed", "restored"}

\* The password in .env is that of the panel's account, while there is one.
EnvOpensDatabase == panel.env # 0 /\ mariadb.panel # 0 => panel.env = mariadb.panel
=============================================================================
