---------------------------- MODULE ServerAccess ----------------------------
(***************************************************************************)
(* How the server can be reached (modules/system): the firewall CSF with   *)
(* its login watch LFD, and sshd.  Each request reads a configuration      *)
(* file, writes it anew with cp, keeps a row of the panel beside it, and   *)
(* has the daemon load it.  Nothing looks at what cp, csf or systemctl     *)
(* return; requests interleave.  Of the four lists of ports one is         *)
(* modelled, of the settings of sshd its port and one other.               *)
(***************************************************************************)
EXTENDS Naturals, Sequences, FiniteSets

CONSTANTS Port,        \* ports, "22" among them
          SSHPort,     \* the one the installer gave to sshd
          Ip,          \* addresses
          Short,       \* addresses with which all others begin
          NotIPv4,     \* addresses the whitelist refuses in a command
          Admin,       \* requests that may be under way at once
          MaxOrders,   \* bound on requests
          MaxOrderFaults \* bound on steps that fail

ASSUME AccessAssumption ==
  /\ {"22", SSHPort} \subseteq Port /\ NotIPv4 \subseteq Ip /\ Short \subseteq Ip
  /\ (Port \cup Ip) \cap {"csf", "lfd", "ssh"} = {}
  /\ {MaxOrders, MaxOrderFaults} \subseteq Nat /\ Admin \subseteq Nat

VARIABLES
  file,     \* csf.conf, csf.allow, csf.ignore and sshd_config
  csf,      \* the running firewall: on, and the ports it lets in
  denied,   \* addresses denied, for good and for a time
  lfd,      \* what LFD runs with: its limit and the addresses it ignores
  sshd,     \* what sshd runs with
  ruleRows, \* firewall_rules: kind and what it is about
  order,    \* requests under way
  closed,   \* history: ports a request has closed and none opened since
  unsure,   \* history: what a failure or two requests that met may have put out of step
  orders, orderFaults

daemons    == <<csf, denied, lfd, sshd>>
accessVars == <<file, daemons, ruleRows, order, closed, unsure, orders, orderFaults>>

Files  == {"conf", "allow", "ignore", "sshd"}
Kinds  == {"port", "allow", "deny", "temp"}

\* A step: what is done, to which file or with which command, and with what.
Do(what, on, with) == <<what, on, with>>
What(s) == s[1]
On(s)   == s[2]
With(s) == s[3]
NoOrder == [todo |-> <<>>, about |-> {}, text |-> {}, backup |-> {}, old |-> "none", met |-> FALSE]

AccessQuiet  == \A a \in Admin : order[a] = NoOrder
Next1(a)     == Head(order[a].todo)
At(a, what)  == order[a].todo # <<>> /\ What(Next1(a)) = what

\* As the installer leaves the server.
AccessInit ==
  /\ sshd = [port |-> SSHPort, root |-> "no"]
  /\ csf = [on |-> TRUE, ports |-> {"22", sshd.port}]
  /\ file = [f \in Files |->
       CASE f = "conf" -> [ports |-> csf.ports, limit |-> 0]
         [] f = "sshd" -> sshd
         [] OTHER -> {}]
  /\ denied = [t \in {"deny", "temp"} |-> {}]
  /\ lfd = [limit |-> 0, ignored |-> {}]
  /\ ruleRows = {} /\ order = [a \in Admin |-> NoOrder]
  /\ closed = {} /\ unsure = {} /\ orders = 0 /\ orderFaults = 0

-----------------------------------------------------------------------------
(* Requests, as their steps.                                                *)

OrderOpen(a, about, steps) ==
  /\ order[a] = NoOrder /\ \A b \in Admin : b < a => order[b] # NoOrder
  /\ orders < MaxOrders /\ orders' = orders + 1
  /\ LET others == {b \in Admin : order[b].about \cap about # {}} IN
     /\ order' = [b \in Admin |->
          IF b = a THEN [NoOrder EXCEPT !.todo = steps, !.about = about, !.met = (others # {})]
          ELSE [order[b] EXCEPT !.met = @ \/ b \in others]]
     /\ unsure' = unsure \cup UNION {order[b].about \cap about : b \in others}
  /\ UNCHANGED <<file, daemons, ruleRows, closed, orderFaults>>

Rewrite(f, edit, with) == <<Do("read", f, "none"), Do(edit, f, with)>>

Reload == <<Do("run", "restart csf", "none")>>

AllowPort(p) == Rewrite("conf", "add port", p) \o <<Do("insert", "port", p)>> \o Reload
DenyPort(p)  == Rewrite("conf", "cut port", p) \o <<Do("delete", "port", p)>> \o Reload

\* An address with which another begins is not told from it.
AllowIp(i) == Rewrite("allow", "add ip", i) \o <<Do("insert", "allow", i)>> \o Reload
BlockIp(i) == <<Do("run", "deny", i), Do("insert", "deny", i)>>
TempBlockIp(i) == <<Do("run", "temp", i), Do("insert", "temp", i)>>

\* Mutant: the row of a denial stays when the address is unblocked.
UnblockIp_KeepRow(i) == <<Do("run", "undeny", i), Do("run", "untemp", i), Do("delete", "temp", i)>>

UnblockIp(i) == <<Do("run", "undeny", i), Do("run", "untemp", i), Do("delete", "deny", i), Do("delete", "temp", i)>>
RemoveFromAllowList(i) == <<Do("run", "disallow", i), Do("delete", "allow", i)>>

UpdateLfd(n)     == Rewrite("conf", "set limit", n) \o <<Do("run", "restart lfd", "none")>>
IgnoreIp(i)      == Rewrite("ignore", "add ip", i) \o <<Do("run", "restart lfd", "none")>>
RemoveIgnored(i) == Rewrite("ignore", "cut ip", i) \o <<Do("run", "restart lfd", "none")>>

\* The new ports are loaded with the next restart.
ConfigureCSF(P) == Rewrite("conf", "set ports", P)
EnableCSF       == <<Do("run", "start csf", "none"), Do("run", "restart lfd", "none")>>
DisableCSF      == <<Do("run", "stop csf", "none")>>

\* The file is tested before sshd is told, and put back when it is not sound.
RewriteSSH(edit, with) ==
  <<Do("backup", "sshd", "none")>> \o Rewrite("sshd", edit, with) \o <<Do("test", "sshd", "none")>>
RestartSSH == <<Do("run", "restart sshd", "none"), Do("unlink", "sshd", "none")>>

UpdateSSHSecurity(v) == RewriteSSH("set root", v) \o RestartSSH

\* Mutant: the firewall is left to who asks.
ChangeSSHPort_KeepFirewall(p) ==
  <<Do("port", "sshd", p)>> \o RewriteSSH("set port", p) \o Reload \o RestartSSH

\* What allowPort() and denyPort() return is not looked at.
ChangeSSHPort(p) ==
  <<Do("port", "sshd", p)>> \o RewriteSSH("set port", p) \o AllowPort(p)
    \o <<Do("deny old", "conf", p)>> \o Reload \o RestartSSH

FirewallRequest(a) ==
  \/ \E p \in Port : OrderOpen(a, {p}, AllowPort(p)) \/ OrderOpen(a, {p}, DenyPort(p))
  \/ \E i \in Ip : \/ OrderOpen(a, {i}, AllowIp(i)) \/ OrderOpen(a, {i}, BlockIp(i)) \/ OrderOpen(a, {i}, TempBlockIp(i))
                   \/ OrderOpen(a, {i}, UnblockIp(i) \o RemoveFromAllowList(i))
                   \/ OrderOpen(a, {i}, IgnoreIp(i)) \/ OrderOpen(a, {i}, RemoveIgnored(i))
  \/ OrderOpen(a, {"lfd"}, UpdateLfd(1))
  \/ OrderOpen(a, {"csf"}, Reload)
  \/ \E P \in {Port} : OrderOpen(a, {"csf"}, ConfigureCSF(P))
  \/ OrderOpen(a, {"csf"}, EnableCSF) \/ OrderOpen(a, {"csf"}, DisableCSF)

\* ss shows who listens where.
SSHRequest(a) ==
  \/ \E p \in Port \ {sshd.port} : OrderOpen(a, {"ssh", p, sshd.port}, ChangeSSHPort(p))
  \/ OrderOpen(a, {"ssh"}, UpdateSSHSecurity("yes"))

-----------------------------------------------------------------------------
(* Steps.                                                                   *)

OrderGoes(a, todo) == order' = [order EXCEPT ![a] = IF todo = <<>> THEN NoOrder ELSE [@ EXCEPT !.todo = todo]]
OrderAdvance(a)    == OrderGoes(a, Tail(order[a].todo))
OrderRest == UNCHANGED orders

ReadFile(a) ==
  /\ At(a, "read")
  /\ order' = [order EXCEPT ![a].text = file[On(Next1(a))], ![a].todo = Tail(@)]
  /\ UNCHANGED <<file, daemons, ruleRows, closed, unsure, orderFaults>> /\ OrderRest

\* The port sshd has by its file, before it is written.
ReadPort(a) ==
  /\ At(a, "port")
  /\ order' = [order EXCEPT ![a].old = file["sshd"].port, ![a].todo = Tail(@)]
  /\ UNCHANGED <<file, daemons, ruleRows, closed, unsure, orderFaults>> /\ OrderRest

\* cp of the file before it is written, and rm of that copy.
BackUp(a) ==
  /\ At(a, "backup")
  /\ order' = [order EXCEPT ![a].backup = {file["sshd"]}, ![a].todo = Tail(@)]
  /\ UNCHANGED <<file, daemons, ruleRows, closed, unsure, orderFaults>> /\ OrderRest

UnlinkBackup(a) ==
  /\ At(a, "unlink") /\ OrderAdvance(a)
  /\ UNCHANGED <<file, daemons, ruleRows, closed, unsure, orderFaults>> /\ OrderRest

Edits == {"add port", "cut port", "set ports", "set limit", "add ip", "cut ip", "set port", "set root"}

Begins(i, with) == i = with \/ with \in Short

Edited(s, text) ==
  CASE What(s) = "add port"  -> [text EXCEPT !.ports = @ \cup {With(s)}]
    [] What(s) = "cut port"  -> [text EXCEPT !.ports = @ \ {With(s)}]
    [] What(s) = "set ports" -> [text EXCEPT !.ports = With(s)]
    [] What(s) = "set limit" -> [text EXCEPT !.limit = With(s)]
    [] What(s) = "add ip"    -> text \cup {With(s)}
    [] What(s) = "cut ip"    -> {i \in text : ~Begins(i, With(s))}
    [] What(s) = "set port"  -> [text EXCEPT !.port = With(s)]
    [] What(s) = "set root"  -> [text EXCEPT !.root = With(s)]

\* Nothing is written when the address is there, or is not.
Idle(s, text) ==
  \/ What(s) = "add ip" /\ \E i \in text : Begins(i, With(s))
  \/ What(s) = "cut ip" /\ Edited(s, text) = text

\* Who writes what he read before another wrote undoes it.
WriteFile(a) ==
  LET s == Next1(a)  text == order[a].text IN
  /\ order[a].todo # <<>> /\ What(s) \in Edits
  /\ IF Idle(s, text)
     THEN OrderGoes(a, <<>>) /\ UNCHANGED <<file, unsure, closed>>
     ELSE /\ file' = [file EXCEPT ![On(s)] = Edited(s, text)]
          /\ unsure' = unsure \cup (IF file[On(s)] # text THEN {On(s)} ELSE {})
                              \cup (IF What(s) = "set ports" THEN {"csf"} ELSE {})
          /\ closed' = CASE What(s) = "add port" -> closed \ {With(s)}
                         [] What(s) = "cut port" /\ "ssh" \notin order[a].about -> closed \cup {With(s)}
                         [] What(s) = "set ports" -> Port \ With(s)
                         [] OTHER -> closed
          /\ OrderAdvance(a)
  /\ UNCHANGED <<daemons, ruleRows, orderFaults>> /\ OrderRest

\* cp fails, and the request goes on.
CopyFails(a) ==
  LET s == Next1(a) IN
  /\ order[a].todo # <<>> /\ What(s) \in Edits /\ ~Idle(s, order[a].text)
  /\ orderFaults < MaxOrderFaults /\ orderFaults' = orderFaults + 1
  /\ unsure' = unsure \cup {On(s)}
  /\ OrderAdvance(a)
  /\ UNCHANGED <<file, daemons, ruleRows, closed>> /\ OrderRest

\* sshd -t: what is written by a request is sound.
TestFile(a) ==
  /\ At(a, "test") /\ OrderAdvance(a)
  /\ UNCHANGED <<file, daemons, ruleRows, closed, unsure, orderFaults>> /\ OrderRest

TestFails(a) ==
  /\ At(a, "test")
  /\ orderFaults < MaxOrderFaults /\ orderFaults' = orderFaults + 1
  /\ file' = IF order[a].backup = {} THEN file ELSE [file EXCEPT !["sshd"] = CHOOSE t \in order[a].backup : TRUE]
  /\ unsure' = IF order[a].backup = {} \/ order[a].met
               THEN unsure \cup {"sshd"} ELSE unsure
  /\ OrderGoes(a, <<>>)
  /\ UNCHANGED <<daemons, ruleRows, closed>> /\ OrderRest

\* denyPort() of the port before, unless it is 22: from here on the request is
\* about that one too.
DenyOld(a) ==
  LET old == order[a].old IN
  /\ At(a, "deny old")
  /\ order' = [order EXCEPT ![a].todo = IF old \in {"22", With(Head(@))} THEN Tail(@)
                                        ELSE DenyPort(old) \o Tail(@),
                            ![a].about = @ \cup {old}]
  /\ unsure' = IF order[a].met \/ \E b \in Admin \ {a} : old \in order[b].about THEN unsure \cup {old} ELSE unsure
  /\ UNCHANGED <<file, daemons, ruleRows, closed, orderFaults>> /\ OrderRest

Refuses(s) == With(s) \in NotIPv4

\* A command that is carried out.
RunCommand(a) ==
  LET s == Next1(a)  c == On(s) IN
  /\ At(a, "run") /\ ~Refuses(s)
  /\ csf' = CASE c \in {"restart csf", "start csf"} -> [on |-> TRUE, ports |-> file["conf"].ports]
              [] c = "stop csf" -> [csf EXCEPT !.on = FALSE]
              [] OTHER -> csf
  /\ denied' = CASE c \in {"deny", "temp"} -> [denied EXCEPT ![c] = @ \cup {With(s)}]
                 [] c = "undeny" -> [denied EXCEPT !["deny"] = @ \ {With(s)}]
                 [] c = "untemp" -> [denied EXCEPT !["temp"] = @ \ {With(s)}]
                 [] OTHER -> denied
  /\ file' = IF c = "disallow" THEN [file EXCEPT !["allow"] = @ \ {With(s)}] ELSE file
  /\ lfd' = IF c = "restart lfd" THEN [limit |-> file["conf"].limit, ignored |-> file["ignore"]] ELSE lfd
  /\ sshd' = IF c = "restart sshd" THEN file["sshd"] ELSE sshd
  /\ unsure' = unsure \ (CASE c \in {"restart csf", "start csf"} -> {"csf"}
                           [] c = "restart lfd" -> {"lfd"}
                           [] c = "restart sshd" -> {"ssh"}
                           [] OTHER -> {})
  /\ OrderAdvance(a)
  /\ UNCHANGED <<ruleRows, closed, orderFaults>> /\ OrderRest

\* A command fails or is refused, and the request goes on.
RunFails(a) ==
  LET s == Next1(a)  c == On(s) IN
  /\ At(a, "run")
  /\ IF Refuses(s) THEN UNCHANGED orderFaults
     ELSE orderFaults < MaxOrderFaults /\ orderFaults' = orderFaults + 1
  /\ unsure' = unsure \cup (CASE c \in {"restart csf", "start csf", "stop csf"} -> {"csf"}
                              [] c = "restart lfd" -> {"lfd"}
                              [] c = "restart sshd" -> {"ssh"}
                              [] OTHER -> {With(s)})
  /\ OrderAdvance(a)
  /\ UNCHANGED <<file, daemons, ruleRows, closed>> /\ OrderRest

InsertRow(a) ==
  /\ At(a, "insert") /\ ruleRows' = ruleRows \cup {<<On(Next1(a)), With(Next1(a))>>}
  /\ OrderAdvance(a)
  /\ UNCHANGED <<file, daemons, closed, unsure, orderFaults>> /\ OrderRest

DeleteRow(a) ==
  /\ At(a, "delete") /\ ruleRows' = ruleRows \ {<<On(Next1(a)), With(Next1(a))>>}
  /\ OrderAdvance(a)
  /\ UNCHANGED <<file, daemons, closed, unsure, orderFaults>> /\ OrderRest

\* allowPort() and denyPort() end where they fail, and who called them goes on
\* behind their reload; the other requests end.
After(a) ==
  LET todo    == order[a].todo
      reloads == {n \in 1..Len(todo) : On(todo[n]) = "restart csf"} IN
  IF "ssh" \notin order[a].about THEN <<>>
  ELSE SubSeq(todo, 1 + (CHOOSE n \in reloads : \A m \in reloads : n <= m), Len(todo))

\* A file that cannot be read: a list of addresses counts as empty when one is to
\* be added to it.  The database fails, or the copy cannot be removed.
StepFails(a) ==
  LET s == Next1(a)  f == On(s)
      fresh == At(a, "read") /\ f \in {"allow", "ignore"} /\ What(order[a].todo[2]) = "add ip" IN
  /\ At(a, "read") \/ At(a, "insert") \/ At(a, "delete") \/ At(a, "port") \/ At(a, "unlink")
  /\ orderFaults < MaxOrderFaults /\ orderFaults' = orderFaults + 1
  /\ IF fresh
     THEN order' = [order EXCEPT ![a].text = {}, ![a].todo = Tail(@)]
     ELSE OrderGoes(a, IF f \in {"conf", "port"} THEN After(a) ELSE <<>>)
  /\ unsure' = unsure \cup
       (CASE At(a, "insert") \/ At(a, "delete") -> {With(s), "csf"}
          [] At(a, "read") /\ "ssh" \in order[a].about /\ f = "conf" -> {"conf"}
          [] OTHER -> {})
  /\ UNCHANGED <<file, daemons, ruleRows, closed>> /\ OrderRest

\* A temporary denial runs out; its row stays.
DenialExpires(i) ==
  /\ i \in denied["temp"] /\ denied' = [denied EXCEPT !["temp"] = @ \ {i}]
  /\ UNCHANGED <<file, csf, lfd, sshd, ruleRows, order, closed, unsure, orders, orderFaults>>

AccessNext ==
  \/ \E a \in Admin :
       \/ FirewallRequest(a) \/ SSHRequest(a)
       \/ ReadFile(a) \/ ReadPort(a) \/ BackUp(a) \/ UnlinkBackup(a) \/ WriteFile(a) \/ CopyFails(a)
       \/ TestFile(a) \/ TestFails(a) \/ DenyOld(a) \/ RunCommand(a) \/ RunFails(a)
       \/ InsertRow(a) \/ DeleteRow(a) \/ StepFails(a)
  \/ \E i \in Ip : DenialExpires(i)

AccessSpec == AccessInit /\ [][AccessNext]_accessVars

-----------------------------------------------------------------------------
\* Types; a request that is under way has steps left.
AccessTypeOK ==
  /\ file["conf"].ports \subseteq Port /\ csf.ports \subseteq Port
  /\ file["sshd"].port \in Port /\ sshd.port \in Port
  /\ file["allow"] \cup file["ignore"] \cup UNION {denied[t] : t \in DOMAIN denied} \subseteq Ip
  /\ ruleRows \subseteq Kinds \X (Port \cup Ip)
  /\ \A a \in Admin : order[a] # NoOrder => order[a].todo # <<>>

Certain(S) == S \cap unsure = {}

\* Once no request is under way the firewall lets in the port sshd listens on,
\* whatever else was changed meanwhile in the two files: unless a request closed
\* it, or a copy, a restart or a row that failed, or a write over another's, left
\* one of the two behind.
ReachableBySSH ==
  AccessQuiet /\ csf.on /\ Certain({"conf", "csf", "sshd", "ssh", sshd.port}) /\ sshd.port \notin closed
    => sshd.port \in csf.ports

\* Once no request is under way the daemons run with what their files say, and
\* the rows tell which ports and addresses those are about: with the same
\* exceptions, each for what it is about.
FirewallFollowsRows ==
  AccessQuiet =>
    /\ Certain({"csf", "conf"}) /\ csf.on => csf.ports = file["conf"].ports
    /\ \A p \in Port : Certain({"conf", p}) /\ <<"port", p>> \in ruleRows /\ p \notin closed => p \in file["conf"].ports
    /\ \A i \in Ip : Certain({"allow", i}) =>
         /\ <<"allow", i>> \in ruleRows <=> i \in file["allow"]
         /\ <<"deny", i>> \in ruleRows <=> i \in denied["deny"]
         /\ i \in denied["temp"] => <<"temp", i>> \in ruleRows
    /\ Certain({"lfd", "conf", "ignore"}) => lfd = [limit |-> file["conf"].limit, ignored |-> file["ignore"]]
=============================================================================
