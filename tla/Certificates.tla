---------------------------- MODULE Certificates ----------------------------
(***************************************************************************)
(* Certificates of domains (modules/ssl): requested from Let's Encrypt,    *)
(* uploaded, renewed by hand, by the nightly and by the weekly job, and    *)
(* removed.  A certificate is a row, the key and chain files Apache reads, *)
(* the SSL site, and the lineage certbot keeps to renew it from.  Requests *)
(* and jobs interleave between any two awaits, on one domain too: nothing  *)
(* in the code keeps them apart.                                           *)
(***************************************************************************)
EXTENDS Naturals, Sequences, FiniteSets

CONSTANTS Domain,      \* domains with a virtual host
          Version,     \* certificates told apart: one not in use can always be issued
          Client,      \* users of the SSL endpoints
          Fragile,     \* steps that may fail
          MaxRequests, \* bound on requests of the clients
          MaxFaults    \* bound on steps that fail

ASSUME DomainAssumption == "off" \notin Domain
ASSUME VersionAssumption ==
  /\ Version \subseteq Nat \ {0} /\ IsFiniteSet(Version) /\ IsFiniteSet(Client)
  /\ Cardinality(Version) > 5 + Cardinality(Client)
ASSUME BoundAssumption == MaxRequests \in Nat /\ MaxFaults \in Nat

VARIABLES
  row,           \* the Certificate row of a domain
  key, chain,    \* privkey.pem and fullchain.pem: the certificate they belong to
  site,          \* domains whose -ssl.conf is written and enabled
  lineage,       \* domains with a certificate in /etc/letsencrypt
  op,            \* the operation a client or job has in flight
  isProcessing,  \* SslRenewalProcessor.isProcessing
  listed,        \* what is left of the list a job works through; Off: it is not running
  mixed,         \* history: domains whose last operations overlapped
  requests, faults

rowVars  == <<row>>
fileVars == <<key, chain, site>>
jobVars  == <<isProcessing, listed>>
vars == <<row, key, chain, site, lineage, op, isProcessing, listed, mixed, requests, faults>>

Job     == {"night", "week"}
Process == Client \cup Job
Off     == Domain \cup {"off"}   \* no list: larger than any
Nothing == 0                     \* no certificate

\* Days to the expiry: 2 more than 30, 1 at most 30, 0 at most 14 or past it.
Left == 0 .. 2
NoRow == [status |-> "none", type |-> "none", cert |-> Nothing, left |-> 2, auto |-> FALSE]
Idle  == [todo |-> <<>>, kind |-> "none", dom |-> "none", ent |-> NoRow]
NewRow(t, a) == [NoRow EXCEPT !.status = "PENDING", !.type = t, !.auto = a]

Busy(p)  == op[p].todo # <<>>
At(p, s) == Busy(p) /\ Head(op[p].todo) = s
Dom(p)   == op[p].dom
Quiet(d) == \A p \in Process : Busy(p) => Dom(p) # d

InstallSteps == <<"key", "chain", "site", "audit">>
Steps ==
  [request |-> <<"certbot", "save">> \o InstallSteps,
   renew   |-> <<"certbot", "save">> \o InstallSteps,
   upload  |-> <<"save">> \o InstallSteps,
   remove  |-> <<"uninstall", "revoke", "delete", "audit">>]

\* A certificate no row, no file and no operation of the domain has.
Fresh(d) ==
  CHOOSE v \in Version : v \notin {row[d].cert, key[d], chain[d]} \cup {op[p].ent.cert : p \in Process}

\* Mutant: the error is thrown without a save.
OnError_NoSave(kind) == <<>>

\* requestCertificate() and renewCertificate() save the entity as FAILED, with
\* whatever certificate it holds by then, and throw; the others only throw.
OnError(kind) ==
  IF kind \in {"request", "renew"} THEN <<"fail">> ELSE <<>>

\* isExpiringSoon(30) and isExpiringSoon(14): false without an expiry.
Due(r)  == r.cert # Nothing /\ r.left < 2
Soon(r) == r.cert # Nothing /\ r.left = 0

Init ==
  /\ row     = [d \in Domain |-> NoRow]
  /\ key     = [d \in Domain |-> Nothing]
  /\ chain   = [d \in Domain |-> Nothing]
  /\ site    = {}
  /\ lineage = {}
  /\ op      = [p \in Process |-> Idle]
  /\ isProcessing = FALSE
  /\ listed  = [j \in Job |-> Off]
  /\ mixed   = {}
  /\ requests = 0
  /\ faults   = 0

-----------------------------------------------------------------------------
(* The endpoints: each loads the row and refuses what it does not accept.   *)

\* A new request that runs alone makes good what overlapping operations have
\* mixed up; a renewal needs the lineage, which a removal may have deleted.
Open(p, k, d, steps, e) ==
  /\ op' = [op EXCEPT ![p] = [todo |-> steps, kind |-> k, dom |-> d, ent |-> e]]
  /\ mixed' = CASE ~Quiet(d) -> mixed \cup {d}
                [] Quiet(d) /\ k = "request" -> mixed \ {d}
                [] OTHER -> mixed

\* Two operations that both make the first row of a domain are left out: it then
\* has two.
Ask(p, d) ==
  /\ ~Busy(p) /\ (row[d] = NoRow => Quiet(d))
  /\ requests < MaxRequests /\ requests' = requests + 1

\* requestCertificate(): without a row one is saved before certbot runs.  A row
\* that exists keeps its type, that of an uploaded certificate too.  A DNS-01
\* challenge is refused inside the try: the row becomes FAILED.
Request(p, d) ==
  /\ Ask(p, d)
  /\ \/ row[d] # NoRow /\ UNCHANGED row
     \/ row[d] = NoRow /\ \E a \in BOOLEAN : row' = [row EXCEPT ![d] = NewRow("LETS_ENCRYPT", a)]
  /\ \E steps \in {Steps.request, OnError("request")} : Open(p, "request", d, steps, row'[d])
  /\ UNCHANGED <<fileVars, lineage, jobVars, faults>>

\* uploadCertificate() of a pair that validates.
Upload(p, d) ==
  /\ Ask(p, d)
  /\ \E a \in BOOLEAN, l \in Left :
       LET old == IF row[d] = NoRow THEN NewRow("CUSTOM", a) ELSE row[d]
       IN  /\ row[d] # NoRow => a = row[d].auto
           /\ Open(p, "upload", d, Steps.upload,
                   [old EXCEPT !.type = "CUSTOM", !.status = "ACTIVE",
                               !.cert = Fresh(d), !.left = l])
  /\ UNCHANGED <<rowVars, fileVars, lineage, jobVars, faults>>

Renewable(r, force) == r.type = "LETS_ENCRYPT" /\ (force \/ Due(r))

RenewByHand(p, d) ==
  /\ Ask(p, d)
  /\ \E force \in BOOLEAN : Renewable(row[d], force)
  /\ Open(p, "renew", d, Steps.renew, row[d])
  /\ UNCHANGED <<rowVars, fileVars, lineage, jobVars, faults>>

Remove(p, d) ==
  /\ Ask(p, d)
  /\ row[d] # NoRow
  /\ Open(p, "remove", d, Steps.remove, row[d])
  /\ UNCHANGED <<rowVars, fileVars, lineage, jobVars, faults>>

-----------------------------------------------------------------------------
(* The steps of an operation.                                               *)

\* The steps left to p; without any the handler has returned.
Continue(p, steps) ==
  op' = [op EXCEPT ![p] = IF steps = <<>> THEN Idle ELSE [@ EXCEPT !.todo = steps]]

Advance(p) == Continue(p, Tail(op[p].todo))

\* certbot issues a certificate of 90 days; renew needs the lineage it made
\* before.  loadCertificate() reads the new files.
Certbot(p) ==
  LET d == Dom(p) IN
  /\ At(p, "certbot")
  /\ op[p].kind = "renew" => d \in lineage
  /\ lineage' = lineage \cup {d}
  /\ op' = [op EXCEPT ![p].todo = Tail(@),
                      ![p].ent  = [@ EXCEPT !.cert = Fresh(d), !.left = 2,
                                            !.status = "ACTIVE"]]
  /\ UNCHANGED <<rowVars, fileVars, jobVars, mixed, requests, faults>>

\* save() writes the whole entity.
Save(p) ==
  /\ At(p, "save")
  /\ row' = [row EXCEPT ![Dom(p)] = op[p].ent]
  /\ Advance(p)
  /\ UNCHANGED <<fileVars, lineage, jobVars, mixed, requests, faults>>

\* installCertificate(): the key, then the chain, two files one after the other.
WriteKey(p) ==
  /\ At(p, "key")
  /\ key' = [key EXCEPT ![Dom(p)] = op[p].ent.cert]
  /\ Advance(p)
  /\ UNCHANGED <<rowVars, chain, site, lineage, jobVars, mixed, requests, faults>>

WriteChain(p) ==
  /\ At(p, "chain")
  /\ chain' = [chain EXCEPT ![Dom(p)] = op[p].ent.cert]
  /\ Advance(p)
  /\ UNCHANGED <<rowVars, key, site, lineage, jobVars, mixed, requests, faults>>

\* generateApacheSslConfig(): write the configuration, a2ensite, reload.
EnableSite(p) ==
  /\ At(p, "site")
  /\ site' = site \cup {Dom(p)}
  /\ Advance(p)
  /\ UNCHANGED <<rowVars, key, chain, lineage, jobVars, mixed, requests, faults>>

Audit(p) ==
  /\ At(p, "audit")
  /\ Advance(p)
  /\ UNCHANGED <<rowVars, fileVars, lineage, jobVars, mixed, requests, faults>>

\* uninstallCertificate(): a2dissite, unlink the configuration, reload.
Uninstall(p) ==
  /\ At(p, "uninstall")
  /\ site' = site \ {Dom(p)}
  /\ Advance(p)
  /\ UNCHANGED <<rowVars, key, chain, lineage, jobVars, mixed, requests, faults>>

\* revokeCertificate() and deleteCertificate(); that they fail is ignored.
Revoke(p) ==
  /\ At(p, "revoke")
  /\ lineage' = IF op[p].ent.type = "LETS_ENCRYPT" THEN lineage \ {Dom(p)} ELSE lineage
  /\ Advance(p)
  /\ UNCHANGED <<rowVars, fileVars, jobVars, mixed, requests, faults>>

RevokeFails(p) ==
  /\ At(p, "revoke")
  /\ "revoke" \in Fragile /\ faults < MaxFaults
  /\ op[p].ent.type = "LETS_ENCRYPT"
  /\ faults' = faults + 1
  /\ Advance(p)
  /\ UNCHANGED <<rowVars, fileVars, lineage, jobVars, mixed, requests>>

DeleteRow(p) ==
  /\ At(p, "delete")
  /\ row' = [row EXCEPT ![Dom(p)] = NoRow]
  /\ Advance(p)
  /\ UNCHANGED <<fileVars, lineage, jobVars, mixed, requests, faults>>

\* What certbot cannot do, and the commands, writes and queries that fail.
StepFails(p) ==
  /\ Busy(p)
  /\ \/ /\ Head(op[p].todo) \in Fragile \ {"revoke", "list"}
        /\ faults < MaxFaults /\ faults' = faults + 1
     \/ /\ At(p, "certbot") /\ op[p].kind = "renew" /\ Dom(p) \notin lineage
        /\ UNCHANGED faults
  /\ Continue(p, OnError(op[p].kind))
  /\ UNCHANGED <<rowVars, fileVars, lineage, jobVars, mixed, requests>>

SaveFailed(p) ==
  /\ At(p, "fail")
  /\ row' = [row EXCEPT ![Dom(p)] = [op[p].ent EXCEPT !.status = "FAILED"]]
  /\ Advance(p)
  /\ UNCHANGED <<fileVars, lineage, jobVars, mixed, requests, faults>>

-----------------------------------------------------------------------------
(* SslRenewalProcessor.                                                     *)

\* Mutant: the weekly job looks at active certificates only.
Wanted_ActiveOnly(j) ==
  {d \in Domain : row[d].auto /\ row[d].status = "ACTIVE" /\ Due(row[d])}

\* The nightly job lists what findExpiring(30) returns, the weekly one what
\* failed and expires within 14 days.
Wanted(j) ==
  {d \in Domain :
     row[d].auto /\ IF j = "night" THEN row[d].status = "ACTIVE" /\ Due(row[d])
                                   ELSE row[d].status = "FAILED" /\ Soon(row[d])}

\* Only the nightly job looks at isProcessing.
StartJob(j) ==
  /\ listed[j] = Off
  /\ IF j = "night" THEN ~isProcessing /\ isProcessing' = TRUE ELSE UNCHANGED isProcessing
  /\ listed' = [listed EXCEPT ![j] = Wanted(j)]
  /\ UNCHANGED <<rowVars, fileVars, lineage, op, mixed, requests, faults>>

\* The query fails: the finally block resets the guard.
ListFails(j) ==
  /\ listed[j] = Off
  /\ j = "night" => ~isProcessing
  /\ "list" \in Fragile /\ faults < MaxFaults
  /\ faults' = faults + 1
  /\ UNCHANGED <<rowVars, fileVars, lineage, op, jobVars, mixed, requests>>

\* One certificate after the other; the row is loaded again and the weekly job
\* forces the renewal.  What renewCertificate() refuses, the job leaves out.
JobRenews(j) ==
  \E d \in listed[j] \cap Domain :
    /\ listed[j] # Off /\ op[j] = Idle
    /\ listed' = [listed EXCEPT ![j] = @ \ {d}]
    /\ IF Renewable(row[d], j = "week")
         THEN Open(j, "renew", d, Steps.renew, row[d])
         ELSE UNCHANGED <<op, mixed>>
    /\ UNCHANGED <<rowVars, fileVars, lineage, isProcessing, requests, faults>>

EndJob(j) ==
  /\ listed[j] = {} /\ op[j] = Idle
  /\ listed' = [listed EXCEPT ![j] = Off]
  /\ isProcessing' = (isProcessing /\ j # "night")
  /\ UNCHANGED <<rowVars, fileVars, lineage, op, mixed, requests, faults>>

\* Days pass, not while an operation on the certificate runs.
Age(d) ==
  /\ Quiet(d)
  /\ row[d].cert # Nothing /\ row[d].left > 0
  /\ row' = [row EXCEPT ![d].left = @ - 1]
  /\ UNCHANGED <<fileVars, lineage, op, jobVars, mixed, requests, faults>>

Handler(p) ==
  \/ Certbot(p) \/ Save(p) \/ WriteKey(p) \/ WriteChain(p) \/ EnableSite(p)
  \/ Audit(p) \/ Uninstall(p) \/ Revoke(p) \/ RevokeFails(p) \/ DeleteRow(p)
  \/ StepFails(p) \/ SaveFailed(p)

Jobs(j) == StartJob(j) \/ ListFails(j) \/ JobRenews(j) \/ EndJob(j)

Next ==
  \/ \E p \in Client, d \in Domain :
       Request(p, d) \/ Upload(p, d) \/ RenewByHand(p, d) \/ Remove(p, d)
  \/ \E p \in Process : Handler(p)
  \/ \E j \in Job : Jobs(j)
  \/ \E d \in Domain : Age(d)

Spec == Init /\ [][Next]_vars

\* Awaited calls come back (every command has a timeout), and the timers of the
\* two jobs go on.
Fairness ==
  /\ \A p \in Job : WF_vars(Handler(p))
  /\ \A j \in Job : WF_vars(Jobs(j))

FairSpec == Spec /\ Fairness

-----------------------------------------------------------------------------
RowType ==
  [status : {"none", "PENDING", "ACTIVE", "FAILED"}, type : {"none", "LETS_ENCRYPT", "CUSTOM"},
   cert : Version \cup {Nothing}, left : Left, auto : BOOLEAN]

\* Types, and that isProcessing is set exactly while the nightly job runs.
TypeOK ==
  /\ row \in [Domain -> RowType]
  /\ key \in [Domain -> Version \cup {Nothing}]
  /\ chain \in [Domain -> Version \cup {Nothing}]
  /\ site \subseteq Domain /\ lineage \subseteq Domain
  /\ \A p \in Process : op[p].ent \in RowType
  /\ isProcessing = (listed["night"] # Off)
  /\ mixed \subseteq Domain
  /\ requests \in 0 .. MaxRequests /\ faults \in 0 .. MaxFaults

\* Once no operation on a domain is in flight, a Let's Encrypt certificate
\* whose row says ACTIVE is the one Apache is configured with, its key and its
\* chain both: wherever a renewal failed, the row does not say ACTIVE.  A domain
\* without a row has no SSL site, whatever removals, failed requests and uploads
\* left on the disk.  Operations that overlapped may mix the files of two
\* certificates; the next request that runs alone, failing or not, ends that.
SitesFollowRows ==
  \A d \in Domain \ mixed : Quiet(d) =>
    /\ row[d].status = "ACTIVE" /\ row[d].type = "LETS_ENCRYPT" =>
         d \in site /\ key[d] = row[d].cert /\ chain[d] = row[d].cert
    /\ row[d] = NoRow => d \notin site

\* A certificate of Let's Encrypt that is to be renewed automatically and is
\* about to expire is renewed, uploaded or removed in the end: a failure is
\* retried by the weekly job, and one failing domain does not stop the list.
RenewedInTime ==
  \A d \in Domain :
    (row[d].type = "LETS_ENCRYPT" /\ row[d].auto /\ Soon(row[d])) ~>
      (~(row[d].type = "LETS_ENCRYPT" /\ Soon(row[d])) \/ d \in mixed)
=============================================================================
