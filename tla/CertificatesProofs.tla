------------------------- MODULE CertificatesProofs -------------------------
(***************************************************************************)
(* Proofs about Certificates: for any number of domains, clients and       *)
(* versions, with both jobs, an active certificate at rest is the one      *)
(* Apache reads, and a domain without a row has no SSL site.               *)
(***************************************************************************)
EXTENDS Certificates, FiniteSetTheorems, SequenceTheorems, TLAPS

-----------------------------------------------------------------------------
(* The inductive invariant, by parts.                                       *)

\* What may be left of an operation.
ToAudit == <<"audit">>
ToSite  == <<"site", "audit">>
ToChain == <<"chain", "site", "audit">>
ToKey   == <<"key", "chain", "site", "audit">>
ToSave  == <<"save", "key", "chain", "site", "audit">>
ToCertbot == <<"certbot", "save", "key", "chain", "site", "audit">>
ToFail  == <<"fail">>
ToDelete == <<"delete", "audit">>
ToRevoke == <<"revoke", "delete", "audit">>
ToUninstall == <<"uninstall", "revoke", "delete", "audit">>

Installs == {ToAudit, ToSite, ToChain, ToKey, ToSave}
Issues   == {"request", "renew"}
Courses(k) ==
  IF k \in Issues THEN Installs \cup {ToCertbot, ToFail}
  ELSE IF k = "upload" THEN Installs
  ELSE {ToAudit, ToDelete, ToRevoke, ToUninstall}
Kinds == {"request", "renew", "upload", "remove"}

OpType ==
  [todo : UNION {Courses(k) : k \in Kinds}, kind : Kinds, dom : Domain, ent : RowType]

FineRow(r) == r \in RowType /\ (r = NoRow \/ r.status # "none")
FineOp(o)  == o \in OpType /\ o.todo \in Courses(o.kind) /\ o.ent.status # "none"

Typed ==
  /\ row \in [Domain -> RowType] /\ \A d \in Domain : FineRow(row[d])
  /\ key \in [Domain -> Version \cup {Nothing}] /\ chain \in [Domain -> Version \cup {Nothing}]
  /\ site \subseteq Domain /\ lineage \subseteq Domain /\ mixed \subseteq Domain
  /\ op \in [Process -> OpType \cup {Idle}]
  /\ \A p \in Process : op[p] = Idle \/ FineOp(op[p])

JobsTyped ==
  /\ listed \in [Job -> (SUBSET Domain) \cup {Off}]
  /\ isProcessing = (listed["night"] # Off)
  /\ requests \in 0 .. MaxRequests /\ faults \in 0 .. MaxFaults

\* Operations of one domain that overlap are recorded.
Alone ==
  \A p, q \in Process : p # q /\ op[p] # Idle /\ op[q] # Idle /\ Dom(p) = Dom(q) => Dom(p) \in mixed

\* What is claimed of a domain at rest, where the row of a removed certificate can
\* be deleted.
Settled(d) ==
  "delete" \notin Fragile =>
    /\ row[d].status = "ACTIVE" /\ row[d].type = "LETS_ENCRYPT" =>
         d \in site /\ key[d] = row[d].cert /\ chain[d] = row[d].cert
    /\ row[d] = NoRow => d \notin site

\* An operation of kind k alone on d, with entity e in hand, before its step s.
Reached(d, k, s, e) ==
  /\ k \in Issues =>
       /\ row[d] # NoRow
       /\ s \in {"key", "chain", "site", "audit"} => row[d] = e
       /\ s \in {"chain", "site", "audit"} => key[d] = e.cert
       /\ s \in {"site", "audit"} => chain[d] = e.cert
       /\ s = "audit" => d \in site
  /\ k = "upload" =>
       /\ e.type = "CUSTOM"
       /\ IF s = "save" THEN Settled(d) ELSE row[d].type = "CUSTOM"
  /\ k = "remove" =>
       /\ IF s = "uninstall" THEN Settled(d) ELSE d \notin site
       /\ s = "audit" => row[d] = NoRow

InPlace ==
  \A p \in Process : op[p] # Idle /\ Dom(p) \notin mixed =>
    Reached(Dom(p), op[p].kind, Head(op[p].todo), op[p].ent)

AtRest == \A d \in Domain \ mixed : Quiet(d) => Settled(d)

CertInv == Typed /\ JobsTyped /\ Alone /\ InPlace /\ AtRest

-----------------------------------------------------------------------------
(* The courses, and what is known of an operation.                          *)

\* What follows step s, if not the end.
After(s, t) ==
  \/ s = "certbot" /\ t = "save"
  \/ s = "save" /\ t = "key"
  \/ s = "key" /\ t = "chain"
  \/ s = "chain" /\ t = "site"
  \/ s = "site" /\ t = "audit"
  \/ s = "uninstall" /\ t = "revoke"
  \/ s = "revoke" /\ t = "delete"
  \/ s = "delete" /\ t = "audit"

LEMMA CourseSteps ==
  ASSUME NEW k \in Kinds, NEW t \in Courses(k)
  PROVE  /\ t # <<>>
         /\ Head(t) \in {"audit", "fail"} => Tail(t) = <<>>
         /\ Head(t) \notin {"audit", "fail"} =>
              Tail(t) \in Courses(k) /\ Tail(t) # <<>> /\ After(Head(t), Head(Tail(t)))
         /\ Head(t) \in {"certbot", "fail"} => k \in Issues
         /\ Head(t) \in {"save", "key", "chain", "site"} => k \in Issues \cup {"upload"}
         /\ Head(t) \in {"uninstall", "revoke", "delete"} => k = "remove"
         /\ k = "remove" => Head(t) \in {"uninstall", "revoke", "delete", "audit"}
         /\ k = "upload" => Head(t) \in {"save", "key", "chain", "site", "audit"}
<1> DEFINE All == Installs \cup {ToCertbot, ToFail, ToDelete, ToRevoke, ToUninstall}
<1>1. /\ ToAudit # <<>> /\ Head(ToAudit) = "audit" /\ Tail(ToAudit) = <<>>
      /\ ToFail # <<>> /\ Head(ToFail) = "fail" /\ Tail(ToFail) = <<>>
  BY DEF ToAudit, ToFail
<1>2. ToSite # <<>> /\ Head(ToSite) = "site" /\ Tail(ToSite) = ToAudit
  BY DEF ToSite, ToAudit
<1>3. ToChain # <<>> /\ Head(ToChain) = "chain" /\ Tail(ToChain) = ToSite
  BY DEF ToChain, ToSite
<1>4. ToKey # <<>> /\ Head(ToKey) = "key" /\ Tail(ToKey) = ToChain
  BY DEF ToKey, ToChain
<1>5. ToSave # <<>> /\ Head(ToSave) = "save" /\ Tail(ToSave) = ToKey
  BY DEF ToSave, ToKey
<1>6. ToCertbot # <<>> /\ Head(ToCertbot) = "certbot" /\ Tail(ToCertbot) = ToSave
  BY DEF ToCertbot, ToSave
<1>7. ToDelete # <<>> /\ Head(ToDelete) = "delete" /\ Tail(ToDelete) = ToAudit
  BY DEF ToDelete, ToAudit
<1>8. ToRevoke # <<>> /\ Head(ToRevoke) = "revoke" /\ Tail(ToRevoke) = ToDelete
  BY DEF ToRevoke, ToDelete
<1>9. ToUninstall # <<>> /\ Head(ToUninstall) = "uninstall" /\ Tail(ToUninstall) = ToRevoke
  BY DEF ToUninstall, ToRevoke
<1>10. CASE k \in Issues
  <2>1. t \in {ToAudit, ToSite, ToChain, ToKey, ToSave, ToCertbot, ToFail}
    BY <1>10 DEF Courses, Installs
  <2>2. Courses(k) = {ToAudit, ToSite, ToChain, ToKey, ToSave, ToCertbot, ToFail}
    BY <1>10 DEF Courses, Installs
  <2> QED BY <1>1, <1>2, <1>3, <1>4, <1>5, <1>6, <1>10, <2>1, <2>2 DEF After, Issues
<1>11. CASE k = "upload"
  <2>1. Courses(k) = {ToAudit, ToSite, ToChain, ToKey, ToSave}
    BY <1>11 DEF Courses, Installs, Issues
  <2> QED BY <1>1, <1>2, <1>3, <1>4, <1>5, <1>11, <2>1 DEF After
<1>12. CASE k = "remove"
  <2>1. Courses(k) = {ToAudit, ToDelete, ToRevoke, ToUninstall}
    BY <1>12 DEF Courses, Issues
  <2> QED BY <1>1, <1>7, <1>8, <1>9, <1>12, <2>1 DEF After
<1> QED BY <1>10, <1>11, <1>12 DEF Kinds, Issues

LEMMA IdleFields == Idle.todo = <<>> /\ Idle.ent = NoRow
BY DEF Idle

LEMMA NoRowFields ==
  /\ NoRow \in RowType /\ NoRow.status = "none" /\ NoRow.type = "none" /\ NoRow.cert = Nothing
  /\ \A t \in {"LETS_ENCRYPT", "CUSTOM"}, a \in BOOLEAN :
       /\ NewRow(t, a) \in RowType /\ NewRow(t, a).status = "PENDING" /\ NewRow(t, a).type = t
       /\ NewRow(t, a).cert = Nothing
<1>1. NoRow \in RowType /\ NoRow.status = "none" /\ NoRow.type = "none" /\ NoRow.cert = Nothing
  BY DEF NoRow, RowType, Left, Nothing
<1>2. ASSUME NEW t \in {"LETS_ENCRYPT", "CUSTOM"}, NEW a \in BOOLEAN
      PROVE  /\ NewRow(t, a) \in RowType /\ NewRow(t, a).status = "PENDING" /\ NewRow(t, a).type = t
             /\ NewRow(t, a).cert = Nothing
  <2> DEFINE r1 == [NoRow EXCEPT !.status = "PENDING"]
             r2 == [r1 EXCEPT !.type = t]
             r3 == [r2 EXCEPT !.auto = a]
  <2>1. NewRow(t, a) = r3
    BY DEF NewRow
  <2>2. r1 \in RowType /\ r1.status = "PENDING" /\ r1.cert = Nothing
    BY <1>1 DEF RowType
  <2> HIDE DEF r1
  <2>3. r2 \in RowType /\ r2.status = "PENDING" /\ r2.type = t /\ r2.cert = Nothing
    BY <2>2 DEF RowType
  <2> HIDE DEF r2
  <2>4. r3 \in RowType /\ r3.status = "PENDING" /\ r3.type = t /\ r3.cert = Nothing
    BY <2>3 DEF RowType
  <2> QED BY <2>1, <2>4
<1> QED BY <1>1, <1>2

\* An operation is under way exactly while it has a step left.
LEMMA BusyIs ==
  ASSUME Typed, NEW p \in Process
  PROVE  /\ Busy(p) <=> op[p] # Idle
         /\ op[p] # Idle => FineOp(op[p]) /\ op[p].kind \in Kinds /\ Dom(p) \in Domain
<1>1. op[p] = Idle \/ FineOp(op[p])
  BY DEF Typed
<1>2. CASE op[p] = Idle
  BY <1>2, IdleFields DEF Busy
<1>3. CASE op[p] # Idle
  <2>1. FineOp(op[p]) /\ op[p].kind \in Kinds /\ Dom(p) \in Domain /\ op[p].todo \in Courses(op[p].kind)
    BY <1>1, <1>3 DEF FineOp, OpType, Dom
  <2>2. op[p].todo # <<>>
    BY <2>1, CourseSteps
  <2> QED BY <1>3, <2>1, <2>2 DEF Busy
<1> QED BY <1>2, <1>3

LEMMA QuietIs ==
  ASSUME Typed, NEW d
  PROVE  Quiet(d) <=> \A p \in Process : op[p] # Idle => Dom(p) # d
BY BusyIs DEF Quiet

\* What is known of an operation at step s.
LEMMA StepFields ==
  ASSUME CertInv, NEW p \in Process, NEW s, At(p, s)
  PROVE  /\ op[p] # Idle /\ FineOp(op[p]) /\ op[p].kind \in Kinds /\ Dom(p) \in Domain
         /\ op[p].ent \in RowType /\ op[p].ent.status # "none"
         /\ Head(op[p].todo) = s
         /\ s \in {"audit", "fail"} => Tail(op[p].todo) = <<>>
         /\ s \notin {"audit", "fail"} =>
              /\ Tail(op[p].todo) \in Courses(op[p].kind) /\ Tail(op[p].todo) # <<>>
              /\ After(s, Head(Tail(op[p].todo)))
         /\ s \in {"certbot", "fail"} => op[p].kind \in Issues
         /\ s \in {"save", "key", "chain", "site"} => op[p].kind \in Issues \cup {"upload"}
         /\ s \in {"uninstall", "revoke", "delete"} => op[p].kind = "remove"
         /\ op[p].kind = "remove" => s \in {"uninstall", "revoke", "delete", "audit"}
         /\ op[p].kind = "upload" => s \in {"save", "key", "chain", "site", "audit"}
         /\ Dom(p) \notin mixed => Reached(Dom(p), op[p].kind, s, op[p].ent)
<1>1. /\ op[p] # Idle /\ FineOp(op[p]) /\ op[p].kind \in Kinds /\ Dom(p) \in Domain
      /\ Head(op[p].todo) = s
  BY BusyIs DEF CertInv, At
<1>2. op[p].todo \in Courses(op[p].kind) /\ op[p].ent \in RowType /\ op[p].ent.status # "none"
  BY <1>1 DEF FineOp, OpType
<1>3. Dom(p) \notin mixed => Reached(Dom(p), op[p].kind, s, op[p].ent)
  BY <1>1 DEF CertInv, InPlace
<1> QED BY <1>1, <1>2, <1>3, CourseSteps


LEMMA OneMoreAtMost ==
  ASSUME NEW S, IsFiniteSet(S), NEW n \in Nat, Cardinality(S) <= n, NEW x
  PROVE  IsFiniteSet(S \cup {x}) /\ Cardinality(S \cup {x}) <= n + 1
<1>1. Cardinality(S) \in Nat
  BY FS_CardinalityType
<1>2. IsFiniteSet(S \cup {x})
  BY FS_AddElement
<1>3. CASE x \in S
  <2>1. S \cup {x} = S
    BY <1>3
  <2>2. PICK k : k = Cardinality(S) /\ k \in Nat /\ k <= n
    BY <1>1
  <2>3. k <= n + 1
    BY ONLY <2>2, n \in Nat
  <2>4. Cardinality(S \cup {x}) = k
    BY Zenon, <2>1, <2>2
  <2> QED BY Zenon, <1>2, <2>3, <2>4
<1>4. CASE x \notin S
  <2>1. Cardinality(S \cup {x}) = Cardinality(S) + 1
    BY <1>4, FS_AddElement
  <2>2. PICK k : k = Cardinality(S) /\ k \in Nat /\ k <= n
    BY <1>1
  <2>3. k + 1 <= n + 1
    BY ONLY <2>2, n \in Nat
  <2> QED BY <1>2, <2>1, <2>2, <2>3
<1> QED BY <1>3, <1>4

LEMMA ThreeAtMost ==
  ASSUME NEW a, NEW b, NEW c
  PROVE  IsFiniteSet({a, b, c}) /\ Cardinality({a, b, c}) <= 3
<1>1. IsFiniteSet({a}) /\ Cardinality({a}) <= 1
  BY FS_Singleton
<1>2. {a} \cup {b} = {a, b} /\ {a, b} \cup {c} = {a, b, c}
  OBVIOUS
<1>3. IsFiniteSet({a} \cup {b}) /\ Cardinality({a} \cup {b}) <= 1 + 1
  BY <1>1, OneMoreAtMost
<1>4. IsFiniteSet({a, b}) /\ Cardinality({a, b}) <= 2
  BY ONLY <1>2, <1>3
<1>5. IsFiniteSet({a, b} \cup {c}) /\ Cardinality({a, b} \cup {c}) <= 2 + 1
  BY <1>4, OneMoreAtMost
<1> QED BY ONLY <1>2, <1>5


\* There is always a certificate to issue.
LEMMA FreshIs == ASSUME Typed, NEW d \in Domain PROVE Fresh(d) \in Version
<1> DEFINE used == {row[d].cert, key[d], chain[d]} \cup {op[p].ent.cert : p \in Process}
<1>1. IsFiniteSet(Job) /\ Cardinality(Job) <= 2
  <2>1. /\ IsFiniteSet({}) /\ Cardinality({}) = 0
    BY FS_EmptySet
  <2>2. IsFiniteSet({"night"}) /\ Cardinality({"night"}) = 1
    BY FS_Singleton
  <2>3. Job = {"night"} \cup {"week"}
    BY DEF Job
  <2>4. IsFiniteSet({"week"}) /\ Cardinality({"week"}) = 1
    BY FS_Singleton
  <2>5. IsFiniteSet(Job) /\ Cardinality(Job) = Cardinality({"night"}) + Cardinality({"week"}) - Cardinality({"night"} \cap {"week"})
    BY <2>2, <2>3, <2>4, FS_Union
  <2>6. Cardinality({"night"} \cap {"week"}) = 0
    <3>1. {"night"} \cap {"week"} = {}
      OBVIOUS
    <3> QED BY <2>1, <3>1
  <2> QED BY <2>2, <2>4, <2>5, <2>6
<1>2. IsFiniteSet(Client) /\ IsFiniteSet(Version) /\ Cardinality(Version) > 5 + Cardinality(Client)
  BY VersionAssumption
<1>3. IsFiniteSet(Process) /\ Cardinality(Process) <= Cardinality(Client) + 2
  <2>1. /\ IsFiniteSet(Process) /\ Cardinality(Process) = Cardinality(Client) + Cardinality(Job) - Cardinality(Client \cap Job)
    BY <1>1, <1>2, FS_Union DEF Process
  <2>2. /\ Cardinality(Client) \in Nat /\ Cardinality(Job) \in Nat /\ Cardinality(Client \cap Job) \in Nat
    <3>1. IsFiniteSet(Client \cap Job)
      BY <1>1, FS_Intersection
    <3> QED BY <1>1, <1>2, <3>1, FS_CardinalityType
  <2> QED BY <1>1, <2>1, <2>2
<1> DEFINE ents == {op[p].ent.cert : p \in Process}
<1>4. IsFiniteSet(ents) /\ Cardinality(ents) <= Cardinality(Process)
  <2> DEFINE certs == [p \in Process |-> op[p].ent.cert]
  <2>1. certs \in Surjection(Process, ents)
    BY DEF Surjection
  <2> QED BY <1>3, <2>1, FS_Surjection
<1> DEFINE three == {row[d].cert, key[d], chain[d]}
<1>5. IsFiniteSet(three) /\ Cardinality(three) <= 3
  <2>1. PICK a, b, c : a = row[d].cert /\ b = key[d] /\ c = chain[d]
    OBVIOUS
  <2>2. IsFiniteSet({a, b, c}) /\ Cardinality({a, b, c}) <= 3
    BY ThreeAtMost
  <2> QED BY <2>1, <2>2
<1>6. IsFiniteSet(used) /\ Cardinality(used) <= 5 + Cardinality(Client)
  <2> HIDE DEF three, ents
  <2>1. /\ IsFiniteSet(three \cup ents)
        /\ Cardinality(three \cup ents) = Cardinality(three) + Cardinality(ents) - Cardinality(three \cap ents)
    BY <1>4, <1>5, FS_Union
  <2>2. IsFiniteSet(three \cap ents)
    BY <1>4, FS_Intersection
  <2>3. /\ Cardinality(three) \in Nat /\ Cardinality(ents) \in Nat /\ Cardinality(three \cap ents) \in Nat
        /\ Cardinality(Client) \in Nat /\ Cardinality(Process) \in Nat
    BY <1>2, <1>3, <1>4, <1>5, <2>2, FS_CardinalityType
  <2>4. Cardinality(three \cup ents) <= 5 + Cardinality(Client)
    BY <1>3, <1>4, <1>5, <2>1, <2>3
  <2> QED BY <2>1, <2>4 DEF three, ents
<1> HIDE DEF used
<1>7. \E v \in Version : v \notin used
  <2>1. SUFFICES ASSUME Version \subseteq used PROVE FALSE
    OBVIOUS
  <2>2. Cardinality(Version) <= Cardinality(used)
    BY <1>6, <2>1, FS_Subset
  <2>3. Cardinality(Version) \in Nat /\ Cardinality(used) \in Nat /\ Cardinality(Client) \in Nat
    BY <1>2, <1>6, FS_CardinalityType
  <2> QED BY <1>2, <1>6, <2>2, <2>3
<1>8. Fresh(d) = CHOOSE v \in Version : v \notin used
  BY DEF Fresh, used
<1> QED BY <1>7, <1>8


-----------------------------------------------------------------------------
(* A step of an operation on its domain.                                    *)

\* Process p, on d, goes on as o, and touches d alone.
Moves(p, d, o) ==
  /\ d = Dom(p) /\ op' = [op EXCEPT ![p] = o] /\ (o = Idle \/ (FineOp(o) /\ o.dom = d))
  /\ row' \in [Domain -> RowType] /\ FineRow(row'[d])
  /\ key' \in [Domain -> Version \cup {Nothing}] /\ chain' \in [Domain -> Version \cup {Nothing}]
  /\ site' \subseteq Domain /\ lineage' \subseteq Domain /\ faults' \in 0 .. MaxFaults
  /\ UNCHANGED <<listed, isProcessing, mixed, requests>>
  /\ \A e \in Domain \ {d} :
       row'[e] = row[e] /\ key'[e] = key[e] /\ chain'[e] = chain[e] /\ (e \in site' <=> e \in site)
  /\ d \notin mixed /\ o = Idle => Settled(d)'
  /\ d \notin mixed /\ o # Idle => Reached(d, o.kind, Head(o.todo), o.ent)'

LEMMA SettledStays ==
  ASSUME NEW d, row'[d] = row[d], key'[d] = key[d], chain'[d] = chain[d], d \in site' <=> d \in site
  PROVE  /\ Settled(d) <=> Settled(d)'
         /\ \A k, s, e : Reached(d, k, s, e) <=> Reached(d, k, s, e)'
<1>1. Settled(d) <=> Settled(d)'
  BY DEF Settled
<1>2. ASSUME NEW k, NEW s, NEW e PROVE Reached(d, k, s, e) <=> Reached(d, k, s, e)'
  BY <1>1 DEF Reached
<1> QED BY <1>1, <1>2

LEMMA MovesKeep ==
  ASSUME CertInv, NEW p \in Process, op[p] # Idle, NEW d, NEW o, Moves(p, d, o)
  PROVE  CertInv'
<1>1. /\ d = Dom(p) /\ (o = Idle \/ (FineOp(o) /\ o.dom = d))
      /\ op \in [Process -> OpType \cup {Idle}] /\ op' = [op EXCEPT ![p] = o]
      /\ Typed /\ mixed' = mixed
  BY DEF Moves, CertInv, Typed
<1>2. d \in Domain /\ \A q \in Process : op[q] # Idle => Dom(q) \in Domain
  BY <1>1, BusyIs
<1>3. op'[p] = o /\ \A q \in Process \ {p} : op'[q] = op[q]
  BY <1>1
<1>4. op' \in [Process -> OpType \cup {Idle}]
  BY <1>1 DEF FineOp
<1>5. Typed'
  <2>1. \A q \in Process : op'[q] = Idle \/ FineOp(op'[q])
    BY <1>1, <1>3 DEF Typed
  <2>2. \A e \in Domain : FineRow(row'[e])
    BY <1>1 DEF Moves, Typed
  <2> QED BY <1>1, <1>4, <2>1, <2>2 DEF Moves, Typed
<1>6. JobsTyped'
  BY DEF Moves, CertInv, JobsTyped
<1>7. \A q \in Process : op'[q] # Idle => op[q] # Idle /\ Dom(q)' = Dom(q)
  BY <1>1, <1>3 DEF Dom
<1>8. Alone'
  BY <1>1, <1>7 DEF CertInv, Alone
<1>9. \A q \in Process \ {p} : op[q] # Idle /\ Dom(q) \notin mixed => Dom(q) # d
  BY <1>1 DEF CertInv, Alone
<1>10. InPlace'
  <2>1. SUFFICES ASSUME NEW q \in Process, op'[q] # Idle, Dom(q) \notin mixed
                 PROVE  Reached(Dom(q), op[q].kind, Head(op[q].todo), op[q].ent)'
    BY <1>1, <1>7 DEF InPlace
  <2>2. CASE q = p
    <3>1. Reached(d, o.kind, Head(o.todo), o.ent)'
      BY <1>1, <1>3, <2>1, <2>2 DEF Moves
    <3>2. Dom(q)' = d
      BY <1>1, <1>7, <2>1, <2>2
    <3> QED BY <1>3, <2>2, <3>1, <3>2
  <2>3. CASE q # p
    <3> DEFINE e == Dom(q)
    <3>1. e \in Domain \ {d} /\ op'[q] = op[q] /\ op[q] # Idle
      BY <1>2, <1>3, <1>9, <2>1, <2>3
    <3>2. Reached(e, op[q].kind, Head(op[q].todo), op[q].ent)
      BY <2>1, <3>1 DEF CertInv, InPlace
    <3>3. Dom(q)' = Dom(q)
      BY <3>1 DEF Dom
    <3>4. row'[e] = row[e] /\ key'[e] = key[e] /\ chain'[e] = chain[e] /\ (e \in site' <=> e \in site)
      BY <3>1 DEF Moves
    <3>5. PICK c, k, s, t : c = Dom(q) /\ k = op[q].kind /\ s = Head(op[q].todo) /\ t = op[q].ent
      OBVIOUS
    <3>6. Reached(c, k, s, t)'
      BY <3>2, <3>4, <3>5, SettledStays
    <3> QED BY <3>1, <3>3, <3>5, <3>6
  <2> QED BY <2>2, <2>3
<1>11. AtRest'
  <2>1. SUFFICES ASSUME NEW e \in Domain \ mixed, Quiet(e)' PROVE Settled(e)'
    BY <1>1 DEF AtRest
  <2>2. \A q \in Process : op'[q] # Idle => Dom(q)' # e
    <3>1. \A q \in Process : op'[q] # Idle => Busy(q)'
      <4>1. ASSUME NEW q \in Process, op'[q] # Idle PROVE op'[q].todo # <<>>
        <5>1. FineOp(op'[q])
          BY <1>5, <4>1 DEF Typed
        <5> QED BY <5>1, CourseSteps DEF FineOp, OpType
      <4> QED BY <4>1 DEF Busy
    <3> QED BY <2>1, <3>1 DEF Quiet
  <2>3. CASE e = d
    <3>1. o = Idle
      BY <1>1, <1>3, <1>7, <2>2, <2>3
    <3> QED BY <2>1, <2>3, <3>1 DEF Moves
  <2>4. CASE e # d
    <3>1. Quiet(e)
      <4>1. \A q \in Process : op[q] # Idle => Dom(q) # e
        <5>1. ASSUME NEW q \in Process, op[q] # Idle, Dom(q) = e PROVE FALSE
          <6>1. q # p
            BY <1>1, <2>4, <5>1
          <6>2. op'[q] = op[q]
            BY <1>3, <6>1
          <6> QED BY <2>2, <5>1, <6>2 DEF Dom
        <5> QED BY <5>1
      <4> QED BY <1>1, <4>1, QuietIs
    <3>2. Settled(e)
      BY <2>1, <3>1 DEF CertInv, AtRest
    <3>3. row'[e] = row[e] /\ key'[e] = key[e] /\ chain'[e] = chain[e] /\ (e \in site' <=> e \in site)
      BY <2>1, <2>4 DEF Moves
    <3> QED BY <3>2, <3>3, SettledStays
  <2> QED BY <2>3, <2>4
<1> QED BY <1>5, <1>6, <1>8, <1>10, <1>11 DEF CertInv


LEMMA ContinueFields ==
  ASSUME Typed, NEW p \in Process, op[p] # Idle, NEW steps,
         steps = <<>> \/ steps \in Courses(op[p].kind), Continue(p, steps)
  PROVE  \E o : /\ op' = [op EXCEPT ![p] = o]
                /\ steps = <<>> => o = Idle
                /\ steps # <<>> =>
                     /\ o # Idle /\ FineOp(o) /\ o.dom = Dom(p) /\ o.kind = op[p].kind
                     /\ o.ent = op[p].ent /\ o.todo = steps
<1>1. PICK o : o = IF steps = <<>> THEN Idle ELSE [op[p] EXCEPT !.todo = steps]
  OBVIOUS
<1>2. op' = [op EXCEPT ![p] = o]
  BY <1>1 DEF Continue, Typed
<1>3. ASSUME steps # <<>>
      PROVE  /\ o # Idle /\ FineOp(o) /\ o.dom = Dom(p) /\ o.kind = op[p].kind
             /\ o.ent = op[p].ent /\ o.todo = steps
  <2>1. op[p] \in OpType /\ op[p].ent.status # "none" /\ op[p].kind \in Kinds
    BY BusyIs DEF FineOp
  <2>2. o = [op[p] EXCEPT !.todo = steps] /\ steps \in Courses(op[p].kind)
    BY <1>1, <1>3
  <2>3. steps \in UNION {Courses(k) : k \in Kinds}
    BY <2>1, <2>2
  <2>4. /\ o \in OpType /\ o.dom = op[p].dom /\ o.kind = op[p].kind
        /\ o.ent = op[p].ent /\ o.todo = steps
    BY <2>1, <2>2, <2>3 DEF OpType
  <2>5. o # Idle
    BY <2>1, <2>4, IdleFields, NoRowFields
  <2> QED BY <2>1, <2>2, <2>4, <2>5 DEF FineOp, Dom
<1> QED BY <1>1, <1>2, <1>3

\* How a step leaves its operation: at an end, or before the step that follows.
LEMMA AdvanceFields ==
  ASSUME CertInv, NEW p \in Process, NEW s, At(p, s), Advance(p)
  PROVE  \E o : /\ op' = [op EXCEPT ![p] = o]
                /\ s \in {"audit", "fail"} => o = Idle
                /\ s \notin {"audit", "fail"} =>
                     /\ o # Idle /\ FineOp(o) /\ o.dom = Dom(p) /\ o.kind = op[p].kind
                     /\ o.ent = op[p].ent /\ After(s, Head(o.todo))
<1>1. /\ op[p] # Idle /\ Typed
      /\ s \in {"audit", "fail"} => Tail(op[p].todo) = <<>>
      /\ s \notin {"audit", "fail"} =>
           /\ Tail(op[p].todo) \in Courses(op[p].kind) /\ Tail(op[p].todo) # <<>>
           /\ After(s, Head(Tail(op[p].todo)))
  BY StepFields DEF CertInv
<1>2. PICK steps : steps = Tail(op[p].todo)
  OBVIOUS
<1>3. Continue(p, steps) /\ (steps = <<>> \/ steps \in Courses(op[p].kind))
  BY <1>1, <1>2 DEF Advance
<1>4. PICK o : /\ op' = [op EXCEPT ![p] = o]
               /\ steps = <<>> => o = Idle
               /\ steps # <<>> =>
                    /\ o # Idle /\ FineOp(o) /\ o.dom = Dom(p) /\ o.kind = op[p].kind
                    /\ o.ent = op[p].ent /\ o.todo = steps
  BY <1>1, <1>3, ContinueFields
<1> QED BY <1>1, <1>2, <1>4

LEMMA SaveStep == ASSUME CertInv, NEW p \in Process, Save(p) PROVE CertInv'
<1>1. PICK d, e, k : d = Dom(p) /\ e = op[p].ent /\ k = op[p].kind
  OBVIOUS
<1>2. /\ op[p] # Idle /\ d \in Domain /\ k \in Issues \cup {"upload"} /\ e \in RowType /\ e.status # "none"
      /\ d \notin mixed => Reached(d, k, "save", e)
  BY <1>1, StepFields DEF Save
<1>3. /\ row' = [row EXCEPT ![d] = e]
      /\ UNCHANGED <<key, chain, site, lineage, listed, isProcessing, mixed, requests, faults>>
      /\ Typed /\ JobsTyped
  BY <1>1 DEF Save, fileVars, jobVars, CertInv
<1>4. PICK o : /\ op' = [op EXCEPT ![p] = o] /\ o # Idle /\ FineOp(o) /\ o.dom = d /\ o.kind = k
               /\ o.ent = e /\ Head(o.todo) = "key"
  BY <1>1, AdvanceFields DEF Save, After
<1>5. /\ row' \in [Domain -> RowType] /\ row'[d] = e /\ FineRow(row'[d])
      /\ \A c \in Domain \ {d} : row'[c] = row[c]
  BY <1>2, <1>3 DEF Typed, FineRow
<1>6. e # NoRow
  BY <1>2, NoRowFields
<1>7. d \notin mixed => Reached(d, k, "key", e)'
  BY <1>2, <1>5, <1>6 DEF Reached, Issues
<1>8. Moves(p, d, o)
  BY <1>1, <1>3, <1>4, <1>5, <1>7 DEF Moves, Typed, JobsTyped
<1> QED BY <1>2, <1>8, MovesKeep

LEMMA WriteKeyStep == ASSUME CertInv, NEW p \in Process, WriteKey(p) PROVE CertInv'
<1>1. PICK d, e, k : d = Dom(p) /\ e = op[p].ent /\ k = op[p].kind
  OBVIOUS
<1>2. /\ op[p] # Idle /\ d \in Domain /\ k \in Issues \cup {"upload"} /\ e \in RowType
      /\ d \notin mixed => Reached(d, k, "key", e)
  BY <1>1, StepFields DEF WriteKey
<1>3. /\ key' = [key EXCEPT ![d] = e.cert]
      /\ UNCHANGED <<row, chain, site, lineage, listed, isProcessing, mixed, requests, faults>>
      /\ Typed /\ JobsTyped
  BY <1>1 DEF WriteKey, rowVars, jobVars, CertInv
<1>4. PICK o : /\ op' = [op EXCEPT ![p] = o] /\ o # Idle /\ FineOp(o) /\ o.dom = d /\ o.kind = k
               /\ o.ent = e /\ Head(o.todo) = "chain"
  BY <1>1, AdvanceFields DEF WriteKey, After
<1>5. /\ key' \in [Domain -> Version \cup {Nothing}] /\ key'[d] = e.cert
      /\ \A c \in Domain \ {d} : key'[c] = key[c]
  BY <1>2, <1>3 DEF Typed, RowType
<1>6. d \notin mixed => Reached(d, k, "chain", e)'
  BY <1>2, <1>3, <1>5 DEF Reached, Issues
<1>7. Moves(p, d, o)
  BY <1>1, <1>2, <1>3, <1>4, <1>5, <1>6 DEF Moves, Typed, JobsTyped
<1> QED BY <1>2, <1>7, MovesKeep

LEMMA WriteChainStep == ASSUME CertInv, NEW p \in Process, WriteChain(p) PROVE CertInv'
<1>1. PICK d, e, k : d = Dom(p) /\ e = op[p].ent /\ k = op[p].kind
  OBVIOUS
<1>2. /\ op[p] # Idle /\ d \in Domain /\ k \in Issues \cup {"upload"} /\ e \in RowType
      /\ d \notin mixed => Reached(d, k, "chain", e)
  BY <1>1, StepFields DEF WriteChain
<1>3. /\ chain' = [chain EXCEPT ![d] = e.cert]
      /\ UNCHANGED <<row, key, site, lineage, listed, isProcessing, mixed, requests, faults>>
      /\ Typed /\ JobsTyped
  BY <1>1 DEF WriteChain, rowVars, jobVars, CertInv
<1>4. PICK o : /\ op' = [op EXCEPT ![p] = o] /\ o # Idle /\ FineOp(o) /\ o.dom = d /\ o.kind = k
               /\ o.ent = e /\ Head(o.todo) = "site"
  BY <1>1, AdvanceFields DEF WriteChain, After
<1>5. /\ chain' \in [Domain -> Version \cup {Nothing}] /\ chain'[d] = e.cert
      /\ \A c \in Domain \ {d} : chain'[c] = chain[c]
  BY <1>2, <1>3 DEF Typed, RowType
<1>6. d \notin mixed => Reached(d, k, "site", e)'
  BY <1>2, <1>3, <1>5 DEF Reached, Issues
<1>7. Moves(p, d, o)
  BY <1>1, <1>2, <1>3, <1>4, <1>5, <1>6 DEF Moves, Typed, JobsTyped
<1> QED BY <1>2, <1>7, MovesKeep

LEMMA EnableSiteStep == ASSUME CertInv, NEW p \in Process, EnableSite(p) PROVE CertInv'
<1>1. PICK d, e, k : d = Dom(p) /\ e = op[p].ent /\ k = op[p].kind
  OBVIOUS
<1>2. /\ op[p] # Idle /\ d \in Domain /\ k \in Issues \cup {"upload"}
      /\ d \notin mixed => Reached(d, k, "site", e)
  BY <1>1, StepFields DEF EnableSite
<1>3. /\ site' = site \cup {d}
      /\ UNCHANGED <<row, key, chain, lineage, listed, isProcessing, mixed, requests, faults>>
      /\ Typed /\ JobsTyped
  BY <1>1 DEF EnableSite, rowVars, jobVars, CertInv
<1>4. PICK o : /\ op' = [op EXCEPT ![p] = o] /\ o # Idle /\ FineOp(o) /\ o.dom = d /\ o.kind = k
               /\ o.ent = e /\ Head(o.todo) = "audit"
  BY <1>1, AdvanceFields DEF EnableSite, After
<1>5. d \notin mixed => Reached(d, k, "audit", e)'
  BY <1>2, <1>3 DEF Reached, Issues
<1>6. Moves(p, d, o)
  BY <1>1, <1>2, <1>3, <1>4, <1>5 DEF Moves, Typed, JobsTyped
<1> QED BY <1>2, <1>6, MovesKeep

\* An operation that has come to its last step leaves its domain settled.
LEMMA AuditStep == ASSUME CertInv, NEW p \in Process, Audit(p) PROVE CertInv'
<1>1. PICK d, e, k : d = Dom(p) /\ e = op[p].ent /\ k = op[p].kind
  OBVIOUS
<1>2. /\ op[p] # Idle /\ d \in Domain /\ k \in Kinds /\ e.status # "none"
      /\ d \notin mixed => Reached(d, k, "audit", e)
  BY <1>1, StepFields DEF Audit
<1>3. /\ UNCHANGED <<row, key, chain, site, lineage, listed, isProcessing, mixed, requests, faults>>
      /\ Typed /\ JobsTyped
  BY DEF Audit, rowVars, fileVars, jobVars, CertInv
<1>4. PICK o : op' = [op EXCEPT ![p] = o] /\ o = Idle
  BY AdvanceFields DEF Audit
<1>5. d \notin mixed => Settled(d)
  BY <1>2, NoRowFields DEF Reached, Settled, Kinds, Issues
<1>6. d \notin mixed => Settled(d)'
  BY <1>3, <1>5 DEF Settled
<1>7. Moves(p, d, o)
  BY <1>1, <1>2, <1>3, <1>4, <1>6 DEF Moves, Typed, JobsTyped
<1> QED BY <1>2, <1>7, MovesKeep


LEMMA UninstallStep == ASSUME CertInv, NEW p \in Process, Uninstall(p) PROVE CertInv'
<1>1. PICK d, e, k : d = Dom(p) /\ e = op[p].ent /\ k = op[p].kind
  OBVIOUS
<1>2. op[p] # Idle /\ d \in Domain /\ k = "remove"
  BY <1>1, StepFields DEF Uninstall
<1>3. /\ site' = site \ {d}
      /\ UNCHANGED <<row, key, chain, lineage, listed, isProcessing, mixed, requests, faults>>
      /\ Typed /\ JobsTyped
  BY <1>1 DEF Uninstall, rowVars, jobVars, CertInv
<1>4. PICK o : /\ op' = [op EXCEPT ![p] = o] /\ o # Idle /\ FineOp(o) /\ o.dom = d /\ o.kind = k
               /\ o.ent = e /\ Head(o.todo) = "revoke"
  BY <1>1, AdvanceFields DEF Uninstall, After
<1>5. Reached(d, k, "revoke", e)'
  BY <1>2, <1>3 DEF Reached, Issues
<1>6. Moves(p, d, o)
  BY <1>1, <1>2, <1>3, <1>4, <1>5 DEF Moves, Typed, JobsTyped
<1> QED BY <1>2, <1>6, MovesKeep

LEMMA RevokeStep ==
  ASSUME CertInv, NEW p \in Process, Revoke(p) \/ RevokeFails(p) PROVE CertInv'
<1>1. PICK d, e, k : d = Dom(p) /\ e = op[p].ent /\ k = op[p].kind
  OBVIOUS
<1>2. /\ op[p] # Idle /\ d \in Domain /\ k = "remove"
      /\ d \notin mixed => Reached(d, k, "revoke", e)
  BY <1>1, StepFields DEF Revoke, RevokeFails
<1>3. /\ UNCHANGED <<row, key, chain, site, listed, isProcessing, mixed, requests>>
      /\ Typed /\ JobsTyped
  BY DEF Revoke, RevokeFails, rowVars, fileVars, jobVars, CertInv
<1>4. lineage' \subseteq Domain
  BY <1>3 DEF Revoke, RevokeFails, Typed
<1>5. faults' \in 0 .. MaxFaults
  BY <1>3, BoundAssumption DEF Revoke, RevokeFails, JobsTyped
<1>6. PICK o : /\ op' = [op EXCEPT ![p] = o] /\ o # Idle /\ FineOp(o) /\ o.dom = d /\ o.kind = k
               /\ o.ent = e /\ Head(o.todo) = "delete"
  BY <1>1, AdvanceFields DEF Revoke, RevokeFails, After
<1>7. d \notin mixed => Reached(d, k, "delete", e)'
  BY <1>2, <1>3 DEF Reached, Issues
<1>8. Moves(p, d, o)
  BY <1>1, <1>2, <1>3, <1>4, <1>5, <1>6, <1>7 DEF Moves, Typed, JobsTyped
<1> QED BY <1>2, <1>8, MovesKeep

LEMMA DeleteRowStep == ASSUME CertInv, NEW p \in Process, DeleteRow(p) PROVE CertInv'
<1>1. PICK d, e, k : d = Dom(p) /\ e = op[p].ent /\ k = op[p].kind
  OBVIOUS
<1>2. /\ op[p] # Idle /\ d \in Domain /\ k = "remove"
      /\ d \notin mixed => Reached(d, k, "delete", e)
  BY <1>1, StepFields DEF DeleteRow
<1>3. /\ row' = [row EXCEPT ![d] = NoRow]
      /\ UNCHANGED <<key, chain, site, lineage, listed, isProcessing, mixed, requests, faults>>
      /\ Typed /\ JobsTyped
  BY <1>1 DEF DeleteRow, fileVars, jobVars, CertInv
<1>4. PICK o : /\ op' = [op EXCEPT ![p] = o] /\ o # Idle /\ FineOp(o) /\ o.dom = d /\ o.kind = k
               /\ o.ent = e /\ Head(o.todo) = "audit"
  BY <1>1, AdvanceFields DEF DeleteRow, After
<1>5. /\ row' \in [Domain -> RowType] /\ row'[d] = NoRow /\ FineRow(row'[d])
      /\ \A c \in Domain \ {d} : row'[c] = row[c]
  BY <1>2, <1>3, NoRowFields DEF Typed, FineRow
<1>6. d \notin mixed => Reached(d, k, "audit", e)'
  BY <1>2, <1>3, <1>5 DEF Reached, Issues
<1>7. Moves(p, d, o)
  BY <1>1, <1>2, <1>3, <1>4, <1>5, <1>6 DEF Moves, Typed, JobsTyped
<1> QED BY <1>2, <1>7, MovesKeep

LEMMA SaveFailedStep == ASSUME CertInv, NEW p \in Process, SaveFailed(p) PROVE CertInv'
<1>1. PICK d, e, k : d = Dom(p) /\ e = op[p].ent /\ k = op[p].kind
  OBVIOUS
<1>2. op[p] # Idle /\ d \in Domain /\ e \in RowType
  BY <1>1, StepFields DEF SaveFailed
<1>3. PICK r : r = [e EXCEPT !.status = "FAILED"]
  OBVIOUS
<1>4. /\ row' = [row EXCEPT ![d] = r]
      /\ UNCHANGED <<key, chain, site, lineage, listed, isProcessing, mixed, requests, faults>>
      /\ Typed /\ JobsTyped
  BY <1>1, <1>3 DEF SaveFailed, fileVars, jobVars, CertInv
<1>5. PICK o : op' = [op EXCEPT ![p] = o] /\ o = Idle
  BY AdvanceFields DEF SaveFailed
<1>6. r \in RowType /\ r.status = "FAILED" /\ r # NoRow
  <2>1. r \in RowType /\ r.status = "FAILED"
    BY <1>2, <1>3 DEF RowType
  <2> QED BY <2>1, NoRowFields
<1>7. /\ row' \in [Domain -> RowType] /\ row'[d] = r /\ FineRow(row'[d])
      /\ \A c \in Domain \ {d} : row'[c] = row[c]
  BY <1>2, <1>4, <1>6 DEF Typed, FineRow
<1>8. Settled(d)'
  BY <1>6, <1>7 DEF Settled
<1>9. Moves(p, d, o)
  BY <1>1, <1>2, <1>4, <1>5, <1>7, <1>8 DEF Moves, Typed, JobsTyped
<1> QED BY <1>2, <1>9, MovesKeep

LEMMA CertbotStep == ASSUME CertInv, NEW p \in Process, Certbot(p) PROVE CertInv'
<1>1. PICK d, e, k : d = Dom(p) /\ e = op[p].ent /\ k = op[p].kind
  OBVIOUS
<1>2. /\ op[p] # Idle /\ d \in Domain /\ k \in Issues /\ e \in RowType /\ FineOp(op[p])
      /\ Tail(op[p].todo) \in Courses(k) /\ Tail(op[p].todo) # <<>> /\ Head(Tail(op[p].todo)) = "save"
      /\ d \notin mixed => Reached(d, k, "certbot", e)
  BY <1>1, StepFields DEF Certbot, After
<1>3. PICK v : v = Fresh(d)
  OBVIOUS
<1>4. v \in Version
  BY <1>2, <1>3, FreshIs DEF CertInv
<1> DEFINE e1 == [e EXCEPT !.cert = v]
           e2 == [e1 EXCEPT !.left = 2]
           e3 == [e2 EXCEPT !.status = "ACTIVE"]
           o1 == [op[p] EXCEPT !.todo = Tail(op[p].todo)]
           o  == [o1 EXCEPT !.ent = e3]
<1>5. /\ op' = [op EXCEPT ![p] = o]
      /\ lineage' = lineage \cup {d}
      /\ UNCHANGED <<row, key, chain, site, listed, isProcessing, mixed, requests, faults>>
      /\ Typed /\ JobsTyped
  <2>1. op \in [Process -> OpType \cup {Idle}] /\ op[p] \in OpType
    BY <1>2 DEF CertInv, Typed, FineOp
  <2>2. op' = [op EXCEPT ![p].todo = Tail(@), ![p].ent = [@ EXCEPT !.cert = v, !.left = 2, !.status = "ACTIVE"]]
    BY <1>1, <1>3 DEF Certbot
  <2>3. op' = [op EXCEPT ![p] = o]
    BY <1>1, <2>1, <2>2 DEF OpType, RowType
  <2> QED BY <1>1, <2>3 DEF Certbot, rowVars, fileVars, jobVars, CertInv
<1>6. e1 \in RowType
  BY <1>2, <1>4 DEF RowType
<1> HIDE DEF e1
<1>7. e2 \in RowType
  BY <1>6 DEF RowType, Left
<1> HIDE DEF e2
<1>8. e3 \in RowType /\ e3.status = "ACTIVE"
  BY <1>7 DEF RowType
<1> HIDE DEF e3
<1>9. o1 \in OpType /\ o1.todo = Tail(op[p].todo) /\ o1.kind = k /\ o1.dom = d
  <2>1. op[p] \in OpType /\ Tail(op[p].todo) \in UNION {Courses(c) : c \in Kinds}
    BY <1>2 DEF FineOp, Issues, Kinds
  <2> QED BY <1>1, <2>1 DEF OpType, Dom
<1> HIDE DEF o1
<1>10. o \in OpType /\ o.todo = Tail(op[p].todo) /\ o.kind = k /\ o.dom = d /\ o.ent = e3
  BY <1>8, <1>9 DEF OpType
<1> HIDE DEF o
<1>11. FineOp(o) /\ o # Idle
  BY <1>2, <1>8, <1>10, IdleFields, NoRowFields DEF FineOp
<1>12. d \notin mixed => Reached(d, k, "save", e3)'
  BY <1>2, <1>5 DEF Reached, Issues
<1>13. PICK z : z = o
  OBVIOUS
<1>14. Moves(p, d, z)
  <2>1. d \notin mixed => Reached(d, z.kind, Head(z.todo), z.ent)'
    BY <1>2, <1>10, <1>12, <1>13
  <2> QED BY <1>1, <1>2, <1>5, <1>10, <1>11, <1>13, <2>1 DEF Moves, Typed, JobsTyped
<1> QED BY <1>2, <1>14, MovesKeep


LEMMA FailStep ==
  ASSUME CertInv, NEW p \in Process, StepFails(p) PROVE CertInv'
<1>1. PICK d, e, k, s : d = Dom(p) /\ e = op[p].ent /\ k = op[p].kind /\ s = Head(op[p].todo)
  OBVIOUS
<1>2. At(p, s)
  BY <1>1 DEF StepFails, At
<1>3. /\ op[p] # Idle /\ d \in Domain /\ k \in Kinds /\ e.status # "none"
      /\ k = "remove" => s \in {"uninstall", "revoke", "delete", "audit"}
      /\ k = "upload" => s \in {"save", "key", "chain", "site", "audit"}
      /\ s \in {"certbot", "fail"} => k \in Issues
      /\ d \notin mixed => Reached(d, k, s, e)
  BY <1>1, <1>2, StepFields
<1>4. s # "revoke" /\ (s = "delete" => "delete" \in Fragile)
  BY <1>1 DEF StepFails, At
<1>5. /\ UNCHANGED <<row, key, chain, site, lineage, listed, isProcessing, mixed, requests>>
      /\ Typed /\ JobsTyped
  BY DEF StepFails, rowVars, fileVars, jobVars, CertInv
<1>6. faults' \in 0 .. MaxFaults
  BY <1>5, BoundAssumption DEF StepFails, JobsTyped
<1>7. PICK steps : steps = IF k \in Issues THEN ToFail ELSE <<>>
  OBVIOUS
<1>8. Continue(p, steps)
  BY <1>1, <1>7 DEF StepFails, OnError, Issues, ToFail
<1>9. ToFail # <<>> /\ Head(ToFail) = "fail"
  BY DEF ToFail
<1>10. steps = <<>> \/ steps \in Courses(k)
  BY <1>7 DEF Courses
<1>11. PICK o : /\ op' = [op EXCEPT ![p] = o]
                /\ steps = <<>> => o = Idle
                /\ steps # <<>> =>
                     /\ o # Idle /\ FineOp(o) /\ o.dom = Dom(p) /\ o.kind = op[p].kind
                     /\ o.ent = op[p].ent /\ o.todo = steps
  BY <1>1, <1>3, <1>5, <1>8, <1>10, ContinueFields
<1>12. CASE k \in Issues
  <2>1. o # Idle /\ FineOp(o) /\ o.dom = d /\ o.kind = k /\ Head(o.todo) = "fail"
    BY <1>1, <1>7, <1>9, <1>11, <1>12
  <2>2. d \notin mixed => Reached(d, k, "fail", o.ent)
    BY <1>3, <1>12 DEF Reached, Issues
  <2>3. d \notin mixed => Reached(d, k, "fail", o.ent)'
    BY <1>5, <2>2, SettledStays
  <2>4. Moves(p, d, o)
    BY <1>1, <1>3, <1>5, <1>6, <1>11, <2>1, <2>3 DEF Moves, Typed, JobsTyped
  <2> QED BY <1>3, <2>4, MovesKeep
<1>13. CASE k \notin Issues
  <2>1. o = Idle
    BY <1>7, <1>11, <1>13
  <2>2. d \notin mixed => Settled(d)
    <3>1. CASE k = "upload"
      BY <1>3, <3>1, NoRowFields DEF Reached, Settled
    <3>2. CASE k = "remove"
      BY <1>3, <1>4, <3>2, NoRowFields DEF Reached, Settled
    <3> QED BY <1>3, <1>13, <3>1, <3>2 DEF Kinds, Issues
  <2>3. d \notin mixed => Settled(d)'
    BY <1>5, <2>2, SettledStays
  <2>4. Moves(p, d, o)
    BY <1>1, <1>3, <1>5, <1>6, <1>11, <2>1, <2>3 DEF Moves, Typed, JobsTyped
  <2> QED BY <1>3, <2>4, MovesKeep
<1> QED BY <1>12, <1>13

LEMMA HandlerStep ==
  ASSUME CertInv, NEW p \in Process, Handler(p) PROVE CertInv'
BY CertbotStep, SaveStep, WriteKeyStep, WriteChainStep, EnableSiteStep, AuditStep, UninstallStep,
   RevokeStep, DeleteRowStep, FailStep, SaveFailedStep DEF Handler

-----------------------------------------------------------------------------
(* An operation begins.                                                     *)

\* Process p begins operation o on d.
Opens(p, d, o) ==
  /\ op[p] = Idle /\ op' = [op EXCEPT ![p] = o] /\ FineOp(o) /\ o.dom = d /\ d \in Domain
  /\ mixed' \subseteq Domain /\ \A c \in Domain \ {d} : c \in mixed' <=> c \in mixed
  /\ d \notin mixed' => Quiet(d) /\ Reached(d, o.kind, Head(o.todo), o.ent)'
  /\ UNCHANGED <<key, chain, site, lineage>>
  /\ row' \in [Domain -> RowType] /\ FineRow(row'[d]) /\ \A c \in Domain \ {d} : row'[c] = row[c]
  /\ JobsTyped'

LEMMA OpensKeep ==
  ASSUME CertInv, NEW p \in Process, NEW d, NEW o, Opens(p, d, o) PROVE CertInv'
<1>1. /\ op[p] = Idle /\ op' = [op EXCEPT ![p] = o] /\ FineOp(o) /\ o.dom = d /\ d \in Domain
      /\ op \in [Process -> OpType \cup {Idle}] /\ Typed
  BY DEF Opens, CertInv, Typed
<1>2. op'[p] = o /\ \A q \in Process \ {p} : op'[q] = op[q]
  BY <1>1
<1>3. Typed'
  <2>1. op' \in [Process -> OpType \cup {Idle}]
    BY <1>1 DEF FineOp
  <2>2. \A q \in Process : op'[q] = Idle \/ FineOp(op'[q])
    BY <1>1, <1>2 DEF Typed
  <2>3. \A c \in Domain : FineRow(row'[c])
    BY <1>1 DEF Opens, Typed
  <2> QED BY <1>1, <2>1, <2>2, <2>3 DEF Opens, Typed
<1>4. \A q \in Process : op[q] # Idle => Dom(q) \in Domain
  BY <1>1, BusyIs
<1>5. \A q \in Process \ {p} : Dom(q)' = Dom(q)
  BY <1>2 DEF Dom
<1>6. Dom(p)' = d
  BY <1>1, <1>2 DEF Dom
<1>7. d \notin mixed' => \A q \in Process : op[q] # Idle => Dom(q) # d
  BY <1>1, QuietIs DEF Opens
<1>8. Alone'
  <2>1. SUFFICES ASSUME NEW q \in Process, NEW r \in Process, q # r, op'[q] # Idle, op'[r] # Idle,
                        Dom(q)' = Dom(r)', Dom(q)' \notin mixed'
                 PROVE  FALSE
    BY DEF Alone
  <2>2. CASE q = p
    BY <1>2, <1>5, <1>6, <1>7, <2>1, <2>2
  <2>3. CASE r = p
    BY <1>2, <1>5, <1>6, <1>7, <2>1, <2>3
  <2>4. CASE q # p /\ r # p
    <3>1. op[q] # Idle /\ op[r] # Idle /\ Dom(q) = Dom(r) /\ Dom(q) \notin mixed' /\ Dom(q) \in Domain
      BY <1>2, <1>4, <1>5, <2>1, <2>4
    <3>2. Dom(q) # d
      BY <1>7, <3>1
    <3> QED BY <2>1, <3>1, <3>2 DEF Opens, CertInv, Alone
  <2> QED BY <2>2, <2>3, <2>4
<1>9. InPlace'
  <2>1. SUFFICES ASSUME NEW q \in Process, op'[q] # Idle, Dom(q)' \notin mixed'
                 PROVE  Reached(Dom(q), op[q].kind, Head(op[q].todo), op[q].ent)'
    BY DEF InPlace
  <2>2. CASE q = p
    <3>1. Reached(d, o.kind, Head(o.todo), o.ent)'
      BY <1>6, <2>1, <2>2 DEF Opens
    <3> QED BY <1>2, <1>6, <2>2, <3>1
  <2>3. CASE q # p
    <3>1. PICK c, k, s, t : c = Dom(q) /\ k = op[q].kind /\ s = Head(op[q].todo) /\ t = op[q].ent
      OBVIOUS
    <3>2. op'[q] = op[q] /\ op[q] # Idle /\ Dom(q)' = c /\ c \in Domain /\ c \notin mixed'
      BY <1>2, <1>4, <1>5, <2>1, <2>3, <3>1
    <3>3. c # d
      BY <1>7, <3>1, <3>2
    <3>4. Reached(c, k, s, t)
      BY <3>1, <3>2, <3>3 DEF Opens, CertInv, InPlace
    <3>5. Reached(c, k, s, t)'
      BY <3>2, <3>3, <3>4, SettledStays DEF Opens
    <3> QED BY <3>1, <3>2, <3>5
  <2> QED BY <2>2, <2>3
<1>10. AtRest'
  <2>1. SUFFICES ASSUME NEW c \in Domain \ mixed', Quiet(c)' PROVE Settled(c)'
    BY DEF AtRest
  <2>2. Busy(p)'
    <3>1. o.todo # <<>>
      BY <1>1, CourseSteps DEF FineOp, OpType
    <3> QED BY <1>2, <3>1 DEF Busy
  <2>3. c # d
    BY <1>6, <2>1, <2>2 DEF Quiet
  <2>4. Quiet(c)
    <3>1. ASSUME NEW q \in Process, Busy(q), Dom(q) = c PROVE FALSE
      <4>1. q # p
        BY <1>1, <3>1, IdleFields DEF Busy
      <4>2. Busy(q)' /\ Dom(q)' = c
        BY <1>2, <1>5, <3>1, <4>1 DEF Busy
      <4> QED BY <2>1, <4>2 DEF Quiet
    <3> QED BY <3>1 DEF Quiet
  <2>5. Settled(c)
    BY <2>1, <2>3, <2>4 DEF Opens, CertInv, AtRest
  <2> QED BY <2>1, <2>3, <2>5, SettledStays DEF Opens
<1>11. JobsTyped'
  BY DEF Opens
<1> QED BY <1>3, <1>8, <1>9, <1>10, <1>11 DEF CertInv

LEMMA OpenFields ==
  ASSUME CertInv, NEW p \in Process, NEW k \in Kinds, NEW d \in Domain, NEW steps \in Courses(k),
         NEW e \in RowType, e.status # "none", Open(p, k, d, steps, e)
  PROVE  \E o : /\ op' = [op EXCEPT ![p] = o] /\ FineOp(o) /\ o.dom = d
                /\ o.kind = k /\ o.todo = steps /\ o.ent = e
                /\ mixed' \subseteq Domain /\ \A c \in Domain \ {d} : c \in mixed' <=> c \in mixed
                /\ d \notin mixed' => Quiet(d) /\ (k = "request" \/ d \notin mixed)
<1>1. PICK o : o = [todo |-> steps, kind |-> k, dom |-> d, ent |-> e]
  OBVIOUS
<1>2. op' = [op EXCEPT ![p] = o]
  BY <1>1 DEF Open
<1>3. o \in OpType /\ FineOp(o) /\ o.dom = d /\ o.kind = k /\ o.todo = steps /\ o.ent = e
  <2>1. steps \in UNION {Courses(c) : c \in Kinds}
    OBVIOUS
  <2> QED BY <1>1, <2>1 DEF OpType, FineOp
<1>4. /\ mixed' \subseteq Domain /\ \A c \in Domain \ {d} : c \in mixed' <=> c \in mixed
      /\ d \notin mixed' => Quiet(d) /\ (k = "request" \/ d \notin mixed)
  <2>1. mixed \subseteq Domain
    BY DEF CertInv, Typed
  <2> QED BY <2>1 DEF Open
<1> QED BY <1>2, <1>3, <1>4

Words == {"certbot", "save", "key", "chain", "site", "audit"}

LEMMA StepsAre ==
  /\ Steps.request = ToCertbot /\ Steps.renew = ToCertbot
  /\ Steps.upload = ToSave /\ Steps.remove = ToUninstall
  /\ ToCertbot \in Courses("request") /\ ToFail \in Courses("request") /\ ToCertbot \in Courses("renew")
  /\ ToSave \in Courses("upload") /\ ToUninstall \in Courses("remove")
  /\ Head(ToCertbot) = "certbot" /\ Head(ToFail) = "fail" /\ Head(ToSave) = "save"
  /\ Head(ToUninstall) = "uninstall"
<1>1. Steps.request = ToCertbot /\ Steps.renew = ToCertbot
  <2> DEFINE a == <<"certbot", "save">>
             b == InstallSteps
             t == ToCertbot
  <2>1. a \in Seq(Words) /\ Len(a) = 2 /\ a[1] = "certbot" /\ a[2] = "save"
    BY DEF Words
  <2>2. /\ b \in Seq(Words) /\ Len(b) = 4
        /\ b[1] = "key" /\ b[2] = "chain" /\ b[3] = "site" /\ b[4] = "audit"
    BY DEF InstallSteps, Words
  <2>3. /\ t \in Seq(Words) /\ Len(t) = 6
        /\ t[1] = "certbot" /\ t[2] = "save" /\ t[3] = "key" /\ t[4] = "chain" /\ t[5] = "site" /\ t[6] = "audit"
    BY DEF ToCertbot, Words
  <2> HIDE DEF a, b, t
  <2>4. /\ a \o b \in Seq(Words) /\ Len(a \o b) = 6
        /\ \A i \in 1 .. 6 : (a \o b)[i] = IF i <= 2 THEN a[i] ELSE b[i - 2]
    <3>1. Len(a) + Len(b) = 6
      BY <2>1, <2>2
    <3>2. /\ a \o b \in Seq(Words) /\ Len(a \o b) = Len(a) + Len(b)
          /\ \A i \in 1 .. Len(a) + Len(b) : (a \o b)[i] = IF i <= Len(a) THEN a[i] ELSE b[i - Len(a)]
      BY <2>1, <2>2, ConcatProperties
    <3> QED BY <2>1, <3>1, <3>2
  <2>5. \A i \in 1 .. 6 : (a \o b)[i] = t[i]
    BY <2>1, <2>2, <2>3, <2>4
  <2>6. a \o b = t
    BY <2>3, <2>4, <2>5, SeqEqual
  <2> QED BY <2>6 DEF Steps, a, b, t
<1>2. Steps.upload = ToSave
  <2> DEFINE a == <<"save">>
             b == InstallSteps
             t == ToSave
  <2>1. a \in Seq(Words) /\ Len(a) = 1 /\ a[1] = "save"
    BY DEF Words
  <2>2. /\ b \in Seq(Words) /\ Len(b) = 4
        /\ b[1] = "key" /\ b[2] = "chain" /\ b[3] = "site" /\ b[4] = "audit"
    BY DEF InstallSteps, Words
  <2>3. /\ t \in Seq(Words) /\ Len(t) = 5
        /\ t[1] = "save" /\ t[2] = "key" /\ t[3] = "chain" /\ t[4] = "site" /\ t[5] = "audit"
    BY DEF ToSave, Words
  <2> HIDE DEF a, b, t
  <2>4. /\ a \o b \in Seq(Words) /\ Len(a \o b) = 5
        /\ \A i \in 1 .. 5 : (a \o b)[i] = IF i <= 1 THEN a[i] ELSE b[i - 1]
    <3>1. Len(a) + Len(b) = 5
      BY <2>1, <2>2
    <3>2. /\ a \o b \in Seq(Words) /\ Len(a \o b) = Len(a) + Len(b)
          /\ \A i \in 1 .. Len(a) + Len(b) : (a \o b)[i] = IF i <= Len(a) THEN a[i] ELSE b[i - Len(a)]
      BY <2>1, <2>2, ConcatProperties
    <3> QED BY <2>1, <3>1, <3>2
  <2>5. \A i \in 1 .. 5 : (a \o b)[i] = t[i]
    BY <2>1, <2>2, <2>3, <2>4
  <2>6. a \o b = t
    BY <2>3, <2>4, <2>5, SeqEqual
  <2> QED BY <2>6 DEF Steps, a, b, t
<1>3. Steps.remove = ToUninstall
  BY DEF Steps, ToUninstall
<1>4. /\ ToCertbot \in Courses("request") /\ ToFail \in Courses("request") /\ ToCertbot \in Courses("renew")
      /\ ToSave \in Courses("upload") /\ ToUninstall \in Courses("remove")
  BY DEF Courses, Issues, Installs
<1>5. Head(ToCertbot) = "certbot" /\ Head(ToFail) = "fail" /\ Head(ToSave) = "save"
  BY DEF ToCertbot, ToFail, ToSave
<1>6. Head(ToUninstall) = "uninstall"
  BY DEF ToUninstall
<1> QED BY <1>1, <1>2, <1>3, <1>4, <1>5, <1>6

LEMMA AskFields ==
  ASSUME CertInv, NEW p \in Process, NEW d \in Domain, Ask(p, d)
  PROVE  op[p] = Idle /\ requests' \in 0 .. MaxRequests
<1>1. op[p] = Idle
  BY BusyIs DEF Ask, CertInv
<1>2. requests' \in 0 .. MaxRequests
  BY BoundAssumption DEF Ask, CertInv, JobsTyped
<1> QED BY <1>1, <1>2

LEMMA RequestStep ==
  ASSUME CertInv, NEW p \in Process, NEW d \in Domain, Request(p, d) PROVE CertInv'
<1>1. op[p] = Idle /\ requests' \in 0 .. MaxRequests
  BY AskFields DEF Request
<1>2. /\ UNCHANGED <<key, chain, site, lineage, listed, isProcessing, faults>>
      /\ Typed /\ JobsTyped
  BY DEF Request, fileVars, jobVars, CertInv
<1>3. JobsTyped'
  BY <1>1, <1>2 DEF JobsTyped
<1>4. /\ row' \in [Domain -> RowType] /\ row'[d] # NoRow /\ row'[d].status # "none"
      /\ \A c \in Domain \ {d} : row'[c] = row[c]
  <2>1. CASE row[d] # NoRow /\ UNCHANGED row
    BY <1>2, <2>1 DEF Typed, FineRow
  <2>2. ASSUME NEW a \in BOOLEAN, row' = [row EXCEPT ![d] = NewRow("LETS_ENCRYPT", a)]
        PROVE  /\ row' \in [Domain -> RowType] /\ row'[d] # NoRow /\ row'[d].status # "none"
               /\ \A c \in Domain \ {d} : row'[c] = row[c]
    <3>1. PICK r : r = NewRow("LETS_ENCRYPT", a)
      OBVIOUS
    <3>2. r \in RowType /\ r.status = "PENDING" /\ NoRow.status = "none"
      BY <3>1, NoRowFields
    <3>3. row' = [row EXCEPT ![d] = r]
      BY <2>2, <3>1
    <3> HIDE <2>2
    <3> QED BY <1>2, <3>2, <3>3 DEF Typed
  <2> QED BY <2>1, <2>2 DEF Request
<1>5. PICK e : e = row'[d]
  OBVIOUS
<1>6. e \in RowType /\ e # NoRow /\ e.status # "none"
  BY <1>4, <1>5
<1>7. PICK steps \in {ToCertbot, ToFail} : Open(p, "request", d, steps, e)
  BY <1>5, StepsAre DEF Request, OnError, ToFail
<1>8. steps \in Courses("request") /\ Head(steps) \in {"certbot", "fail"}
  BY <1>7, StepsAre
<1>9. PICK o : /\ op' = [op EXCEPT ![p] = o] /\ FineOp(o) /\ o.dom = d
               /\ o.kind = "request" /\ o.todo = steps /\ o.ent = e
               /\ mixed' \subseteq Domain /\ \A c \in Domain \ {d} : c \in mixed' <=> c \in mixed
               /\ d \notin mixed' => Quiet(d)
  BY <1>6, <1>7, <1>8, OpenFields DEF Kinds
<1>10. Reached(d, "request", Head(steps), e)'
  BY <1>4, <1>8 DEF Reached, Issues
<1>11. Reached(d, o.kind, Head(o.todo), o.ent)'
  BY <1>9, <1>10
<1>12. Opens(p, d, o)
  BY <1>1, <1>2, <1>3, <1>4, <1>9, <1>11 DEF Opens, FineRow
<1> QED BY <1>12, OpensKeep

\* An operation that begins with the row as it is.
LEMMA BeginsKeep ==
  ASSUME CertInv, NEW p \in Process, NEW k \in Kinds \ {"request"}, NEW d \in Domain,
         NEW steps \in Courses(k), NEW e \in RowType, e.status # "none", op[p] = Idle,
         Open(p, k, d, steps, e), UNCHANGED <<row, key, chain, site, lineage>>, JobsTyped',
         d \notin mixed /\ Settled(d) => Reached(d, k, Head(steps), e)
  PROVE  CertInv'
<1>1. PICK o : /\ op' = [op EXCEPT ![p] = o] /\ FineOp(o) /\ o.dom = d
               /\ o.kind = k /\ o.todo = steps /\ o.ent = e
               /\ mixed' \subseteq Domain /\ \A c \in Domain \ {d} : c \in mixed' <=> c \in mixed
               /\ d \notin mixed' => Quiet(d) /\ d \notin mixed
  BY OpenFields
<1>2. d \notin mixed' => Reached(d, k, Head(steps), e)
  BY <1>1 DEF CertInv, AtRest
<1>3. PICK s : s = Head(steps)
  OBVIOUS
<1>4. d \notin mixed' => Reached(d, k, s, e)'
  BY <1>2, <1>3, SettledStays
<1>5. d \notin mixed' => Reached(d, o.kind, Head(o.todo), o.ent)'
  BY <1>1, <1>3, <1>4
<1>6. Opens(p, d, o)
  BY <1>1, <1>5 DEF Opens, CertInv, Typed
<1> QED BY <1>6, OpensKeep

LEMMA UploadStep ==
  ASSUME CertInv, NEW p \in Process, NEW d \in Domain, Upload(p, d) PROVE CertInv'
<1>1. op[p] = Idle /\ requests' \in 0 .. MaxRequests
  BY AskFields DEF Upload
<1>2. /\ UNCHANGED <<row, key, chain, site, lineage, listed, isProcessing, faults>>
      /\ Typed /\ JobsTyped
  BY DEF Upload, rowVars, fileVars, jobVars, CertInv
<1>3. JobsTyped'
  BY <1>1, <1>2 DEF JobsTyped
<1>4. PICK a \in BOOLEAN, l \in Left :
        LET old == IF row[d] = NoRow THEN NewRow("CUSTOM", a) ELSE row[d]
        IN  Open(p, "upload", d, Steps.upload,
                 [old EXCEPT !.type = "CUSTOM", !.status = "ACTIVE", !.cert = Fresh(d), !.left = l])
  BY DEF Upload
<1>5. PICK v : v = Fresh(d)
  OBVIOUS
<1>6. v \in Version
  BY <1>2, <1>5, FreshIs
<1>7. PICK e0 : e0 = IF row[d] = NoRow THEN NewRow("CUSTOM", a) ELSE row[d]
  OBVIOUS
<1>8. e0 \in RowType
  BY <1>2, <1>7, NoRowFields DEF Typed
<1> DEFINE e1 == [e0 EXCEPT !.type = "CUSTOM"]
           e2 == [e1 EXCEPT !.status = "ACTIVE"]
           e3 == [e2 EXCEPT !.cert = v]
           e  == [e3 EXCEPT !.left = l]
<1>9. Open(p, "upload", d, ToSave, e)
  BY <1>4, <1>5, <1>7, StepsAre
<1>10. e1 \in RowType /\ e1.type = "CUSTOM"
  BY <1>8 DEF RowType
<1> HIDE DEF e1
<1>11. e2 \in RowType /\ e2.type = "CUSTOM" /\ e2.status = "ACTIVE"
  BY <1>10 DEF RowType
<1> HIDE DEF e2
<1>12. e3 \in RowType /\ e3.type = "CUSTOM" /\ e3.status = "ACTIVE"
  BY <1>6, <1>11 DEF RowType
<1> HIDE DEF e3
<1>13. e \in RowType /\ e.type = "CUSTOM" /\ e.status = "ACTIVE"
  BY <1>12 DEF RowType
<1> HIDE DEF e
<1>14. Settled(d) => Reached(d, "upload", Head(ToSave), e)
  BY <1>13, StepsAre DEF Reached, Issues
<1> QED BY <1>1, <1>2, <1>3, <1>9, <1>13, <1>14, StepsAre, BeginsKeep DEF Kinds

LEMMA RenewStep ==
  ASSUME CertInv, NEW p \in Process, NEW d \in Domain, NEW force \in BOOLEAN, Renewable(row[d], force),
         op[p] = Idle, Open(p, "renew", d, Steps.renew, row[d]),
         UNCHANGED <<row, key, chain, site, lineage>>, JobsTyped'
  PROVE  CertInv'
<1>1. row[d] \in RowType /\ row[d] # NoRow /\ row[d].status # "none"
  BY NoRowFields DEF Renewable, CertInv, Typed, FineRow
<1>2. Reached(d, "renew", Head(ToCertbot), row[d])
  BY <1>1, StepsAre DEF Reached, Issues
<1> QED BY <1>1, <1>2, StepsAre, BeginsKeep DEF Kinds

LEMMA RenewByHandStep ==
  ASSUME CertInv, NEW p \in Process, NEW d \in Domain, RenewByHand(p, d) PROVE CertInv'
<1>1. op[p] = Idle /\ requests' \in 0 .. MaxRequests
  BY AskFields DEF RenewByHand
<1>2. /\ UNCHANGED <<row, key, chain, site, lineage, listed, isProcessing, faults>>
      /\ JobsTyped
  BY DEF RenewByHand, rowVars, fileVars, jobVars, CertInv
<1>3. JobsTyped'
  BY <1>1, <1>2 DEF JobsTyped
<1> QED BY <1>1, <1>2, <1>3, RenewStep DEF RenewByHand

LEMMA RemoveStep ==
  ASSUME CertInv, NEW p \in Process, NEW d \in Domain, Remove(p, d) PROVE CertInv'
<1>1. op[p] = Idle /\ requests' \in 0 .. MaxRequests
  BY AskFields DEF Remove
<1>2. /\ UNCHANGED <<row, key, chain, site, lineage, listed, isProcessing, faults>>
      /\ JobsTyped
  BY DEF Remove, rowVars, fileVars, jobVars, CertInv
<1>3. JobsTyped'
  BY <1>1, <1>2 DEF JobsTyped
<1>4. row[d] \in RowType /\ row[d].status # "none"
  BY DEF Remove, CertInv, Typed, FineRow
<1>5. Settled(d) => Reached(d, "remove", Head(ToUninstall), row[d])
  BY StepsAre DEF Reached, Issues
<1> QED BY <1>1, <1>2, <1>3, <1>4, <1>5, StepsAre, BeginsKeep DEF Remove, Kinds

-----------------------------------------------------------------------------
(* The jobs and the days.                                                   *)

LEMMA OffIs == Off \notin SUBSET Domain /\ {} # Off
<1>1. "off" \in Off /\ "off" \notin Domain
  BY DomainAssumption DEF Off
<1> QED BY <1>1

\* What neither an operation nor a file or row takes part in.
LEMMA RestKeeps ==
  ASSUME CertInv, UNCHANGED <<row, key, chain, site, lineage, op, mixed>>, JobsTyped'
  PROVE  CertInv'
<1>1. Typed'
  BY DEF CertInv, Typed
<1>2. Alone'
  BY DEF CertInv, Alone, Dom
<1>3. InPlace'
  BY DEF CertInv, InPlace, Reached, Settled, Dom
<1>4. AtRest'
  BY DEF CertInv, AtRest, Settled, Quiet, Busy, Dom
<1> QED BY <1>1, <1>2, <1>3, <1>4 DEF CertInv

LEMMA JobsStep == ASSUME CertInv, NEW j \in Job, Jobs(j) PROVE CertInv'
<1>1. j \in Process /\ JobsTyped /\ listed[j] \in (SUBSET Domain) \cup {Off}
  BY DEF Process, CertInv, JobsTyped
<1>2. CASE StartJob(j)
  <2>1. /\ UNCHANGED <<row, key, chain, site, lineage, op, mixed, requests, faults>>
        /\ listed' = [listed EXCEPT ![j] = Wanted(j)] /\ listed[j] = Off
        /\ IF j = "night" THEN isProcessing' = TRUE ELSE isProcessing' = isProcessing
    BY <1>2 DEF StartJob, rowVars, fileVars
  <2>2. Wanted(j) \in SUBSET Domain
    BY DEF Wanted
  <2>3. listed' \in [Job -> (SUBSET Domain) \cup {Off}]
    BY <1>1, <2>1, <2>2 DEF JobsTyped
  <2>4. isProcessing' = (listed'["night"] # Off)
    <3>1. CASE j = "night"
      <4>1. listed'["night"] = Wanted(j)
        BY <1>1, <2>1, <3>1 DEF JobsTyped
      <4>2. listed'["night"] # Off
        BY <2>2, <4>1, OffIs
      <4> QED BY <2>1, <3>1, <4>2
    <3>2. CASE j # "night"
      <4>1. listed'["night"] = listed["night"]
        BY <1>1, <2>1, <3>2 DEF JobsTyped
      <4>2. isProcessing' = isProcessing
        BY <2>1, <3>2
      <4> QED BY <1>1, <4>1, <4>2 DEF JobsTyped
    <3> QED BY <3>1, <3>2
  <2>5. JobsTyped'
    BY <1>1, <2>1, <2>3, <2>4 DEF JobsTyped
  <2> QED BY <2>1, <2>5, RestKeeps
<1>3. CASE ListFails(j)
  <2>1. UNCHANGED <<row, key, chain, site, lineage, op, mixed, requests, listed, isProcessing>>
    BY <1>3 DEF ListFails, rowVars, fileVars, jobVars
  <2>2. faults' \in 0 .. MaxFaults
    BY <1>1, <1>3, BoundAssumption DEF ListFails, JobsTyped
  <2>3. JobsTyped'
    BY <1>1, <2>1, <2>2 DEF JobsTyped
  <2> QED BY <2>1, <2>3, RestKeeps
<1>4. CASE JobRenews(j)
  <2>1. PICK d \in listed[j] \cap Domain :
          /\ listed[j] # Off /\ op[j] = Idle
          /\ listed' = [listed EXCEPT ![j] = listed[j] \ {d}]
          /\ IF Renewable(row[d], j = "week")
               THEN Open(j, "renew", d, Steps.renew, row[d])
               ELSE UNCHANGED <<op, mixed>>
          /\ UNCHANGED <<row, key, chain, site, lineage, isProcessing, requests, faults>>
    BY <1>4 DEF JobRenews, rowVars, fileVars
  <2>2. listed[j] \ {d} \in SUBSET Domain
    BY <1>1, <2>1
  <2>3. listed' \in [Job -> (SUBSET Domain) \cup {Off}]
    BY <1>1, <2>1, <2>2 DEF JobsTyped
  <2>4. (listed'["night"] # Off) <=> (listed["night"] # Off)
    <3>1. CASE j = "night"
      <4>1. listed'["night"] = listed[j] \ {d}
        BY <1>1, <2>1, <3>1 DEF JobsTyped
      <4> QED BY <2>1, <2>2, <3>1, <4>1, OffIs
    <3>2. CASE j # "night"
      BY <1>1, <2>1, <3>2 DEF JobsTyped
    <3> QED BY <3>1, <3>2
  <2>5. JobsTyped'
    BY <1>1, <2>1, <2>3, <2>4 DEF JobsTyped
  <2>6. CASE Renewable(row[d], j = "week")
    <3>1. Open(j, "renew", d, Steps.renew, row[d])
      BY <2>1, <2>6
    <3>2. PICK force \in BOOLEAN : force = (j = "week")
      OBVIOUS
    <3> QED BY <1>1, <2>1, <2>5, <2>6, <3>1, <3>2, RenewStep
  <2>7. CASE ~Renewable(row[d], j = "week")
    BY <2>1, <2>5, <2>7, RestKeeps
  <2> QED BY <2>6, <2>7
<1>5. CASE EndJob(j)
  <2>1. /\ UNCHANGED <<row, key, chain, site, lineage, op, mixed, requests, faults>>
        /\ listed' = [listed EXCEPT ![j] = Off]
        /\ isProcessing' = (isProcessing /\ j # "night")
    BY <1>5 DEF EndJob, rowVars, fileVars
  <2>2. listed' \in [Job -> (SUBSET Domain) \cup {Off}]
    BY <1>1, <2>1 DEF JobsTyped
  <2>3. isProcessing' = (listed'["night"] # Off)
    <3>1. CASE j = "night"
      BY <1>1, <2>1, <3>1 DEF JobsTyped
    <3>2. CASE j # "night"
      <4>1. listed'["night"] = listed["night"]
        BY <1>1, <2>1, <3>2 DEF JobsTyped
      <4>2. isProcessing \in BOOLEAN
        BY <1>1 DEF JobsTyped
      <4>3. isProcessing' = isProcessing
        BY <2>1, <3>2, <4>2
      <4> QED BY <1>1, <4>1, <4>3 DEF JobsTyped
    <3> QED BY <3>1, <3>2
  <2>4. JobsTyped'
    BY <1>1, <2>1, <2>2, <2>3 DEF JobsTyped
  <2> QED BY <2>1, <2>4, RestKeeps
<1> QED BY <1>2, <1>3, <1>4, <1>5 DEF Jobs

LEMMA AgeStep == ASSUME CertInv, NEW d \in Domain, Age(d) PROVE CertInv'
<1>1. /\ UNCHANGED <<key, chain, site, lineage, op, listed, isProcessing, mixed, requests, faults>>
      /\ Typed /\ JobsTyped
  BY DEF Age, fileVars, jobVars, CertInv
<1>2. PICK r : r = [row[d] EXCEPT !.left = row[d].left - 1]
  OBVIOUS
<1>3. row' = [row EXCEPT ![d] = r]
  BY <1>1, <1>2 DEF Age, Typed
<1>4. row[d] \in RowType /\ row[d] # NoRow /\ row[d].status # "none" /\ row[d].left \in 1 .. 2
  <2>1. row[d] \in RowType /\ FineRow(row[d])
    BY <1>1 DEF Typed
  <2>2. row[d] # NoRow
    BY NoRowFields DEF Age
  <2>3. row[d].left \in 0 .. 2 /\ row[d].left > 0
    BY <2>1 DEF Age, RowType, Left
  <2> QED BY <2>1, <2>2, <2>3 DEF FineRow
<1>5. /\ r \in RowType /\ r.status = row[d].status /\ r.type = row[d].type /\ r.cert = row[d].cert
  BY <1>2, <1>4 DEF RowType, Left
<1>6. r # NoRow
  BY <1>4, <1>5, NoRowFields
<1>7. /\ row' \in [Domain -> RowType] /\ row'[d] = r /\ \A c \in Domain \ {d} : row'[c] = row[c]
  BY <1>1, <1>3, <1>5 DEF Typed
<1>8. Typed'
  BY <1>1, <1>4, <1>5, <1>7 DEF Typed, FineRow
<1>9. JobsTyped'
  BY <1>1 DEF JobsTyped
<1>10. Alone'
  BY <1>1 DEF CertInv, Alone, Dom
<1>11. \A p \in Process : op[p] # Idle => Dom(p) \in Domain /\ Dom(p) # d
  BY <1>1, BusyIs DEF Age, Quiet
<1>12. InPlace'
  <2>1. SUFFICES ASSUME NEW q \in Process, op'[q] # Idle, Dom(q)' \notin mixed'
                 PROVE  Reached(Dom(q), op[q].kind, Head(op[q].todo), op[q].ent)'
    BY DEF InPlace
  <2>2. PICK c, k, s, t : c = Dom(q) /\ k = op[q].kind /\ s = Head(op[q].todo) /\ t = op[q].ent
    OBVIOUS
  <2>3. op'[q] = op[q] /\ op[q] # Idle /\ Dom(q)' = c /\ c \in Domain \ {d} /\ c \notin mixed
    BY <1>1, <1>11, <2>1, <2>2 DEF Dom
  <2>4. Reached(c, k, s, t)
    BY <2>2, <2>3 DEF CertInv, InPlace
  <2>5. Reached(c, k, s, t)'
    BY <1>1, <1>7, <2>3, <2>4, SettledStays
  <2> QED BY <2>2, <2>3, <2>5
<1>13. AtRest'
  <2>1. SUFFICES ASSUME NEW c \in Domain \ mixed', Quiet(c)' PROVE Settled(c)'
    BY DEF AtRest
  <2>2. Settled(c)
    BY <1>1, <2>1 DEF CertInv, AtRest, Quiet, Busy, Dom
  <2>3. CASE c = d
    BY <1>1, <1>4, <1>5, <1>6, <1>7, <2>2, <2>3 DEF Settled
  <2>4. CASE c # d
    BY <1>1, <1>7, <2>2, <2>4, SettledStays
  <2> QED BY <2>3, <2>4
<1> QED BY <1>8, <1>9, <1>10, <1>12, <1>13 DEF CertInv

-----------------------------------------------------------------------------
(* The theorems.                                                            *)

LEMMA CertInit == Init => CertInv
<1>1. SUFFICES ASSUME Init PROVE CertInv
  OBVIOUS
<1>2. Typed
  <2>1. row \in [Domain -> RowType] /\ \A d \in Domain : FineRow(row[d])
    BY <1>1, NoRowFields DEF Init, FineRow
  <2> QED BY <1>1, <2>1 DEF Init, Typed
<1>3. JobsTyped
  <2>1. listed = [j \in Job |-> Off] /\ isProcessing = FALSE /\ requests = 0 /\ faults = 0
    BY <1>1 DEF Init
  <2>2. listed["night"] = Off
    BY <2>1 DEF Job
  <2>3. listed \in [Job -> (SUBSET Domain) \cup {Off}]
    BY <2>1
  <2>4. isProcessing = (listed["night"] # Off)
    BY <2>1, <2>2
  <2> QED BY <2>1, <2>3, <2>4, BoundAssumption DEF JobsTyped
<1>4. Alone /\ InPlace
  BY <1>1 DEF Init, Alone, InPlace
<1>5. AtRest
  BY <1>1, NoRowFields DEF Init, AtRest, Settled
<1> QED BY <1>2, <1>3, <1>4, <1>5 DEF CertInv

LEMMA CertNext == ASSUME CertInv, [Next]_vars PROVE CertInv'
<1>1. CASE UNCHANGED vars
  <2>1. UNCHANGED <<row, key, chain, site, lineage, op, mixed>>
    BY <1>1 DEF vars
  <2>2. JobsTyped'
    BY <1>1 DEF vars, CertInv, JobsTyped
  <2> QED BY <2>1, <2>2, RestKeeps
<1>2. ASSUME NEW p \in Client, NEW d \in Domain,
             Request(p, d) \/ Upload(p, d) \/ RenewByHand(p, d) \/ Remove(p, d)
      PROVE  CertInv'
  <2>1. p \in Process
    BY DEF Process
  <2> QED BY <1>2, <2>1, RequestStep, UploadStep, RenewByHandStep, RemoveStep
<1>3. ASSUME NEW p \in Process, Handler(p) PROVE CertInv'
  BY <1>3, HandlerStep
<1>4. ASSUME NEW j \in Job, Jobs(j) PROVE CertInv'
  BY <1>4, JobsStep
<1>5. ASSUME NEW d \in Domain, Age(d) PROVE CertInv'
  BY <1>5, AgeStep
<1> QED BY <1>1, <1>2, <1>3, <1>4, <1>5 DEF Next

LEMMA CertAlways == Spec => []CertInv
<1>1. CertInv /\ [Next]_vars => CertInv'
  BY CertNext
<1> QED BY <1>1, CertInit, PTL DEF Spec

LEMMA CertTypes == CertInv => TypeOK
<1>1. SUFFICES ASSUME CertInv PROVE TypeOK
  OBVIOUS
<1>2. \A p \in Process : op[p].ent \in RowType
  BY <1>1, IdleFields, NoRowFields DEF CertInv, Typed, FineOp, OpType
<1> QED BY <1>1, <1>2 DEF CertInv, Typed, JobsTyped, TypeOK

\* Rows, files, operations and job lists keep their types, and isProcessing
\* is set exactly while the nightly renewal runs (SslRenewalProcessor).
THEOREM CertificatesTyped == Spec => []TypeOK
BY CertAlways, CertTypes, PTL

\* Of every domain at rest whose last operations did not overlap: an active
\* certificate of Let's Encrypt is the one whose key and chain Apache reads,
\* wherever a request or renewal failed before, and a domain without a row has
\* no SSL site (SslService).  Provided that the row of a removed certificate
\* can be deleted.
THEOREM SitesInStep == ASSUME "delete" \notin Fragile PROVE Spec => []SitesFollowRows
<1>1. CertInv => SitesFollowRows
  BY DEF CertInv, AtRest, Settled, SitesFollowRows
<1> QED BY <1>1, CertAlways, PTL
=============================================================================
