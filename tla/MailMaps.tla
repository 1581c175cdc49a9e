------------------------------ MODULE MailMaps ------------------------------
(***************************************************************************)
(* The mail of one domain (modules/mail): its row, the rows of mailboxes   *)
(* and aliases, and the files made from them whole, which Postfix and      *)
(* Dovecot read.  Every request saves its row and then rewrites the files  *)
(* from what it reads of all rows; nothing keeps two requests apart, and   *)
(* what tee, postmap and the reloads return is not looked at.  The         *)
(* directories the mail is in are left out: nothing is decided by them.    *)
(***************************************************************************)
EXTENDS Naturals, Sequences, FiniteSets

CONSTANTS Box,          \* mailboxes, by local part
          Alias,        \* aliases, by source
          MaxBoxes,     \* MailDomain.maxMailboxes, at least 1
          Mailer,       \* requests that may be in flight at once
          MaxMailings,  \* bound on requests
          MaxMailFaults \* bound on steps that fail

ASSUME MailAssumption ==
  Mailer \subseteq Nat /\ {MaxBoxes, MaxMailings, MaxMailFaults} \subseteq Nat /\ MaxBoxes > 0

\* A request says what it is about by name: rows of different tables do not share any.
ASSUME NamesApart == Box \cap Alias = {} /\ "domain" \notin Box \cup Alias

VARIABLES
  domain,   \* the MailDomain row: none, off, on, or catch (enabled with a catch-all)
  box,      \* the row of each mailbox: none, active or idle
  alias,    \* the row of each alias: none, on or off
  lookup,   \* what each file holds
  mailing,  \* requests in flight, each with the rows it has read
  tainted,  \* history: files left by a request that failed or did not run alone
  mailings, mailFaults

mailRows == <<domain, box, alias>>
mailVars == <<domain, box, alias, lookup, mailing, tainted, mailings, mailFaults>>

\* What a row says.
DomainValues == {"off", "on", "catch"}
BoxValues    == {"active", "idle"}
AliasValues  == {"on", "off"}

\* The four maps of Postfix and the password file of Dovecot.
MailFiles == {"domains", "boxes", "aliases", "senders", "logins"}
CatchAll  == "@"

\* isActive is in the query of one reader and in the loop of the other.
ActiveBoxes == {b \in Box : box[b] = "active"}

EnabledAliases == {a \in Alias : alias[a] = "on"}
DomainEnabled  == domain \in {"on", "catch"}

\* What a file should hold.
Wanted == [domains |-> IF DomainEnabled THEN {"domain"} ELSE {},
           boxes   |-> ActiveBoxes,
           aliases |-> EnabledAliases \cup (IF domain = "catch" THEN {CatchAll} ELSE {}),
           senders |-> ActiveBoxes,
           logins  |-> ActiveBoxes]

\* Steps of the two synchronisations, each an await.
SyncDovecot == <<"readLogins", "writeLogins">>
SyncPostfix == <<"readDomains", "readBoxes", "readAliases",
                 "writeDomains", "writeBoxes", "writeAliases", "writeSenders">>

NoMailing == [kind |-> "none", of |-> "none", to |-> "none", todo |-> <<>>, alone |-> FALSE,
              logins |-> {}, domains |-> "none", boxes |-> {}, aliases |-> {}]

MailQuiet    == \A p \in Mailer : mailing[p] = NoMailing
MailAt(p, s) == mailing[p].todo # <<>> /\ Head(mailing[p].todo) = s

MailInit ==
  /\ domain = "none"
  /\ box = [b \in Box |-> "none"] /\ alias = [a \in Alias |-> "none"]
  /\ lookup = [f \in MailFiles |-> {}]
  /\ mailing = [p \in Mailer |-> NoMailing]
  /\ tainted = {} /\ mailings = 0 /\ mailFaults = 0

-----------------------------------------------------------------------------
(* Requests: what each checks, and its steps.                               *)

\* Requests in flight are numbered; one that starts while another runs takes
\* that one's being alone with it.
MailOpen(p, kind, of, to, steps) ==
  /\ mailing[p] = NoMailing /\ \A q \in Mailer : q < p => mailing[q] # NoMailing
  /\ mailings < MaxMailings /\ mailings' = mailings + 1
  /\ mailing' = [q \in Mailer |->
       IF q = p THEN [NoMailing EXCEPT !.kind = kind, !.of = of, !.to = to, !.todo = steps,
                                       !.alone = MailQuiet]
       ELSE [mailing[q] EXCEPT !.alone = FALSE]]
  /\ UNCHANGED <<domain, box, alias, lookup, tainted, mailFaults>>

EnableMailForDomain(p) ==
  /\ domain = "none"
  /\ \E v \in DomainValues : MailOpen(p, "enable", "domain", v, <<"save">> \o SyncPostfix)

UpdateMailDomain(p) ==
  /\ domain # "none"
  /\ \E v \in DomainValues : MailOpen(p, "domain", "domain", v, <<"save">> \o SyncPostfix)

\* Only when it has no mailboxes; its aliases go with it.
DisableMailForDomain(p) ==
  /\ domain # "none" /\ \A b \in Box : box[b] = "none"
  /\ MailOpen(p, "disable", "domain", "none", <<"remove">> \o SyncPostfix)

\* Mutant: Postfix first.
CreateMailbox_PostfixFirst(p, b) ==
  /\ DomainEnabled /\ box[b] = "none"
  /\ Cardinality({c \in Box : box[c] # "none"}) < MaxBoxes
  /\ \E v \in BoxValues :
       MailOpen(p, "newBox", b, v, <<"save">> \o SyncPostfix \o SyncDovecot)

CreateMailbox(p, b) ==
  /\ DomainEnabled /\ box[b] = "none"
  /\ Cardinality({c \in Box : box[c] # "none"}) < MaxBoxes
  /\ \E v \in BoxValues :
       MailOpen(p, "newBox", b, v, <<"save">> \o SyncDovecot \o SyncPostfix)

UpdateMailbox(p, b) ==
  /\ box[b] # "none"
  /\ \E v \in BoxValues :
       MailOpen(p, "box", b, v, <<"save">> \o SyncDovecot \o SyncPostfix)

\* Mutant: the files are rewritten before the row is removed.
DeleteMailbox_SyncFirst(p, b) ==
  /\ box[b] # "none"
  /\ MailOpen(p, "box", b, "none", SyncDovecot \o SyncPostfix \o <<"remove">>)

DeleteMailbox(p, b) ==
  /\ box[b] # "none"
  /\ MailOpen(p, "box", b, "none", <<"remove">> \o SyncDovecot \o SyncPostfix)

CreateAlias(p, a) ==
  /\ DomainEnabled /\ alias[a] = "none"
  /\ \E v \in AliasValues : MailOpen(p, "newAlias", a, v, <<"save">> \o SyncPostfix)

UpdateAlias(p, a) ==
  /\ alias[a] # "none"
  /\ \E v \in AliasValues : MailOpen(p, "alias", a, v, <<"save">> \o SyncPostfix)

DeleteAlias(p, a) ==
  /\ alias[a] # "none"
  /\ MailOpen(p, "alias", a, "none", <<"remove">> \o SyncPostfix)

-----------------------------------------------------------------------------
(* Steps of a request.                                                      *)

\* Files a request rewrites.
Rewrites(p) == IF mailing[p].kind \in {"newBox", "box"} THEN MailFiles ELSE MailFiles \ {"logins"}

\* The last step: files are in order again if the request ran alone.
MailAdvance(p, taint) ==
  LET m == mailing[p] IN
  IF Len(m.todo) > 1
  THEN /\ mailing' = [mailing EXCEPT ![p].todo = Tail(@), ![p].alone = @ /\ taint = {}]
       /\ tainted' = tainted \cup taint
  ELSE /\ mailing' = [mailing EXCEPT ![p] = NoMailing]
       /\ tainted' = IF m.alone /\ taint = {} THEN tainted \ Rewrites(p)
                     ELSE tainted \cup taint \cup Rewrites(p)

MailAbort(p) ==
  /\ mailing' = [mailing EXCEPT ![p] = NoMailing]
  /\ tainted' = tainted \cup MailFiles

\* A row that a create would add is there by now: its index is unique.
Duplicate(p) ==
  \/ mailing[p].kind = "enable"   /\ domain # "none"
  \/ mailing[p].kind = "newBox"   /\ box[mailing[p].of] # "none"
  \/ mailing[p].kind = "newAlias" /\ alias[mailing[p].of] # "none"

\* The domain a mailbox or an alias refers to has gone.
Dangling(p) == mailing[p].of # "domain" /\ domain = "none"

\* save() of a row that was deleted since it was loaded inserts it again.
SaveMailRow(p) ==
  LET m == mailing[p] IN
  /\ MailAt(p, "save") /\ ~Duplicate(p) /\ ~Dangling(p)
  /\ CASE m.of = "domain" -> domain' = m.to /\ UNCHANGED <<box, alias>>
       [] m.of \in Box    -> box' = [box EXCEPT ![m.of] = m.to] /\ UNCHANGED <<domain, alias>>
       [] OTHER           -> alias' = [alias EXCEPT ![m.of] = m.to] /\ UNCHANGED <<domain, box>>
  /\ MailAdvance(p, {})
  /\ UNCHANGED <<lookup, mailings, mailFaults>>

\* Mutant: rows of the mailboxes of a domain stay.
RemoveMailRow_KeepBoxes(p) ==
  LET m == mailing[p] IN
  /\ MailAt(p, "remove")
  /\ CASE m.of = "domain" -> domain' = "none" /\ UNCHANGED <<box, alias>>
       [] m.of \in Box    -> box' = [box EXCEPT ![m.of] = "none"] /\ UNCHANGED <<domain, alias>>
       [] OTHER           -> alias' = [alias EXCEPT ![m.of] = "none"] /\ UNCHANGED <<domain, box>>
  /\ MailAdvance(p, {})
  /\ UNCHANGED <<lookup, mailings, mailFaults>>

\* remove(): rows of the mailboxes and aliases of a domain go with it.
RemoveMailRow(p) ==
  LET m == mailing[p] IN
  /\ MailAt(p, "remove")
  /\ CASE m.of = "domain" -> /\ domain' = "none"
                             /\ box' = [b \in Box |-> "none"] /\ alias' = [a \in Alias |-> "none"]
       [] m.of \in Box    -> box' = [box EXCEPT ![m.of] = "none"] /\ UNCHANGED <<domain, alias>>
       [] OTHER           -> alias' = [alias EXCEPT ![m.of] = "none"] /\ UNCHANGED <<domain, box>>
  /\ MailAdvance(p, {})
  /\ UNCHANGED <<lookup, mailings, mailFaults>>

\* The rows are read once, each kind by a query of its own.
ReadRows(p) ==
  LET m == mailing[p] IN
  /\ \E s \in {"readLogins", "readDomains", "readBoxes", "readAliases"} :
       /\ MailAt(p, s)
       /\ LET read == CASE s = "readLogins"  -> [m EXCEPT !.logins = ActiveBoxes]
                        [] s = "readDomains" -> [m EXCEPT !.domains = domain]
                        [] s = "readBoxes"   -> [m EXCEPT !.boxes = ActiveBoxes]
                        [] OTHER             -> [m EXCEPT !.aliases = EnabledAliases]
          IN mailing' = [mailing EXCEPT ![p] = [read EXCEPT !.todo = Tail(m.todo)]]
  /\ UNCHANGED <<mailRows, lookup, tainted, mailings, mailFaults>>

\* What a step of a synchronisation writes, made of the rows it has read.
Content(m) ==
  [writeLogins  |-> [file |-> "logins",  is |-> m.logins],
   writeDomains |-> [file |-> "domains", is |-> IF m.domains \in {"on", "catch"} THEN {"domain"} ELSE {}],
   writeBoxes   |-> [file |-> "boxes",   is |-> m.boxes],
   writeAliases |-> [file |-> "aliases", is |-> m.aliases \cup (IF m.domains = "catch" THEN {CatchAll} ELSE {})],
   writeSenders |-> [file |-> "senders", is |-> m.boxes]]

WriteSteps == {"writeLogins", "writeDomains", "writeBoxes", "writeAliases", "writeSenders"}

\* tee, then postmap for a map of Postfix: what is looked up is the built map.
WriteMap(p) ==
  /\ \E s \in WriteSteps :
       /\ MailAt(p, s)
       /\ LET c == Content(mailing[p])[s] IN lookup' = [lookup EXCEPT ![c.file] = c.is]
  /\ MailAdvance(p, {})
  /\ UNCHANGED <<mailRows, mailings, mailFaults>>

\* tee or postmap fails: the file is left behind, and the request goes on and
\* answers as if it were not.
WriteFails(p) ==
  /\ mailFaults < MaxMailFaults /\ mailFaults' = mailFaults + 1
  /\ \E s \in WriteSteps : MailAt(p, s) /\ MailAdvance(p, {Content(mailing[p])[s].file})
  /\ UNCHANGED <<mailRows, lookup, mailings>>

\* The database refuses the row, or fails: the request ends where it is.
MailRequestFails(p) ==
  /\ \/ MailAt(p, "save") /\ (Duplicate(p) \/ Dangling(p)) /\ UNCHANGED mailFaults
     \/ /\ \E s \in {"save", "remove", "readLogins", "readDomains", "readBoxes", "readAliases"} : MailAt(p, s)
        /\ mailFaults < MaxMailFaults /\ mailFaults' = mailFaults + 1
  /\ MailAbort(p)
  /\ UNCHANGED <<mailRows, lookup, mailings>>

MailRequest(p) ==
  \/ EnableMailForDomain(p) \/ UpdateMailDomain(p) \/ DisableMailForDomain(p)
  \/ \E b \in Box : CreateMailbox(p, b) \/ UpdateMailbox(p, b) \/ DeleteMailbox(p, b)
  \/ \E a \in Alias : CreateAlias(p, a) \/ UpdateAlias(p, a) \/ DeleteAlias(p, a)

MailStep(p) ==
  \/ SaveMailRow(p) \/ RemoveMailRow(p) \/ ReadRows(p) \/ WriteMap(p)
  \/ WriteFails(p) \/ MailRequestFails(p)

MailNext == \E p \in Mailer : MailRequest(p) \/ MailStep(p)

MailSpec == MailInit /\ [][MailNext]_mailVars

-----------------------------------------------------------------------------
\* Types; a request that has no steps left is none; rows of mailboxes and aliases
\* refer to a domain.
MailTypeOK ==
  /\ domain \in DomainValues \cup {"none"}
  /\ box \in [Box -> BoxValues \cup {"none"}] /\ alias \in [Alias -> AliasValues \cup {"none"}]
  /\ tainted \subseteq MailFiles
  /\ lookup \in [MailFiles -> SUBSET (Box \cup Alias \cup {"domain", CatchAll})]
  /\ \A p \in Mailer : mailing[p].todo = <<>> => mailing[p] = NoMailing
  /\ domain = "none" => \A b \in Box : box[b] = "none"

\* Once no request is in flight each file holds what the rows say, unless a step
\* failed or requests overlapped, and then from the next request on that runs
\* alone and rewrites that file: there is no other repair, as nobody is told.
MapsFollowRows ==
  MailQuiet => \A f \in MailFiles \ tainted : lookup[f] = Wanted[f]

\* Postfix accepts no mail for a mailbox that Dovecot does not know, except while
\* that mailbox is being taken away: syncDovecotConfig() comes first.
AcceptedCanBeRead ==
  \A b \in lookup["boxes"] \ lookup["logins"] :
    \/ tainted \cap {"boxes", "logins"} # {} \/ \E p \in Mailer : mailing[p] # NoMailing /\ ~mailing[p].alone
    \/ \E p \in Mailer : mailing[p].of = b /\ mailing[p].to \in {"idle", "none"}
=============================================================================
