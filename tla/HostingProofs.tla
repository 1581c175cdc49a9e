---------------------------- MODULE HostingProofs ----------------------------
(***************************************************************************)
(* Proofs about the services of hosting that keep rows of the panel and    *)
(* something on the server in step: MailMaps, DnsZones and FileManager,    *)
(* each under its own specification, for any number of rows, names and     *)
(* requests in flight, however often steps fail; and, with the results of  *)
(* AccountsProofs, about their composition, MCHosting.                     *)
(***************************************************************************)
EXTENDS MCHosting, AccountsProofs

-----------------------------------------------------------------------------
(* MailMaps: the rows of the mail of one domain, and the files made of them. *)

\* What is left to do of a request, by the number of steps left.
Postfix1 == <<"writeSenders">>
Postfix2 == <<"writeAliases", "writeSenders">>
Postfix3 == <<"writeBoxes", "writeAliases", "writeSenders">>
Postfix4 == <<"writeDomains", "writeBoxes", "writeAliases", "writeSenders">>
Postfix5 == <<"readAliases", "writeDomains", "writeBoxes", "writeAliases", "writeSenders">>
Postfix6 == <<"readBoxes", "readAliases", "writeDomains", "writeBoxes", "writeAliases", "writeSenders">>
Postfix7 == <<"readDomains", "readBoxes", "readAliases", "writeDomains", "writeBoxes", "writeAliases",
              "writeSenders">>
Dovecot8 == <<"writeLogins", "readDomains", "readBoxes", "readAliases", "writeDomains", "writeBoxes",
              "writeAliases", "writeSenders">>
Dovecot9 == <<"readLogins", "writeLogins", "readDomains", "readBoxes", "readAliases", "writeDomains",
              "writeBoxes", "writeAliases", "writeSenders">>
Save8    == <<"save", "readDomains", "readBoxes", "readAliases", "writeDomains", "writeBoxes",
              "writeAliases", "writeSenders">>
Remove8  == <<"remove", "readDomains", "readBoxes", "readAliases", "writeDomains", "writeBoxes",
              "writeAliases", "writeSenders">>
Save10   == <<"save", "readLogins", "writeLogins", "readDomains", "readBoxes", "readAliases",
              "writeDomains", "writeBoxes", "writeAliases", "writeSenders">>
Remove10 == <<"remove", "readLogins", "writeLogins", "readDomains", "readBoxes", "readAliases",
              "writeDomains", "writeBoxes", "writeAliases", "writeSenders">>

PostfixLeft == {Postfix1, Postfix2, Postfix3, Postfix4, Postfix5, Postfix6, Postfix7}
BoxLeft     == PostfixLeft \cup {Dovecot8, Dovecot9, Save10, Remove10}
OtherLeft   == PostfixLeft \cup {Save8, Remove8}

DomainKinds == {"enable", "domain", "disable"}
BoxKinds    == {"newBox", "box"}
AliasKinds  == {"newAlias", "alias"}

MailRecord ==
  [kind : DomainKinds \cup BoxKinds \cup AliasKinds \cup {"none"}, of : Box \cup Alias \cup {"domain", "none"},
   to : DomainValues \cup BoxValues \cup AliasValues \cup {"none"},
   todo : BoxLeft \cup OtherLeft \cup {<<>>}, alone : BOOLEAN,
   logins : SUBSET Box, domains : DomainValues \cup {"none"}, boxes : SUBSET Box, aliases : SUBSET Alias]

\* What a request is about, what it saves, and which steps it has.
OnMail(m) ==
  \/ m = NoMailing
  \/ /\ \/ m.kind \in DomainKinds /\ m.of = "domain" /\ m.todo \in OtherLeft /\ m.to \in DomainValues \cup {"none"}
        \/ m.kind \in BoxKinds    /\ m.of \in Box    /\ m.todo \in BoxLeft   /\ m.to \in BoxValues \cup {"none"}
        \/ m.kind \in AliasKinds  /\ m.of \in Alias  /\ m.todo \in OtherLeft /\ m.to \in AliasValues \cup {"none"}
     /\ Head(m.todo) = "remove" => m.to = "none"
     /\ Head(m.todo) = "save"   => m.to # "none"
     /\ m.kind # "disable" /\ m.of = "domain" => m.to # "none"

MailsTyped ==
  /\ mailing \in [Mailer -> MailRecord]
  /\ \A p \in Mailer : OnMail(mailing[p])

MailRowsTyped ==
  /\ domain \in DomainValues \cup {"none"}
  /\ box \in [Box -> BoxValues \cup {"none"}] /\ alias \in [Alias -> AliasValues \cup {"none"}]
  /\ domain = "none" => \A b \in Box : box[b] = "none"

FilesTyped ==
  /\ tainted \subseteq MailFiles
  /\ lookup \in [MailFiles -> SUBSET (Box \cup Alias \cup {"domain", CatchAll})]
  /\ lookup["boxes"] \subseteq Box

MailsAlone == \A p, q \in Mailer : mailing[p].alone /\ q # p => mailing[q] = NoMailing

MailNow(p)     == Head(mailing[p].todo)
InFlight(p) == mailing[p] # NoMailing

\* The steps after each of the others, in the order of a request.
AfterAliases == {"writeDomains", "writeBoxes", "writeAliases", "writeSenders"}
AfterBoxes   == AfterAliases \cup {"readAliases"}
AfterDomains == AfterBoxes \cup {"readBoxes"}
AfterLogins  == AfterDomains \cup {"readDomains"}
RowSteps     == {"save", "remove"}
MailSteps    == AfterLogins \cup {"writeLogins", "readLogins"} \cup RowSteps

\* A request that is at the step s has written the file f, if it writes it at all.
Written(s) ==
  {f \in MailFiles : \/ f = "logins"  /\ s \in AfterLogins
                     \/ f = "domains" /\ s \in {"writeBoxes", "writeAliases", "writeSenders"}
                     \/ f = "boxes"   /\ s \in {"writeAliases", "writeSenders"}
                     \/ f = "aliases" /\ s = "writeSenders"}

\* A file is in order, or known not to be, or about to be rewritten.
MapsKept ==
  \A f \in MailFiles :
    f \in tainted \/ lookup[f] = Wanted[f] \/ \E p \in Mailer : InFlight(p) /\ f \in Rewrites(p)

\* A request that is alone has read the rows as they are, and the files it has
\* written are as they should be.
MapsWritten ==
  \A p \in Mailer : mailing[p].alone =>
    /\ \A f \in Rewrites(p) \cap Written(MailNow(p)) : lookup[f] = Wanted[f]
    /\ MailNow(p) \in AfterDomains  => mailing[p].domains = domain
    /\ MailNow(p) \in AfterBoxes    => mailing[p].boxes = ActiveBoxes
    /\ MailNow(p) \in AfterAliases  => mailing[p].aliases = EnabledAliases
    /\ MailNow(p) = "writeLogins"   => mailing[p].logins = ActiveBoxes

\* disable does not rewrite the logins: it finds no mailbox, or one was added beside it.
NoneLeft ==
  \A p \in Mailer : mailing[p].kind = "disable" /\ MailNow(p) \in RowSteps =>
    \/ \A b \in Box : box[b] = "none"
    \/ "logins" \in tainted
    \/ \E q \in Mailer : mailing[q].kind \in BoxKinds

\* A request that is alone finds the mailboxes in order, but for the one it changes.
BoxesKept ==
  \A p \in Mailer : mailing[p].alone =>
    /\ mailing[p].kind \in BoxKinds /\ MailNow(p) \notin RowSteps => box[mailing[p].of] = mailing[p].to
    /\ tainted \cap {"boxes", "logins"} = {} =>
         /\ "boxes" \notin Written(MailNow(p)) =>
              lookup["boxes"] \ {mailing[p].of} = ActiveBoxes \ {mailing[p].of}
         /\ "logins" \notin Written(MailNow(p)) => lookup["logins"] = lookup["boxes"]

MailInv ==
  MailsTyped /\ MailRowsTyped /\ FilesTyped /\ MailsAlone /\ MapsKept /\ MapsWritten /\ NoneLeft /\ BoxesKept

-----------------------------------------------------------------------------
(* The courses of requests, and how requests move along them.               *)

LEMMA PostfixTable ==
  /\ Postfix1 # <<>> /\ Head(Postfix1) = "writeSenders" /\ ~(Len(Postfix1) > 1)
  /\ Postfix2 # <<>> /\ Head(Postfix2) = "writeAliases" /\ Len(Postfix2) > 1 /\ Tail(Postfix2) = Postfix1
  /\ Postfix3 # <<>> /\ Head(Postfix3) = "writeBoxes" /\ Len(Postfix3) > 1 /\ Tail(Postfix3) = Postfix2
  /\ Postfix4 # <<>> /\ Head(Postfix4) = "writeDomains" /\ Len(Postfix4) > 1 /\ Tail(Postfix4) = Postfix3
  /\ Postfix5 # <<>> /\ Head(Postfix5) = "readAliases" /\ Len(Postfix5) > 1 /\ Tail(Postfix5) = Postfix4
  /\ Postfix6 # <<>> /\ Head(Postfix6) = "readBoxes" /\ Len(Postfix6) > 1 /\ Tail(Postfix6) = Postfix5
  /\ Postfix7 # <<>> /\ Head(Postfix7) = "readDomains" /\ Len(Postfix7) > 1 /\ Tail(Postfix7) = Postfix6
  /\ Dovecot8 # <<>> /\ Head(Dovecot8) = "writeLogins" /\ Len(Dovecot8) > 1 /\ Tail(Dovecot8) = Postfix7
  /\ Dovecot9 # <<>> /\ Head(Dovecot9) = "readLogins" /\ Len(Dovecot9) > 1 /\ Tail(Dovecot9) = Dovecot8
  /\ Save8 # <<>> /\ Head(Save8) = "save" /\ Len(Save8) > 1 /\ Tail(Save8) = Postfix7
  /\ Remove8 # <<>> /\ Head(Remove8) = "remove" /\ Len(Remove8) > 1 /\ Tail(Remove8) = Postfix7
  /\ Save10 # <<>> /\ Head(Save10) = "save" /\ Len(Save10) > 1 /\ Tail(Save10) = Dovecot9
  /\ Remove10 # <<>> /\ Head(Remove10) = "remove" /\ Len(Remove10) > 1 /\ Tail(Remove10) = Dovecot9
<1>1. Postfix1 # <<>> /\ Head(Postfix1) = "writeSenders" /\ ~(Len(Postfix1) > 1)
  BY DEF Postfix1
<1>2. Postfix2 # <<>> /\ Head(Postfix2) = "writeAliases" /\ Len(Postfix2) > 1 /\ Tail(Postfix2) = Postfix1
  BY DEF Postfix2, Postfix1
<1>3. Postfix3 # <<>> /\ Head(Postfix3) = "writeBoxes" /\ Len(Postfix3) > 1 /\ Tail(Postfix3) = Postfix2
  BY DEF Postfix3, Postfix2
<1>4. Postfix4 # <<>> /\ Head(Postfix4) = "writeDomains" /\ Len(Postfix4) > 1 /\ Tail(Postfix4) = Postfix3
  BY DEF Postfix4, Postfix3
<1>5. Postfix5 # <<>> /\ Head(Postfix5) = "readAliases" /\ Len(Postfix5) > 1 /\ Tail(Postfix5) = Postfix4
  BY DEF Postfix5, Postfix4
<1>6. Postfix6 # <<>> /\ Head(Postfix6) = "readBoxes" /\ Len(Postfix6) > 1 /\ Tail(Postfix6) = Postfix5
  BY DEF Postfix6, Postfix5
<1>7. Postfix7 # <<>> /\ Head(Postfix7) = "readDomains" /\ Len(Postfix7) > 1 /\ Tail(Postfix7) = Postfix6
  BY DEF Postfix7, Postfix6
<1>8. Dovecot8 # <<>> /\ Head(Dovecot8) = "writeLogins" /\ Len(Dovecot8) > 1 /\ Tail(Dovecot8) = Postfix7
  BY DEF Dovecot8, Postfix7
<1>9. Dovecot9 # <<>> /\ Head(Dovecot9) = "readLogins" /\ Len(Dovecot9) > 1 /\ Tail(Dovecot9) = Dovecot8
  BY DEF Dovecot9, Dovecot8
<1>10. Save8 # <<>> /\ Head(Save8) = "save" /\ Len(Save8) > 1 /\ Tail(Save8) = Postfix7
  BY DEF Save8, Postfix7
<1>11. Remove8 # <<>> /\ Head(Remove8) = "remove" /\ Len(Remove8) > 1 /\ Tail(Remove8) = Postfix7
  BY DEF Remove8, Postfix7
<1>12. Save10 # <<>> /\ Head(Save10) = "save" /\ Len(Save10) > 1 /\ Tail(Save10) = Dovecot9
  BY DEF Save10, Dovecot9
<1>13. Remove10 # <<>> /\ Head(Remove10) = "remove" /\ Len(Remove10) > 1 /\ Tail(Remove10) = Dovecot9
  BY DEF Remove10, Dovecot9
<1> QED BY <1>1, <1>2, <1>3, <1>4, <1>5, <1>6, <1>7, <1>8, <1>9, <1>10, <1>11, <1>12, <1>13

\* The step t comes after the step s in a request.
Then(s, t) ==
  \/ s \in RowSteps       /\ t \in {"readLogins", "readDomains"}
  \/ s = "readLogins"     /\ t = "writeLogins"
  \/ s = "writeLogins"    /\ t = "readDomains"
  \/ s = "readDomains"    /\ t = "readBoxes"
  \/ s = "readBoxes"      /\ t = "readAliases"
  \/ s = "readAliases"    /\ t = "writeDomains"
  \/ s = "writeDomains"   /\ t = "writeBoxes"
  \/ s = "writeBoxes"     /\ t = "writeAliases"
  \/ s = "writeAliases"   /\ t = "writeSenders"

LEMMA PostfixHeads ==
  /\ Head(Postfix1) = "writeSenders" /\ Head(Postfix2) = "writeAliases" /\ Head(Postfix3) = "writeBoxes"
  /\ Head(Postfix4) = "writeDomains" /\ Head(Postfix5) = "readAliases" /\ Head(Postfix6) = "readBoxes"
  /\ Head(Postfix7) = "readDomains"
BY PostfixTable

LEMMA RowHeads ==
  /\ Save8 # <<>> /\ Head(Save8) = "save" /\ Remove8 # <<>> /\ Head(Remove8) = "remove"
  /\ Save10 # <<>> /\ Head(Save10) = "save" /\ Remove10 # <<>> /\ Head(Remove10) = "remove"
BY PostfixTable

LEMMA LeftTable ==
  ASSUME NEW s \in BoxLeft \cup OtherLeft
  PROVE  /\ s # <<>> /\ Head(s) \in MailSteps
         /\ Head(s) = "writeSenders" <=> ~(Len(s) > 1)
         /\ Head(s) # "writeSenders" => Tail(s) # <<>> /\ Then(Head(s), Head(Tail(s)))
         /\ s \in OtherLeft => /\ Head(s) \notin {"readLogins", "writeLogins"}
                               /\ Head(s) # "writeSenders" => Tail(s) \in OtherLeft
         /\ s \in BoxLeft /\ Head(s) # "writeSenders" => Tail(s) \in BoxLeft
<1> DEFINE h == Head(s)
           t == Tail(s)
           n == Head(Tail(s))
           more == Len(s) > 1
           some == s # <<>>
           rest == Tail(s) # <<>>
<1>1. s = Postfix1 => /\ s # <<>> /\ Head(s) = "writeSenders"
                      /\ ~(Len(s) > 1)
  BY PostfixTable
<1>2. s = Postfix2 => /\ s # <<>> /\ Head(s) = "writeAliases"
                      /\ Len(s) > 1 /\ Tail(s) = Postfix1 /\ Tail(s) # <<>> /\ Head(Tail(s)) = "writeSenders"
  BY PostfixTable
<1>3. s = Postfix3 => /\ s # <<>> /\ Head(s) = "writeBoxes"
                      /\ Len(s) > 1 /\ Tail(s) = Postfix2 /\ Tail(s) # <<>> /\ Head(Tail(s)) = "writeAliases"
  BY PostfixTable
<1>4. s = Postfix4 => /\ s # <<>> /\ Head(s) = "writeDomains"
                      /\ Len(s) > 1 /\ Tail(s) = Postfix3 /\ Tail(s) # <<>> /\ Head(Tail(s)) = "writeBoxes"
  BY PostfixTable
<1>5. s = Postfix5 => /\ s # <<>> /\ Head(s) = "readAliases"
                      /\ Len(s) > 1 /\ Tail(s) = Postfix4 /\ Tail(s) # <<>> /\ Head(Tail(s)) = "writeDomains"
  BY PostfixTable
<1>6. s = Postfix6 => /\ s # <<>> /\ Head(s) = "readBoxes"
                      /\ Len(s) > 1 /\ Tail(s) = Postfix5 /\ Tail(s) # <<>> /\ Head(Tail(s)) = "readAliases"
  BY PostfixTable
<1>7. s = Postfix7 => /\ s # <<>> /\ Head(s) = "readDomains"
                      /\ Len(s) > 1 /\ Tail(s) = Postfix6 /\ Tail(s) # <<>> /\ Head(Tail(s)) = "readBoxes"
  BY PostfixTable
<1>8. s = Dovecot8 => /\ s # <<>> /\ Head(s) = "writeLogins"
                      /\ Len(s) > 1 /\ Tail(s) = Postfix7 /\ Tail(s) # <<>> /\ Head(Tail(s)) = "readDomains"
  BY PostfixTable
<1>9. s = Dovecot9 => /\ s # <<>> /\ Head(s) = "readLogins"
                      /\ Len(s) > 1 /\ Tail(s) = Dovecot8 /\ Tail(s) # <<>> /\ Head(Tail(s)) = "writeLogins"
  BY PostfixTable
<1>10. s = Save8 => /\ s # <<>> /\ Head(s) = "save"
                    /\ Len(s) > 1 /\ Tail(s) = Postfix7 /\ Tail(s) # <<>> /\ Head(Tail(s)) = "readDomains"
  BY PostfixTable
<1>11. s = Remove8 => /\ s # <<>> /\ Head(s) = "remove"
                      /\ Len(s) > 1 /\ Tail(s) = Postfix7 /\ Tail(s) # <<>> /\ Head(Tail(s)) = "readDomains"
  BY PostfixTable
<1>12. s = Save10 => /\ s # <<>> /\ Head(s) = "save"
                     /\ Len(s) > 1 /\ Tail(s) = Dovecot9 /\ Tail(s) # <<>> /\ Head(Tail(s)) = "readLogins"
  BY PostfixTable
<1>13. s = Remove10 => /\ s # <<>> /\ Head(s) = "remove"
                       /\ Len(s) > 1 /\ Tail(s) = Dovecot9 /\ Tail(s) # <<>> /\ Head(Tail(s)) = "readLogins"
  BY PostfixTable
<1>14. s \in OtherLeft => /\ some /\ h \in MailSteps \ {"readLogins", "writeLogins"}
                          /\ h = "writeSenders" <=> ~more
                          /\ h # "writeSenders" =>
                               rest /\ Then(h, n) /\ t \in OtherLeft
  <2> SUFFICES ASSUME s \in OtherLeft
               PROVE  /\ some /\ h \in MailSteps \ {"readLogins", "writeLogins"}
                      /\ h = "writeSenders" <=> ~more
                      /\ h # "writeSenders" =>
                           rest /\ Then(h, n) /\ t \in OtherLeft
    OBVIOUS
  <2>1. CASE s = Postfix1
    BY <1>1, <2>1 DEF OtherLeft, PostfixLeft, Then, MailSteps, RowSteps, AfterLogins, AfterDomains, AfterBoxes, AfterAliases
  <2>2. CASE s = Postfix2
    BY <1>2, <2>2 DEF OtherLeft, PostfixLeft, Then, MailSteps, RowSteps, AfterLogins, AfterDomains, AfterBoxes, AfterAliases
  <2>3. CASE s = Postfix3
    BY <1>3, <2>3 DEF OtherLeft, PostfixLeft, Then, MailSteps, RowSteps, AfterLogins, AfterDomains, AfterBoxes, AfterAliases
  <2>4. CASE s = Postfix4
    BY <1>4, <2>4 DEF OtherLeft, PostfixLeft, Then, MailSteps, RowSteps, AfterLogins, AfterDomains, AfterBoxes, AfterAliases
  <2>5. CASE s = Postfix5
    BY <1>5, <2>5 DEF OtherLeft, PostfixLeft, Then, MailSteps, RowSteps, AfterLogins, AfterDomains, AfterBoxes, AfterAliases
  <2>6. CASE s = Postfix6
    BY <1>6, <2>6 DEF OtherLeft, PostfixLeft, Then, MailSteps, RowSteps, AfterLogins, AfterDomains, AfterBoxes, AfterAliases
  <2>7. CASE s = Postfix7
    BY <1>7, <2>7 DEF OtherLeft, PostfixLeft, Then, MailSteps, RowSteps, AfterLogins, AfterDomains, AfterBoxes, AfterAliases
  <2>8. CASE s = Save8
    BY <1>10, <2>8 DEF OtherLeft, PostfixLeft, Then, MailSteps, RowSteps, AfterLogins, AfterDomains, AfterBoxes, AfterAliases
  <2>9. CASE s = Remove8
    BY <1>11, <2>9 DEF OtherLeft, PostfixLeft, Then, MailSteps, RowSteps, AfterLogins, AfterDomains, AfterBoxes, AfterAliases
  <2> QED BY <2>1, <2>2, <2>3, <2>4, <2>5, <2>6, <2>7, <2>8, <2>9 DEF OtherLeft, PostfixLeft
<1>15. s \in BoxLeft => /\ some /\ h \in MailSteps
                        /\ h = "writeSenders" <=> ~more
                        /\ h # "writeSenders" =>
                             rest /\ Then(h, n) /\ t \in BoxLeft
  <2> SUFFICES ASSUME s \in BoxLeft
               PROVE  /\ some /\ h \in MailSteps
                      /\ h = "writeSenders" <=> ~more
                      /\ h # "writeSenders" =>
                           rest /\ Then(h, n) /\ t \in BoxLeft
    OBVIOUS
  <2>1. CASE s = Postfix1
    BY <1>1, <2>1 DEF BoxLeft, PostfixLeft, Then, MailSteps, RowSteps, AfterLogins, AfterDomains, AfterBoxes, AfterAliases
  <2>2. CASE s = Postfix2
    BY <1>2, <2>2 DEF BoxLeft, PostfixLeft, Then, MailSteps, RowSteps, AfterLogins, AfterDomains, AfterBoxes, AfterAliases
  <2>3. CASE s = Postfix3
    BY <1>3, <2>3 DEF BoxLeft, PostfixLeft, Then, MailSteps, RowSteps, AfterLogins, AfterDomains, AfterBoxes, AfterAliases
  <2>4. CASE s = Postfix4
    BY <1>4, <2>4 DEF BoxLeft, PostfixLeft, Then, MailSteps, RowSteps, AfterLogins, AfterDomains, AfterBoxes, AfterAliases
  <2>5. CASE s = Postfix5
    BY <1>5, <2>5 DEF BoxLeft, PostfixLeft, Then, MailSteps, RowSteps, AfterLogins, AfterDomains, AfterBoxes, AfterAliases
  <2>6. CASE s = Postfix6
    BY <1>6, <2>6 DEF BoxLeft, PostfixLeft, Then, MailSteps, RowSteps, AfterLogins, AfterDomains, AfterBoxes, AfterAliases
  <2>7. CASE s = Postfix7
    BY <1>7, <2>7 DEF BoxLeft, PostfixLeft, Then, MailSteps, RowSteps, AfterLogins, AfterDomains, AfterBoxes, AfterAliases
  <2>8. CASE s = Dovecot8
    BY <1>8, <2>8 DEF BoxLeft, PostfixLeft, Then, MailSteps, RowSteps, AfterLogins, AfterDomains, AfterBoxes, AfterAliases
  <2>9. CASE s = Dovecot9
    BY <1>9, <2>9 DEF BoxLeft, PostfixLeft, Then, MailSteps, RowSteps, AfterLogins, AfterDomains, AfterBoxes, AfterAliases
  <2>10. CASE s = Save10
    BY <1>12, <2>10 DEF BoxLeft, PostfixLeft, Then, MailSteps, RowSteps, AfterLogins, AfterDomains, AfterBoxes, AfterAliases
  <2>11. CASE s = Remove10
    BY <1>13, <2>11 DEF BoxLeft, PostfixLeft, Then, MailSteps, RowSteps, AfterLogins, AfterDomains, AfterBoxes, AfterAliases
  <2> QED BY <2>1, <2>2, <2>3, <2>4, <2>5, <2>6, <2>7, <2>8, <2>9, <2>10, <2>11 DEF BoxLeft, PostfixLeft
<1> HIDE DEF h, t, n, more, some, rest
<1>16. some /\ h \in MailSteps
  BY <1>14, <1>15
<1>17. h = "writeSenders" <=> ~more
  <2>1. CASE s \in OtherLeft
    BY <1>14, <2>1
  <2>2. CASE s \in BoxLeft
    BY <1>15, <2>2
  <2> QED BY <2>1, <2>2
<1>18. h # "writeSenders" => rest /\ Then(h, n)
  <2>1. CASE s \in OtherLeft
    BY <1>14, <2>1
  <2>2. CASE s \in BoxLeft
    BY <1>15, <2>2
  <2> QED BY <2>1, <2>2
<1>19. s \in OtherLeft => /\ h \notin {"readLogins", "writeLogins"}
                          /\ h # "writeSenders" => t \in OtherLeft
  BY <1>14
<1>20. s \in BoxLeft /\ h # "writeSenders" => t \in BoxLeft
  BY <1>15
<1> QED BY <1>16, <1>17, <1>18, <1>19, <1>20 DEF h, t, n, more, some, rest

\* What the step a request is at says of it.
LEMMA MailTable ==
  ASSUME MailsTyped, NEW p \in Mailer, InFlight(p)
  PROVE  /\ mailing[p] \in MailRecord /\ OnMail(mailing[p]) /\ mailing[p].todo \in BoxLeft \cup OtherLeft
         /\ mailing[p].todo # <<>> /\ MailNow(p) \in MailSteps
         /\ MailNow(p) = "writeSenders" <=> ~(Len(mailing[p].todo) > 1)
         /\ MailNow(p) # "writeSenders" => Tail(mailing[p].todo) # <<>> /\ Then(MailNow(p), Head(Tail(mailing[p].todo)))
         /\ mailing[p].kind \in DomainKinds \/ mailing[p].kind \in BoxKinds \/ mailing[p].kind \in AliasKinds
         /\ mailing[p].kind \in BoxKinds => mailing[p].todo \in BoxLeft
         /\ mailing[p].kind \notin BoxKinds =>
              mailing[p].todo \in OtherLeft /\ MailNow(p) \notin {"readLogins", "writeLogins"}
<1> DEFINE m == mailing[p]
<1>1. m \in MailRecord /\ OnMail(m) /\ m # NoMailing
  BY DEF MailsTyped, InFlight
<1>2. /\ m.todo \in BoxLeft \cup OtherLeft
      /\ m.kind \in DomainKinds \/ m.kind \in BoxKinds \/ m.kind \in AliasKinds
      /\ m.kind \in BoxKinds => m.todo \in BoxLeft
      /\ m.kind \notin BoxKinds => m.todo \in OtherLeft
  BY <1>1 DEF OnMail, DomainKinds, BoxKinds, AliasKinds
<1> HIDE DEF m
<1>3. /\ m.todo # <<>> /\ Head(m.todo) \in MailSteps
      /\ Head(m.todo) = "writeSenders" <=> ~(Len(m.todo) > 1)
      /\ Head(m.todo) # "writeSenders" => Tail(m.todo) # <<>> /\ Then(Head(m.todo), Head(Tail(m.todo)))
      /\ m.todo \in OtherLeft => Head(m.todo) \notin {"readLogins", "writeLogins"}
  BY <1>2, LeftTable
<1> QED BY <1>1, <1>2, <1>3 DEF m, MailNow

LEMMA AtStep ==
  ASSUME MailsTyped, NEW p \in Mailer, NEW s, MailAt(p, s)
  PROVE  InFlight(p) /\ MailNow(p) = s
BY DEF MailAt, InFlight, NoMailing, MailNow

\* The request takes a step or ends; nobody else's changes, and if others run beside
\* it, it leaves what it has not put in order known as such.
MailGoes(p) ==
  /\ MailsTyped' /\ MailsAlone'
  /\ \A q \in Mailer : q # p => mailing'[q] = mailing[q]
  /\ \/ /\ mailing'[p] = NoMailing
        /\ ~mailing[p].alone => tainted \subseteq tainted' /\ Rewrites(p) \subseteq tainted'
     \/ /\ mailing'[p] # NoMailing /\ mailing'[p].kind = mailing[p].kind /\ mailing'[p].of = mailing[p].of
        /\ mailing'[p].to = mailing[p].to /\ Then(MailNow(p), MailNow(p)')
        /\ mailing[p].kind \in BoxKinds /\ MailNow(p) \in RowSteps => MailNow(p)' = "readLogins"
        /\ mailing'[p].alone => mailing[p].alone
        /\ tainted \subseteq tainted'

LEMMA BoxRowStep ==
  ASSUME NEW s \in BoxLeft, Head(s) \in RowSteps
  PROVE  Head(Tail(s)) = "readLogins"
<1>1. CASE s \in {Save10, Remove10}
  BY <1>1, PostfixTable
<1>2. CASE s \in {Dovecot8, Dovecot9}
  BY <1>2, PostfixTable DEF RowSteps
<1>3. CASE s \in PostfixLeft
  <2>1. s \in {Postfix1, Postfix2, Postfix3, Postfix4, Postfix5, Postfix6, Postfix7}
    BY <1>3 DEF PostfixLeft
  <2>2. Head(s) \notin RowSteps
    <3>1. CASE s \in {Postfix1, Postfix2, Postfix3, Postfix4}
      <4>1. Head(s) \in {"writeSenders", "writeAliases", "writeBoxes", "writeDomains"}
        BY <3>1, PostfixHeads
      <4> QED BY <4>1 DEF RowSteps
    <3>2. CASE s \in {Postfix5, Postfix6, Postfix7}
      <4>1. Head(s) \in {"readAliases", "readBoxes", "readDomains"}
        BY <3>2, PostfixHeads
      <4> QED BY <4>1 DEF RowSteps
    <3> QED BY <2>1, <3>1, <3>2
  <2> QED BY <2>2
<1> QED BY <1>1, <1>2, <1>3 DEF BoxLeft

LEMMA MailTail ==
  ASSUME MailsTyped, MailsAlone, NEW p \in Mailer, InFlight(p), MailNow(p) # "writeSenders",
         NEW c \in MailRecord, c.kind = mailing[p].kind, c.of = mailing[p].of, c.to = mailing[p].to,
         c.todo = Tail(mailing[p].todo), c.alone => mailing[p].alone,
         mailing' = [mailing EXCEPT ![p] = c], tainted \subseteq tainted'
  PROVE  MailGoes(p) /\ mailing'[p] = c
<1> DEFINE m == mailing[p]
<1>1. /\ m \in MailRecord /\ OnMail(m) /\ m # NoMailing /\ m.todo \in BoxLeft \cup OtherLeft
      /\ Head(m.todo) # "writeSenders" /\ m.kind # "none"
  BY MailTable DEF InFlight, MailNow, DomainKinds, BoxKinds, AliasKinds
<1>2. mailing \in [Mailer -> MailRecord]
  BY DEF MailsTyped
<1>3. /\ mailing'[p] = c /\ (\A q \in Mailer : q # p => mailing'[q] = mailing[q])
      /\ mailing' \in [Mailer -> MailRecord]
  BY <1>2
<1>4. c # NoMailing
  BY <1>1 DEF NoMailing
<1> HIDE DEF m
<1>5. /\ Then(Head(m.todo), Head(Tail(m.todo)))
      /\ m.todo \in OtherLeft => Tail(m.todo) \in OtherLeft
      /\ m.todo \in BoxLeft => Tail(m.todo) \in BoxLeft
  BY <1>1, LeftTable
<1>6. Then(MailNow(p), MailNow(p)')
  BY <1>3, <1>5 DEF MailNow, m
<1>7. Head(c.todo) \notin RowSteps
  <2>1. c.todo = Tail(m.todo)
    BY DEF m
  <2> QED BY <1>5, <2>1 DEF Then, RowSteps
<1>8. OnMail(c)
  <2>1. /\ c.todo = Tail(m.todo) /\ c.kind = m.kind /\ c.of = m.of /\ c.to = m.to
    BY DEF m
  <2>2. Head(c.todo) # "remove" /\ Head(c.todo) # "save"
    BY <1>7 DEF RowSteps
  <2>3. m.kind # "disable" /\ m.of = "domain" => m.to # "none"
    BY <1>1 DEF OnMail
  <2>4. \/ m.kind \in DomainKinds /\ m.of = "domain" /\ m.todo \in OtherLeft /\ m.to \in DomainValues \cup {"none"}
        \/ m.kind \in BoxKinds    /\ m.of \in Box    /\ m.todo \in BoxLeft   /\ m.to \in BoxValues \cup {"none"}
        \/ m.kind \in AliasKinds  /\ m.of \in Alias  /\ m.todo \in OtherLeft /\ m.to \in AliasValues \cup {"none"}
    BY <1>1 DEF OnMail
  <2>5. \/ c.kind \in DomainKinds /\ c.of = "domain" /\ c.todo \in OtherLeft /\ c.to \in DomainValues \cup {"none"}
        \/ c.kind \in BoxKinds    /\ c.of \in Box    /\ c.todo \in BoxLeft   /\ c.to \in BoxValues \cup {"none"}
        \/ c.kind \in AliasKinds  /\ c.of \in Alias  /\ c.todo \in OtherLeft /\ c.to \in AliasValues \cup {"none"}
    BY <1>5, <2>1, <2>4
  <2> QED BY <2>1, <2>2, <2>3, <2>5 DEF OnMail
<1>9. MailsTyped'
  BY <1>3, <1>8 DEF MailsTyped
<1>10. MailsAlone'
  BY <1>3, <1>4 DEF MailsAlone, InFlight
<1>11. mailing[p].kind \in BoxKinds /\ MailNow(p) \in RowSteps => MailNow(p)' = "readLogins"
  <2>1. m.kind \in BoxKinds => m.todo \in BoxLeft
    BY MailTable DEF m
  <2>2. m.kind \in BoxKinds /\ Head(m.todo) \in RowSteps => Head(Tail(m.todo)) = "readLogins"
    BY <2>1, BoxRowStep
  <2> QED BY <1>3, <2>2 DEF MailNow, m
<1> QED BY <1>3, <1>4, <1>6, <1>9, <1>10, <1>11 DEF MailGoes

LEMMA MailEnds ==
  ASSUME MailsTyped, MailsAlone, NEW p \in Mailer, mailing' = [mailing EXCEPT ![p] = NoMailing],
         ~mailing[p].alone => tainted \subseteq tainted' /\ Rewrites(p) \subseteq tainted'
  PROVE  MailGoes(p) /\ mailing'[p] = NoMailing
<1>1. NoMailing \in MailRecord /\ OnMail(NoMailing) /\ ~NoMailing.alone
  BY DEF NoMailing, MailRecord, OnMail
<1>2. /\ mailing'[p] = NoMailing /\ (\A q \in Mailer : q # p => mailing'[q] = mailing[q])
      /\ mailing' \in [Mailer -> MailRecord]
  BY <1>1 DEF MailsTyped
<1>3. MailsTyped'
  BY <1>1, <1>2 DEF MailsTyped
<1>4. MailsAlone'
  BY <1>1, <1>2 DEF MailsAlone
<1> QED BY <1>2, <1>3, <1>4 DEF MailGoes

LEMMA MailTodo ==
  ASSUME NEW m \in MailRecord, NEW t \in BoxLeft \cup OtherLeft
  PROVE  LET c == [m EXCEPT !.todo = t] IN
         /\ c \in MailRecord /\ c.todo = t /\ c.kind = m.kind /\ c.of = m.of /\ c.to = m.to /\ c.alone = m.alone
         /\ c.logins = m.logins /\ c.domains = m.domains /\ c.boxes = m.boxes /\ c.aliases = m.aliases
<1> DEFINE c == [m EXCEPT !.todo = t]
<1>1. c \in MailRecord
  BY DEF MailRecord
<1>2. c.todo = t /\ c.kind = m.kind /\ c.of = m.of /\ c.to = m.to /\ c.alone = m.alone
  BY DEF MailRecord
<1>3. c.logins = m.logins /\ c.domains = m.domains /\ c.boxes = m.boxes /\ c.aliases = m.aliases
  BY DEF MailRecord
<1> QED BY <1>1, <1>2, <1>3

LEMMA MailAloneSet ==
  ASSUME NEW m \in MailRecord, NEW b \in BOOLEAN, NEW c, c = [m EXCEPT !.alone = b]
  PROVE  c \in MailRecord
BY DEF MailRecord

LEMMA MailAdvanced ==
  ASSUME MailsTyped, MailsAlone, NEW p \in Mailer, InFlight(p), NEW taint \in SUBSET MailFiles,
         MailAdvance(p, taint)
  PROVE  /\ MailGoes(p)
         /\ MailNow(p) = "writeSenders" =>
              /\ mailing'[p] = NoMailing
              /\ tainted' = IF mailing[p].alone /\ taint = {} THEN tainted \ Rewrites(p)
                            ELSE tainted \cup taint \cup Rewrites(p)
         /\ MailNow(p) # "writeSenders" =>
              /\ mailing'[p] # NoMailing /\ tainted' = tainted \cup taint
              /\ mailing'[p].alone <=> mailing[p].alone /\ taint = {}
              /\ mailing'[p].logins = mailing[p].logins /\ mailing'[p].domains = mailing[p].domains
              /\ mailing'[p].boxes = mailing[p].boxes /\ mailing'[p].aliases = mailing[p].aliases
<1> DEFINE m == mailing[p]
           c == [m EXCEPT !.todo = Tail(@), !.alone = @ /\ taint = {}]
<1>1. /\ m \in MailRecord /\ mailing \in [Mailer -> MailRecord] /\ m.todo \in BoxLeft \cup OtherLeft
      /\ MailNow(p) = "writeSenders" <=> ~(Len(m.todo) > 1)
  BY MailTable DEF MailsTyped
<1>2. CASE MailNow(p) # "writeSenders"
  <2>1. mailing' = [mailing EXCEPT ![p] = c] /\ tainted' = tainted \cup taint
    <3>1. Len(mailing[p].todo) > 1
      BY <1>1, <1>2
    <3> QED BY <1>1, <3>1 DEF MailAdvance
  <2>2. Tail(m.todo) \in BoxLeft \cup OtherLeft
    <3> HIDE DEF m
    <3>1. Head(m.todo) # "writeSenders"
      BY <1>2 DEF MailNow, m
    <3> QED BY <1>1, <3>1, LeftTable
  <2>3. c \in MailRecord
    <3> DEFINE a == [m EXCEPT !.todo = Tail(@)]
    <3>1. a \in MailRecord /\ a.alone = m.alone
      BY <1>1, <2>2, MailTodo
    <3>2. (m.alone /\ taint = {}) \in BOOLEAN /\ c = [a EXCEPT !.alone = m.alone /\ taint = {}]
      BY <3>1
    <3> HIDE DEF a, c
    <3> QED BY <3>1, <3>2, MailAloneSet
  <2>4. /\ c.kind = m.kind /\ c.of = m.of /\ c.to = m.to /\ c.todo = Tail(m.todo)
        /\ c.alone = (m.alone /\ taint = {})
        /\ c.logins = m.logins /\ c.domains = m.domains /\ c.boxes = m.boxes /\ c.aliases = m.aliases
    BY <1>1 DEF MailRecord
  <2> HIDE DEF c
  <2>5. MailGoes(p) /\ mailing'[p] = c
    BY <1>2, <2>1, <2>3, <2>4, MailTail
  <2>6. c # NoMailing
    <3>1. c.todo # <<>>
      BY <1>2, <2>4, MailTable
    <3> QED BY <3>1 DEF NoMailing
  <2> QED BY <1>2, <2>1, <2>4, <2>5, <2>6
<1>3. CASE MailNow(p) = "writeSenders"
  <2>1. /\ mailing' = [mailing EXCEPT ![p] = NoMailing]
        /\ tainted' = IF mailing[p].alone /\ taint = {} THEN tainted \ Rewrites(p)
                      ELSE tainted \cup taint \cup Rewrites(p)
    <3>1. ~(Len(mailing[p].todo) > 1)
      BY <1>1, <1>3
    <3> QED BY <3>1 DEF MailAdvance
  <2> QED BY <1>3, <2>1, MailEnds
<1> QED BY <1>2, <1>3

-----------------------------------------------------------------------------
(* What a step leaves as it was.                                            *)

\* Files written by a step.
FileOf(s) ==
  {f \in MailFiles : \/ f = "logins"  /\ s = "writeLogins"
                     \/ f = "domains" /\ s = "writeDomains"
                     \/ f = "boxes"   /\ s = "writeBoxes"
                     \/ f = "aliases" /\ s = "writeAliases"
                     \/ f = "senders" /\ s = "writeSenders"}

LEMMA WrittenThen ==
  ASSUME NEW s, NEW t, Then(s, t)
  PROVE  /\ s \notin RowSteps => Written(t) = Written(s) \cup FileOf(s)
         /\ Written("readLogins") = {} /\ Written("readDomains") = {"logins"}
         /\ s \in RowSteps => Written(s) = {} /\ t \in {"readLogins", "readDomains"}
         /\ t \in AfterDomains => s \in AfterDomains \/ s = "readDomains"
         /\ t \in AfterBoxes   => s \in AfterBoxes \/ s = "readBoxes"
         /\ t \in AfterAliases => s \in AfterAliases \/ s = "readAliases"
         /\ t = "writeLogins"  => s = "readLogins"
         /\ t \notin RowSteps
<1> USE DEF Then, RowSteps, AfterLogins, AfterDomains, AfterBoxes, AfterAliases
<1>1. s \notin RowSteps => Written(t) = Written(s) \cup FileOf(s)
  <2>1. CASE s = "readLogins"
    BY <2>1 DEF Written, FileOf
  <2>2. CASE s = "writeLogins"
    BY <2>2 DEF Written, FileOf
  <2>3. CASE s = "readDomains"
    BY <2>3 DEF Written, FileOf
  <2>4. CASE s = "readBoxes"
    BY <2>4 DEF Written, FileOf
  <2>5. CASE s = "readAliases"
    BY <2>5 DEF Written, FileOf
  <2>6. CASE s = "writeDomains"
    BY <2>6 DEF Written, FileOf
  <2>7. CASE s = "writeBoxes"
    BY <2>7 DEF Written, FileOf
  <2>8. CASE s = "writeAliases"
    BY <2>8 DEF Written, FileOf
  <2> QED BY <2>1, <2>2, <2>3, <2>4, <2>5, <2>6, <2>7, <2>8
<1>2. Written("readLogins") = {} /\ Written("readDomains") = {"logins"}
  BY DEF Written, MailFiles
<1>3. s \in RowSteps => Written(s) = {} /\ t \in {"readLogins", "readDomains"}
  BY DEF Written
<1>4. /\ t \in AfterDomains => s \in AfterDomains \/ s = "readDomains"
      /\ t \in AfterBoxes   => s \in AfterBoxes \/ s = "readBoxes"
      /\ t \in AfterAliases => s \in AfterAliases \/ s = "readAliases"
      /\ t = "writeLogins"  => s = "readLogins"
      /\ t \notin RowSteps
  OBVIOUS
<1> QED BY <1>1, <1>2, <1>3, <1>4

LEMMA RewritesAt ==
  ASSUME NEW p \in Mailer
  PROVE  /\ Rewrites(p) = IF mailing[p].kind \in BoxKinds THEN MailFiles ELSE MailFiles \ {"logins"}
         /\ Rewrites(p) \subseteq MailFiles
BY DEF Rewrites, BoxKinds

\* Nobody but the request that moves can still be alone.
LEMMA OnlyAlone ==
  ASSUME MailsAlone, NEW p \in Mailer, InFlight(p), MailGoes(p), NEW q \in Mailer, mailing'[q].alone
  PROVE  q = p /\ mailing[p].alone /\ mailing'[p] # NoMailing
<1>1. q = p
  BY DEF MailsAlone, MailGoes, InFlight
<1>2. mailing'[p] # NoMailing
  BY <1>1 DEF NoMailing
<1> QED BY <1>1, <1>2 DEF MailGoes

LEMMA MapsFrame ==
  ASSUME MailInv, NEW p \in Mailer, InFlight(p), MailGoes(p),
         \A f \in MailFiles \ Rewrites(p) :
           /\ f \in tainted => f \in tainted'
           /\ \/ f \in tainted
              \/ lookup'[f] = lookup[f] /\ Wanted'[f] = Wanted[f]
              \/ \E q \in Mailer : q # p /\ InFlight(q) /\ f \in Rewrites(q),
         mailing'[p] = NoMailing /\ mailing[p].alone =>
           \A f \in Rewrites(p) : f \in tainted' \/ lookup'[f] = Wanted'[f]
  PROVE  MapsKept'
<1>1. ASSUME NEW f \in MailFiles
      PROVE  f \in tainted' \/ lookup'[f] = Wanted'[f] \/ \E q \in Mailer : InFlight(q)' /\ f \in Rewrites(q)'
  <2>1. ASSUME NEW q \in Mailer, q # p, InFlight(q), f \in Rewrites(q)
        PROVE  \E r \in Mailer : InFlight(r)' /\ f \in Rewrites(r)'
    BY <2>1 DEF MailGoes, InFlight, Rewrites
  <2>2. CASE f \in Rewrites(p)
    <3>1. CASE mailing'[p] = NoMailing
      BY <2>2, <3>1 DEF MailGoes
    <3>2. CASE mailing'[p] # NoMailing
      BY <2>2, <3>2 DEF MailGoes, InFlight, Rewrites
    <3> QED BY <3>1, <3>2
  <2>3. CASE f \notin Rewrites(p)
    <3>1. f \in tainted \/ lookup[f] = Wanted[f] \/ \E q \in Mailer : InFlight(q) /\ f \in Rewrites(q)
      BY DEF MailInv, MapsKept
    <3> QED BY <2>1, <2>3, <3>1
  <2> QED BY <2>2, <2>3
<1> QED BY <1>1 DEF MapsKept

LEMMA NoneFrame ==
  ASSUME MailInv, NEW p \in Mailer, InFlight(p), MailGoes(p),
         \/ box' = box
         \/ mailing[p].kind \in BoxKinds /\ mailing'[p] # NoMailing
         \/ \A b \in Box : box'[b] = "none"
  PROVE  NoneLeft'
<1>1. ASSUME NEW r \in Mailer, mailing'[r].kind = "disable", MailNow(r)' \in RowSteps
      PROVE  \/ \A b \in Box : box'[b] = "none"
             \/ "logins" \in tainted'
             \/ \E q \in Mailer : mailing'[q].kind \in BoxKinds
  <2>1. r # p
    <3>1. mailing'[p] = NoMailing => mailing'[p].kind = "none"
      BY DEF NoMailing
    <3>2. mailing'[p] # NoMailing => MailNow(p)' \notin RowSteps
      BY WrittenThen DEF MailGoes
    <3> QED BY <1>1, <3>1, <3>2
  <2>2. mailing'[r] = mailing[r] /\ InFlight(r)
    BY <1>1, <2>1 DEF MailGoes, InFlight, NoMailing
  <2>3. ~mailing[p].alone
    BY <2>1, <2>2 DEF MailInv, MailsAlone, InFlight
  <2>4. tainted \subseteq tainted'
    BY <2>3 DEF MailGoes
  <2>5. \/ \A b \in Box : box[b] = "none"
        \/ "logins" \in tainted
        \/ \E q \in Mailer : mailing[q].kind \in BoxKinds
    BY <1>1, <2>2 DEF MailInv, NoneLeft, MailNow
  <2>6. ASSUME NEW q \in Mailer, mailing[q].kind \in BoxKinds
        PROVE  "logins" \in tainted' \/ \E x \in Mailer : mailing'[x].kind \in BoxKinds
    <3>1. CASE q # p
      BY <2>6, <3>1 DEF MailGoes
    <3>2. CASE q = p /\ mailing'[p] # NoMailing
      BY <2>6, <3>2 DEF MailGoes
    <3>3. CASE q = p /\ mailing'[p] = NoMailing
      BY <2>3, <2>6, <3>3, RewritesAt DEF MailGoes, MailFiles
    <3> QED BY <3>1, <3>2, <3>3
  <2>7. CASE mailing[p].kind \in BoxKinds /\ mailing'[p] # NoMailing
    BY <2>6, <2>7
  <2> QED BY <2>4, <2>5, <2>6, <2>7
<1> QED BY <1>1 DEF NoneLeft

-----------------------------------------------------------------------------
(* The steps of a request.                                                  *)

LEMMA ReadRowsStep ==
  ASSUME MailInv, NEW p \in Mailer, ReadRows(p)
  PROVE  MailInv'
<1> DEFINE m == mailing[p]
<1>1. MailsTyped /\ MailsAlone /\ MailRowsTyped
  BY DEF MailInv
<1>2. PICK s \in {"readLogins", "readDomains", "readBoxes", "readAliases"} :
        /\ MailAt(p, s)
        /\ LET read == CASE s = "readLogins"  -> [m EXCEPT !.logins = ActiveBoxes]
                         [] s = "readDomains" -> [m EXCEPT !.domains = domain]
                         [] s = "readBoxes"   -> [m EXCEPT !.boxes = ActiveBoxes]
                         [] OTHER             -> [m EXCEPT !.aliases = EnabledAliases]
           IN mailing' = [mailing EXCEPT ![p] = [read EXCEPT !.todo = Tail(m.todo)]]
  BY DEF ReadRows
<1>3. UNCHANGED <<domain, box, alias, lookup, tainted>>
  BY DEF ReadRows, mailRows
<1>4. /\ InFlight(p) /\ MailNow(p) = s /\ m \in MailRecord /\ m.todo \in BoxLeft \cup OtherLeft
      /\ MailNow(p) # "writeSenders" /\ s \notin RowSteps
  BY <1>1, <1>2, AtStep, MailTable DEF RowSteps
<1>5. PICK read \in MailRecord :
        /\ mailing' = [mailing EXCEPT ![p] = [read EXCEPT !.todo = Tail(m.todo)]]
        /\ read.kind = m.kind /\ read.of = m.of /\ read.to = m.to /\ read.alone = m.alone
        /\ s = "readLogins"  => read.logins = ActiveBoxes
        /\ read.domains = IF s = "readDomains" THEN domain ELSE m.domains
        /\ read.boxes   = IF s = "readBoxes"   THEN ActiveBoxes ELSE m.boxes
        /\ read.aliases = IF s = "readAliases" THEN EnabledAliases ELSE m.aliases
  <2>1. ActiveBoxes \in SUBSET Box /\ EnabledAliases \in SUBSET Alias /\ domain \in DomainValues \cup {"none"}
    BY <1>1 DEF ActiveBoxes, EnabledAliases, MailRowsTyped
  <2>2. CASE s = "readLogins"
    <3> DEFINE r == [m EXCEPT !.logins = ActiveBoxes]
    <3>1. /\ r \in MailRecord /\ r.kind = m.kind /\ r.of = m.of /\ r.to = m.to /\ r.alone = m.alone
          /\ r.logins = ActiveBoxes /\ r.domains = m.domains /\ r.boxes = m.boxes /\ r.aliases = m.aliases
      BY <1>4, <2>1 DEF MailRecord
    <3>2. mailing' = [mailing EXCEPT ![p] = [r EXCEPT !.todo = Tail(m.todo)]]
      BY <1>2, <2>2
    <3> HIDE DEF r
    <3> QED BY <2>2, <3>1, <3>2
  <2>3. CASE s = "readDomains"
    <3> DEFINE r == [m EXCEPT !.domains = domain]
    <3>1. /\ r \in MailRecord /\ r.kind = m.kind /\ r.of = m.of /\ r.to = m.to /\ r.alone = m.alone
          /\ r.domains = domain /\ r.boxes = m.boxes /\ r.aliases = m.aliases
      BY <1>4, <2>1 DEF MailRecord
    <3>2. mailing' = [mailing EXCEPT ![p] = [r EXCEPT !.todo = Tail(m.todo)]]
      BY <1>2, <2>3
    <3> HIDE DEF r
    <3> QED BY <2>3, <3>1, <3>2
  <2>4. CASE s = "readBoxes"
    <3> DEFINE r == [m EXCEPT !.boxes = ActiveBoxes]
    <3>1. /\ r \in MailRecord /\ r.kind = m.kind /\ r.of = m.of /\ r.to = m.to /\ r.alone = m.alone
          /\ r.domains = m.domains /\ r.boxes = ActiveBoxes /\ r.aliases = m.aliases
      BY <1>4, <2>1 DEF MailRecord
    <3>2. mailing' = [mailing EXCEPT ![p] = [r EXCEPT !.todo = Tail(m.todo)]]
      BY <1>2, <2>4
    <3> HIDE DEF r
    <3> QED BY <2>4, <3>1, <3>2
  <2>5. CASE s = "readAliases"
    <3> DEFINE r == [m EXCEPT !.aliases = EnabledAliases]
    <3>1. /\ r \in MailRecord /\ r.kind = m.kind /\ r.of = m.of /\ r.to = m.to /\ r.alone = m.alone
          /\ r.domains = m.domains /\ r.boxes = m.boxes /\ r.aliases = EnabledAliases
      BY <1>4, <2>1 DEF MailRecord
    <3>2. mailing' = [mailing EXCEPT ![p] = [r EXCEPT !.todo = Tail(m.todo)]]
      BY <1>2, <2>5
    <3> HIDE DEF r
    <3> QED BY <2>5, <3>1, <3>2
  <2> QED BY <2>2, <2>3, <2>4, <2>5
<1> DEFINE c == [read EXCEPT !.todo = Tail(m.todo)]
<1>6. Tail(m.todo) \in BoxLeft \cup OtherLeft
  <2> HIDE DEF m
  <2>1. Head(m.todo) # "writeSenders"
    BY <1>4 DEF MailNow, m
  <2> QED BY <1>4, <2>1, LeftTable
<1>7. /\ c \in MailRecord /\ c.todo = Tail(m.todo)
      /\ c.kind = read.kind /\ c.of = read.of /\ c.to = read.to /\ c.alone = read.alone
      /\ c.logins = read.logins /\ c.domains = read.domains /\ c.boxes = read.boxes /\ c.aliases = read.aliases
  <2> HIDE DEF m
  <2> QED BY <1>6, MailTodo
<1> HIDE DEF c
<1>8. MailGoes(p) /\ mailing'[p] = c
  <2>1. mailing' = [mailing EXCEPT ![p] = c] /\ tainted \subseteq tainted'
    BY <1>3, <1>5 DEF c
  <2>2. /\ c \in MailRecord /\ c.kind = mailing[p].kind /\ c.of = mailing[p].of /\ c.to = mailing[p].to
        /\ c.todo = Tail(mailing[p].todo) /\ (c.alone => mailing[p].alone)
    BY <1>5, <1>7
  <2> QED BY <1>1, <1>4, <2>1, <2>2, MailTail
<1>9. mailing'[p] # NoMailing
  <2>1. c.todo # <<>>
    BY <1>4, <1>7, <1>1, MailTable
  <2> QED BY <1>8, <2>1 DEF NoMailing
<1>10. PICK t : t = MailNow(p)' /\ Then(s, t)
  BY <1>4, <1>8, <1>9 DEF MailGoes
<1>11. Written(t) = Written(s)
  <2>1. FileOf(s) = {}
    BY DEF FileOf
  <2> QED BY <1>4, <1>10, <2>1, WrittenThen
<1>12. /\ t \in AfterDomains => s \in AfterDomains \/ s = "readDomains"
       /\ t \in AfterBoxes   => s \in AfterBoxes \/ s = "readBoxes"
       /\ t \in AfterAliases => s \in AfterAliases \/ s = "readAliases"
       /\ t = "writeLogins"  => s = "readLogins"
  BY <1>10, WrittenThen
<1>13. Wanted' = Wanted /\ ActiveBoxes' = ActiveBoxes /\ EnabledAliases' = EnabledAliases
  BY <1>3 DEF Wanted, ActiveBoxes, EnabledAliases, DomainEnabled
<1>14. MailRowsTyped' /\ FilesTyped'
  BY <1>3 DEF MailInv, MailRowsTyped, FilesTyped
<1>15. MapsKept'
  <2>1. \A f \in MailFiles : lookup'[f] = lookup[f] /\ Wanted'[f] = Wanted[f] /\ (f \in tainted => f \in tainted')
    BY <1>3, <1>13
  <2> QED BY <1>4, <1>8, <1>9, <2>1, MapsFrame
<1>16. NoneLeft'
  BY <1>3, <1>4, <1>8, NoneFrame
<1>17. MapsWritten'
  <2> SUFFICES ASSUME NEW q \in Mailer, mailing'[q].alone
               PROVE  /\ \A f \in Rewrites(q)' \cap Written(MailNow(q)') : lookup'[f] = Wanted'[f]
                      /\ MailNow(q)' \in AfterDomains  => mailing'[q].domains = domain'
                      /\ MailNow(q)' \in AfterBoxes    => mailing'[q].boxes = ActiveBoxes'
                      /\ MailNow(q)' \in AfterAliases  => mailing'[q].aliases = EnabledAliases'
                      /\ MailNow(q)' = "writeLogins"   => mailing'[q].logins = ActiveBoxes'
    BY DEF MapsWritten
  <2>1. q = p /\ mailing[p].alone
    BY <1>1, <1>4, <1>8, OnlyAlone
  <2>2. /\ \A f \in Rewrites(p) \cap Written(s) : lookup[f] = Wanted[f]
        /\ s \in AfterDomains  => m.domains = domain
        /\ s \in AfterBoxes    => m.boxes = ActiveBoxes
        /\ s \in AfterAliases  => m.aliases = EnabledAliases
    BY <1>4, <2>1 DEF MailInv, MapsWritten
  <2>3. Rewrites(p)' = Rewrites(p)
    BY <1>5, <1>7, <1>8 DEF Rewrites
  <2>4. \A f \in Rewrites(q)' \cap Written(MailNow(q)') : lookup'[f] = Wanted'[f]
    BY <1>3, <1>10, <1>11, <1>13, <2>1, <2>2, <2>3
  <2>5. t \in AfterDomains => mailing'[p].domains = domain'
    BY <1>3, <1>5, <1>7, <1>8, <1>12, <2>2
  <2>6. t \in AfterBoxes => mailing'[p].boxes = ActiveBoxes'
    BY <1>5, <1>7, <1>8, <1>12, <1>13, <2>2
  <2>7. t \in AfterAliases => mailing'[p].aliases = EnabledAliases'
    BY <1>5, <1>7, <1>8, <1>12, <1>13, <2>2
  <2>8. t = "writeLogins" => mailing'[p].logins = ActiveBoxes'
    BY <1>5, <1>7, <1>8, <1>12, <1>13
  <2> QED BY <1>10, <2>1, <2>4, <2>5, <2>6, <2>7, <2>8
<1>18. BoxesKept'
  <2> SUFFICES ASSUME NEW q \in Mailer, mailing'[q].alone
               PROVE  /\ mailing'[q].kind \in BoxKinds /\ MailNow(q)' \notin RowSteps =>
                           box'[mailing'[q].of] = mailing'[q].to
                      /\ tainted' \cap {"boxes", "logins"} = {} =>
                           /\ "boxes" \notin Written(MailNow(q)') =>
                                lookup'["boxes"] \ {mailing'[q].of} = ActiveBoxes' \ {mailing'[q].of}
                           /\ "logins" \notin Written(MailNow(q)') => lookup'["logins"] = lookup'["boxes"]
    BY DEF BoxesKept
  <2>1. q = p /\ mailing[p].alone
    BY <1>1, <1>4, <1>8, OnlyAlone
  <2>2. /\ m.kind \in BoxKinds => box[m.of] = m.to
        /\ tainted \cap {"boxes", "logins"} = {} =>
             /\ "boxes" \notin Written(s) => lookup["boxes"] \ {m.of} = ActiveBoxes \ {m.of}
             /\ "logins" \notin Written(s) => lookup["logins"] = lookup["boxes"]
    BY <1>4, <2>1 DEF MailInv, BoxesKept
  <2>3. mailing'[p].kind = m.kind /\ mailing'[p].of = m.of /\ mailing'[p].to = m.to
    BY <1>5, <1>7, <1>8
  <2> QED BY <1>3, <1>10, <1>11, <1>13, <2>1, <2>2, <2>3
<1> QED BY <1>8, <1>14, <1>15, <1>16, <1>17, <1>18 DEF MailInv, MailGoes

\* What a step writes, and that it is what should be there if the request is alone.
LEMMA ContentAt ==
  ASSUME MailInv, NEW p \in Mailer, NEW s \in WriteSteps, MailAt(p, s)
  PROVE  LET c == Content(mailing[p])[s] IN
         /\ c.file \in MailFiles /\ FileOf(s) = {c.file} /\ c.file \in Rewrites(p)
         /\ c.is \subseteq Box \cup Alias \cup {"domain", CatchAll}
         /\ c.file = "boxes" => c.is \subseteq Box
         /\ mailing[p].alone => c.is = Wanted[c.file]
<1> DEFINE m == mailing[p]
<1>1. InFlight(p) /\ MailNow(p) = s /\ m \in MailRecord
  BY AtStep, MailTable DEF MailInv
<1>2. s = "writeLogins" => m.kind \in BoxKinds
  BY <1>1, MailTable DEF MailInv
<1>3. /\ m.logins \subseteq Box /\ m.boxes \subseteq Box /\ m.aliases \subseteq Alias
  BY <1>1 DEF MailRecord
<1>4. mailing[p].alone =>
        /\ s \in AfterDomains  => m.domains = domain
        /\ s \in AfterBoxes    => m.boxes = ActiveBoxes
        /\ s \in AfterAliases  => m.aliases = EnabledAliases
        /\ s = "writeLogins"   => m.logins = ActiveBoxes
  BY <1>1 DEF MailInv, MapsWritten
<1>5. Rewrites(p) = IF m.kind \in BoxKinds THEN MailFiles ELSE MailFiles \ {"logins"}
  BY RewritesAt
<1> HIDE DEF m
<1> USE DEF AfterAliases, AfterBoxes, AfterDomains
<1>6. CASE s = "writeLogins"
  <2>1. Content(m)[s].file = "logins" /\ Content(m)[s].is = m.logins
    BY <1>6 DEF Content
  <2>2. Wanted["logins"] = ActiveBoxes /\ FileOf(s) = {"logins"}
    BY <1>6 DEF Wanted, FileOf, MailFiles
  <2> QED BY <1>2, <1>3, <1>4, <1>5, <1>6, <2>1, <2>2 DEF m, MailFiles
<1>7. CASE s = "writeDomains"
  <2>1. /\ Content(m)[s].file = "domains"
        /\ Content(m)[s].is = IF m.domains \in {"on", "catch"} THEN {"domain"} ELSE {}
    BY <1>7 DEF Content
  <2>2. Wanted["domains"] = IF domain \in {"on", "catch"} THEN {"domain"} ELSE {}
    BY DEF Wanted, DomainEnabled
  <2>3. FileOf(s) = {"domains"}
    BY <1>7 DEF FileOf, MailFiles
  <2> QED BY <1>3, <1>4, <1>5, <1>7, <2>1, <2>2, <2>3 DEF m, MailFiles
<1>8. CASE s = "writeBoxes"
  <2>1. Content(m)[s].file = "boxes" /\ Content(m)[s].is = m.boxes
    BY <1>8 DEF Content
  <2>2. Wanted["boxes"] = ActiveBoxes /\ FileOf(s) = {"boxes"}
    BY <1>8 DEF Wanted, FileOf, MailFiles
  <2> QED BY <1>3, <1>4, <1>5, <1>8, <2>1, <2>2 DEF m, MailFiles
<1>9. CASE s = "writeAliases"
  <2>1. /\ Content(m)[s].file = "aliases"
        /\ Content(m)[s].is = m.aliases \cup (IF m.domains = "catch" THEN {CatchAll} ELSE {})
    BY <1>9 DEF Content
  <2>2. Wanted["aliases"] = EnabledAliases \cup (IF domain = "catch" THEN {CatchAll} ELSE {})
    BY DEF Wanted
  <2>3. FileOf(s) = {"aliases"}
    BY <1>9 DEF FileOf, MailFiles
  <2> QED BY <1>3, <1>4, <1>5, <1>9, <2>1, <2>2, <2>3 DEF m, MailFiles
<1>10. CASE s = "writeSenders"
  <2>1. Content(m)[s].file = "senders" /\ Content(m)[s].is = m.boxes
    BY <1>10 DEF Content
  <2>2. Wanted["senders"] = ActiveBoxes /\ FileOf(s) = {"senders"}
    BY <1>10 DEF Wanted, FileOf, MailFiles
  <2> QED BY <1>3, <1>4, <1>5, <1>10, <2>1, <2>2 DEF m, MailFiles
<1> QED BY <1>6, <1>7, <1>8, <1>9, <1>10 DEF WriteSteps

LEMMA WriteMapStep ==
  ASSUME MailInv, NEW p \in Mailer, WriteMap(p)
  PROVE  MailInv'
<1> DEFINE m == mailing[p]
<1>1. MailsTyped /\ MailsAlone /\ MailRowsTyped /\ FilesTyped
  BY DEF MailInv
<1>2. PICK s \in WriteSteps :
        MailAt(p, s) /\ lookup' = [lookup EXCEPT ![Content(m)[s].file] = Content(m)[s].is]
  BY DEF WriteMap
<1>3. MailAdvance(p, {}) /\ UNCHANGED <<domain, box, alias>>
  BY DEF WriteMap, mailRows
<1>4. InFlight(p) /\ MailNow(p) = s /\ s \notin RowSteps
  BY <1>1, <1>2, AtStep DEF WriteSteps, RowSteps
<1>5. PICK g, new : /\ g = Content(m)[s].file /\ new = Content(m)[s].is
                    /\ g \in MailFiles /\ FileOf(s) = {g} /\ g \in Rewrites(p)
                    /\ new \subseteq Box \cup Alias \cup {"domain", CatchAll}
                    /\ g = "boxes" => new \subseteq Box
                    /\ m.alone => new = Wanted[g]
  BY <1>2, ContentAt
<1>6. lookup' = [lookup EXCEPT ![g] = new]
  BY <1>2, <1>5
<1>7. /\ \A f \in MailFiles : lookup'[f] = IF f = g THEN new ELSE lookup[f]
      /\ lookup' \in [MailFiles -> SUBSET (Box \cup Alias \cup {"domain", CatchAll})]
      /\ lookup'["boxes"] \subseteq Box
  BY <1>1, <1>5, <1>6 DEF FilesTyped, MailFiles
<1>8. {} \in SUBSET MailFiles
  OBVIOUS
<1>9. /\ MailGoes(p)
      /\ MailNow(p) = "writeSenders" =>
           /\ mailing'[p] = NoMailing
           /\ tainted' = IF mailing[p].alone THEN tainted \ Rewrites(p) ELSE tainted \cup Rewrites(p)
      /\ MailNow(p) # "writeSenders" =>
           /\ mailing'[p] # NoMailing /\ tainted' = tainted
           /\ mailing'[p].logins = mailing[p].logins /\ mailing'[p].domains = mailing[p].domains
           /\ mailing'[p].boxes = mailing[p].boxes /\ mailing'[p].aliases = mailing[p].aliases
  BY <1>1, <1>3, <1>4, <1>8, MailAdvanced
<1>10. Wanted' = Wanted /\ ActiveBoxes' = ActiveBoxes /\ EnabledAliases' = EnabledAliases
  BY <1>3 DEF Wanted, ActiveBoxes, EnabledAliases, DomainEnabled
<1>11. MailRowsTyped' /\ FilesTyped'
  <2>1. tainted' \subseteq MailFiles
    BY <1>1, <1>9, RewritesAt DEF FilesTyped
  <2> QED BY <1>1, <1>3, <1>7, <2>1 DEF MailRowsTyped, FilesTyped
<1>12. MapsKept'
  <2>1. \A f \in MailFiles \ Rewrites(p) : lookup'[f] = lookup[f] /\ Wanted'[f] = Wanted[f]
    BY <1>5, <1>7, <1>10
  <2>2. \A f \in MailFiles \ Rewrites(p) : f \in tainted => f \in tainted'
    BY <1>9
  <2>3. ASSUME mailing'[p] = NoMailing, mailing[p].alone, NEW f \in Rewrites(p)
        PROVE  lookup'[f] = Wanted'[f]
    <3>1. s = "writeSenders" /\ g = "senders" /\ f \in MailFiles
      BY <1>4, <1>5, <1>9, <2>3, RewritesAt DEF FileOf
    <3>2. f # "senders" => f \in Written(s)
      BY <3>1 DEF Written, MailFiles, AfterLogins, AfterDomains, AfterBoxes, AfterAliases
    <3>3. f \in Written(s) => lookup[f] = Wanted[f]
      BY <1>4, <2>3 DEF MailInv, MapsWritten
    <3> QED BY <1>5, <1>7, <1>10, <2>3, <3>1, <3>2, <3>3
  <2> QED BY <1>4, <1>9, <2>1, <2>2, <2>3, MapsFrame
<1>13. NoneLeft'
  BY <1>3, <1>4, <1>9, NoneFrame
<1>14. ASSUME NEW q \in Mailer, mailing'[q].alone
       PROVE  /\ q = p /\ mailing[p].alone /\ s # "writeSenders" /\ Rewrites(p)' = Rewrites(p)
              /\ Then(s, MailNow(p)') /\ Written(MailNow(p)') = Written(s) \cup {g}
              /\ mailing'[p].kind = m.kind /\ mailing'[p].of = m.of /\ mailing'[p].to = m.to
  <2>1. q = p /\ mailing[p].alone /\ mailing'[p] # NoMailing /\ s # "writeSenders"
    BY <1>1, <1>4, <1>9, <1>14, OnlyAlone
  <2>2. Then(s, MailNow(p)') /\ mailing'[p].kind = m.kind /\ mailing'[p].of = m.of /\ mailing'[p].to = m.to
    BY <1>4, <1>9, <2>1 DEF MailGoes
  <2>3. Written(MailNow(p)') = Written(s) \cup {g}
    BY <1>4, <1>5, <2>2, WrittenThen
  <2> QED BY <2>1, <2>2, <2>3 DEF Rewrites
<1>15. MapsWritten'
  <2> SUFFICES ASSUME NEW q \in Mailer, mailing'[q].alone
               PROVE  /\ \A f \in Rewrites(q)' \cap Written(MailNow(q)') : lookup'[f] = Wanted'[f]
                      /\ MailNow(q)' \in AfterDomains  => mailing'[q].domains = domain'
                      /\ MailNow(q)' \in AfterBoxes    => mailing'[q].boxes = ActiveBoxes'
                      /\ MailNow(q)' \in AfterAliases  => mailing'[q].aliases = EnabledAliases'
                      /\ MailNow(q)' = "writeLogins"   => mailing'[q].logins = ActiveBoxes'
    BY DEF MapsWritten
  <2>1. PICK t : t = MailNow(p)' /\ Then(s, t) /\ q = p /\ mailing[p].alone
    BY <1>14
  <2>2. /\ \A f \in Rewrites(p) \cap Written(s) : lookup[f] = Wanted[f]
        /\ s \in AfterDomains  => m.domains = domain
        /\ s \in AfterBoxes    => m.boxes = ActiveBoxes
        /\ s \in AfterAliases  => m.aliases = EnabledAliases
    BY <1>4, <2>1 DEF MailInv, MapsWritten
  <2>3. \A f \in Rewrites(p) \cap (Written(s) \cup {g}) : lookup'[f] = Wanted'[f]
    BY <1>5, <1>7, <1>10, <2>1, <2>2, RewritesAt
  <2>4. \A f \in Rewrites(q)' \cap Written(MailNow(q)') : lookup'[f] = Wanted'[f]
    BY <1>14, <2>1, <2>3
  <2>5. /\ t \in AfterDomains => s \in AfterDomains
        /\ t \in AfterBoxes   => s \in AfterBoxes
        /\ t \in AfterAliases => s \in AfterAliases
        /\ t # "writeLogins"
    <3>1. s \notin {"readLogins", "readDomains", "readBoxes", "readAliases"}
      BY DEF WriteSteps
    <3> QED BY <2>1, <3>1, WrittenThen
  <2> QED BY <1>3, <1>9, <1>10, <1>4, <1>14, <2>1, <2>2, <2>4, <2>5
<1>16. BoxesKept'
  <2> SUFFICES ASSUME NEW q \in Mailer, mailing'[q].alone
               PROVE  /\ mailing'[q].kind \in BoxKinds /\ MailNow(q)' \notin RowSteps =>
                           box'[mailing'[q].of] = mailing'[q].to
                      /\ tainted' \cap {"boxes", "logins"} = {} =>
                           /\ "boxes" \notin Written(MailNow(q)') =>
                                lookup'["boxes"] \ {mailing'[q].of} = ActiveBoxes' \ {mailing'[q].of}
                           /\ "logins" \notin Written(MailNow(q)') => lookup'["logins"] = lookup'["boxes"]
    BY DEF BoxesKept
  <2>1. q = p /\ mailing[p].alone /\ Written(MailNow(p)') = Written(s) \cup {g} /\ tainted' = tainted
    BY <1>4, <1>9, <1>14
  <2>2. /\ m.kind \in BoxKinds => box[m.of] = m.to
        /\ tainted \cap {"boxes", "logins"} = {} =>
             /\ "boxes" \notin Written(s) => lookup["boxes"] \ {m.of} = ActiveBoxes \ {m.of}
             /\ "logins" \notin Written(s) => lookup["logins"] = lookup["boxes"]
    BY <1>4, <2>1 DEF MailInv, BoxesKept
  <2>3. "boxes" \in MailFiles /\ "logins" \in MailFiles
    BY DEF MailFiles
  <2>4. g # "logins" => "logins" \in Written(s)
    BY <1>5, <2>3 DEF FileOf, Written, WriteSteps, AfterLogins, AfterDomains, AfterBoxes, AfterAliases
  <2>5. g # "boxes" => lookup'["boxes"] = lookup["boxes"]
    BY <1>7, <2>3
  <2>6. "boxes" \notin Written(s) \cup {g} /\ tainted \cap {"boxes", "logins"} = {} =>
          lookup'["boxes"] \ {m.of} = ActiveBoxes' \ {m.of}
    BY <1>10, <2>2, <2>5
  <2> QED BY <1>3, <1>14, <2>1, <2>2, <2>4, <2>6
<1> QED BY <1>9, <1>11, <1>12, <1>13, <1>15, <1>16 DEF MailInv, MailGoes

LEMMA WriteFailsStep ==
  ASSUME MailInv, NEW p \in Mailer, WriteFails(p)
  PROVE  MailInv'
<1>1. MailsTyped /\ MailsAlone /\ MailRowsTyped /\ FilesTyped
  BY DEF MailInv
<1>2. PICK s \in WriteSteps : MailAt(p, s) /\ MailAdvance(p, {Content(mailing[p])[s].file})
  BY DEF WriteFails
<1>3. UNCHANGED <<domain, box, alias, lookup>>
  BY DEF WriteFails, mailRows
<1>4. PICK g \in MailFiles : g = Content(mailing[p])[s].file
  BY <1>2, ContentAt
<1>5. InFlight(p) /\ {g} \in SUBSET MailFiles /\ {g} # {} /\ MailAdvance(p, {g})
  BY <1>1, <1>2, <1>4, AtStep
<1>6. /\ MailGoes(p)
      /\ MailNow(p) = "writeSenders" =>
           mailing'[p] = NoMailing /\ tainted' = tainted \cup {g} \cup Rewrites(p)
      /\ MailNow(p) # "writeSenders" =>
           mailing'[p] # NoMailing /\ tainted' = tainted \cup {g} /\ ~mailing'[p].alone
  BY <1>1, <1>5, MailAdvanced
<1>7. Wanted' = Wanted /\ tainted \subseteq tainted'
  BY <1>3, <1>6 DEF Wanted, ActiveBoxes, EnabledAliases, DomainEnabled
<1>8. MailRowsTyped' /\ FilesTyped'
  <2>1. tainted' \subseteq MailFiles
    BY <1>1, <1>6, RewritesAt DEF FilesTyped
  <2> QED BY <1>1, <1>3, <2>1 DEF MailRowsTyped, FilesTyped
<1>9. MapsKept'
  <2>1. \A f \in MailFiles : (f \in tainted => f \in tainted') /\ lookup'[f] = lookup[f] /\ Wanted'[f] = Wanted[f]
    BY <1>3, <1>7
  <2>2. mailing'[p] = NoMailing => \A f \in Rewrites(p) : f \in tainted'
    BY <1>6
  <2> QED BY <1>5, <1>6, <2>1, <2>2, MapsFrame
<1>10. NoneLeft'
  BY <1>3, <1>5, <1>6, NoneFrame
<1>11. \A q \in Mailer : ~mailing'[q].alone
  BY <1>1, <1>5, <1>6, OnlyAlone
<1> QED BY <1>6, <1>8, <1>9, <1>10, <1>11 DEF MailInv, MailGoes, MapsWritten, BoxesKept

LEMMA MailRequestFailsStep ==
  ASSUME MailInv, NEW p \in Mailer, MailRequestFails(p)
  PROVE  MailInv'
<1>1. MailsTyped /\ MailsAlone /\ MailRowsTyped /\ FilesTyped
  BY DEF MailInv
<1>2. MailAbort(p) /\ UNCHANGED <<domain, box, alias, lookup>>
  BY DEF MailRequestFails, mailRows
<1>3. InFlight(p)
  <2>1. \E s : MailAt(p, s)
    BY DEF MailRequestFails
  <2> QED BY <1>1, <2>1, AtStep
<1>4. mailing' = [mailing EXCEPT ![p] = NoMailing] /\ tainted' = tainted \cup MailFiles
  BY <1>2 DEF MailAbort
<1>5. MailGoes(p) /\ mailing'[p] = NoMailing
  BY <1>1, <1>4, MailEnds, RewritesAt
<1>6. MailRowsTyped' /\ FilesTyped'
  BY <1>1, <1>2, <1>4 DEF MailRowsTyped, FilesTyped
<1>7. MapsKept'
  BY <1>4 DEF MapsKept
<1>8. NoneLeft'
  BY <1>2, <1>3, <1>5, NoneFrame
<1>9. \A q \in Mailer : ~mailing'[q].alone
  BY <1>1, <1>3, <1>5, OnlyAlone
<1> QED BY <1>5, <1>6, <1>7, <1>8, <1>9 DEF MailInv, MailGoes, MapsWritten, BoxesKept

\* What a step that changes a row leaves of a request that is alone.
LEMMA RowsFrame ==
  ASSUME MailInv, NEW p \in Mailer, InFlight(p), MailNow(p) \in RowSteps, MailAdvance(p, {}), lookup' = lookup,
         mailing[p].kind \in BoxKinds => box'[mailing[p].of] = mailing[p].to,
         tainted \cap {"boxes", "logins"} = {} /\ mailing[p].alone =>
           ActiveBoxes' \ {mailing[p].of} = ActiveBoxes \ {mailing[p].of},
         \/ mailing[p].kind \in BoxKinds
         \/ ActiveBoxes' = ActiveBoxes
         \/ "logins" \in tainted
         \/ \E q \in Mailer : mailing[q].kind \in BoxKinds,
         box' = box \/ mailing[p].kind \in BoxKinds \/ \A b \in Box : box'[b] = "none"
  PROVE  /\ MailsTyped' /\ MailsAlone' /\ FilesTyped' /\ MapsKept' /\ MapsWritten' /\ NoneLeft' /\ BoxesKept'
<1> DEFINE m == mailing[p]
<1>1. MailsTyped /\ MailsAlone /\ FilesTyped
  BY DEF MailInv
<1>2. {} \in SUBSET MailFiles
  OBVIOUS
<1>0. MailNow(p) # "writeSenders"
  <2>1. "writeSenders" \notin RowSteps
    BY DEF RowSteps
  <2> QED BY <2>1
<1>3. MailGoes(p) /\ mailing'[p] # NoMailing /\ tainted' = tainted
  <2>1. /\ MailGoes(p)
        /\ MailNow(p) # "writeSenders" => mailing'[p] # NoMailing /\ tainted' = tainted \cup {}
    BY <1>1, <1>2, MailAdvanced
  <2> QED BY <1>0, <2>1
<1>4. /\ mailing'[p].kind = m.kind /\ mailing'[p].of = m.of /\ mailing'[p].to = m.to
      /\ Then(MailNow(p), MailNow(p)')
      /\ m.kind \in BoxKinds => MailNow(p)' = "readLogins"
  BY <1>3 DEF MailGoes
<1>5. PICK t : t = MailNow(p)' /\ t \in {"readLogins", "readDomains"} /\ t \notin RowSteps
  BY <1>4, WrittenThen
<1>6. FilesTyped'
  BY <1>1, <1>3 DEF FilesTyped
<1>7. MapsKept'
  <2>1. ASSUME NEW f \in MailFiles \ Rewrites(p)
        PROVE  \/ f \in tainted
               \/ lookup'[f] = lookup[f] /\ Wanted'[f] = Wanted[f]
               \/ \E q \in Mailer : q # p /\ InFlight(q) /\ f \in Rewrites(q)
    <3>1. m.kind \notin BoxKinds /\ f = "logins"
      BY <2>1, RewritesAt
    <3>2. ASSUME NEW q \in Mailer, mailing[q].kind \in BoxKinds
          PROVE  q # p /\ InFlight(q) /\ f \in Rewrites(q)
      <4>1. NoMailing.kind \notin BoxKinds
        BY DEF NoMailing, BoxKinds
      <4> QED BY <2>1, <3>1, <3>2, <4>1, RewritesAt DEF InFlight
    <3>3. ActiveBoxes' = ActiveBoxes => Wanted'["logins"] = Wanted["logins"]
      BY DEF Wanted
    <3> QED BY <3>1, <3>2, <3>3
  <2>2. \A f \in MailFiles \ Rewrites(p) : f \in tainted => f \in tainted'
    BY <1>3
  <2> QED BY <1>3, <2>1, <2>2, MapsFrame
<1>8. NoneLeft'
  BY <1>3, NoneFrame
<1>9. MapsWritten'
  <2> SUFFICES ASSUME NEW q \in Mailer, mailing'[q].alone
               PROVE  /\ \A f \in Rewrites(q)' \cap Written(MailNow(q)') : lookup'[f] = Wanted'[f]
                      /\ MailNow(q)' \in AfterDomains  => mailing'[q].domains = domain'
                      /\ MailNow(q)' \in AfterBoxes    => mailing'[q].boxes = ActiveBoxes'
                      /\ MailNow(q)' \in AfterAliases  => mailing'[q].aliases = EnabledAliases'
                      /\ MailNow(q)' = "writeLogins"   => mailing'[q].logins = ActiveBoxes'
    BY DEF MapsWritten
  <2>1. q = p
    BY <1>1, <1>3, OnlyAlone
  <2>2. Rewrites(p)' = IF m.kind \in BoxKinds THEN MailFiles ELSE MailFiles \ {"logins"}
    BY <1>4 DEF Rewrites, BoxKinds
  <2>3. Written("readLogins") = {} /\ Written("readDomains") = {"logins"}
    BY <1>4, WrittenThen
  <2>4. Rewrites(p)' \cap Written(t) = {}
    BY <1>4, <1>5, <2>2, <2>3
  <2> QED BY <1>5, <2>1, <2>4 DEF AfterDomains, AfterBoxes, AfterAliases
<1>10. BoxesKept'
  <2> SUFFICES ASSUME NEW q \in Mailer, mailing'[q].alone
               PROVE  /\ mailing'[q].kind \in BoxKinds /\ MailNow(q)' \notin RowSteps =>
                           box'[mailing'[q].of] = mailing'[q].to
                      /\ tainted' \cap {"boxes", "logins"} = {} =>
                           /\ "boxes" \notin Written(MailNow(q)') =>
                                lookup'["boxes"] \ {mailing'[q].of} = ActiveBoxes' \ {mailing'[q].of}
                           /\ "logins" \notin Written(MailNow(q)') => lookup'["logins"] = lookup'["boxes"]
    BY DEF BoxesKept
  <2>1. q = p /\ m.alone
    BY <1>1, <1>3, OnlyAlone
  <2>2. tainted \cap {"boxes", "logins"} = {} =>
           lookup["boxes"] \ {m.of} = ActiveBoxes \ {m.of} /\ lookup["logins"] = lookup["boxes"]
    <3>1. Written(MailNow(p)) = {}
      BY <1>4, WrittenThen
    <3> QED BY <2>1, <3>1 DEF MailInv, BoxesKept
  <2> QED BY <1>3, <1>4, <2>1, <2>2
<1> QED BY <1>3, <1>6, <1>7, <1>8, <1>9, <1>10 DEF MailGoes

\* Which rows a request is about: the names of rows of different tables differ.
LEMMA MailAbout ==
  ASSUME MailsTyped, NEW p \in Mailer, InFlight(p)
  PROVE  \/ /\ mailing[p].kind \in DomainKinds /\ mailing[p].kind \notin BoxKinds
            /\ mailing[p].of = "domain" /\ mailing[p].of \notin Box
            /\ mailing[p].to \in DomainValues \cup {"none"}
         \/ /\ mailing[p].kind \in BoxKinds
            /\ mailing[p].of \in Box /\ mailing[p].of # "domain"
            /\ mailing[p].to \in BoxValues \cup {"none"}
         \/ /\ mailing[p].kind \in AliasKinds /\ mailing[p].kind \notin BoxKinds
            /\ mailing[p].of \in Alias /\ mailing[p].of \notin Box /\ mailing[p].of # "domain"
            /\ mailing[p].to \in AliasValues \cup {"none"}
<1>1. OnMail(mailing[p]) /\ mailing[p] # NoMailing
  BY DEF MailsTyped, InFlight
<1> QED BY <1>1, NamesApart DEF OnMail, DomainKinds, BoxKinds, AliasKinds

LEMMA SaveMailRowStep ==
  ASSUME MailInv, NEW p \in Mailer, SaveMailRow(p)
  PROVE  MailInv'
<1> DEFINE m == mailing[p]
<1>1. MailsTyped /\ MailRowsTyped
  BY DEF MailInv
<1>2. /\ MailAt(p, "save") /\ ~Dangling(p) /\ MailAdvance(p, {}) /\ lookup' = lookup
      /\ CASE m.of = "domain" -> domain' = m.to /\ UNCHANGED <<box, alias>>
           [] m.of \in Box    -> box' = [box EXCEPT ![m.of] = m.to] /\ UNCHANGED <<domain, alias>>
           [] OTHER           -> alias' = [alias EXCEPT ![m.of] = m.to] /\ UNCHANGED <<domain, box>>
  BY DEF SaveMailRow
<1>3. InFlight(p) /\ MailNow(p) = "save" /\ MailNow(p) \in RowSteps
  BY <1>1, <1>2, AtStep DEF RowSteps
<1>4. m.to # "none"
  <2>1. OnMail(m) /\ m # NoMailing
    BY <1>1, <1>3 DEF MailsTyped, InFlight
  <2> QED BY <1>3, <2>1 DEF OnMail, MailNow
<1>5. CASE m.kind \notin BoxKinds
  <2>1. /\ box' = box /\ ActiveBoxes' = ActiveBoxes
        /\ \/ domain' = m.to /\ m.to \in DomainValues /\ alias' = alias
           \/ /\ alias' = [alias EXCEPT ![m.of] = m.to] /\ m.to \in AliasValues /\ m.of \in Alias
              /\ domain' = domain
    <3>1. \/ m.of = "domain" /\ m.of \notin Box /\ m.to \in DomainValues
          \/ m.of \in Alias /\ m.of \notin Box /\ m.of # "domain" /\ m.to \in AliasValues
      BY <1>1, <1>3, <1>4, <1>5, MailAbout
    <3> QED BY <1>2, <3>1 DEF ActiveBoxes
  <2>2. MailRowsTyped'
    BY <1>1, <2>1 DEF MailRowsTyped, DomainValues
  <2> QED BY <1>2, <1>3, <1>5, <2>1, <2>2, RowsFrame DEF MailInv
<1>6. CASE m.kind \in BoxKinds
  <2>1. m.of \in Box /\ m.of # "domain" /\ m.to \in BoxValues
    BY <1>1, <1>3, <1>4, <1>6, MailAbout DEF BoxKinds, DomainKinds, AliasKinds
  <2>2. box' = [box EXCEPT ![m.of] = m.to] /\ UNCHANGED <<domain, alias>> /\ domain # "none"
    BY <1>2, <2>1 DEF Dangling
  <2>3. MailRowsTyped' /\ \A b \in Box : box'[b] = IF b = m.of THEN m.to ELSE box[b]
    BY <1>1, <2>1, <2>2 DEF MailRowsTyped
  <2>4. box'[m.of] = m.to /\ ActiveBoxes' \ {m.of} = ActiveBoxes \ {m.of}
    BY <2>1, <2>3 DEF ActiveBoxes
  <2> QED BY <1>2, <1>3, <1>6, <2>3, <2>4, RowsFrame DEF MailInv
<1> QED BY <1>5, <1>6

LEMMA RemoveMailRowStep ==
  ASSUME MailInv, NEW p \in Mailer, RemoveMailRow(p)
  PROVE  MailInv'
<1> DEFINE m == mailing[p]
<1>1. MailsTyped /\ MailRowsTyped /\ MailsAlone
  BY DEF MailInv
<1>2. /\ MailAt(p, "remove") /\ MailAdvance(p, {}) /\ lookup' = lookup
      /\ CASE m.of = "domain" -> /\ domain' = "none"
                                 /\ box' = [b \in Box |-> "none"] /\ alias' = [a \in Alias |-> "none"]
           [] m.of \in Box    -> box' = [box EXCEPT ![m.of] = "none"] /\ UNCHANGED <<domain, alias>>
           [] OTHER           -> alias' = [alias EXCEPT ![m.of] = "none"] /\ UNCHANGED <<domain, box>>
  BY DEF RemoveMailRow
<1>3. InFlight(p) /\ MailNow(p) = "remove" /\ MailNow(p) \in RowSteps
  BY <1>1, <1>2, AtStep DEF RowSteps
<1>4. m.to = "none" /\ (m.of = "domain" => m.kind = "disable")
  <2>1. OnMail(m) /\ m # NoMailing
    BY <1>1, <1>3 DEF MailsTyped, InFlight
  <2> QED BY <1>3, <2>1 DEF OnMail, MailNow
<1>5. CASE m.kind \in DomainKinds
  <2>1. m.of = "domain" /\ m.of \notin Box /\ m.kind = "disable" /\ m.kind \notin BoxKinds
    BY <1>1, <1>3, <1>4, <1>5, MailAbout DEF DomainKinds, BoxKinds, AliasKinds
  <2>2. domain' = "none" /\ box' = [b \in Box |-> "none"] /\ alias' = [a \in Alias |-> "none"]
    BY <1>2, <2>1
  <2>3. MailRowsTyped' /\ (\A b \in Box : box'[b] = "none") /\ ActiveBoxes' = {}
    BY <2>2 DEF MailRowsTyped, ActiveBoxes
  <2>4. \/ ActiveBoxes = {}
        \/ "logins" \in tainted
        \/ \E q \in Mailer : mailing[q].kind \in BoxKinds
    BY <1>3, <2>1 DEF MailInv, NoneLeft, ActiveBoxes
  <2>5. m.alone => \A q \in Mailer : mailing[q].kind \notin BoxKinds
    <3>1. NoMailing.kind \notin BoxKinds
      BY DEF NoMailing, BoxKinds
    <3> QED BY <1>1, <2>1, <3>1 DEF MailsAlone
  <2>6. tainted \cap {"boxes", "logins"} = {} /\ m.alone => ActiveBoxes' \ {m.of} = ActiveBoxes \ {m.of}
    BY <2>3, <2>4, <2>5
  <2>7. \/ ActiveBoxes' = ActiveBoxes
        \/ "logins" \in tainted
        \/ \E q \in Mailer : mailing[q].kind \in BoxKinds
    BY <2>3, <2>4
  <2> QED BY <1>2, <1>3, <2>1, <2>3, <2>6, <2>7, RowsFrame DEF MailInv
<1>6. CASE m.kind \in AliasKinds
  <2>1. m.of \in Alias /\ m.of \notin Box /\ m.of # "domain" /\ m.kind \notin BoxKinds
    BY <1>1, <1>3, <1>6, MailAbout DEF DomainKinds, BoxKinds, AliasKinds
  <2>2. alias' = [alias EXCEPT ![m.of] = "none"] /\ UNCHANGED <<domain, box>> /\ ActiveBoxes' = ActiveBoxes
    BY <1>2, <2>1 DEF ActiveBoxes
  <2>3. MailRowsTyped'
    BY <1>1, <2>1, <2>2 DEF MailRowsTyped
  <2> QED BY <1>2, <1>3, <2>1, <2>2, <2>3, RowsFrame DEF MailInv
<1>7. CASE m.kind \in BoxKinds
  <2>1. m.of \in Box /\ m.of # "domain"
    BY <1>1, <1>3, <1>7, MailAbout DEF BoxKinds, DomainKinds, AliasKinds
  <2>2. box' = [box EXCEPT ![m.of] = "none"] /\ UNCHANGED <<domain, alias>>
    BY <1>2, <2>1
  <2>3. MailRowsTyped' /\ \A b \in Box : box'[b] = IF b = m.of THEN "none" ELSE box[b]
    BY <1>1, <2>1, <2>2 DEF MailRowsTyped
  <2>4. box'[m.of] = m.to /\ ActiveBoxes' \ {m.of} = ActiveBoxes \ {m.of}
    BY <1>4, <2>1, <2>3 DEF ActiveBoxes
  <2> QED BY <1>2, <1>3, <1>7, <2>3, <2>4, RowsFrame DEF MailInv
<1> QED BY <1>1, <1>3, <1>5, <1>6, <1>7, MailTable

-----------------------------------------------------------------------------
(* Requests that start.                                                     *)

LEMMA HeadFirst ==
  ASSUME NEW S, NEW s \in Seq(S), s # <<>>
  PROVE  <<Head(s)>> \o Tail(s) = s
<1> DEFINE a == <<Head(s)>>
           t == Tail(s)
           n == Len(s)
<1>1. /\ Head(s) \in S /\ t \in Seq(S) /\ Len(t) = n - 1 /\ n \in Nat /\ n >= 1
      /\ Head(s) = s[1] /\ \A i \in 1 .. Len(t) : t[i] = s[i + 1]
  BY HeadTailProperties
<1>2. a \in Seq(S) /\ Len(a) = 1 /\ a[1] = s[1]
  BY <1>1
<1> HIDE DEF a, t
<1>3. /\ a \o t \in Seq(S) /\ Len(a \o t) = Len(a) + Len(t)
      /\ \A i \in 1 .. Len(a) + Len(t) : (a \o t)[i] = IF i <= Len(a) THEN a[i] ELSE t[i - Len(a)]
  <2>1. a \in Seq(S) /\ t \in Seq(S)
    BY <1>1, <1>2
  <2> QED BY <2>1, ConcatProperties
<1>4. Len(a) + Len(t) = n
  BY <1>1, <1>2
<1>5. ASSUME NEW i \in 1 .. n PROVE (a \o t)[i] = s[i]
  <2>1. CASE i = 1
    BY <1>2, <1>3, <1>4, <2>1
  <2>2. CASE i # 1
    <3>1. i - 1 \in 1 .. Len(t) /\ (i - 1) + 1 = i /\ ~(i <= 1)
      BY <1>1, <2>2
    <3>2. (a \o t)[i] = t[i - 1]
      BY <1>2, <1>3, <1>4, <3>1
    <3> QED BY <1>1, <3>1, <3>2
  <2> QED BY <2>1, <2>2
<1>6. a \o t = s
  BY <1>3, <1>4, <1>5, SeqEqual
<1> QED BY <1>6 DEF a, t

LEMMA Regrouped ==
  ASSUME NEW S, NEW a \in Seq(S), NEW b \in Seq(S), NEW c \in Seq(S),
         NEW ab, NEW bc, ab = a \o b, bc = b \o c
  PROVE  ab \o c = a \o bc
<1>1. (a \o b) \o c = a \o (b \o c)
  BY ConcatAssociative, SMTT(20)
<1> QED BY <1>1, Zenon

\* The courses the handlers put together.
LEMMA Courses ==
  /\ <<"save">> \o SyncPostfix = Save8 /\ <<"remove">> \o SyncPostfix = Remove8
  /\ <<"save">> \o SyncDovecot \o SyncPostfix = Save10
  /\ <<"remove">> \o SyncDovecot \o SyncPostfix = Remove10
<1>1. SyncPostfix = Postfix7
  BY DEF SyncPostfix, Postfix7
<1>2. /\ Postfix7 \in Seq(MailSteps) /\ Dovecot8 \in Seq(MailSteps) /\ Dovecot9 \in Seq(MailSteps)
      /\ Save8 \in Seq(MailSteps) /\ Remove8 \in Seq(MailSteps)
      /\ Save10 \in Seq(MailSteps) /\ Remove10 \in Seq(MailSteps)
  <2> USE DEF MailSteps, AfterLogins, AfterDomains, AfterBoxes, AfterAliases, RowSteps
  <2>1. Postfix7 \in Seq(MailSteps)
    BY DEF Postfix7
  <2>2. Dovecot8 \in Seq(MailSteps)
    BY DEF Dovecot8
  <2>3. Dovecot9 \in Seq(MailSteps)
    BY DEF Dovecot9
  <2>4. Save8 \in Seq(MailSteps) /\ Remove8 \in Seq(MailSteps)
    BY DEF Save8, Remove8
  <2>5. Save10 \in Seq(MailSteps)
    BY DEF Save10
  <2>6. Remove10 \in Seq(MailSteps)
    BY DEF Remove10
  <2> QED BY <2>1, <2>2, <2>3, <2>4, <2>5, <2>6
<1>3. /\ SyncDovecot \in Seq(MailSteps) /\ SyncDovecot # <<>> /\ Head(SyncDovecot) = "readLogins"
      /\ Tail(SyncDovecot) = <<"writeLogins">>
  BY DEF SyncDovecot, MailSteps
<1>4. /\ <<"save">> \in Seq(MailSteps) /\ <<"remove">> \in Seq(MailSteps)
      /\ <<"readLogins">> \in Seq(MailSteps) /\ <<"writeLogins">> \in Seq(MailSteps)
  BY DEF MailSteps, RowSteps
<1>5. <<"save">> \o Postfix7 = Save8
  BY <1>2, PostfixTable, HeadFirst
<1>6. <<"remove">> \o Postfix7 = Remove8
  BY <1>2, PostfixTable, HeadFirst
<1>7. <<"save">> \o Dovecot9 = Save10
  BY <1>2, PostfixTable, HeadFirst
<1>8. <<"remove">> \o Dovecot9 = Remove10
  BY <1>2, PostfixTable, HeadFirst
<1>9. <<"readLogins">> \o Dovecot8 = Dovecot9
  BY <1>2, PostfixTable, HeadFirst
<1>10. <<"writeLogins">> \o Postfix7 = Dovecot8
  BY <1>2, PostfixTable, HeadFirst
<1>11. <<"readLogins">> \o <<"writeLogins">> = SyncDovecot
  BY <1>3, HeadFirst
<1>12. SyncDovecot \o Postfix7 = <<"readLogins">> \o Dovecot8
  <2> DEFINE r == <<"readLogins">>
             w == <<"writeLogins">>
  <2>1. r \in Seq(MailSteps) /\ w \in Seq(MailSteps) /\ Postfix7 \in Seq(MailSteps)
    BY <1>2, <1>4
  <2>2. SyncDovecot = r \o w /\ Dovecot8 = w \o Postfix7
    BY <1>10, <1>11, Zenon
  <2> HIDE DEF r, w
  <2>3. SyncDovecot \o Postfix7 = r \o Dovecot8
    BY <2>1, <2>2, Regrouped, SMTT(20)
  <2> QED BY <2>3 DEF r
<1>13. Dovecot9 = SyncDovecot \o Postfix7
  BY <1>9, <1>12, Zenon
<1>14. <<"save">> \o SyncDovecot \o Postfix7 = Save10
  <2> DEFINE x == <<"save">>
             u == x \o SyncDovecot
  <2>1. x \in Seq(MailSteps) /\ SyncDovecot \in Seq(MailSteps) /\ Postfix7 \in Seq(MailSteps)
    BY <1>2, <1>3, <1>4
  <2>2. u = x \o SyncDovecot
    OBVIOUS
  <2> HIDE DEF x, u
  <2>3. u \o Postfix7 = x \o Dovecot9
    BY <1>13, <2>1, <2>2, Regrouped
  <2> QED BY <1>7, <2>3 DEF x, u
<1>15. <<"remove">> \o SyncDovecot \o Postfix7 = Remove10
  <2> DEFINE x == <<"remove">>
             u == x \o SyncDovecot
  <2>1. x \in Seq(MailSteps) /\ SyncDovecot \in Seq(MailSteps) /\ Postfix7 \in Seq(MailSteps)
    BY <1>2, <1>3, <1>4
  <2>2. u = x \o SyncDovecot
    OBVIOUS
  <2> HIDE DEF x, u
  <2>3. u \o Postfix7 = x \o Dovecot9
    BY <1>13, <2>1, <2>2, Regrouped
  <2> QED BY <1>8, <2>3 DEF x, u
<1> QED BY <1>1, <1>5, <1>6, <1>14, <1>15

\* What each handler starts: a row saved or removed, then the files.
Starts(kind, of, to, steps) ==
  \/ kind \in {"enable", "domain"} /\ of = "domain" /\ to \in DomainValues /\ steps = Save8
  \/ kind = "disable" /\ of = "domain" /\ to = "none" /\ steps = Remove8 /\ \A b \in Box : box[b] = "none"
  \/ kind \in BoxKinds   /\ of \in Box   /\ to \in BoxValues /\ steps = Save10
  \/ kind \in BoxKinds   /\ of \in Box   /\ to = "none" /\ steps = Remove10
  \/ kind \in AliasKinds /\ of \in Alias /\ to \in AliasValues /\ steps = Save8
  \/ kind \in AliasKinds /\ of \in Alias /\ to = "none" /\ steps = Remove8

Opened(kind, of, to, steps, quiet) ==
  [NoMailing EXCEPT !.kind = kind, !.of = of, !.to = to, !.todo = steps, !.alone = quiet]

LEMMA MailNew ==
  ASSUME NEW kind, NEW of, NEW to, NEW steps, Starts(kind, of, to, steps), NEW quiet \in BOOLEAN,
         NEW new, new = Opened(kind, of, to, steps, quiet)
  PROVE  /\ new \in MailRecord /\ OnMail(new) /\ new # NoMailing
         /\ new.kind = kind /\ new.of = of /\ new.to = to /\ new.todo = steps /\ new.alone = quiet
         /\ Head(steps) \in RowSteps
<1>1. NoMailing \in MailRecord
  BY DEF NoMailing, MailRecord
<1>2. /\ kind \in DomainKinds \cup BoxKinds \cup AliasKinds \cup {"none"}
      /\ of \in Box \cup Alias \cup {"domain", "none"}
      /\ to \in DomainValues \cup BoxValues \cup AliasValues \cup {"none"}
  BY DEF Starts, DomainKinds
<1>3. /\ steps \in BoxLeft \cup OtherLeft \cup {<<>>} /\ steps # <<>> /\ Head(steps) \in RowSteps
      /\ kind # "none"
  <2>1. steps \in {Save8, Save10, Remove8, Remove10} /\ kind # "none"
    BY DEF Starts, BoxKinds, AliasKinds
  <2>2. steps # <<>> /\ Head(steps) \in {"save", "remove"}
    BY <2>1, RowHeads
  <2>3. steps \in BoxLeft \cup OtherLeft
    BY <2>1 DEF BoxLeft, OtherLeft
  <2> QED BY <2>1, <2>2, <2>3 DEF RowSteps
<1> DEFINE a == [NoMailing EXCEPT !.kind = kind]
           b == [a EXCEPT !.of = of]
           c == [b EXCEPT !.to = to]
           d == [c EXCEPT !.todo = steps]
           e == [d EXCEPT !.alone = quiet]
<1>4. a \in MailRecord /\ a.kind = kind
  BY <1>1, <1>2 DEF MailRecord
<1> HIDE DEF a
<1>5. b \in MailRecord /\ b.kind = kind /\ b.of = of
  BY <1>2, <1>4 DEF MailRecord
<1> HIDE DEF b
<1>6. c \in MailRecord /\ c.kind = kind /\ c.of = of /\ c.to = to
  BY <1>2, <1>5 DEF MailRecord
<1> HIDE DEF c
<1>7. d \in MailRecord /\ d.kind = kind /\ d.of = of /\ d.to = to /\ d.todo = steps
  BY <1>3, <1>6 DEF MailRecord
<1> HIDE DEF d
<1>8. e \in MailRecord /\ e.kind = kind /\ e.of = of /\ e.to = to /\ e.todo = steps /\ e.alone = quiet
  BY <1>7 DEF MailRecord
<1>9. new = e
  BY DEF Opened, a, b, c, d, e
<1> HIDE DEF e
<1>10. /\ new \in MailRecord /\ new.kind = kind /\ new.of = of /\ new.to = to /\ new.todo = steps
       /\ new.alone = quiet
  BY <1>8, <1>9
<1>11. /\ Head(Save8) = "save" /\ Head(Save10) = "save" /\ Head(Remove8) = "remove" /\ Head(Remove10) = "remove"
       /\ Save8 \in OtherLeft /\ Remove8 \in OtherLeft /\ Save10 \in BoxLeft /\ Remove10 \in BoxLeft
  BY PostfixTable DEF OtherLeft, BoxLeft
<1>12. new # NoMailing
  BY <1>3, <1>10 DEF NoMailing
<1>13. /\ \/ kind \in DomainKinds /\ of = "domain" /\ steps \in OtherLeft /\ to \in DomainValues \cup {"none"}
          \/ kind \in BoxKinds    /\ of \in Box    /\ steps \in BoxLeft   /\ to \in BoxValues \cup {"none"}
          \/ kind \in AliasKinds  /\ of \in Alias  /\ steps \in OtherLeft /\ to \in AliasValues \cup {"none"}
       /\ Head(steps) = "remove" => to = "none"
       /\ Head(steps) = "save"   => to # "none"
  BY <1>11 DEF Starts, DomainKinds, DomainValues, BoxValues, AliasValues
<1>14. kind # "disable" /\ of = "domain" => to # "none"
  BY NamesApart DEF Starts, DomainValues, BoxValues, AliasValues
<1> QED BY <1>3, <1>10, <1>12, <1>13, <1>14 DEF OnMail

LEMMA MailJoined ==
  ASSUME MailsTyped, NEW q \in Mailer, NEW joined, joined = [mailing[q] EXCEPT !.alone = FALSE]
  PROVE  /\ joined \in MailRecord /\ OnMail(joined) /\ ~joined.alone
         /\ joined.kind = mailing[q].kind /\ joined.of = mailing[q].of /\ joined.to = mailing[q].to
         /\ joined.todo = mailing[q].todo
         /\ joined = NoMailing <=> mailing[q] = NoMailing
<1> DEFINE m == mailing[q]
<1>1. m \in MailRecord /\ OnMail(m) /\ NoMailing \in MailRecord /\ ~NoMailing.alone /\ joined = [m EXCEPT !.alone = FALSE]
  BY DEF MailsTyped, NoMailing, MailRecord
<1> HIDE DEF m
<1>2. joined \in MailRecord /\ ~joined.alone
  BY <1>1 DEF MailRecord
<1>3. joined.kind = m.kind /\ joined.of = m.of /\ joined.to = m.to /\ joined.todo = m.todo
  BY <1>1 DEF MailRecord
<1>4. m = NoMailing => joined = NoMailing
  BY <1>1, <1>2 DEF MailRecord
<1>5. m # NoMailing => joined # NoMailing
  <2>1. m # NoMailing => m.kind # "none"
    BY <1>1 DEF OnMail, DomainKinds, BoxKinds, AliasKinds
  <2>2. NoMailing.kind = "none"
    BY DEF NoMailing
  <2> QED BY <1>3, <2>1, <2>2
<1>6. OnMail(joined)
  BY <1>1, <1>3, <1>4 DEF OnMail
<1> QED BY <1>2, <1>3, <1>4, <1>5, <1>6 DEF m

LEMMA MailOpened ==
  ASSUME MailInv, NEW p \in Mailer, NEW kind, NEW of, NEW to, NEW steps,
         Starts(kind, of, to, steps), MailOpen(p, kind, of, to, steps)
  PROVE  MailInv'
<1> DEFINE new == [NoMailing EXCEPT !.kind = kind, !.of = of, !.to = to, !.todo = steps, !.alone = MailQuiet]
           joined(q) == [mailing[q] EXCEPT !.alone = FALSE]
<1>1. /\ mailing[p] = NoMailing /\ UNCHANGED <<domain, box, alias, lookup, tainted>>
      /\ mailing' = [q \in Mailer |-> IF q = p THEN new ELSE joined(q)]
  BY DEF MailOpen
<1>2. MailsTyped /\ MailQuiet \in BOOLEAN
  BY DEF MailInv, MailQuiet
<1>3. mailing'[p] = new /\ \A q \in Mailer : q # p => mailing'[q] = joined(q)
  BY <1>1
<1>4. /\ new \in MailRecord /\ OnMail(new) /\ new # NoMailing
      /\ new.kind = kind /\ new.of = of /\ new.to = to /\ new.todo = steps /\ new.alone = MailQuiet
      /\ Head(steps) \in RowSteps
  <2>1. PICK quiet \in BOOLEAN : quiet = MailQuiet
    BY <1>2
  <2>2. new = Opened(kind, of, to, steps, quiet)
    BY <2>1 DEF Opened
  <2> HIDE DEF new
  <2>4. /\ new \in MailRecord /\ OnMail(new) /\ new # NoMailing
        /\ new.kind = kind /\ new.of = of /\ new.to = to /\ new.todo = steps /\ new.alone = quiet
        /\ Head(steps) \in RowSteps
    BY <2>2, MailNew
  <2> QED BY <2>1, <2>4
<1>5. \A q \in Mailer :
        /\ joined(q) \in MailRecord /\ OnMail(joined(q)) /\ ~joined(q).alone
        /\ joined(q).kind = mailing[q].kind /\ joined(q).of = mailing[q].of /\ joined(q).to = mailing[q].to
        /\ joined(q).todo = mailing[q].todo
        /\ joined(q) = NoMailing <=> mailing[q] = NoMailing
  BY <1>2, MailJoined
<1>6. mailing' \in [Mailer -> MailRecord]
  <2> HIDE DEF new, joined
  <2>1. \A q \in Mailer : mailing'[q] \in MailRecord
    BY <1>3, <1>4, <1>5
  <2> QED BY <1>1, <2>1
<1> HIDE DEF new, joined
<1>7. MailsTyped'
  BY <1>3, <1>4, <1>5, <1>6 DEF MailsTyped
<1>8. \A q \in Mailer : mailing'[q].alone => q = p /\ MailQuiet
  BY <1>3, <1>4, <1>5
<1>9. MailsAlone'
  <2>1. MailQuiet => \A q \in Mailer : q # p => mailing'[q] = NoMailing
    BY <1>3, <1>5 DEF MailQuiet
  <2> QED BY <1>8, <2>1 DEF MailsAlone
<1>10. MailRowsTyped' /\ FilesTyped' /\ Wanted' = Wanted /\ ActiveBoxes' = ActiveBoxes
  BY <1>1 DEF MailInv, MailRowsTyped, FilesTyped, Wanted, ActiveBoxes, EnabledAliases, DomainEnabled
<1>11. \A q \in Mailer : q # p => /\ mailing'[q].kind = mailing[q].kind /\ mailing'[q].todo = mailing[q].todo
                                  /\ InFlight(q) => InFlight(q)'
  BY <1>3, <1>5 DEF InFlight
<1>12. MapsKept'
  <2>1. ASSUME NEW f \in MailFiles, NEW q \in Mailer, InFlight(q), f \in Rewrites(q)
        PROVE  InFlight(q)' /\ f \in Rewrites(q)'
    <3>1. q # p
      BY <1>1, <2>1 DEF InFlight
    <3> QED BY <1>11, <2>1, <3>1 DEF Rewrites
  <2>2. \A f \in MailFiles :
          f \in tainted \/ lookup[f] = Wanted[f] \/ \E q \in Mailer : InFlight(q) /\ f \in Rewrites(q)
    BY DEF MailInv, MapsKept
  <2> QED BY <1>1, <1>10, <2>1, <2>2 DEF MapsKept
<1>13. MailNow(p)' \in RowSteps /\ Written(MailNow(p)') = {}
  <2>1. MailNow(p)' = Head(steps)
    BY <1>3, <1>4 DEF MailNow
  <2> QED BY <1>4, <2>1 DEF Written, RowSteps, AfterLogins, AfterDomains, AfterBoxes, AfterAliases
<1>14. MapsWritten'
  BY <1>8, <1>13 DEF MapsWritten, RowSteps, AfterDomains, AfterBoxes, AfterAliases
<1>15. NoneLeft'
  <2> SUFFICES ASSUME NEW r \in Mailer, mailing'[r].kind = "disable", MailNow(r)' \in RowSteps
               PROVE  \/ \A b \in Box : box'[b] = "none"
                      \/ "logins" \in tainted'
                      \/ \E q \in Mailer : mailing'[q].kind \in BoxKinds
    BY DEF NoneLeft
  <2>1. CASE r = p
    BY <1>1, <1>3, <1>4, <2>1 DEF Starts, BoxKinds, AliasKinds
  <2>2. CASE r # p
    <3>1. \/ \A b \in Box : box[b] = "none"
          \/ "logins" \in tainted
          \/ \E q \in Mailer : mailing[q].kind \in BoxKinds
      BY <1>11, <2>2 DEF MailInv, NoneLeft, MailNow
    <3>2. NoMailing.kind \notin BoxKinds
      BY DEF NoMailing, BoxKinds
    <3> QED BY <1>1, <1>11, <3>1, <3>2
  <2> QED BY <2>1, <2>2
<1>16. BoxesKept'
  <2>1. MailQuiet /\ tainted \cap {"boxes", "logins"} = {} =>
          lookup["boxes"] = ActiveBoxes /\ lookup["logins"] = ActiveBoxes
    <3> SUFFICES ASSUME MailQuiet, tainted \cap {"boxes", "logins"} = {}
                 PROVE  lookup["boxes"] = ActiveBoxes /\ lookup["logins"] = ActiveBoxes
      OBVIOUS
    <3>1. \A f \in MailFiles : f \in tainted \/ lookup[f] = Wanted[f]
      BY DEF MailInv, MapsKept, MailQuiet, InFlight
    <3> QED BY <3>1 DEF MailFiles, Wanted
  <2> QED BY <1>1, <1>8, <1>10, <1>13, <2>1 DEF BoxesKept
<1> QED BY <1>7, <1>9, <1>10, <1>12, <1>14, <1>15, <1>16 DEF MailInv

LEMMA MailStarts ==
  ASSUME MailInv, NEW p \in Mailer, MailRequest(p)
  PROVE  MailInv'
<1>1. CASE EnableMailForDomain(p) \/ UpdateMailDomain(p)
  <2>1. PICK kind \in {"enable", "domain"}, v \in DomainValues : MailOpen(p, kind, "domain", v, Save8)
    BY <1>1, Courses DEF EnableMailForDomain, UpdateMailDomain
  <2>2. Starts(kind, "domain", v, Save8)
    BY DEF Starts
  <2> QED BY <2>1, <2>2, MailOpened
<1>2. CASE DisableMailForDomain(p)
  <2>1. MailOpen(p, "disable", "domain", "none", Remove8) /\ \A b \in Box : box[b] = "none"
    BY <1>2, Courses DEF DisableMailForDomain
  <2>2. Starts("disable", "domain", "none", Remove8)
    BY <2>1 DEF Starts
  <2> QED BY <2>1, <2>2, MailOpened
<1>3. ASSUME NEW b \in Box, CreateMailbox(p, b) \/ UpdateMailbox(p, b) PROVE MailInv'
  <2>1. PICK kind \in BoxKinds, v \in BoxValues : MailOpen(p, kind, b, v, Save10)
    BY <1>3, Courses DEF CreateMailbox, UpdateMailbox, BoxKinds
  <2>2. Starts(kind, b, v, Save10)
    BY DEF Starts
  <2> QED BY <2>1, <2>2, MailOpened
<1>4. ASSUME NEW b \in Box, DeleteMailbox(p, b) PROVE MailInv'
  <2>1. MailOpen(p, "box", b, "none", Remove10)
    BY <1>4, Courses DEF DeleteMailbox
  <2>2. Starts("box", b, "none", Remove10)
    BY DEF Starts, BoxKinds
  <2> QED BY <2>1, <2>2, MailOpened
<1>5. ASSUME NEW a \in Alias, CreateAlias(p, a) \/ UpdateAlias(p, a) PROVE MailInv'
  <2>1. PICK kind \in AliasKinds, v \in AliasValues : MailOpen(p, kind, a, v, Save8)
    BY <1>5, Courses DEF CreateAlias, UpdateAlias, AliasKinds
  <2>2. Starts(kind, a, v, Save8)
    BY DEF Starts
  <2> QED BY <2>1, <2>2, MailOpened
<1>6. ASSUME NEW a \in Alias, DeleteAlias(p, a) PROVE MailInv'
  <2>1. MailOpen(p, "alias", a, "none", Remove8)
    BY <1>6, Courses DEF DeleteAlias
  <2>2. Starts("alias", a, "none", Remove8)
    BY DEF Starts, AliasKinds
  <2> QED BY <2>1, <2>2, MailOpened
<1> QED BY <1>1, <1>2, <1>3, <1>4, <1>5, <1>6 DEF MailRequest

\* The rows of the mail of a domain, the files made of them and the requests in flight, in
\* every state: the invariant the properties below are read from.
THEOREM MailInvariant == MailSpec => []MailInv
<1>1. MailInit => MailInv
  <2> SUFFICES ASSUME MailInit PROVE MailInv
    OBVIOUS
  <2>1. /\ mailing = [p \in Mailer |-> NoMailing] /\ NoMailing \in MailRecord
        /\ OnMail(NoMailing) /\ ~NoMailing.alone /\ NoMailing.kind = "none"
    BY DEF MailInit, NoMailing, MailRecord, OnMail
  <2>2. \A p \in Mailer : mailing[p] = NoMailing
    BY <2>1
  <2>3. MailsTyped /\ MailsAlone
    BY <2>1 DEF MailsTyped, MailsAlone
  <2>4. MailRowsTyped /\ FilesTyped
    BY DEF MailInit, MailRowsTyped, FilesTyped, MailFiles
  <2>5. MapsKept
    BY DEF MailInit, MapsKept, Wanted, ActiveBoxes, EnabledAliases, DomainEnabled, MailFiles
  <2>6. MapsWritten /\ NoneLeft /\ BoxesKept
    BY <2>1, <2>2 DEF MapsWritten, NoneLeft, BoxesKept
  <2> QED BY <2>3, <2>4, <2>5, <2>6 DEF MailInv
<1>2. MailInv /\ [MailNext]_mailVars => MailInv'
  <2> SUFFICES ASSUME MailInv, [MailNext]_mailVars PROVE MailInv'
    OBVIOUS
  <2>1. CASE UNCHANGED mailVars
    BY <2>1 DEF mailVars, MailInv, MailsTyped, MailRowsTyped, FilesTyped, MailsAlone, MapsKept, MapsWritten,
                NoneLeft, BoxesKept, InFlight, MailNow, Rewrites, Wanted, ActiveBoxes, EnabledAliases, DomainEnabled
  <2>2. ASSUME NEW p \in Mailer, MailRequest(p) \/ MailStep(p) PROVE MailInv'
    BY <2>2, MailStarts, SaveMailRowStep, RemoveMailRowStep, ReadRowsStep, WriteMapStep, WriteFailsStep,
       MailRequestFailsStep DEF MailStep
  <2> QED BY <2>1, <2>2 DEF MailNext
<1> QED BY <1>1, <1>2, PTL DEF MailSpec

\* Types of the rows, of the files and of what failed; a request with no steps left is none,
\* and a mailbox row refers to a domain row: MailDomain's cascade, and the foreign key.
THEOREM MailTyped == MailSpec => []MailTypeOK
<1>1. MailInv => MailTypeOK
  <2> SUFFICES ASSUME MailInv PROVE MailTypeOK
    OBVIOUS
  <2>1. ASSUME NEW p \in Mailer, mailing[p].todo = <<>> PROVE mailing[p] = NoMailing
    BY <2>1, MailTable DEF MailInv, InFlight
  <2> QED BY <2>1 DEF MailInv, MailRowsTyped, FilesTyped, MailTypeOK
<1> QED BY <1>1, MailInvariant, PTL

\* With nothing in flight each file holds what the rows say, unless a step that writes it
\* failed or requests overlapped since it was last rewritten by one that ran alone:
\* syncPostfixConfig() and syncDovecotConfig(), for any number of requests and rows.
THEOREM MapsInStep == MailSpec => []MapsFollowRows
<1>1. MailInv => MapsFollowRows
  BY DEF MailInv, MapsKept, MailQuiet, InFlight, MapsFollowRows
<1> QED BY <1>1, MailInvariant, PTL

\* Postfix accepts mail only for mailboxes that Dovecot knows, also between the steps of a
\* request: the order of syncDovecotConfig() and syncPostfixConfig() in mail.service.ts.
THEOREM AcceptedAreRead == MailSpec => []AcceptedCanBeRead
<1>1. MailInv => AcceptedCanBeRead
  <2> SUFFICES ASSUME MailInv, NEW b \in lookup["boxes"] \ lookup["logins"],
                      tainted \cap {"boxes", "logins"} = {},
                      \A p \in Mailer : mailing[p] # NoMailing => mailing[p].alone
               PROVE  \E p \in Mailer : mailing[p].of = b /\ mailing[p].to \in {"idle", "none"}
    BY DEF AcceptedCanBeRead
  <2>1. /\ "boxes" \in MailFiles /\ "logins" \in MailFiles
        /\ Wanted["boxes"] = ActiveBoxes /\ Wanted["logins"] = ActiveBoxes
    BY DEF MailFiles, Wanted
  <2>2. ASSUME NEW f \in {"boxes", "logins"}, lookup[f] # ActiveBoxes
        PROVE  \E p \in Mailer : InFlight(p) /\ f \in Rewrites(p)
    BY <2>1, <2>2 DEF MailInv, MapsKept
  <2>3. PICK p \in Mailer : InFlight(p) /\ mailing[p].alone
    BY <2>2 DEF InFlight
  <2>4. \A q \in Mailer : q # p => ~InFlight(q)
    BY <2>3 DEF MailInv, MailsAlone, InFlight
  <2>5. /\ "boxes" \notin Written(MailNow(p)) => lookup["boxes"] \ {mailing[p].of} = ActiveBoxes \ {mailing[p].of}
        /\ "logins" \notin Written(MailNow(p)) => lookup["logins"] = lookup["boxes"]
        /\ mailing[p].kind \in BoxKinds /\ MailNow(p) \notin RowSteps => box[mailing[p].of] = mailing[p].to
    BY <2>3 DEF MailInv, BoxesKept
  <2>6. "logins" \in Written(MailNow(p)) /\ MailNow(p) \notin RowSteps
    BY <2>5 DEF Written, RowSteps, AfterLogins, AfterDomains, AfterBoxes, AfterAliases
  <2>7. lookup["logins"] = ActiveBoxes
    <3>1. CASE mailing[p].kind \in BoxKinds
      <4>1. "logins" \in Rewrites(p) \cap Written(MailNow(p))
        BY <2>1, <2>6, <3>1, RewritesAt
      <4> QED BY <2>1, <2>3, <4>1 DEF MailInv, MapsWritten
    <3>2. CASE mailing[p].kind \notin BoxKinds
      BY <2>2, <2>4, <3>2, RewritesAt
    <3> QED BY <3>1, <3>2
  <2>8. "boxes" \notin Written(MailNow(p))
    <3>1. "boxes" \in Rewrites(p)
      BY <2>1, RewritesAt
    <3>2. "boxes" \in Written(MailNow(p)) => lookup["boxes"] = ActiveBoxes
      BY <2>1, <2>3, <3>1 DEF MailInv, MapsWritten
    <3> QED BY <2>7, <3>2
  <2>9. b = mailing[p].of /\ b \notin ActiveBoxes
    BY <2>5, <2>7, <2>8
  <2>10. b \in Box
    BY <2>9 DEF MailInv, FilesTyped
  <2>11. mailing[p].kind \in BoxKinds /\ mailing[p].to \in BoxValues \cup {"none"}
    BY <2>3, <2>9, <2>10, MailAbout DEF MailInv
  <2>12. mailing[p].to # "active"
    BY <2>5, <2>6, <2>9, <2>10, <2>11 DEF ActiveBoxes
  <2> QED BY <2>9, <2>11, <2>12 DEF BoxValues
<1> QED BY <1>1, MailInvariant, PTL

-----------------------------------------------------------------------------
(* DnsZones: rows of zones, their files, named.conf and what named answers. *)

\* What is left to do of a request, by its first step.
ToActive   == <<"active">>
ToReload   == <<"reload", "active">>
ToConfig   == <<"config", "reload", "active">>
ToCheck    == <<"check", "config", "reload", "active">>
ToWrite    == <<"write", "check", "config", "reload", "active">>
ToLoad     == <<"load", "write", "check", "config", "reload", "active">>
ToSerial   == <<"serial", "load", "write", "check", "config", "reload", "active">>
ToDefaults == <<"defaults", "load", "write", "check", "config", "reload", "active">>
ToInsert   == <<"insert", "defaults", "load", "write", "check", "config", "reload", "active">>
ToRemove   == <<"remove">>
ToRead     == <<"reloadAll", "remove">>
ToUnlink   == <<"unlink", "reloadAll", "remove">>
ToUnconfig == <<"unconfig", "unlink", "reloadAll", "remove">>

ZoneLeft == {ToActive, ToReload, ToConfig, ToCheck, ToWrite, ToLoad, ToSerial, ToDefaults, ToInsert,
             ToRemove, ToRead, ToUnlink, ToUnconfig}

SeenValues   == {"PENDING", "ACTIVE", "ERROR"}
StatusValues == SeenValues \cup {"none"}
Creating     == {"insert", "defaults"}
Withdrawing  == {"unlink", "reloadAll", "remove"}
Contents     == (SUBSET Record) \cup {None}

ZoneRequest == [zone : Zone \cup {"none"}, todo : ZoneLeft \cup {<<>>}, seen : StatusValues, loaded : SUBSET Record]

ZoneNow(p) == Head(op[p].todo)
On(p, z)   == op[p].zone = z

OnZone(o) ==
  \/ o = NoRequest
  \/ /\ o.zone \in Zone /\ o.todo \in ZoneLeft /\ o.seen \in SeenValues
     /\ Head(o.todo) \in Creating => o.seen = "PENDING"

ZonesTyped ==
  /\ status \in [Zone -> StatusValues] /\ records \in [Zone -> SUBSET Record]
  /\ file \in [Zone -> Contents] /\ served \in [Zone -> Contents] /\ conf \in [Zone -> {0, 1}]

OpsTyped == op \in [Requester -> ZoneRequest] /\ \A p \in Requester : OnZone(op[p])

\* Whether a request adds an entry depends on the status it has seen: one that does is
\* alone on its zone, which has no entry before it adds one.
Entries(z) ==
  /\ ~Row(z) => conf[z] = 0 /\ records[z] = {}
  /\ status[z] = "PENDING" /\ conf[z] # 0 =>
       \E p \in Requester : On(p, z) /\ IsNew(p) /\ ZoneNow(p) \in {"reload", "active"}
  /\ \A p \in Requester : On(p, z) =>
       /\ IsNew(p) => /\ status[z] = IF ZoneNow(p) = "insert" THEN "none" ELSE "PENDING"
                      /\ \A q \in Requester : On(q, z) => q = p
       /\ status[z] = "PENDING" => IsNew(p)
       /\ ZoneNow(p) \in Withdrawing => conf[z] = 0

\* named knows no zone without an entry, except while it is being withdrawn.
KnownByEntry(z) ==
  z \notin skipped /\ served[z] # None /\ conf[z] = 0 =>
    \E p \in Requester : On(p, z) /\ ZoneNow(p) \in {"unlink", "reloadAll"}

\* How far a request that is alone on its zone has come.
AsFarAs(p, z) ==
  LET s == ZoneNow(p) IN
  /\ s = "insert" => conf[z] = 0 /\ file[z] = None /\ served[z] = None
  /\ s \in {"serial", "load", "write", "check", "config", "reload", "active"} => Row(z)
  /\ s = "write" => op[p].loaded = records[z]
  /\ s \in {"check", "config", "reload", "active"} => file[z] = records[z]
  /\ s \in {"config", "reload", "active"} => Sound(file[z])
  /\ s = "active" => conf[z] = 1 /\ served[z] = records[z]
  /\ s \in {"reloadAll", "remove"} => file[z] = None
  /\ s = "remove" => served[z] = None

InOrder(z) ==
  z \notin skipped \cup mixed =>
    /\ \A p, q \in Requester : On(p, z) /\ On(q, z) => p = q
    /\ \A p \in Requester : On(p, z) => AsFarAs(p, z)
    /\ Quiet(z) =>
         /\ status[z] = "ACTIVE" =>
              conf[z] = 1 /\ file[z] = records[z] /\ Sound(file[z]) /\ served[z] = records[z]
         /\ ~Row(z) => conf[z] = 0 /\ file[z] = None /\ served[z] = None

ZoneRight(z) == Entries(z) /\ KnownByEntry(z) /\ InOrder(z)

DnsInv == ZonesTyped /\ OpsTyped /\ \A z \in Zone : ZoneRight(z)

-----------------------------------------------------------------------------
(* The courses of requests on zones.                                        *)

\* The step t comes after the step s.
ZoneThen(s, t) ==
  \/ s = "insert"               /\ t = "defaults"
  \/ s \in {"defaults", "serial"} /\ t = "load"
  \/ s = "load"                 /\ t = "write"
  \/ s = "write"                /\ t = "check"
  \/ s = "check"                /\ t = "config"
  \/ s = "config"               /\ t = "reload"
  \/ s = "reload"               /\ t = "active"
  \/ s = "unconfig"             /\ t = "unlink"
  \/ s = "unlink"               /\ t = "reloadAll"
  \/ s = "reloadAll"            /\ t = "remove"

LEMMA ZoneTable ==
  /\ ToActive # <<>> /\ Head(ToActive) = "active" /\ Len(ToActive) = 1
  /\ ToReload # <<>> /\ Head(ToReload) = "reload" /\ Len(ToReload) # 1 /\ Tail(ToReload) = ToActive
  /\ ToConfig # <<>> /\ Head(ToConfig) = "config" /\ Len(ToConfig) # 1 /\ Tail(ToConfig) = ToReload
  /\ ToCheck # <<>> /\ Head(ToCheck) = "check" /\ Len(ToCheck) # 1 /\ Tail(ToCheck) = ToConfig
  /\ ToWrite # <<>> /\ Head(ToWrite) = "write" /\ Len(ToWrite) # 1 /\ Tail(ToWrite) = ToCheck
  /\ ToLoad # <<>> /\ Head(ToLoad) = "load" /\ Len(ToLoad) # 1 /\ Tail(ToLoad) = ToWrite
  /\ ToSerial # <<>> /\ Head(ToSerial) = "serial" /\ Len(ToSerial) # 1 /\ Tail(ToSerial) = ToLoad
  /\ ToDefaults # <<>> /\ Head(ToDefaults) = "defaults" /\ Len(ToDefaults) # 1 /\ Tail(ToDefaults) = ToLoad
  /\ ToInsert # <<>> /\ Head(ToInsert) = "insert" /\ Len(ToInsert) # 1 /\ Tail(ToInsert) = ToDefaults
  /\ ToRemove # <<>> /\ Head(ToRemove) = "remove" /\ Len(ToRemove) = 1
  /\ ToRead # <<>> /\ Head(ToRead) = "reloadAll" /\ Len(ToRead) # 1 /\ Tail(ToRead) = ToRemove
  /\ ToUnlink # <<>> /\ Head(ToUnlink) = "unlink" /\ Len(ToUnlink) # 1 /\ Tail(ToUnlink) = ToRead
  /\ ToUnconfig # <<>> /\ Head(ToUnconfig) = "unconfig" /\ Len(ToUnconfig) # 1 /\ Tail(ToUnconfig) = ToUnlink
<1>1. ToActive # <<>> /\ Head(ToActive) = "active" /\ Len(ToActive) = 1
  BY DEF ToActive
<1>2. ToReload # <<>> /\ Head(ToReload) = "reload" /\ Len(ToReload) # 1 /\ Tail(ToReload) = ToActive
  BY DEF ToReload, ToActive
<1>3. ToConfig # <<>> /\ Head(ToConfig) = "config" /\ Len(ToConfig) # 1 /\ Tail(ToConfig) = ToReload
  BY DEF ToConfig, ToReload
<1>4. ToCheck # <<>> /\ Head(ToCheck) = "check" /\ Len(ToCheck) # 1 /\ Tail(ToCheck) = ToConfig
  BY DEF ToCheck, ToConfig
<1>5. ToWrite # <<>> /\ Head(ToWrite) = "write" /\ Len(ToWrite) # 1 /\ Tail(ToWrite) = ToCheck
  BY DEF ToWrite, ToCheck
<1>6. ToLoad # <<>> /\ Head(ToLoad) = "load" /\ Len(ToLoad) # 1 /\ Tail(ToLoad) = ToWrite
  BY DEF ToLoad, ToWrite
<1>7. ToSerial # <<>> /\ Head(ToSerial) = "serial" /\ Len(ToSerial) # 1 /\ Tail(ToSerial) = ToLoad
  BY DEF ToSerial, ToLoad
<1>8. ToDefaults # <<>> /\ Head(ToDefaults) = "defaults" /\ Len(ToDefaults) # 1 /\ Tail(ToDefaults) = ToLoad
  BY DEF ToDefaults, ToLoad
<1>9. ToInsert # <<>> /\ Head(ToInsert) = "insert" /\ Len(ToInsert) # 1 /\ Tail(ToInsert) = ToDefaults
  BY DEF ToInsert, ToDefaults
<1>10. ToRemove # <<>> /\ Head(ToRemove) = "remove" /\ Len(ToRemove) = 1
  BY DEF ToRemove
<1>11. ToRead # <<>> /\ Head(ToRead) = "reloadAll" /\ Len(ToRead) # 1 /\ Tail(ToRead) = ToRemove
  BY DEF ToRead, ToRemove
<1>12. ToUnlink # <<>> /\ Head(ToUnlink) = "unlink" /\ Len(ToUnlink) # 1 /\ Tail(ToUnlink) = ToRead
  BY DEF ToUnlink, ToRead
<1>13. ToUnconfig # <<>> /\ Head(ToUnconfig) = "unconfig" /\ Len(ToUnconfig) # 1 /\ Tail(ToUnconfig) = ToUnlink
  BY DEF ToUnconfig, ToUnlink
<1> QED BY <1>1, <1>2, <1>3, <1>4, <1>5, <1>6, <1>7, <1>8, <1>9, <1>10, <1>11, <1>12, <1>13

LEMMA ZoneLeftTable ==
  ASSUME NEW s \in ZoneLeft
  PROVE  /\ s # <<>> /\ (Len(s) = 1 <=> Head(s) \in {"active", "remove"})
         /\ Head(s) \notin {"active", "remove"} =>
              Tail(s) \in ZoneLeft /\ ZoneThen(Head(s), Head(Tail(s))) /\ Head(Tail(s)) # "insert"
<1> USE ZoneTable DEF ZoneLeft, ZoneThen
<1>1. CASE s = ToActive
  BY <1>1
<1>0. CASE s = ToRemove
  BY <1>0
<1>2. CASE s = ToReload
  BY <1>2
<1>3. CASE s = ToConfig
  BY <1>3
<1>4. CASE s = ToCheck
  BY <1>4
<1>5. CASE s = ToWrite
  BY <1>5
<1>6. CASE s = ToLoad
  BY <1>6
<1>7. CASE s = ToSerial
  BY <1>7
<1>8. CASE s = ToDefaults
  BY <1>8
<1>9. CASE s = ToInsert
  BY <1>9
<1>10. CASE s = ToRead
  BY <1>10
<1>11. CASE s = ToUnlink
  BY <1>11
<1>12. CASE s = ToUnconfig
  BY <1>12
<1> QED BY <1>0, <1>1, <1>2, <1>3, <1>4, <1>5, <1>6, <1>7, <1>8, <1>9, <1>10, <1>11, <1>12

LEMMA ZoneAt ==
  ASSUME OpsTyped, NEW p \in Requester, NEW s, At(p, s)
  PROVE  /\ op[p].zone \in Zone /\ On(p, op[p].zone) /\ ZoneNow(p) = s /\ op[p] # NoRequest
         /\ op[p].seen \in SeenValues /\ (s \in Creating => IsNew(p))
         /\ op[p].todo \in ZoneLeft /\ op[p] \in ZoneRequest /\ ~Quiet(op[p].zone)
<1>1. op[p].todo # <<>> /\ Head(op[p].todo) = s
  BY DEF At
<1>2. op[p] # NoRequest
  BY <1>1 DEF NoRequest
<1>3. OnZone(op[p]) /\ op[p] \in ZoneRequest
  BY DEF OpsTyped
<1> QED BY <1>1, <1>2, <1>3 DEF OnZone, On, ZoneNow, IsNew, Quiet

\* A request takes its next step or ends; nobody else's changes.
ZoneGoes(p) ==
  /\ OpsTyped' /\ \A q \in Requester : q # p => op'[q] = op[q]
  /\ \/ op'[p] = NoRequest
     \/ /\ op'[p].zone = op[p].zone /\ op'[p].seen = op[p].seen
        /\ ZoneThen(ZoneNow(p), ZoneNow(p)') /\ ZoneNow(p)' # "insert"

LEMMA ZoneEnds ==
  ASSUME OpsTyped, NEW p \in Requester, op' = [op EXCEPT ![p] = NoRequest]
  PROVE  ZoneGoes(p) /\ op'[p] = NoRequest
<1>1. NoRequest \in ZoneRequest /\ OnZone(NoRequest)
  BY DEF NoRequest, ZoneRequest, StatusValues, OnZone
<1>2. op'[p] = NoRequest /\ \A q \in Requester : q # p => op'[q] = op[q]
  BY DEF OpsTyped
<1>3. OpsTyped'
  BY <1>1, <1>2 DEF OpsTyped
<1> QED BY <1>2, <1>3 DEF ZoneGoes

LEMMA ZoneGoesOn ==
  ASSUME OpsTyped, NEW p \in Requester, NEW s, At(p, s), s \notin {"active", "remove"},
         NEW c \in ZoneRequest, c.zone = op[p].zone, c.seen = op[p].seen, c.todo = Tail(op[p].todo),
         op' = [op EXCEPT ![p] = c]
  PROVE  ZoneGoes(p) /\ op'[p] = c /\ ZoneThen(s, ZoneNow(p)')
<1> DEFINE t == op[p].todo
<1>1. /\ op[p].zone \in Zone /\ Head(t) = s /\ op[p].seen \in SeenValues
      /\ t \in ZoneLeft /\ (s \in Creating => IsNew(p))
  BY ZoneAt DEF ZoneNow
<1> HIDE DEF t
<1>2. Tail(t) \in ZoneLeft /\ ZoneThen(Head(t), Head(Tail(t))) /\ Head(Tail(t)) # "insert"
  BY <1>1, ZoneLeftTable
<1>3. op'[p] = c /\ \A q \in Requester : q # p => op'[q] = op[q]
  BY DEF OpsTyped
<1>4. c.todo = Tail(t)
  BY DEF t
<1>5. ZoneThen(s, ZoneNow(p)') /\ ZoneNow(p)' # "insert" /\ ZoneNow(p) = s
  BY <1>1, <1>2, <1>3, <1>4 DEF ZoneNow, t
<1>6. OnZone(c)
  <2>1. Head(c.todo) \in Creating => s \in Creating
    BY <1>1, <1>2, <1>4 DEF ZoneThen, Creating
  <2> QED BY <1>1, <1>2, <1>4, <2>1 DEF OnZone, IsNew
<1>7. OpsTyped'
  BY <1>3, <1>6 DEF OpsTyped
<1> QED BY <1>3, <1>5, <1>7 DEF ZoneGoes

LEMMA ZoneAdvances ==
  ASSUME OpsTyped, NEW p \in Requester, NEW s, At(p, s), Advance(p)
  PROVE  /\ ZoneGoes(p)
         /\ s \in {"active", "remove"} => op'[p] = NoRequest
         /\ s \notin {"active", "remove"} =>
              /\ op'[p].zone = op[p].zone /\ op'[p].seen = op[p].seen /\ op'[p].loaded = op[p].loaded
              /\ ZoneThen(s, ZoneNow(p)')
<1> DEFINE o == op[p]
           c == [o EXCEPT !.todo = Tail(o.todo)]
<1>1. /\ o \in ZoneRequest /\ o.todo \in ZoneLeft /\ Head(o.todo) = s
  BY ZoneAt DEF ZoneNow
<1>2. /\ Len(o.todo) = 1 => op' = [op EXCEPT ![p] = NoRequest]
      /\ Len(o.todo) # 1 => op' = [op EXCEPT ![p] = c]
  BY DEF Advance
<1> HIDE DEF o
<1>3. CASE s \in {"active", "remove"}
  <2>1. Len(o.todo) = 1
    BY <1>1, <1>3, ZoneLeftTable
  <2>2. op' = [op EXCEPT ![p] = NoRequest]
    BY <1>2, <2>1
  <2> QED BY <1>3, <2>2, ZoneEnds
<1>4. CASE s \notin {"active", "remove"}
  <2>1. Len(o.todo) # 1 /\ Tail(o.todo) \in ZoneLeft
    BY <1>1, <1>4, ZoneLeftTable
  <2>2. /\ c \in ZoneRequest /\ c.zone = o.zone /\ c.seen = o.seen /\ c.loaded = o.loaded
        /\ c.todo = Tail(o.todo)
    BY <1>1, <2>1 DEF ZoneRequest
  <2> HIDE DEF c
  <2>3. op' = [op EXCEPT ![p] = c]
    BY <1>2, <2>1
  <2> QED BY <1>4, <2>2, <2>3, ZoneGoesOn DEF o
<1> QED BY <1>3, <1>4

\* What named makes of a zone when it reads it: kept is what it had.
Reread(z, kept) == IF conf[z] = 0 THEN None ELSE IF Sound(file[z]) THEN file[z] ELSE kept

\* Nothing is done to a zone but that named may read it.
Spared(z) ==
  /\ status'[z] = status[z] /\ records'[z] = records[z] /\ file'[z] = file[z] /\ conf'[z] = conf[z]
  /\ (z \in mixed' <=> z \in mixed) /\ (z \in skipped' <=> z \in skipped)
  /\ \E kept \in {served[z], None} : served'[z] \in {served[z], Reread(z, kept)}

LEMMA ZoneSpared ==
  ASSUME NEW z \in Zone, ZoneRight(z), OpsTyped, conf[z] \in {0, 1}, Spared(z),
         \A q \in Requester : op'[q] = op[q] \/ (~On(q, z) /\ ~(On(q, z)'))
  PROVE  ZoneRight(z)'
<1>1. \A q \in Requester : /\ On(q, z)' <=> On(q, z)
                           /\ On(q, z) => op'[q] = op[q] /\ ZoneNow(q)' = ZoneNow(q) /\ IsNew(q)' = IsNew(q)
  BY DEF On, ZoneNow, IsNew
<1>2. Row(z)' = Row(z) /\ Sound(file[z])' = Sound(file[z]) /\ Quiet(z)' = Quiet(z)
  BY <1>1 DEF Spared, Row, Sound, Quiet, On
<1>3. Entries(z)'
  BY <1>1, <1>2 DEF ZoneRight, Entries, Spared
<1>4. served'[z] = served[z] \/ served'[z] = Reread(z, served[z]) \/ served'[z] = Reread(z, None)
  BY DEF Spared
<1>5. conf[z] = 0 => served'[z] = served[z] \/ served'[z] = None
  BY <1>4 DEF Reread
<1>6. conf[z] = 1 /\ Sound(file[z]) => served'[z] = served[z] \/ served'[z] = file[z]
  BY <1>4 DEF Reread
<1>7. KnownByEntry(z)'
  BY <1>1, <1>5 DEF ZoneRight, KnownByEntry, Spared
<1>8. InOrder(z)'
  <2> SUFFICES ASSUME z \notin skipped \cup mixed PROVE InOrder(z)'
    BY DEF InOrder, Spared
  <2>1. /\ \A p, q \in Requester : On(p, z) /\ On(q, z) => p = q
        /\ \A p \in Requester : On(p, z) => AsFarAs(p, z)
        /\ Quiet(z) =>
             /\ status[z] = "ACTIVE" =>
                  conf[z] = 1 /\ file[z] = records[z] /\ Sound(file[z]) /\ served[z] = records[z]
             /\ ~Row(z) => conf[z] = 0 /\ file[z] = None /\ served[z] = None
    BY DEF ZoneRight, InOrder
  <2>2. ASSUME NEW p \in Requester, On(p, z) PROVE AsFarAs(p, z)'
    <3>1. AsFarAs(p, z) /\ (ZoneNow(p) \in Withdrawing => conf[z] = 0)
      BY <2>1, <2>2 DEF ZoneRight, Entries
    <3>2. op'[p] = op[p] /\ ZoneNow(p)' = ZoneNow(p)
      BY <1>1, <2>2
    <3> QED BY <1>2, <1>5, <1>6, <3>1, <3>2 DEF AsFarAs, Spared, Withdrawing
  <2>3. Quiet(z) => /\ status'[z] = "ACTIVE" => /\ conf'[z] = 1 /\ file'[z] = records'[z]
                                                /\ Sound(file[z])' /\ served'[z] = records'[z]
                    /\ ~Row(z) => conf'[z] = 0 /\ file'[z] = None /\ served'[z] = None
    BY <1>2, <1>5, <1>6, <2>1 DEF Spared
  <2> QED BY <1>1, <1>2, <2>1, <2>2, <2>3 DEF InOrder
<1> QED BY <1>3, <1>7, <1>8 DEF ZoneRight

\* A step of a request on one zone: the others are spared.
LEMMA ZoneStep ==
  ASSUME DnsInv, NEW p \in Requester, NEW on \in Zone, On(p, on), ZoneGoes(p), ZonesTyped', ZoneRight(on)',
         \A z \in Zone \ {on} : Spared(z)
  PROVE  DnsInv'
<1>1. ASSUME NEW z \in Zone, z # on PROVE ZoneRight(z)'
  <2>1. ~On(p, z) /\ ~(On(p, z)')
    <3>1. z # NoRequest.zone
      BY ZoneAssumption DEF NoRequest
    <3> QED BY <1>1, <3>1 DEF ZoneGoes, On
  <2>2. ZoneRight(z) /\ OpsTyped /\ conf[z] \in {0, 1}
    BY DEF DnsInv, ZonesTyped
  <2> QED BY <1>1, <2>1, <2>2, ZoneSpared DEF ZoneGoes
<1> QED BY <1>1 DEF DnsInv, ZoneGoes

LEMMA NamedRestartsStep ==
  ASSUME DnsInv, NamedRestarts
  PROVE  DnsInv'
<1>1. /\ UNCHANGED <<status, records, file, conf, op, mixed, skipped>>
      /\ LET nothing == [z \in Zone |-> None] IN
           served' = IF \A z \in Zone : conf[z] <= 1 THEN Read(nothing) ELSE nothing
  BY DEF NamedRestarts, history
<1>2. \A z \in Zone : conf[z] <= 1
  BY DEF DnsInv, ZonesTyped
<1>3. \A z \in Zone : served'[z] = Reread(z, None)
  BY <1>1, <1>2 DEF Read, Reread
<1>4. ZonesTyped'
  <2>1. \A z \in Zone : served'[z] \in Contents
    <3>1. None \in Contents
      BY DEF Contents
    <3>2. \A z \in Zone : file[z] \in Contents
      BY DEF DnsInv, ZonesTyped
    <3> QED BY <1>3, <3>1, <3>2 DEF Reread
  <2>2. served' \in [Zone -> Contents]
    BY <1>1, <1>2, <2>1 DEF Read
  <2> QED BY <1>1, <2>2 DEF DnsInv, ZonesTyped
<1>5. \A z \in Zone : Spared(z)
  BY <1>1, <1>3 DEF Spared
<1>6. ASSUME NEW z \in Zone PROVE ZoneRight(z)'
  <2>1. ZoneRight(z) /\ OpsTyped /\ conf[z] \in {0, 1}
    BY DEF DnsInv, ZonesTyped
  <2> QED BY <1>1, <1>5, <2>1, ZoneSpared
<1> QED BY <1>1, <1>4, <1>6 DEF DnsInv, OpsTyped

\* Who is on the zone of a request that has taken a step.
LEMMA ZoneOthers ==
  ASSUME NEW p \in Requester, NEW z \in Zone, On(p, z), ZoneGoes(p)
  PROVE  /\ \A q \in Requester : q # p =>
              /\ On(q, z)' <=> On(q, z)
              /\ ZoneNow(q)' = ZoneNow(q) /\ IsNew(q)' = IsNew(q)
         /\ On(p, z)' <=> op'[p] # NoRequest
         /\ op'[p] # NoRequest => IsNew(p)' = IsNew(p) /\ ZoneThen(ZoneNow(p), ZoneNow(p)') /\ ZoneNow(p)' # "insert"
<1>1. z # NoRequest.zone
  BY ZoneAssumption DEF NoRequest
<1> QED BY <1>1 DEF ZoneGoes, On, ZoneNow, IsNew

\* What a request does to its own zone, and what has to be shown of it.
LEMMA ZoneChanges ==
  ASSUME DnsInv, NEW p \in Requester, NEW z \in Zone, On(p, z), ZoneGoes(p), ZonesTyped',
         \A y \in Zone \ {z} : Spared(y), mixed' = mixed, skipped \subseteq skipped',
         status'[z] = "none" => conf'[z] = 0 /\ records'[z] = {},
         status'[z] = "PENDING" /\ conf'[z] # 0 =>
           op'[p] # NoRequest /\ IsNew(p) /\ ZoneNow(p)' \in {"reload", "active"},
         op'[p] # NoRequest /\ IsNew(p) => status'[z] = "PENDING",
         status'[z] = "PENDING" => status[z] = "PENDING" \/ IsNew(p),
         conf'[z] \in {conf[z], 0} \/ IsNew(p),
         op'[p] # NoRequest /\ ZoneNow(p)' \in Withdrawing => conf'[z] = 0,
         z \notin skipped' /\ served'[z] # None /\ conf'[z] = 0 =>
           \/ op'[p] # NoRequest /\ ZoneNow(p)' \in {"unlink", "reloadAll"}
           \/ served[z] # None /\ conf[z] = 0 /\ ZoneNow(p) \notin {"unlink", "reloadAll"},
         z \notin skipped' \cup mixed' /\ AsFarAs(p, z) /\ op'[p] # NoRequest => AsFarAs(p, z)',
         z \notin skipped' \cup mixed' /\ AsFarAs(p, z) /\ op'[p] = NoRequest =>
           /\ status'[z] = "ACTIVE" =>
                conf'[z] = 1 /\ file'[z] = records'[z] /\ Sound(file[z])' /\ served'[z] = records'[z]
           /\ status'[z] = "none" => conf'[z] = 0 /\ file'[z] = None /\ served'[z] = None
  PROVE  DnsInv'
<1>1. /\ Entries(z) /\ KnownByEntry(z) /\ InOrder(z)
  BY DEF DnsInv, ZoneRight
<1>2. /\ \A q \in Requester : q # p =>
           /\ On(q, z)' <=> On(q, z)
           /\ ZoneNow(q)' = ZoneNow(q) /\ IsNew(q)' = IsNew(q)
      /\ On(p, z)' <=> op'[p] # NoRequest
      /\ op'[p] # NoRequest => IsNew(p)' = IsNew(p) /\ ZoneNow(p)' # "insert"
  BY ZoneOthers
<1>3. \A q \in Requester : On(q, z) => /\ IsNew(q) => q = p
                                       /\ IsNew(p) => q = p
                                       /\ status[z] = "PENDING" => IsNew(p)
  BY <1>1 DEF Entries
<1>4. Entries(z)'
  <2>1. Row(z)' <=> status'[z] # "none"
    BY DEF Row
  <2>2. status'[z] = "PENDING" /\ conf'[z] # 0 =>
          \E q \in Requester : On(q, z)' /\ IsNew(q)' /\ ZoneNow(q)' \in {"reload", "active"}
    BY <1>2
  <2>3. ASSUME NEW q \in Requester, On(q, z)'
        PROVE  /\ IsNew(q)' => /\ status'[z] = IF ZoneNow(q)' = "insert" THEN "none" ELSE "PENDING"
                               /\ \A r \in Requester : On(r, z)' => r = q
               /\ status'[z] = "PENDING" => IsNew(q)'
               /\ ZoneNow(q)' \in Withdrawing => conf'[z] = 0
    <3>1. CASE q = p
      BY <1>2, <1>3, <2>3, <3>1
    <3>2. CASE q # p
      <4>1. On(q, z) /\ ~IsNew(q) /\ ~IsNew(p) /\ ~(IsNew(q)')
        BY <1>2, <1>3, <2>3, <3>2
      <4>2. ZoneNow(q) \in Withdrawing => conf[z] = 0
        BY <1>1, <4>1 DEF Entries
      <4> QED BY <1>2, <1>3, <3>2, <4>1, <4>2
    <3> QED BY <3>1, <3>2
  <2> QED BY <2>1, <2>2, <2>3 DEF Entries
<1>5. KnownByEntry(z)'
  <2> SUFFICES ASSUME z \notin skipped', served'[z] # None, conf'[z] = 0
               PROVE  \E q \in Requester : On(q, z)' /\ ZoneNow(q)' \in {"unlink", "reloadAll"}
    BY DEF KnownByEntry
  <2>1. CASE op'[p] # NoRequest /\ ZoneNow(p)' \in {"unlink", "reloadAll"}
    BY <1>2, <2>1
  <2>2. CASE served[z] # None /\ conf[z] = 0 /\ ZoneNow(p) \notin {"unlink", "reloadAll"}
    <3>1. PICK q \in Requester : On(q, z) /\ ZoneNow(q) \in {"unlink", "reloadAll"}
      BY <1>1, <2>2 DEF KnownByEntry
    <3> QED BY <1>2, <2>2, <3>1
  <2> QED BY <2>1, <2>2
<1>6. InOrder(z)'
  <2> SUFFICES ASSUME z \notin skipped' \cup mixed'
               PROVE  /\ \A q, r \in Requester : On(q, z)' /\ On(r, z)' => q = r
                      /\ \A q \in Requester : On(q, z)' => AsFarAs(q, z)'
                      /\ Quiet(z)' =>
                           /\ status'[z] = "ACTIVE" =>
                                conf'[z] = 1 /\ file'[z] = records'[z] /\ Sound(file[z])' /\ served'[z] = records'[z]
                           /\ ~Row(z)' => conf'[z] = 0 /\ file'[z] = None /\ served'[z] = None
    BY DEF InOrder
  <2>1. /\ \A q, r \in Requester : On(q, z) /\ On(r, z) => q = r
        /\ AsFarAs(p, z)
    BY <1>1 DEF InOrder
  <2>2. \A q \in Requester : On(q, z)' => q = p /\ op'[p] # NoRequest
    BY <1>2, <2>1
  <2>3. Quiet(z)' => op'[p] = NoRequest
    BY <1>2 DEF Quiet, On
  <2>4. ~Row(z)' <=> status'[z] = "none"
    BY DEF Row
  <2> QED BY <2>1, <2>2, <2>3, <2>4
<1>7. ZoneRight(z)'
  BY <1>4, <1>5, <1>6 DEF ZoneRight
<1> QED BY <1>7, ZoneStep

\* What holds of the zone of a request that is about to take a step.
LEMMA ZoneStands ==
  ASSUME DnsInv, NEW p \in Requester, NEW s, At(p, s), NEW z \in Zone, op[p].zone = z
  PROVE  /\ On(p, z) /\ ZoneNow(p) = s /\ (s \in Creating => IsNew(p)) /\ op[p].seen \in SeenValues
         /\ IsNew(p) => status[z] = IF s = "insert" THEN "none" ELSE "PENDING"
         /\ status[z] = "PENDING" => IsNew(p)
         /\ s \in Withdrawing => conf[z] = 0
         /\ status[z] = "none" => conf[z] = 0 /\ records[z] = {}
         /\ status[z] = "PENDING" /\ conf[z] # 0 => s \in {"reload", "active"}
         /\ status[z] \in StatusValues /\ records[z] \in SUBSET Record /\ file[z] \in Contents
         /\ served[z] \in Contents /\ conf[z] \in {0, 1}
<1>1. /\ On(p, z) /\ ZoneNow(p) = s /\ (s \in Creating => IsNew(p)) /\ op[p].seen \in SeenValues
  BY ZoneAt DEF DnsInv, On
<1>2. Entries(z)
  BY DEF DnsInv, ZoneRight
<1>3. /\ IsNew(p) => status[z] = IF s = "insert" THEN "none" ELSE "PENDING"
      /\ status[z] = "PENDING" => IsNew(p)
      /\ s \in Withdrawing => conf[z] = 0
  BY <1>1, <1>2 DEF Entries
<1>4. status[z] = "none" => conf[z] = 0 /\ records[z] = {}
  BY <1>2 DEF Entries, Row
<1>5. status[z] = "PENDING" /\ conf[z] # 0 => s \in {"reload", "active"}
  <2> SUFFICES ASSUME status[z] = "PENDING", conf[z] # 0 PROVE s \in {"reload", "active"}
    OBVIOUS
  <2>1. PICK q \in Requester : On(q, z) /\ IsNew(q) /\ ZoneNow(q) \in {"reload", "active"}
    BY <1>2 DEF Entries
  <2>2. q = p
    BY <1>1, <1>2, <2>1 DEF Entries
  <2> QED BY <1>1, <2>1, <2>2
<1>6. /\ status[z] \in StatusValues /\ records[z] \in SUBSET Record /\ file[z] \in Contents
      /\ served[z] \in Contents /\ conf[z] \in {0, 1}
  BY DEF DnsInv, ZonesTyped
<1> QED BY <1>1, <1>3, <1>4, <1>5, <1>6

\* A zone nothing of which changes.
LEMMA ZoneUntouched ==
  ASSUME NEW y \in Zone, mixed' = mixed, y \in skipped' <=> y \in skipped,
         status'[y] = status[y], records'[y] = records[y], file'[y] = file[y], conf'[y] = conf[y],
         served'[y] = served[y]
  PROVE  Spared(y)
BY DEF Spared

LEMMA DefaultsStep ==
  ASSUME DnsInv, NEW p \in Requester, Defaults(p)
  PROVE  DnsInv'
<1>1. /\ At(p, "defaults") /\ Advance(p) /\ OpsTyped /\ ZonesTyped
      /\ UNCHANGED <<status, records, file, conf, served, mixed, skipped>>
  BY DEF Defaults, DnsInv, history
<1>2. PICK z \in Zone : op[p].zone = z
  BY <1>1, ZoneAt
<1>3. ZoneGoes(p) /\ ZoneThen("defaults", ZoneNow(p)')
  BY <1>1, ZoneAdvances
<1>4. ZoneNow(p)' = "load"
  BY <1>3 DEF ZoneThen
<1>5. /\ On(p, z) /\ ZoneNow(p) = "defaults" /\ IsNew(p) /\ status[z] = "PENDING"
      /\ conf[z] = 0
  BY <1>1, <1>2, ZoneStands DEF Creating
<1>6. \A y \in Zone \ {z} : Spared(y)
  BY <1>1, ZoneUntouched
<1>7. ZonesTyped'
  BY <1>1 DEF ZonesTyped
<1>8. AsFarAs(p, z)'
  BY <1>1, <1>4, <1>5 DEF AsFarAs, Row
<1>9. op'[p] # NoRequest
  BY <1>1, ZoneAdvances, ZoneAt, ZoneAssumption DEF NoRequest
<1> QED BY <1>1, <1>3, <1>4, <1>5, <1>6, <1>7, <1>8, <1>9, ZoneChanges DEF Withdrawing

LEMMA ZoneProceeds ==
  ASSUME DnsInv, NEW p \in Requester, NEW s, At(p, s), Advance(p), s \notin {"active", "remove"}
  PROVE  /\ ZoneGoes(p) /\ op'[p] # NoRequest /\ ZoneThen(s, ZoneNow(p)')
         /\ op'[p].loaded = op[p].loaded /\ op'[p].zone = op[p].zone
<1>1. OpsTyped
  BY DEF DnsInv
<1>2. op[p].zone \in Zone
  BY <1>1, ZoneAt
<1>3. op'[p].zone # NoRequest.zone
  BY <1>1, <1>2, ZoneAdvances, ZoneAssumption DEF NoRequest
<1> QED BY <1>1, <1>3, ZoneAdvances

\* A row of the table of zones that is saved.
LEMMA StatusSaved ==
  ASSUME ZonesTyped, NEW z \in Zone, NEW v \in StatusValues, status' = [status EXCEPT ![z] = v],
         UNCHANGED <<records, file, conf, served>>, mixed' = mixed, \A y \in Zone \ {z} : y \in skipped' <=> y \in skipped
  PROVE  ZonesTyped' /\ status'[z] = v /\ \A y \in Zone \ {z} : Spared(y)
<1>1. status'[z] = v /\ \A y \in Zone \ {z} : status'[y] = status[y]
  BY DEF ZonesTyped
<1>2. ZonesTyped'
  BY DEF ZonesTyped
<1> QED BY <1>1, <1>2, ZoneUntouched

LEMMA InsertStep ==
  ASSUME DnsInv, NEW p \in Requester, Insert(p)
  PROVE  DnsInv'
<1>1. /\ At(p, "insert") /\ Advance(p) /\ OpsTyped /\ ZonesTyped
      /\ UNCHANGED <<records, file, conf, served, mixed, skipped>>
  BY DEF Insert, DnsInv, history
<1>2. PICK z \in Zone : op[p].zone = z
  BY <1>1, ZoneAt
<1>3. ZoneGoes(p) /\ op'[p] # NoRequest /\ ZoneNow(p)' = "defaults"
  BY <1>1, ZoneProceeds DEF ZoneThen
<1>4. /\ On(p, z) /\ ZoneNow(p) = "insert" /\ IsNew(p) /\ status[z] = "none"
      /\ conf[z] = 0 /\ conf[z] \in {0, 1}
  BY <1>1, <1>2, ZoneStands DEF Creating
<1>5. status' = [status EXCEPT ![z] = "PENDING"]
  BY <1>2 DEF Insert, Saves
<1>6. ZonesTyped' /\ status'[z] = "PENDING" /\ \A y \in Zone \ {z} : Spared(y)
  BY <1>1, <1>5, StatusSaved DEF StatusValues, SeenValues
<1>7. AsFarAs(p, z)'
  BY <1>3 DEF AsFarAs
<1> QED BY <1>1, <1>3, <1>4, <1>6, <1>7, ZoneChanges DEF Withdrawing

LEMMA SerialStep ==
  ASSUME DnsInv, NEW p \in Requester, Serial(p)
  PROVE  DnsInv'
<1>1. /\ At(p, "serial") /\ Advance(p) /\ OpsTyped /\ ZonesTyped
      /\ UNCHANGED <<records, file, conf, served, mixed, skipped>>
  BY DEF Serial, DnsInv, history
<1>2. PICK z \in Zone : op[p].zone = z
  BY <1>1, ZoneAt
<1>3. ZoneGoes(p) /\ op'[p] # NoRequest /\ ZoneNow(p)' = "load"
  BY <1>1, ZoneProceeds DEF ZoneThen
<1>4. /\ On(p, z) /\ ZoneNow(p) = "serial" /\ op[p].seen \in SeenValues
      /\ IsNew(p) => status[z] = "PENDING"
      /\ status[z] = "PENDING" => IsNew(p) /\ conf[z] = 0
  BY <1>1, <1>2, ZoneStands
<1>5. status' = [status EXCEPT ![z] = op[p].seen]
  BY <1>2 DEF Serial, Saves
<1>6. ZonesTyped' /\ status'[z] = op[p].seen /\ \A y \in Zone \ {z} : Spared(y)
  BY <1>1, <1>4, <1>5, StatusSaved DEF StatusValues
<1>7. status'[z] # "none" /\ (status'[z] = "PENDING" <=> IsNew(p))
  BY <1>4, <1>6 DEF SeenValues, IsNew
<1>8. AsFarAs(p, z)'
  BY <1>3, <1>7 DEF AsFarAs, Row
<1> QED BY <1>1, <1>3, <1>4, <1>6, <1>7, <1>8, ZoneChanges DEF Withdrawing

LEMMA CheckStep ==
  ASSUME DnsInv, NEW p \in Requester, Check(p)
  PROVE  DnsInv'
<1>1. /\ At(p, "check") /\ Advance(p) /\ OpsTyped /\ ZonesTyped /\ Passes(op[p].zone)
      /\ UNCHANGED <<status, records, file, conf, served, mixed, skipped>>
  BY DEF Check, DnsInv, history
<1>2. PICK z \in Zone : op[p].zone = z
  BY <1>1, ZoneAt
<1>3. ZoneGoes(p) /\ op'[p] # NoRequest /\ ZoneNow(p)' = "config"
  BY <1>1, ZoneProceeds DEF ZoneThen
<1>4. /\ On(p, z) /\ ZoneNow(p) = "check"
      /\ IsNew(p) => status[z] = "PENDING"
      /\ status[z] = "PENDING" => IsNew(p) /\ conf[z] = 0
      /\ status[z] = "none" => conf[z] = 0 /\ records[z] = {}
  BY <1>1, <1>2, ZoneStands
<1>5. \A y \in Zone \ {z} : Spared(y)
  BY <1>1, ZoneUntouched
<1>6. ZonesTyped'
  BY <1>1 DEF ZonesTyped
<1>7. AsFarAs(p, z) => AsFarAs(p, z)'
  BY <1>1, <1>2, <1>3, <1>4 DEF AsFarAs, Row, Passes, Sound
<1> QED BY <1>1, <1>3, <1>4, <1>5, <1>6, <1>7, ZoneChanges DEF Withdrawing

LEMMA ZoneWriteStep ==
  ASSUME DnsInv, NEW p \in Requester, Write(p)
  PROVE  DnsInv'
<1>1. /\ At(p, "write") /\ Advance(p) /\ OpsTyped /\ ZonesTyped
      /\ UNCHANGED <<status, records, conf, served, mixed, skipped>>
  BY DEF Write, DnsInv, history
<1>2. PICK z \in Zone : op[p].zone = z
  BY <1>1, ZoneAt
<1>3. ZoneGoes(p) /\ op'[p] # NoRequest /\ ZoneNow(p)' = "check"
  BY <1>1, ZoneProceeds DEF ZoneThen
<1>4. /\ On(p, z) /\ ZoneNow(p) = "write"
      /\ IsNew(p) => status[z] = "PENDING"
      /\ status[z] = "PENDING" => IsNew(p) /\ conf[z] = 0
      /\ status[z] = "none" => conf[z] = 0 /\ records[z] = {}
  BY <1>1, <1>2, ZoneStands
<1>5. file' = [file EXCEPT ![z] = op[p].loaded]
  BY <1>2 DEF Write
<1>6. op[p].loaded \in SUBSET Record
  BY <1>1, ZoneAt DEF ZoneRequest
<1>7. ZonesTyped' /\ file'[z] = op[p].loaded /\ \A y \in Zone \ {z} : file'[y] = file[y]
  <2>1. op[p].loaded \in Contents
    BY <1>6 DEF Contents
  <2> QED BY <1>1, <1>5, <2>1 DEF ZonesTyped
<1>8. \A y \in Zone \ {z} : Spared(y)
  BY <1>1, <1>7, ZoneUntouched
<1>9. AsFarAs(p, z) => AsFarAs(p, z)'
  BY <1>1, <1>2, <1>3, <1>4, <1>7 DEF AsFarAs, Row
<1> QED BY <1>1, <1>3, <1>4, <1>7, <1>8, <1>9, ZoneChanges DEF Withdrawing

LEMMA LoadStep ==
  ASSUME DnsInv, NEW p \in Requester, Load(p)
  PROVE  DnsInv'
<1>1. /\ At(p, "load") /\ OpsTyped /\ ZonesTyped
      /\ UNCHANGED <<status, records, file, conf, served, mixed, skipped>>
  BY DEF Load, DnsInv, history
<1>2. PICK z \in Zone : op[p].zone = z
  BY <1>1, ZoneAt
<1>3. /\ On(p, z) /\ ZoneNow(p) = "load"
      /\ IsNew(p) => status[z] = "PENDING"
      /\ status[z] = "PENDING" => IsNew(p) /\ conf[z] = 0
      /\ status[z] = "none" => conf[z] = 0 /\ records[z] = {}
      /\ records[z] \in SUBSET Record
  BY <1>1, <1>2, ZoneStands
<1>4. \A y \in Zone \ {z} : Spared(y)
  BY <1>1, ZoneUntouched
<1>5. ZonesTyped'
  BY <1>1 DEF ZonesTyped
<1>6. CASE ~Row(z)
  <2>1. op' = [op EXCEPT ![p] = NoRequest]
    BY <1>2, <1>6 DEF Load
  <2>2. ZoneGoes(p) /\ op'[p] = NoRequest
    BY <1>1, <2>1, ZoneEnds
  <2>3. ~AsFarAs(p, z) /\ status[z] = "none"
    BY <1>3, <1>6 DEF AsFarAs, Row
  <2> QED BY <1>1, <1>3, <1>4, <1>5, <2>2, <2>3, ZoneChanges
<1>7. CASE Row(z)
  <2> DEFINE o == op[p]
             a == [o EXCEPT !.todo = Tail(o.todo)]
             c == [a EXCEPT !.loaded = records[z]]
  <2>1. o \in ZoneRequest /\ o.todo \in ZoneLeft /\ Tail(o.todo) \in ZoneLeft /\ o.zone = z
    BY <1>1, <1>2, <1>3, ZoneAt, ZoneLeftTable DEF ZoneNow
  <2>2. op' = [op EXCEPT ![p] = [o EXCEPT !.todo = Tail(o.todo), !.loaded = records[z]]]
    BY <1>2, <1>7 DEF Load
  <2>3. [o EXCEPT !.todo = Tail(o.todo), !.loaded = records[z]] = c
    BY <2>1 DEF ZoneRequest
  <2> HIDE DEF o
  <2>4. /\ a \in ZoneRequest /\ a.zone = o.zone /\ a.seen = o.seen /\ a.todo = Tail(o.todo)
    BY <2>1 DEF ZoneRequest
  <2> HIDE DEF a
  <2>5. /\ c \in ZoneRequest /\ c.zone = o.zone /\ c.seen = o.seen /\ c.todo = Tail(o.todo)
        /\ c.loaded = records[z]
    BY <1>3, <2>4 DEF ZoneRequest
  <2>6. op' = [op EXCEPT ![p] = c]
    BY <2>2, <2>3
  <2> HIDE DEF c
  <2>7. ZoneGoes(p) /\ op'[p] = c /\ ZoneThen("load", ZoneNow(p)')
    BY <1>1, <2>5, <2>6, ZoneGoesOn DEF o
  <2>8. op'[p] # NoRequest /\ ZoneNow(p)' = "write" /\ op'[p].loaded = records[z]
    BY <2>1, <2>5, <2>7, ZoneAssumption DEF NoRequest, ZoneThen
  <2>9. AsFarAs(p, z)'
    BY <1>1, <1>7, <2>8 DEF AsFarAs, Row
  <2> QED BY <1>1, <1>3, <1>4, <1>5, <2>7, <2>8, <2>9, ZoneChanges DEF Withdrawing
<1> QED BY <1>6, <1>7

LEMMA ConfigStep ==
  ASSUME DnsInv, NEW p \in Requester, Config(p)
  PROVE  DnsInv'
<1>1. /\ At(p, "config") /\ Advance(p) /\ OpsTyped /\ ZonesTyped
      /\ UNCHANGED <<status, records, file, served, mixed, skipped>>
  BY DEF Config, DnsInv, history
<1>2. PICK z \in Zone : op[p].zone = z
  BY <1>1, ZoneAt
<1>3. ZoneGoes(p) /\ op'[p] # NoRequest /\ ZoneNow(p)' = "reload"
  BY <1>1, ZoneProceeds DEF ZoneThen
<1>4. /\ On(p, z) /\ ZoneNow(p) = "config"
      /\ IsNew(p) => status[z] = "PENDING" /\ conf[z] = 0
      /\ status[z] = "PENDING" => IsNew(p) /\ conf[z] = 0
      /\ status[z] = "none" => conf[z] = 0 /\ records[z] = {}
      /\ conf[z] \in {0, 1}
  BY <1>1, <1>2, ZoneStands
<1>5. \/ conf' = conf
      \/ IsNew(p) /\ conf' = [conf EXCEPT ![z] = conf[z] + 1]
  <2>1. CASE IsNew(p)
    BY <1>2, <2>1 DEF Config
  <2>2. CASE ~IsNew(p)
    <3>1. conf' = [conf EXCEPT ![z] = conf[z]]
      BY <1>2, <2>2 DEF Config
    <3> QED BY <1>1, <3>1 DEF ZonesTyped
  <2> QED BY <2>1, <2>2
<1>6. /\ conf'[z] = conf[z] \/ (IsNew(p) /\ conf'[z] = 1)
      /\ \A y \in Zone \ {z} : conf'[y] = conf[y]
      /\ conf' \in [Zone -> {0, 1}]
  <2>1. CASE conf' = conf
    BY <1>1, <2>1 DEF ZonesTyped
  <2>2. CASE IsNew(p) /\ conf' = [conf EXCEPT ![z] = conf[z] + 1]
    <3>1. conf[z] + 1 = 1
      BY <1>4, <2>2
    <3>2. conf' = [conf EXCEPT ![z] = 1]
      BY <2>2, <3>1
    <3> QED BY <1>1, <2>2, <3>2 DEF ZonesTyped
  <2> QED BY <1>5, <2>1, <2>2
<1>7. ZonesTyped'
  BY <1>1, <1>6 DEF ZonesTyped
<1>8. \A y \in Zone \ {z} : Spared(y)
  BY <1>1, <1>6, ZoneUntouched
<1>9. AsFarAs(p, z) => AsFarAs(p, z)'
  BY <1>1, <1>3, <1>4 DEF AsFarAs, Row, Sound
<1> QED BY <1>1, <1>3, <1>4, <1>6, <1>7, <1>8, <1>9, ZoneChanges DEF Withdrawing

\* A zone named answers for, and that is not being withdrawn, has its entry.
LEMMA KnownHasEntry ==
  ASSUME DnsInv, NEW p \in Requester, NEW z \in Zone, On(p, z), ZoneNow(p) \notin {"unlink", "reloadAll"},
         z \notin skipped \cup mixed, served[z] # None
  PROVE  conf[z] = 1
<1>1. \A q \in Requester : On(q, z) => q = p
  BY DEF DnsInv, ZoneRight, InOrder
<1>2. conf[z] # 0
  BY <1>1 DEF DnsInv, ZoneRight, KnownByEntry
<1> QED BY <1>2 DEF DnsInv, ZonesTyped

LEMMA ReloadStep ==
  ASSUME DnsInv, NEW p \in Requester, Reload(p)
  PROVE  DnsInv'
<1>1. /\ At(p, "reload") /\ Advance(p) /\ OpsTyped /\ ZonesTyped
      /\ UNCHANGED <<status, records, file, conf, mixed, skipped>>
  BY DEF Reload, DnsInv, history
<1>2. PICK z \in Zone : op[p].zone = z
  BY <1>1, ZoneAt
<1>3. ZoneGoes(p) /\ op'[p] # NoRequest /\ ZoneNow(p)' = "active"
  BY <1>1, ZoneProceeds DEF ZoneThen
<1>4. /\ On(p, z) /\ ZoneNow(p) = "reload"
      /\ IsNew(p) => status[z] = "PENDING"
      /\ status[z] = "PENDING" => IsNew(p)
      /\ status[z] = "none" => conf[z] = 0 /\ records[z] = {}
      /\ file[z] \in Contents /\ served[z] \in Contents
  BY <1>1, <1>2, ZoneStands
<1>5. /\ served' = [served EXCEPT ![z] = IF Sound(file[z]) THEN file[z] ELSE served[z]]
      /\ served[z] # None \/ conf[z] = 1
  BY <1>2 DEF Reload
<1>6. /\ served'[z] = (IF Sound(file[z]) THEN file[z] ELSE served[z])
      /\ \A y \in Zone \ {z} : served'[y] = served[y]
      /\ served' \in [Zone -> Contents]
  BY <1>1, <1>4, <1>5 DEF ZonesTyped
<1>7. ZonesTyped'
  BY <1>1, <1>6 DEF ZonesTyped
<1>8. \A y \in Zone \ {z} : Spared(y)
  BY <1>1, <1>6, ZoneUntouched
<1>9. z \notin skipped \cup mixed => conf[z] = 1
  BY <1>4, <1>5, KnownHasEntry
<1>10. z \notin skipped \cup mixed /\ AsFarAs(p, z) => AsFarAs(p, z)'
  BY <1>1, <1>3, <1>4, <1>6, <1>9 DEF AsFarAs, Row, Sound
<1> QED BY <1>1, <1>3, <1>4, <1>5, <1>6, <1>7, <1>8, <1>10, ZoneChanges DEF Withdrawing

\* A publication that ends with a status, and does nothing else to its zone.
LEMMA PublishEnds ==
  ASSUME DnsInv, NEW p \in Requester, NEW s, At(p, s), s \notin {"unlink", "reloadAll"},
         NEW z \in Zone, op[p].zone = z, status' = [status EXCEPT ![z] = "ERROR"], End(p),
         UNCHANGED <<records, file, conf, served, mixed, skipped>>
  PROVE  DnsInv'
<1>1. OpsTyped /\ ZonesTyped
  BY DEF DnsInv
<1>2. ZoneGoes(p) /\ op'[p] = NoRequest
  BY <1>1, ZoneEnds DEF End
<1>3. On(p, z) /\ ZoneNow(p) = s
  BY ZoneStands
<1>4. ZonesTyped' /\ status'[z] = "ERROR" /\ \A y \in Zone \ {z} : Spared(y)
  BY <1>1, StatusSaved DEF StatusValues, SeenValues
<1> QED BY <1>2, <1>3, <1>4, ZoneChanges

LEMMA ReloadUnknownStep ==
  ASSUME DnsInv, NEW p \in Requester, ReloadUnknown(p)
  PROVE  DnsInv'
<1>1. /\ At(p, "reload") /\ OpsTyped /\ End(p)
      /\ UNCHANGED <<records, file, conf, served, mixed, skipped>>
  BY DEF ReloadUnknown, DnsInv, history
<1>2. PICK z \in Zone : op[p].zone = z
  BY <1>1, ZoneAt
<1>3. status' = [status EXCEPT ![z] = "ERROR"]
  BY <1>2 DEF ReloadUnknown, Saves
<1> QED BY <1>1, <1>2, <1>3, PublishEnds

LEMMA PublishFailsStep ==
  ASSUME DnsInv, NEW p \in Requester, PublishFails(p)
  PROVE  DnsInv'
<1>1. /\ OpsTyped /\ End(p)
      /\ UNCHANGED <<records, file, conf, served, mixed, skipped>>
  BY DEF PublishFails, DnsInv, history
<1>2. PICK s \in {"write", "check", "reload"} : At(p, s)
  BY DEF PublishFails
<1>3. PICK z \in Zone : op[p].zone = z
  BY <1>1, <1>2, ZoneAt
<1>4. status' = [status EXCEPT ![z] = "ERROR"]
  BY <1>3 DEF PublishFails, Saves
<1>5. s \notin {"unlink", "reloadAll"}
  BY <1>2
<1> QED BY <1>1, <1>2, <1>3, <1>4, <1>5, PublishEnds

LEMMA ActivateStep ==
  ASSUME DnsInv, NEW p \in Requester, Activate(p)
  PROVE  DnsInv'
<1>1. /\ At(p, "active") /\ Advance(p) /\ OpsTyped /\ ZonesTyped
      /\ UNCHANGED <<records, file, conf, served, mixed, skipped>>
  BY DEF Activate, DnsInv, history
<1>2. PICK z \in Zone : op[p].zone = z
  BY <1>1, ZoneAt
<1>3. ZoneGoes(p) /\ op'[p] = NoRequest
  BY <1>1, ZoneAdvances
<1>4. On(p, z) /\ ZoneNow(p) = "active"
  BY <1>1, <1>2, ZoneStands
<1>5. status' = [status EXCEPT ![z] = "ACTIVE"]
  BY <1>2 DEF Activate, Saves
<1>6. ZonesTyped' /\ status'[z] = "ACTIVE" /\ \A y \in Zone \ {z} : Spared(y)
  BY <1>1, <1>5, StatusSaved DEF StatusValues, SeenValues
<1>7. AsFarAs(p, z) => /\ conf'[z] = 1 /\ file'[z] = records'[z] /\ Sound(file[z])'
                       /\ served'[z] = records'[z]
  BY <1>1, <1>4 DEF AsFarAs, Sound
<1> QED BY <1>1, <1>3, <1>4, <1>6, <1>7, ZoneChanges

LEMMA CreateFailsStep ==
  ASSUME DnsInv, NEW p \in Requester, CreateFails(p)
  PROVE  DnsInv'
<1>1. /\ OpsTyped /\ ZonesTyped /\ End(p)
      /\ UNCHANGED <<status, records, file, conf, served, mixed, skipped>>
  BY DEF CreateFails, DnsInv, history
<1>2. PICK s \in {"insert", "defaults"} : At(p, s)
  BY DEF CreateFails
<1>3. PICK z \in Zone : op[p].zone = z
  BY <1>1, <1>2, ZoneAt
<1>4. ZoneGoes(p) /\ op'[p] = NoRequest
  BY <1>1, ZoneEnds DEF End
<1>5. /\ On(p, z) /\ ZoneNow(p) = s
      /\ status[z] = IF s = "insert" THEN "none" ELSE "PENDING"
      /\ status[z] = "none" => conf[z] = 0 /\ records[z] = {}
      /\ status[z] = "PENDING" => conf[z] = 0
  BY <1>2, <1>3, ZoneStands DEF Creating
<1>6. \A y \in Zone \ {z} : Spared(y)
  BY <1>1, ZoneUntouched
<1>7. ZonesTyped'
  BY <1>1 DEF ZonesTyped
<1>8. AsFarAs(p, z) => /\ status'[z] # "ACTIVE"
                       /\ status'[z] = "none" => conf'[z] = 0 /\ file'[z] = None /\ served'[z] = None
  BY <1>1, <1>2, <1>5 DEF AsFarAs
<1> QED BY <1>1, <1>2, <1>4, <1>5, <1>6, <1>7, <1>8, ZoneChanges

LEMMA UnconfigStep ==
  ASSUME DnsInv, NEW p \in Requester, Unconfig(p)
  PROVE  DnsInv'
<1>1. /\ At(p, "unconfig") /\ Advance(p) /\ OpsTyped /\ ZonesTyped
      /\ UNCHANGED <<status, records, file, served, mixed, skipped>>
  BY DEF Unconfig, DnsInv, history
<1>2. PICK z \in Zone : op[p].zone = z
  BY <1>1, ZoneAt
<1>3. ZoneGoes(p) /\ op'[p] # NoRequest /\ ZoneNow(p)' = "unlink"
  BY <1>1, ZoneProceeds DEF ZoneThen
<1>4. /\ On(p, z) /\ ZoneNow(p) = "unconfig"
      /\ IsNew(p) => status[z] = "PENDING"
      /\ status[z] = "PENDING" => IsNew(p)
      /\ status[z] = "none" => records[z] = {}
  BY <1>1, <1>2, ZoneStands
<1>5. conf' = [conf EXCEPT ![z] = 0]
  BY <1>2 DEF Unconfig
<1>6. ZonesTyped' /\ conf'[z] = 0 /\ \A y \in Zone \ {z} : conf'[y] = conf[y]
  BY <1>1, <1>5 DEF ZonesTyped
<1>7. \A y \in Zone \ {z} : Spared(y)
  BY <1>1, <1>6, ZoneUntouched
<1>8. AsFarAs(p, z)'
  BY <1>3 DEF AsFarAs
<1> QED BY <1>1, <1>3, <1>4, <1>6, <1>7, <1>8, ZoneChanges

LEMMA UnlinkZoneStep ==
  ASSUME DnsInv, NEW p \in Requester, UnlinkZone(p)
  PROVE  DnsInv'
<1>1. /\ At(p, "unlink") /\ Advance(p) /\ OpsTyped /\ ZonesTyped
      /\ UNCHANGED <<status, records, conf, served, mixed, skipped>>
  BY DEF UnlinkZone, DnsInv, history
<1>2. PICK z \in Zone : op[p].zone = z
  BY <1>1, ZoneAt
<1>3. ZoneGoes(p) /\ op'[p] # NoRequest /\ ZoneNow(p)' = "reloadAll"
  BY <1>1, ZoneProceeds DEF ZoneThen
<1>4. /\ On(p, z) /\ ZoneNow(p) = "unlink" /\ conf[z] = 0
      /\ IsNew(p) => status[z] = "PENDING"
      /\ status[z] = "PENDING" => IsNew(p)
      /\ status[z] = "none" => records[z] = {}
  BY <1>1, <1>2, ZoneStands DEF Withdrawing
<1>5. file' = [file EXCEPT ![z] = None]
  BY <1>2 DEF UnlinkZone
<1>6. ZonesTyped' /\ file'[z] = None /\ \A y \in Zone \ {z} : file'[y] = file[y]
  <2>1. None \in Contents
    BY DEF Contents
  <2> QED BY <1>1, <1>5, <2>1 DEF ZonesTyped
<1>7. \A y \in Zone \ {z} : Spared(y)
  BY <1>1, <1>6, ZoneUntouched
<1>8. AsFarAs(p, z)'
  BY <1>3, <1>6 DEF AsFarAs
<1> QED BY <1>1, <1>3, <1>4, <1>6, <1>7, <1>8, ZoneChanges

LEMMA ReloadAllStep ==
  ASSUME DnsInv, NEW p \in Requester, ReloadAll(p)
  PROVE  DnsInv'
<1>1. /\ At(p, "reloadAll") /\ Advance(p) /\ OpsTyped /\ ZonesTyped
      /\ UNCHANGED <<status, records, file, conf, mixed, skipped>>
      /\ served' = IF \A y \in Zone : conf[y] <= 1 THEN Read(served) ELSE served
  BY DEF ReloadAll, DnsInv, history
<1>2. PICK z \in Zone : op[p].zone = z
  BY <1>1, ZoneAt
<1>3. ZoneGoes(p) /\ op'[p] # NoRequest /\ ZoneNow(p)' = "remove"
  BY <1>1, ZoneProceeds DEF ZoneThen
<1>4. /\ On(p, z) /\ ZoneNow(p) = "reloadAll" /\ conf[z] = 0
      /\ IsNew(p) => status[z] = "PENDING"
      /\ status[z] = "PENDING" => IsNew(p)
      /\ status[z] = "none" => records[z] = {}
  BY <1>1, <1>2, ZoneStands DEF Withdrawing
<1>5. served' = Read(served)
  BY <1>1 DEF ZonesTyped
<1>6. \A y \in Zone : served'[y] = Reread(y, served[y])
  BY <1>5 DEF Read, Reread
<1>7. served'[z] = None
  BY <1>4, <1>6 DEF Reread
<1>8. ZonesTyped'
  <2>1. None \in Contents /\ \A y \in Zone : file[y] \in Contents /\ served[y] \in Contents
    BY <1>1 DEF Contents, ZonesTyped
  <2>2. \A y \in Zone : served'[y] \in Contents
    BY <1>6, <2>1 DEF Reread
  <2>3. served' \in [Zone -> Contents]
    BY <1>5, <2>2 DEF Read
  <2> QED BY <1>1, <2>3 DEF ZonesTyped
<1>9. \A y \in Zone \ {z} : Spared(y)
  BY <1>1, <1>6 DEF Spared
<1>10. AsFarAs(p, z) => AsFarAs(p, z)'
  BY <1>1, <1>3, <1>4, <1>7 DEF AsFarAs
<1> QED BY <1>1, <1>3, <1>4, <1>7, <1>8, <1>9, <1>10, ZoneChanges

LEMMA ZoneRemoveStep ==
  ASSUME DnsInv, NEW p \in Requester, Remove(p)
  PROVE  DnsInv'
<1>1. /\ At(p, "remove") /\ Advance(p) /\ OpsTyped /\ ZonesTyped
      /\ UNCHANGED <<file, conf, served, mixed, skipped>>
  BY DEF Remove, DnsInv, history
<1>2. PICK z \in Zone : op[p].zone = z
  BY <1>1, ZoneAt
<1>3. ZoneGoes(p) /\ op'[p] = NoRequest
  BY <1>1, ZoneAdvances
<1>4. /\ On(p, z) /\ ZoneNow(p) = "remove" /\ conf[z] = 0
  BY <1>1, <1>2, ZoneStands DEF Withdrawing
<1>5. status' = [status EXCEPT ![z] = "none"] /\ records' = [records EXCEPT ![z] = {}]
  BY <1>2 DEF Remove, Cascade
<1>6. /\ ZonesTyped' /\ status'[z] = "none" /\ records'[z] = {}
      /\ \A y \in Zone \ {z} : status'[y] = status[y] /\ records'[y] = records[y]
  BY <1>1, <1>5 DEF ZonesTyped, StatusValues
<1>7. \A y \in Zone \ {z} : Spared(y)
  BY <1>1, <1>6, ZoneUntouched
<1>8. AsFarAs(p, z) => conf'[z] = 0 /\ file'[z] = None /\ served'[z] = None
  BY <1>1, <1>4 DEF AsFarAs
<1> QED BY <1>1, <1>3, <1>4, <1>6, <1>7, <1>8, ZoneChanges

\* A failing sed is left out: a creation after it would add a second entry.
LEMMA WithdrawFailsStep ==
  ASSUME DnsInv, "unconfig" \notin Fragile, NEW p \in Requester, WithdrawFails(p)
  PROVE  DnsInv'
<1>1. /\ Advance(p) /\ OpsTyped /\ ZonesTyped
      /\ UNCHANGED <<status, records, file, conf, served, mixed>>
      /\ skipped' = skipped \cup {op[p].zone}
  BY DEF WithdrawFails, DnsInv
<1>2. PICK s \in {"unlink", "reloadAll"} : At(p, s)
  BY DEF WithdrawFails
<1>3. PICK z \in Zone : op[p].zone = z
  BY <1>1, <1>2, ZoneAt
<1>4. ZoneGoes(p) /\ op'[p] # NoRequest /\ ZoneNow(p)' \in {"reloadAll", "remove"}
  BY <1>1, <1>2, ZoneProceeds DEF ZoneThen
<1>5. /\ On(p, z) /\ ZoneNow(p) = s /\ conf[z] = 0
      /\ IsNew(p) => status[z] = "PENDING"
      /\ status[z] = "PENDING" => IsNew(p)
      /\ status[z] = "none" => records[z] = {}
  BY <1>2, <1>3, ZoneStands DEF Withdrawing
<1>6. z \in skipped' /\ skipped \subseteq skipped' /\ \A y \in Zone \ {z} : y \in skipped' <=> y \in skipped
  BY <1>1, <1>3
<1>7. ZonesTyped'
  BY <1>1 DEF ZonesTyped
<1>8. \A y \in Zone \ {z} : Spared(y)
  BY <1>1, <1>6, ZoneUntouched
<1> QED BY <1>1, <1>4, <1>5, <1>6, <1>7, <1>8, ZoneChanges

-----------------------------------------------------------------------------
(* Requests on zones that start.                                            *)

\* The courses the handlers put together.
LEMMA ZoneCourses ==
  /\ <<"insert", "defaults">> \o Publish = ToInsert
  /\ <<"serial">> \o Publish = ToSerial
  /\ Withdraw = ToUnconfig
<1> DEFINE S == {"insert", "defaults", "serial", "load", "write", "check", "config", "reload", "active"}
<1>1. Publish = ToLoad /\ Withdraw = ToUnconfig
  BY DEF Publish, ToLoad, Withdraw, ToUnconfig
<1>2. /\ ToLoad \in Seq(S) /\ ToSerial \in Seq(S) /\ ToDefaults \in Seq(S) /\ ToInsert \in Seq(S)
  <2>1. ToLoad \in Seq(S)
    BY DEF ToLoad
  <2>2. ToSerial \in Seq(S)
    BY DEF ToSerial
  <2>3. ToDefaults \in Seq(S)
    BY DEF ToDefaults
  <2>4. ToInsert \in Seq(S)
    BY DEF ToInsert
  <2> QED BY <2>1, <2>2, <2>3, <2>4
<1> HIDE DEF S
<1>3. <<"serial">> \o ToLoad = ToSerial
  <2>1. ToSerial # <<>> /\ Head(ToSerial) = "serial" /\ Tail(ToSerial) = ToLoad
    BY ZoneTable
  <2>2. <<Head(ToSerial)>> \o Tail(ToSerial) = ToSerial
    BY <1>2, <2>1, HeadFirst
  <2> QED BY <2>1, <2>2
<1>4. <<"defaults">> \o ToLoad = ToDefaults
  <2>1. ToDefaults # <<>> /\ Head(ToDefaults) = "defaults" /\ Tail(ToDefaults) = ToLoad
    BY ZoneTable
  <2>2. <<Head(ToDefaults)>> \o Tail(ToDefaults) = ToDefaults
    BY <1>2, <2>1, HeadFirst
  <2> QED BY <2>1, <2>2
<1>5. <<"insert">> \o ToDefaults = ToInsert
  <2>1. ToInsert # <<>> /\ Head(ToInsert) = "insert" /\ Tail(ToInsert) = ToDefaults
    BY ZoneTable
  <2>2. <<Head(ToInsert)>> \o Tail(ToInsert) = ToInsert
    BY <1>2, <2>1, HeadFirst
  <2> QED BY <2>1, <2>2
<1>6. <<"insert", "defaults">> \o ToLoad = ToInsert
  <2> DEFINE i == <<"insert">>
             d == <<"defaults">>
             b == <<"insert", "defaults">>
  <2>1. i \in Seq(S) /\ d \in Seq(S) /\ b \in Seq(S) /\ b # <<>> /\ Head(b) = "insert" /\ Tail(b) = d
    BY DEF S
  <2>2. <<Head(b)>> \o Tail(b) = b
    BY <2>1, HeadFirst
  <2>3. b = i \o d
    BY <2>1, <2>2
  <2> HIDE DEF i, d, b
  <2>4. ToDefaults = d \o ToLoad
    BY <1>4 DEF d
  <2>5. b \o ToLoad = i \o ToDefaults
    BY <1>2, <2>1, <2>3, <2>4, Regrouped, SMTT(20)
  <2> QED BY <1>5, <2>5 DEF i, b
<1> QED BY <1>1, <1>3, <1>6

LEMMA ZoneOpened ==
  ASSUME OpsTyped, NEW p \in Requester, op[p] = NoRequest, NEW z \in Zone, NEW steps \in ZoneLeft,
         NEW seen \in SeenValues, Head(steps) \in Creating => seen = "PENDING", Open(p, z, steps, seen)
  PROVE  /\ OpsTyped' /\ \A q \in Requester : q # p => op'[q] = op[q]
         /\ On(p, z)' /\ ZoneNow(p)' = Head(steps) /\ op'[p].seen = seen
         /\ \A y \in Zone \ {z} : ~On(p, y) /\ ~(On(p, y)')
         /\ ~On(p, z)
<1> DEFINE a == [NoRequest EXCEPT !.zone = z]
           b == [a EXCEPT !.todo = steps]
           c == [b EXCEPT !.seen = seen]
<1>1. op' = [op EXCEPT ![p] = c]
  <2>1. [NoRequest EXCEPT !.zone = z, !.todo = steps, !.seen = seen] = c
    BY DEF NoRequest
  <2> QED BY <2>1 DEF Open
<1>2. a \in ZoneRequest /\ a.zone = z
  BY DEF NoRequest, ZoneRequest, StatusValues
<1> HIDE DEF a
<1>3. b \in ZoneRequest /\ b.zone = z /\ b.todo = steps
  BY <1>2 DEF ZoneRequest
<1> HIDE DEF b
<1>4. c \in ZoneRequest /\ c.zone = z /\ c.todo = steps /\ c.seen = seen
  BY <1>3 DEF ZoneRequest, StatusValues
<1> HIDE DEF c
<1>5. op'[p] = c /\ \A q \in Requester : q # p => op'[q] = op[q]
  BY <1>1 DEF OpsTyped
<1>6. OnZone(c)
  BY <1>4 DEF OnZone
<1>7. op' \in [Requester -> ZoneRequest]
  BY <1>1, <1>4 DEF OpsTyped
<1>8. OpsTyped'
  BY <1>5, <1>6, <1>7 DEF OpsTyped
<1>9. \A y \in Zone : ~On(p, y)
  BY ZoneAssumption DEF On, NoRequest
<1> QED BY <1>4, <1>5, <1>8, <1>9 DEF On, ZoneNow

\* A request that starts: it sees the status of the zone, and is alone when the zone is new.
LEMMA ZoneRequestStarts ==
  ASSUME DnsInv, NEW p \in Requester, op[p] = NoRequest, NEW z \in Zone,
         NEW steps \in {ToInsert, ToSerial, ToUnconfig}, steps = ToInsert <=> ~Row(z),
         NEW seen, seen = (IF Row(z) THEN status[z] ELSE "PENDING"), Open(p, z, steps, seen),
         seen = "PENDING" => Quiet(z),
         NEW rs \in SUBSET Record, ~Row(z) => rs = {}, records' = [records EXCEPT ![z] = rs],
         UNCHANGED <<status, file, conf, served, skipped>>
  PROVE  DnsInv'
<1>1. ZonesTyped /\ OpsTyped /\ Entries(z) /\ KnownByEntry(z) /\ InOrder(z)
  BY DEF DnsInv, ZoneRight
<1>2. /\ Head(steps) \in {"insert", "serial", "unconfig"} /\ steps \in ZoneLeft
      /\ Head(steps) = "insert" <=> ~Row(z)
  BY ZoneTable DEF ZoneLeft
<1>3. seen \in SeenValues
  BY <1>1 DEF Row, ZonesTyped, StatusValues, SeenValues
<1>4. Head(steps) \in Creating => seen = "PENDING"
  BY <1>2 DEF Creating
<1>5. /\ OpsTyped' /\ \A q \in Requester : q # p => op'[q] = op[q]
      /\ On(p, z)' /\ ZoneNow(p)' = Head(steps) /\ op'[p].seen = seen
      /\ \A y \in Zone \ {z} : ~On(p, y) /\ ~(On(p, y)')
      /\ ~On(p, z)
  BY <1>1, <1>2, <1>3, <1>4, ZoneOpened
<1>6. /\ ~Quiet(z) => mixed' = mixed \cup {z}
      /\ Quiet(z) /\ Row(z) => mixed' = mixed \ {z}
      /\ Quiet(z) /\ ~Row(z) => mixed' = mixed
  BY DEF Open
<1>7. /\ ZonesTyped' /\ records'[z] = rs /\ \A y \in Zone \ {z} : records'[y] = records[y]
  BY <1>1 DEF ZonesTyped
<1>8. ASSUME NEW y \in Zone \ {z} PROVE ZoneRight(y)'
  <2>1. ZoneRight(y) /\ conf[y] \in {0, 1}
    BY <1>1 DEF DnsInv, ZonesTyped
  <2>2. y \in mixed' <=> y \in mixed
    BY <1>6
  <2>3. Spared(y)
    BY <1>7, <2>2 DEF Spared
  <2>4. \A q \in Requester : op'[q] = op[q] \/ (~On(q, y) /\ ~(On(q, y)'))
    BY <1>5
  <2> QED BY <1>1, <2>1, <2>3, <2>4, ZoneSpared
<1>9. /\ \A q \in Requester : q # p =>
           /\ On(q, z)' <=> On(q, z)
           /\ ZoneNow(q)' = ZoneNow(q) /\ IsNew(q)' = IsNew(q)
      /\ IsNew(p)' <=> seen = "PENDING"
  BY <1>5 DEF On, ZoneNow, IsNew
<1>10. Quiet(z) => \A q \in Requester : ~On(q, z)
  BY DEF Quiet, On
<1>11. Row(z)' = Row(z) /\ (~Row(z) <=> status[z] = "none")
  BY DEF Row
<1>12. Entries(z)'
  <2>1. ~Row(z)' => conf'[z] = 0 /\ records'[z] = {}
    BY <1>1, <1>7, <1>11 DEF Entries
  <2>2. ~(status'[z] = "PENDING" /\ conf'[z] # 0)
    BY <1>1, <1>10, <1>11 DEF Entries
  <2>3. ASSUME NEW q \in Requester, On(q, z)'
        PROVE  /\ IsNew(q)' => /\ status'[z] = IF ZoneNow(q)' = "insert" THEN "none" ELSE "PENDING"
                               /\ \A r \in Requester : On(r, z)' => r = q
               /\ status'[z] = "PENDING" => IsNew(q)'
               /\ ZoneNow(q)' \in Withdrawing => conf'[z] = 0
    <3>1. CASE q = p
      <4>1. IsNew(q)' => \A r \in Requester : On(r, z)' => r = q
        BY <1>9, <1>10, <3>1
      <4>2. IsNew(q)' => status'[z] = IF ZoneNow(q)' = "insert" THEN "none" ELSE "PENDING"
        BY <1>2, <1>5, <1>9, <1>11, <3>1
      <4>3. status'[z] = "PENDING" => IsNew(q)'
        BY <1>9, <1>11, <3>1
      <4>4. ZoneNow(q)' \notin Withdrawing
        BY <1>2, <1>5, <3>1 DEF Withdrawing
      <4> QED BY <4>1, <4>2, <4>3, <4>4
    <3>2. CASE q # p
      <4>1. On(q, z) /\ ~Quiet(z)
        BY <1>9, <1>10, <2>3, <3>2
      <4>2. status[z] # "none" /\ status[z] # "PENDING"
        BY <1>11, <4>1
      <4>3. ~IsNew(q) /\ (ZoneNow(q) \in Withdrawing => conf[z] = 0)
        BY <1>1, <4>1, <4>2 DEF Entries
      <4> QED BY <1>9, <3>2, <4>2, <4>3
    <3> QED BY <3>1, <3>2
  <2> QED BY <2>1, <2>2, <2>3 DEF Entries
<1>13. KnownByEntry(z)'
  <2> SUFFICES ASSUME z \notin skipped', served'[z] # None, conf'[z] = 0
               PROVE  \E q \in Requester : On(q, z)' /\ ZoneNow(q)' \in {"unlink", "reloadAll"}
    BY DEF KnownByEntry
  <2>1. PICK q \in Requester : On(q, z) /\ ZoneNow(q) \in {"unlink", "reloadAll"}
    BY <1>1 DEF KnownByEntry
  <2> QED BY <1>5, <1>9, <2>1
<1>14. InOrder(z)'
  <2> SUFFICES ASSUME z \notin skipped \cup mixed'
               PROVE  /\ \A q, r \in Requester : On(q, z)' /\ On(r, z)' => q = r
                      /\ \A q \in Requester : On(q, z)' => AsFarAs(q, z)'
                      /\ ~(Quiet(z)')
    BY DEF InOrder
  <2>1. Quiet(z) /\ (~Row(z) => z \notin skipped \cup mixed)
    BY <1>6
  <2>2. \A q \in Requester : On(q, z)' => q = p
    BY <1>9, <1>10, <2>1
  <2>3. AsFarAs(p, z)'
    <3>1. ~Row(z) => conf[z] = 0 /\ file[z] = None /\ served[z] = None
      BY <1>1, <2>1 DEF InOrder
    <3> QED BY <1>2, <1>5, <1>11, <3>1 DEF AsFarAs
  <2>4. ~(Quiet(z)')
    BY <1>5 DEF Quiet, On
  <2> QED BY <2>2, <2>3, <2>4
<1>15. ZoneRight(z)'
  BY <1>12, <1>13, <1>14 DEF ZoneRight
<1> QED BY <1>5, <1>7, <1>8, <1>15 DEF DnsInv

LEMMA ZoneRequestSteps ==
  ASSUME DnsInv, NEW p \in Requester, NEW z \in Zone,
         CreateZone(p, z) \/ ChangeRecords(p, z) \/ DeleteZone(p, z)
  PROVE  DnsInv'
<1>1. ZonesTyped /\ op[p] = NoRequest /\ ToInsert # ToSerial /\ ToInsert # ToUnconfig
  BY ZoneTable DEF DnsInv, CreateZone, ChangeRecords, DeleteZone, Ask
<1>2. CASE CreateZone(p, z)
  <2>1. /\ ~Row(z) /\ Quiet(z) /\ Open(p, z, ToInsert, "PENDING")
        /\ UNCHANGED <<status, records, file, conf, served, skipped>>
    BY <1>2, ZoneCourses DEF CreateZone
  <2>2. records[z] = {}
    BY <2>1 DEF DnsInv, ZoneRight, Entries
  <2>3. records' = [records EXCEPT ![z] = {}]
    BY <1>1, <2>1, <2>2 DEF ZonesTyped
  <2> DEFINE seen == "PENDING"
             rs   == {}
  <2>4. /\ seen = (IF Row(z) THEN status[z] ELSE "PENDING") /\ (seen = "PENDING" => Quiet(z))
        /\ rs \in SUBSET Record /\ (~Row(z) => rs = {})
        /\ Open(p, z, ToInsert, seen) /\ records' = [records EXCEPT ![z] = rs]
    BY <2>1, <2>3
  <2> HIDE DEF seen, rs
  <2> QED BY <1>1, <2>1, <2>4, ZoneRequestStarts
<1>3. CASE ChangeRecords(p, z)
  <2>1. /\ Row(z) /\ (status[z] = "PENDING" => Quiet(z)) /\ Open(p, z, ToSerial, status[z])
        /\ UNCHANGED <<status, file, conf, served, skipped>>
    BY <1>3, ZoneCourses DEF ChangeRecords
  <2>2. PICK rs \in SUBSET Record : records' = [records EXCEPT ![z] = rs]
    BY <1>3 DEF ChangeRecords
  <2> QED BY <1>1, <2>1, <2>2, ZoneRequestStarts
<1>4. CASE DeleteZone(p, z)
  <2>1. /\ Row(z) /\ (status[z] = "PENDING" => Quiet(z)) /\ Open(p, z, ToUnconfig, status[z])
        /\ UNCHANGED <<status, records, file, conf, served, skipped>>
    BY <1>4, ZoneCourses DEF DeleteZone
  <2>2. records[z] \in SUBSET Record /\ records' = [records EXCEPT ![z] = records[z]]
    BY <1>1, <2>1 DEF ZonesTyped
  <2> QED BY <1>1, <2>1, <2>2, ZoneRequestStarts
<1> QED BY <1>2, <1>3, <1>4

LEMMA DnsStep ==
  ASSUME DnsInv, "unconfig" \notin Fragile, NEW p \in Requester, Step(p)
  PROVE  DnsInv'
<1>1. CASE Insert(p) \/ Defaults(p) \/ Serial(p) \/ Load(p) \/ Write(p) \/ Check(p) \/ Config(p)
  BY <1>1, InsertStep, DefaultsStep, SerialStep, LoadStep, ZoneWriteStep, CheckStep, ConfigStep
<1>2. CASE Reload(p) \/ Activate(p) \/ ReloadUnknown(p) \/ PublishFails(p) \/ CreateFails(p)
  BY <1>2, ReloadStep, ActivateStep, ReloadUnknownStep, PublishFailsStep, CreateFailsStep
<1>3. CASE Unconfig(p) \/ UnlinkZone(p) \/ ReloadAll(p) \/ Remove(p) \/ WithdrawFails(p)
  BY <1>3, UnconfigStep, UnlinkZoneStep, ReloadAllStep, ZoneRemoveStep, WithdrawFailsStep
<1> QED BY <1>1, <1>2, <1>3 DEF Step

\* The rows of the zones, their files and entries, what named answers and the requests in
\* flight, in every state, when sed never fails to take an entry out: the invariant the
\* properties below are read from.
THEOREM ZonesInvariant ==
  ASSUME "unconfig" \notin Fragile
  PROVE  DnsSpec => []DnsInv
<1>1. DnsInit => DnsInv
  <2> SUFFICES ASSUME DnsInit PROVE DnsInv
    OBVIOUS
  <2>1. op = [p \in Requester |-> NoRequest] /\ NoRequest \in ZoneRequest /\ OnZone(NoRequest)
    BY DEF DnsInit, NoRequest, ZoneRequest, StatusValues, OnZone
  <2>2. OpsTyped
    BY <2>1 DEF OpsTyped
  <2>3. ZonesTyped
    BY DEF DnsInit, ZonesTyped, StatusValues, Contents
  <2>4. ASSUME NEW z \in Zone PROVE ZoneRight(z)
    <3>1. \A p \in Requester : ~On(p, z)
      BY <2>1, ZoneAssumption DEF On, NoRequest
    <3>2. status[z] = "none" /\ records[z] = {} /\ file[z] = None /\ conf[z] = 0 /\ served[z] = None
      BY DEF DnsInit
    <3> QED BY <3>1, <3>2 DEF ZoneRight, Entries, KnownByEntry, InOrder, Row
  <2> QED BY <2>2, <2>3, <2>4 DEF DnsInv
<1>2. DnsInv /\ [DnsNext]_dnsVars => DnsInv'
  <2> SUFFICES ASSUME DnsInv, [DnsNext]_dnsVars PROVE DnsInv'
    OBVIOUS
  <2>1. CASE UNCHANGED dnsVars
    <3>1. UNCHANGED <<status, records, file, conf, served, op, mixed, skipped>>
      BY <2>1 DEF dnsVars, history
    <3>2. ZonesTyped' /\ OpsTyped'
      BY <3>1 DEF DnsInv, ZonesTyped, OpsTyped
    <3>3. ASSUME NEW z \in Zone PROVE ZoneRight(z)'
      <4>1. ZoneRight(z) /\ OpsTyped /\ conf[z] \in {0, 1} /\ Spared(z)
        BY <3>1, ZoneUntouched DEF DnsInv, ZonesTyped
      <4> QED BY <3>1, <4>1, ZoneSpared
    <3> QED BY <3>2, <3>3 DEF DnsInv
  <2>2. CASE DnsNext
    BY <2>2, DnsStep, ZoneRequestSteps, NamedRestartsStep DEF DnsNext
  <2> QED BY <2>1, <2>2
<1> QED BY <1>1, <1>2, PTL DEF DnsSpec

\* Types of the tables, of the files and of what named has; a request with no steps left is
\* none, and a zone without a row has no records.
THEOREM DnsTyped ==
  ASSUME "unconfig" \notin Fragile
  PROVE  DnsSpec => []DnsTypeOK
<1>1. DnsInv => DnsTypeOK
  <2> SUFFICES ASSUME DnsInv PROVE DnsTypeOK
    OBVIOUS
  <2>1. ASSUME NEW p \in Requester, op[p].todo = <<>> PROVE op[p] = NoRequest
    <3>1. OnZone(op[p])
      BY DEF DnsInv, OpsTyped
    <3> QED BY <2>1, <3>1, ZoneLeftTable DEF OnZone
  <2>2. \A z \in Zone : ~Row(z) => records[z] = {}
    BY DEF DnsInv, ZoneRight, Entries
  <2>3. status \in [Zone -> {"none", "PENDING", "ACTIVE", "ERROR"}]
    BY DEF DnsInv, ZonesTyped, StatusValues, SeenValues
  <2>4. /\ records \in [Zone -> SUBSET Record]
        /\ file \in [Zone -> (SUBSET Record) \cup {None}] /\ served \in [Zone -> (SUBSET Record) \cup {None}]
    BY DEF DnsInv, ZonesTyped, Contents
  <2>5. conf \in [Zone -> Nat]
    BY DEF DnsInv, ZonesTyped
  <2> QED BY <2>1, <2>2, <2>3, <2>4, <2>5 DEF DnsTypeOK
<1> QED BY <1>1, ZonesInvariant, PTL

\* Once no request on it is in flight, a zone that says ACTIVE is answered as its rows say,
\* and one without a row is not known to named, for any number of zones, records and
\* requests; and named.conf never has two entries of a zone: writeAndReloadZone() and
\* deleteZone(), sed never failing to take an entry out.
THEOREM ServedInStep ==
  ASSUME "unconfig" \notin Fragile
  PROVE  DnsSpec => []ServedAsRowsSay
<1>1. DnsInv => ServedAsRowsSay
  BY DEF DnsInv, ZonesTyped, ZoneRight, InOrder, ServedAsRowsSay
<1> QED BY <1>1, ZonesInvariant, PTL

-----------------------------------------------------------------------------
(* The file manager: its inductive invariant, by parts.                      *)

FileOps == {"write", "create", "delete", "move", "copy", "upload", "mode", "extract"}

\* What may be left of a request.
FileCourses(o) ==
  CASE o = "write"   -> {<<"tee", "fill">>, <<"fill">>}
    [] o = "create"  -> {<<"absent", "mkdir", "touch">>, <<"mkdir", "touch">>, <<"touch">>}
    [] o = "delete"  -> {<<"present", "rm">>, <<"rm">>}
    [] o = "move"    -> {<<"present", "mv">>, <<"mv">>}
    [] o = "copy"    -> {<<"present", "cp">>, <<"cp">>}
    [] o = "upload"  -> {<<"base64", "spool", "fetch", "unlink">>, <<"spool", "fetch", "unlink">>,
                         <<"fetch", "unlink">>, <<"unlink">>}
    [] o = "mode"    -> {<<"chmod">>}
    [] o = "extract" -> {<<"present", "unpack">>, <<"unpack">>}

FileCallType ==
  [op : FileOps, from : Name, to : Name \cup {"none"}, new : Nat, todo : UNION {FileCourses(o) : o \in FileOps},
   fd : Inodes, clean : BOOLEAN]

FineCall(c) ==
  /\ c \in FileCallType /\ c.todo \in FileCourses(c.op)
  /\ IF c.op \in {"move", "copy"} THEN c.to \in Name /\ c.to # c.from ELSE c.to = "none"
  /\ c.fd # 0 <=> Head(c.todo) = "fill"

NamesTyped ==
  /\ inode \in [Name -> Inodes] /\ data \in [Inodes -> 0 .. Mixed] /\ expected \in [Name -> 0 .. Absent]
  /\ fileCall \in [User -> FileCallType \cup {NoFileCall}]
  /\ \A p \in User : fileCall[p] # NoFileCall => FineCall(fileCall[p]) /\ fileCall[p].new \in 1 .. fileCalls
  /\ temp \subseteq User /\ blurred \subseteq Name /\ fileCalls \in 0 .. MaxFileCalls

InodesApart == \A f, g \in Name : f # g /\ inode[f] # 0 => inode[f] # inode[g]

NumbersApart ==
  \A p, q \in User : p # q /\ fileCall[p] # NoFileCall /\ fileCall[q] # NoFileCall =>
    fileCall[p].new # fileCall[q].new

\* An upload that is in /tmp, by what is left of it.
Uploading == {<<"fetch", "unlink">>, <<"unlink">>}

\* An upload is in /tmp between two of its steps.
Spooled ==
  \A p \in temp : fileCall[p] # NoFileCall /\ fileCall[p].todo \in Uploading

\* A request that has met no other has its names, and its open file, to itself.
CleanAlone ==
  \A p, q \in User : p # q /\ fileCall[p] # NoFileCall /\ fileCall[q] # NoFileCall /\ fileCall[q].clean =>
    /\ NamesOf(fileCall[p]) \cap NamesOf(fileCall[q]) = {}
    /\ fileCall[p].fd # 0 => \A f \in NamesOf(fileCall[q]) : inode[f] # fileCall[p].fd
    /\ fileCall[q].fd # 0 => \A f \in NamesOf(fileCall[p]) : inode[f] # fileCall[q].fd

\* Where the open file of a save has another name, that name is in doubt.
Elsewhere ==
  \A p \in User : fileCall[p].fd # 0 =>
    \A h \in Name \ NamesOf(fileCall[p]) : inode[h] = fileCall[p].fd => h \in blurred

\* The file a save has opened, if it has met no other.
FileOpened ==
  \A p \in User : fileCall[p].fd # 0 /\ fileCall[p].clean =>
    inode[fileCall[p].from] = fileCall[p].fd /\ data[fileCall[p].fd] = Empty

\* A name that is not in doubt leads to what it should, but for requests in flight that
\* have met another or have a file open.
NamesKept ==
  \A f \in Name \ blurred :
    \/ Held(f) = expected[f]
    \/ \E p \in User : /\ fileCall[p] # NoFileCall /\ f \in NamesOf(fileCall[p])
                       /\ ~fileCall[p].clean \/ fileCall[p].fd # 0

FilesInv ==
  /\ NamesTyped /\ InodesApart /\ NumbersApart /\ Spooled /\ CleanAlone /\ Elsewhere /\ FileOpened /\ NamesKept

-----------------------------------------------------------------------------
(* What is left of a request, step by step.                                  *)

LEMMA Four ==
  ASSUME NEW a, NEW b, NEW c, NEW d
  PROVE  /\ <<a, b, c, d>> # <<>> /\ Head(<<a, b, c, d>>) = a /\ Tail(<<a, b, c, d>>) = <<b, c, d>>
         /\ <<b, c, d>> # <<>> /\ Head(<<b, c, d>>) = b
OBVIOUS

\* The steps before the last, but for tee, which opens the file.
GoingOn == {"present", "absent", "mkdir", "base64", "spool", "fetch"}

\* A request o whose next step is s, with r left after it.
FileCourse(o, s, r) ==
  \/ s \in GoingOn /\ r \in FileCourses(o) /\ Head(r) # "fill" /\ r # <<>>
       /\ (s \in {"present", "absent"} => o # "upload") /\ (s \in {"spool", "fetch"} => r \in Uploading)
       /\ (s = "mkdir" => o = "create") /\ (s \in {"base64", "spool", "fetch"} => o = "upload")
  \/ s = "tee" /\ r = <<"fill">> /\ o = "write"
  \/ s = "fill" /\ r = <<>> /\ o = "write"
  \/ s = "rm" /\ r = <<>> /\ o = "delete"
  \/ s = "mv" /\ r = <<>> /\ o = "move"
  \/ s = "cp" /\ r = <<>> /\ o = "copy"
  \/ s = "unlink" /\ r = <<>> /\ o = "upload"
  \/ s \in {"touch", "chmod", "unpack"} /\ r = <<>> /\ o \in {"create", "mode", "extract"}

FileCourseIs(o, t) == t # <<>> /\ FileCourse(o, Head(t), Tail(t)) /\ (t \in Uploading => Head(t) \in {"fetch", "unlink"})

LEMMA UploadingIs == ASSUME NEW t \in Uploading PROVE t # <<>> /\ Head(t) \in {"fetch", "unlink"}
BY Two, One DEF Uploading

LEMMA OneLeft == ASSUME NEW a PROVE Tail(<<a>>) = <<>>
OBVIOUS

LEMMA FileCoursesAre ==
  ASSUME NEW o \in FileOps, NEW t \in FileCourses(o)
  PROVE  FileCourseIs(o, t)
<1>1. CASE o = "write"
  <2>1. FileCourses(o) = {<<"tee", "fill">>, <<"fill">>}
    BY <1>1 DEF FileCourses
  <2>2. CASE t = <<"tee", "fill">>
    BY <1>1, <2>2, Two, UploadingIs DEF FileCourseIs, FileCourse
  <2>3. CASE t = <<"fill">>
    BY <1>1, <2>3, One, OneLeft, UploadingIs DEF FileCourseIs, FileCourse
  <2> QED BY <2>1, <2>2, <2>3
<1>2. CASE o = "create"
  <2>1. FileCourses(o) = {<<"absent", "mkdir", "touch">>, <<"mkdir", "touch">>, <<"touch">>}
    BY <1>2 DEF FileCourses
  <2>2. CASE t = <<"absent", "mkdir", "touch">>
    BY <1>2, <2>1, <2>2, Three, UploadingIs DEF FileCourseIs, FileCourse, GoingOn
  <2>3. CASE t = <<"mkdir", "touch">>
    BY <1>2, <2>1, <2>3, Two, UploadingIs DEF FileCourseIs, FileCourse, GoingOn
  <2>4. CASE t = <<"touch">>
    BY <1>2, <2>4, One, OneLeft, UploadingIs DEF FileCourseIs, FileCourse
  <2> QED BY <2>1, <2>2, <2>3, <2>4
<1>3. CASE o \in {"delete", "move", "copy", "extract"}
  <2>1. PICK s : s = CASE o = "delete" -> "rm" [] o = "move" -> "mv" [] o = "copy" -> "cp" [] OTHER -> "unpack"
    OBVIOUS
  <2>2. FileCourses(o) = {<<"present", s>>, <<s>>}
    BY <1>3, <2>1 DEF FileCourses
  <2>3. s # "fill" /\ FileCourse(o, s, <<>>) /\ s \notin {"fetch", "unlink"}
    BY <1>3, <2>1 DEF FileCourse
  <2>4. CASE t = <<"present", s>>
    <3>1. FileCourse(o, "present", <<s>>)
      BY <1>3, <2>2, <2>3, One DEF FileCourse, GoingOn
    <3> QED BY <2>4, <3>1, Two, UploadingIs DEF FileCourseIs
  <2>5. CASE t = <<s>>
    BY <2>3, <2>5, One, OneLeft, UploadingIs DEF FileCourseIs
  <2> QED BY <2>2, <2>4, <2>5
<1>4. CASE o = "upload"
  <2>1. /\ FileCourses(o) = {<<"base64", "spool", "fetch", "unlink">>, <<"spool", "fetch", "unlink">>,
                             <<"fetch", "unlink">>, <<"unlink">>}
        /\ Uploading = {<<"fetch", "unlink">>, <<"unlink">>}
    BY <1>4 DEF FileCourses, Uploading
  <2>2. CASE t = <<"base64", "spool", "fetch", "unlink">>
    BY <1>4, <2>1, <2>2, Four, UploadingIs DEF FileCourseIs, FileCourse, GoingOn
  <2>3. CASE t = <<"spool", "fetch", "unlink">>
    BY <1>4, <2>1, <2>3, Three, UploadingIs DEF FileCourseIs, FileCourse, GoingOn
  <2>4. CASE t = <<"fetch", "unlink">>
    BY <1>4, <2>1, <2>4, Two, UploadingIs DEF FileCourseIs, FileCourse, GoingOn
  <2>5. CASE t = <<"unlink">>
    BY <1>4, <2>5, One, OneLeft, UploadingIs DEF FileCourseIs, FileCourse
  <2> QED BY <2>1, <2>2, <2>3, <2>4, <2>5
<1>5. CASE o = "mode"
  <2>1. FileCourses(o) = {<<"chmod">>}
    BY <1>5 DEF FileCourses
  <2> QED BY <1>5, <2>1, One, OneLeft, UploadingIs DEF FileCourseIs, FileCourse
<1> QED BY <1>1, <1>2, <1>3, <1>4, <1>5 DEF FileOps

-----------------------------------------------------------------------------
(* Requests in flight.                                                       *)

LEMMA NoFileCallIs ==
  /\ NoFileCall.op = "none" /\ NoFileCall.todo = <<>> /\ NoFileCall.fd = 0 /\ NoFileCall.clean = FALSE
  /\ NoFileCall.op \notin FileOps
BY DEF NoFileCall, FileOps

LEMMA CallIs ==
  ASSUME NamesTyped, NEW p \in User, fileCall[p] # NoFileCall
  PROVE  /\ FineCall(fileCall[p])
         /\ fileCall[p].op \in FileOps /\ fileCall[p].from \in Name /\ fileCall[p].to \in Name \cup {"none"}
         /\ fileCall[p].new \in 1 .. fileCalls /\ fileCall[p].fd \in Inodes /\ fileCall[p].clean \in BOOLEAN
         /\ fileCall[p].todo \in FileCourses(fileCall[p].op)
         /\ FileCourseIs(fileCall[p].op, fileCall[p].todo)
         /\ fileCall[p].fd # 0 <=> Head(fileCall[p].todo) = "fill"
<1>1. FineCall(fileCall[p]) /\ fileCall[p].new \in 1 .. fileCalls
  BY DEF NamesTyped
<1>2. /\ fileCall[p].op \in FileOps /\ fileCall[p].from \in Name /\ fileCall[p].to \in Name \cup {"none"}
      /\ fileCall[p].fd \in Inodes /\ fileCall[p].clean \in BOOLEAN
  BY <1>1 DEF FineCall, FileCallType
<1>3. /\ fileCall[p].new \in 1 .. fileCalls
      /\ fileCall[p].todo \in FileCourses(fileCall[p].op)
      /\ fileCall[p].fd # 0 <=> Head(fileCall[p].todo) = "fill"
  BY <1>1 DEF FineCall
<1>4. FileCourseIs(fileCall[p].op, fileCall[p].todo)
  BY <1>2, <1>3, FileCoursesAre
<1> QED BY <1>1, <1>2, <1>3, <1>4

LEMMA HasAFile ==
  ASSUME NamesTyped, NEW p \in User, fileCall[p].fd # 0
  PROVE  /\ fileCall[p] # NoFileCall /\ fileCall[p].fd \in Inodes
         /\ Head(fileCall[p].todo) = "fill" /\ fileCall[p].op = "write" /\ FileCallType # {}
<1>1. fileCall[p] # NoFileCall
  BY NoFileCallIs
<1>2. /\ fileCall[p].fd \in Inodes /\ FileCourseIs(fileCall[p].op, fileCall[p].todo)
      /\ Head(fileCall[p].todo) = "fill"
  BY <1>1, CallIs
<1>3. FileCourse(fileCall[p].op, "fill", Tail(fileCall[p].todo))
  BY <1>2 DEF FileCourseIs
<1>4. fileCall[p].op = "write"
  BY <1>3 DEF FileCourse, GoingOn
<1>5. fileCall[p] \in FileCallType
  BY <1>1 DEF NamesTyped
<1> QED BY <1>1, <1>2, <1>4, <1>5

\* The request p, whose next step is s.
LEMMA FileStepAt ==
  ASSUME NamesTyped, NEW p \in User, NEW s, FileAt(p, s)
  PROVE  /\ fileCall[p] # NoFileCall /\ FileCourse(fileCall[p].op, s, Tail(fileCall[p].todo))
         /\ fileCall[p].fd # 0 <=> s = "fill"
         /\ fileCall[p].todo \in Uploading => s \in {"fetch", "unlink"}
<1>1. fileCall[p] # NoFileCall
  BY NoFileCallIs DEF FileAt
<1>2. s = Head(fileCall[p].todo)
  BY DEF FileAt
<1> QED BY <1>1, <1>2, CallIs DEF FileCourseIs

\* The names of a request: two for a move and a copy, one for the others.
LEMMA NamesAre ==
  ASSUME NamesTyped, NEW p \in User, fileCall[p] # NoFileCall
  PROVE  /\ fileCall[p].from \in NamesOf(fileCall[p]) /\ NamesOf(fileCall[p]) \subseteq Name
         /\ fileCall[p].op \in {"move", "copy"} =>
              /\ fileCall[p].to \in Name /\ fileCall[p].to # fileCall[p].from
              /\ NamesOf(fileCall[p]) = {fileCall[p].from, fileCall[p].to}
         /\ fileCall[p].op \notin {"move", "copy"} => NamesOf(fileCall[p]) = {fileCall[p].from}
<1>1. FineCall(fileCall[p]) /\ fileCall[p].from \in Name
  BY CallIs
<1>2. IF fileCall[p].op \in {"move", "copy"} THEN fileCall[p].to \in Name /\ fileCall[p].to # fileCall[p].from
      ELSE fileCall[p].to = "none"
  BY <1>1 DEF FineCall
<1> QED BY <1>1, <1>2, FileAssumption DEF NamesOf

-----------------------------------------------------------------------------
(* There is always an inode left.                                            *)

Unheld(i) == i # 0 /\ (\A f \in Name : inode[f] # i) /\ \A p \in User : fileCall[p].fd # i

LEMMA InodesAre == Inodes = 0 .. (MaxFileCalls + Cardinality(Name)) /\ Cardinality(Name) \in Nat /\ MaxFileCalls \in Nat
BY FileAssumption, FS_CardinalityType DEF Inodes

LEMMA FreshIs ==
  ASSUME FilesInv, NEW f \in Name, inode[f] = 0
  PROVE  Fresh \in Inodes /\ Unheld(Fresh)
<1>1. NamesTyped /\ NumbersApart
  BY DEF FilesInv
<1>2. IsFiniteSet(Name) /\ Cardinality(Name) \in Nat /\ MaxFileCalls \in Nat
  BY FileAssumption, InodesAre
<1> DEFINE ByName == {inode[g] : g \in Name \ {f}}
           ByCall == {fileCall[p].fd : p \in {q \in User : fileCall[q].fd # 0}}
           All == 1 .. (MaxFileCalls + Cardinality(Name))
<1>3. IsFiniteSet(ByName) /\ Cardinality(ByName) <= Cardinality(Name) - 1
  <2>1. IsFiniteSet(Name \ {f}) /\ Cardinality(Name \ {f}) = Cardinality(Name) - 1
    BY <1>2, FS_RemoveElement
  <2> DEFINE m == [g \in Name \ {f} |-> inode[g]]
  <2>2. m \in Surjection(Name \ {f}, ByName)
    BY DEF Surjection
  <2> QED BY <2>1, <2>2, FS_Surjection
<1>4. IsFiniteSet(ByCall) /\ Cardinality(ByCall) <= MaxFileCalls
  <2> DEFINE Numbers == {fileCall[p].new : p \in {q \in User : fileCall[q].fd # 0}}
  <2>1. \A p \in User : fileCall[p].fd # 0 => fileCall[p].new \in 1 .. MaxFileCalls
    <3>1. \A p \in User : fileCall[p].fd # 0 => fileCall[p].new \in 1 .. fileCalls
      BY <1>1, HasAFile, CallIs
    <3>2. fileCalls \in 0 .. MaxFileCalls
      BY <1>1 DEF NamesTyped
    <3> QED BY <1>2, <3>1, <3>2
  <2>2. Numbers \subseteq 1 .. MaxFileCalls
    BY <2>1
  <2>3. IsFiniteSet(1 .. MaxFileCalls) /\ Cardinality(1 .. MaxFileCalls) = MaxFileCalls
    <3>1. 1 \in Int /\ MaxFileCalls \in Int
      BY <1>2
    <3> QED BY <1>2, <3>1, FS_Interval
  <2>4. IsFiniteSet(Numbers) /\ Cardinality(Numbers) <= MaxFileCalls
    BY <2>2, <2>3, FS_Subset
  <2> DEFINE m == [n \in Numbers |-> (CHOOSE p \in User : fileCall[p].fd # 0 /\ fileCall[p].new = n)]
             fds == [n \in Numbers |-> fileCall[m[n]].fd]
  <2>5. \A p, q \in User : fileCall[p].fd # 0 /\ fileCall[q].fd # 0 /\ fileCall[p].new = fileCall[q].new => p = q
    BY <1>1, HasAFile DEF NumbersApart
  <2>6. \A p \in User : fileCall[p].fd # 0 => m[fileCall[p].new] = p
    BY <2>5
  <2>7. \A n \in Numbers : \E p \in User : fileCall[p].fd # 0 /\ n = fileCall[p].new
    OBVIOUS
  <2> HIDE DEF m
  <2>8. \A p \in User : fileCall[p].fd # 0 => fileCall[p].new \in Numbers /\ fds[fileCall[p].new] = fileCall[p].fd
    <3>1. \A p \in User : fileCall[p].fd # 0 => fileCall[p].new \in Numbers
      OBVIOUS
    <3>2. \A n \in Numbers : fds[n] = fileCall[m[n]].fd
      OBVIOUS
    <3> HIDE DEF fds, Numbers
    <3> QED BY <2>6, <3>1, <3>2
  <2>9. \A n \in Numbers : fds[n] \in ByCall
    <3>1. \A p \in User : fileCall[p].fd # 0 => fileCall[p].fd \in ByCall
      OBVIOUS
    <3> HIDE DEF fds, Numbers, ByCall
    <3> QED BY <2>7, <2>8, <3>1
  <2>10. \A i \in ByCall : \E n \in Numbers : fds[n] = i
    <3>1. \A i \in ByCall : \E p \in User : fileCall[p].fd # 0 /\ i = fileCall[p].fd
      OBVIOUS
    <3> HIDE DEF fds, Numbers, ByCall
    <3> QED BY <2>8, <3>1
  <2>11. fds \in [Numbers -> ByCall]
    BY <2>9
  <2> HIDE DEF Numbers, fds, ByCall
  <2>12. fds \in Surjection(Numbers, ByCall)
    BY <2>10, <2>11 DEF Surjection
  <2>13. IsFiniteSet(ByCall) /\ Cardinality(ByCall) <= Cardinality(Numbers)
    BY <2>4, <2>12, FS_Surjection
  <2>14. Cardinality(ByCall) \in Nat /\ Cardinality(Numbers) \in Nat
    BY <2>4, <2>13, FS_CardinalityType
  <2> QED BY <1>2, <2>4, <2>13, <2>14
<1>5. IsFiniteSet(All) /\ Cardinality(All) = MaxFileCalls + Cardinality(Name)
  <2>1. 1 \in Int /\ MaxFileCalls + Cardinality(Name) \in Int /\ MaxFileCalls + Cardinality(Name) \in Nat
    BY <1>2
  <2> QED BY <1>2, <2>1, FS_Interval
<1>6. \E i \in All : i \notin ByName \cup ByCall
  <2> HIDE DEF All, ByName, ByCall
  <2>1. /\ IsFiniteSet(ByName \cup ByCall) /\ Cardinality(ByName \cup ByCall) \in Nat
        /\ Cardinality(ByName) \in Nat /\ Cardinality(ByCall) \in Nat /\ Cardinality(ByName \cap ByCall) \in Nat
        /\ Cardinality(ByName \cup ByCall) = Cardinality(ByName) + Cardinality(ByCall) - Cardinality(ByName \cap ByCall)
    BY <1>3, <1>4, FS_Union, FS_Intersection, FS_CardinalityType
  <2>2. Cardinality(ByName \cup ByCall) < Cardinality(All)
    BY <1>2, <1>3, <1>4, <1>5, <2>1
  <2>3. ASSUME All \subseteq ByName \cup ByCall PROVE FALSE
    <3>1. Cardinality(All) <= Cardinality(ByName \cup ByCall)
      BY <2>1, <2>3, FS_Subset
    <3> QED BY <1>2, <1>5, <2>1, <2>2, <3>1
  <2> QED BY <2>3
<1>7. \E i \in Inodes \ {0} : \A h \in Name : inode[h] # i /\ \A p \in User : fileCall[p].fd # i
  <2>1. PICK i \in All : i \notin ByName \cup ByCall
    BY <1>6
  <2>2. i \in Inodes \ {0}
    BY <1>2, InodesAre
  <2>3. \A h \in Name : inode[h] # i
    BY <2>1, <2>2
  <2>4. \A p \in User : fileCall[p].fd # i
    BY <2>1, <2>2
  <2> QED BY <2>2, <2>3, <2>4
<1> QED BY <1>7 DEF Fresh, Unheld

-----------------------------------------------------------------------------
(* A request that ends.                                                      *)

\* What every request that ends leaves behind it.
FileEnds(p) ==
  /\ fileCall[p] # NoFileCall /\ fileCall' = [fileCall EXCEPT ![p] = NoFileCall]
  /\ temp' = temp \ {p} /\ fileCalls' = fileCalls
  /\ inode' \in [Name -> Inodes] /\ data' \in [Inodes -> 0 .. Mixed]
  /\ expected' \in [Name -> 0 .. Absent] /\ blurred' \subseteq Name
  /\ InodesApart'

\* It has changed only what its names lead to, and the file it had open, ...
FileEndsWithin(p) ==
  /\ \A h \in Name \ NamesOf(fileCall[p]) :
       inode'[h] = inode[h] /\ expected'[h] = expected[h] /\ (h \in blurred => h \in blurred')
         /\ (h \in blurred' => h \in blurred)
  /\ \A f \in NamesOf(fileCall[p]) :
       inode'[f] = 0 \/ (\E g \in NamesOf(fileCall[p]) : inode'[f] = inode[g]) \/ Unheld(inode'[f])
  /\ \A i \in Inodes : data'[i] # data[i] =>
       i = fileCall[p].fd \/ (\E g \in NamesOf(fileCall[p]) : inode[g] = i) \/ Unheld(i)

\* ... and its names are as they should be, or in doubt.
FileEndsWell(p) ==
  /\ \A f \in NamesOf(fileCall[p]) : f \in blurred' \/ Held(f)' = expected'[f]
  /\ ~fileCall[p].clean => NamesOf(fileCall[p]) \subseteq blurred'

LEMMA EndKeeps ==
  ASSUME FilesInv, NEW p \in User, FileEnds(p), FileEndsWithin(p), FileEndsWell(p)
  PROVE  FilesInv'
<1>1. /\ NamesTyped /\ InodesApart /\ NumbersApart /\ Spooled /\ CleanAlone /\ Elsewhere /\ FileOpened /\ NamesKept
      /\ fileCall \in [User -> FileCallType \cup {NoFileCall}]
  BY DEF FilesInv, NamesTyped
<1>2. /\ fileCall'[p] = NoFileCall /\ \A q \in User : q # p => fileCall'[q] = fileCall[q]
      /\ NoFileCall.fd = 0 /\ \A q \in User : fileCall'[q] # NoFileCall \/ fileCall'[q].fd # 0 => q # p
  BY <1>1, NoFileCallIs DEF FileEnds
<1>3. NamesOf(fileCall[p]) \subseteq Name
  BY <1>1, NamesAre DEF FileEnds
<1>4. NamesTyped'
  <2>1. fileCall' \in [User -> FileCallType \cup {NoFileCall}]
    BY <1>1 DEF FileEnds
  <2>2. \A q \in User : fileCall'[q] # NoFileCall => FineCall(fileCall'[q]) /\ fileCall'[q].new \in 1 .. fileCalls
    BY <1>1, <1>2 DEF NamesTyped
  <2>3. fileCalls' = fileCalls
    BY DEF FileEnds
  <2>4. temp' \subseteq User /\ fileCalls' \in 0 .. MaxFileCalls
    BY <1>1, <2>3 DEF FileEnds, NamesTyped
  <2> QED BY <2>1, <2>2, <2>3, <2>4 DEF FileEnds, NamesTyped
<1>5. InodesApart'
  BY DEF FileEnds
<1>6. NumbersApart'
  BY <1>1, <1>2 DEF NumbersApart
<1>7. Spooled'
  <2>1. temp' = temp \ {p} /\ temp \subseteq User
    BY <1>1 DEF FileEnds, NamesTyped
  <2> QED BY <1>1, <1>2, <2>1 DEF Spooled
\* What the request changes is nobody's who has met no other.
<1>8. ASSUME NEW q \in User, q # p, fileCall[q] # NoFileCall, fileCall[q].clean, NEW f \in NamesOf(fileCall[q])
      PROVE  f \notin NamesOf(fileCall[p]) /\ f \in Name /\ inode'[f] = inode[f]
  <2>1. NamesOf(fileCall[p]) \cap NamesOf(fileCall[q]) = {}
    BY <1>1, <1>8 DEF CleanAlone, FileEnds
  <2>2. f \in Name
    BY <1>1, <1>8, NamesAre
  <2> QED BY <2>1, <2>2 DEF FileEndsWithin
<1>9. CleanAlone'
  <2>1. ASSUME NEW q \in User, NEW r \in User, q # r, fileCall'[q] # NoFileCall, fileCall'[r] # NoFileCall,
               fileCall'[r].clean
        PROVE  /\ NamesOf(fileCall'[q]) \cap NamesOf(fileCall'[r]) = {}
               /\ fileCall'[q].fd # 0 => \A f \in NamesOf(fileCall'[r]) : inode'[f] # fileCall'[q].fd
               /\ fileCall'[r].fd # 0 => \A f \in NamesOf(fileCall'[q]) : inode'[f] # fileCall'[r].fd
    <3>1. /\ q # p /\ r # p /\ fileCall'[q] = fileCall[q] /\ fileCall'[r] = fileCall[r]
          /\ fileCall[q] # NoFileCall /\ fileCall[r] # NoFileCall /\ fileCall[r].clean
      BY <1>2, <2>1
    <3>2. /\ NamesOf(fileCall[q]) \cap NamesOf(fileCall[r]) = {}
          /\ fileCall[q].fd # 0 => \A f \in NamesOf(fileCall[r]) : inode[f] # fileCall[q].fd
          /\ fileCall[r].fd # 0 => \A f \in NamesOf(fileCall[q]) : inode[f] # fileCall[r].fd
      BY <1>1, <2>1, <3>1 DEF CleanAlone
    <3>3. \A f \in NamesOf(fileCall[r]) : inode'[f] = inode[f]
      BY <1>8, <3>1
    <3>4. ASSUME fileCall[r].fd # 0, NEW f \in NamesOf(fileCall[q]) PROVE inode'[f] # fileCall[r].fd
      <4>1. f \in Name
        BY <1>1, <3>1, <3>4, NamesAre
      <4>2. CASE f \notin NamesOf(fileCall[p])
        BY <3>2, <3>4, <4>1, <4>2 DEF FileEndsWithin
      <4>3. CASE f \in NamesOf(fileCall[p])
        <5>1. \A g \in NamesOf(fileCall[p]) : inode[g] # fileCall[r].fd
          BY <1>1, <3>1, <3>4 DEF CleanAlone, FileEnds
        <5> QED BY <3>4, <4>3, <5>1 DEF FileEndsWithin, Unheld
      <4> QED BY <4>2, <4>3
    <3> QED BY <3>1, <3>2, <3>3, <3>4
  <2> QED BY <2>1 DEF CleanAlone, NamesOf
<1>10. Elsewhere'
  <2>1. ASSUME NEW q \in User, fileCall'[q].fd # 0, NEW h \in Name, h \notin NamesOf(fileCall'[q]),
               inode'[h] = fileCall'[q].fd
        PROVE  h \in blurred'
    <3>1. q # p /\ fileCall'[q] = fileCall[q] /\ fileCall[q].fd # 0 /\ fileCall[q] # NoFileCall
      BY <1>1, <1>2, <2>1, HasAFile
    <3>2. CASE h \notin NamesOf(fileCall[p])
      <4>1. h \in blurred
        BY <1>1, <2>1, <3>1, <3>2 DEF FileEndsWithin, Elsewhere
      <4> QED BY <3>2, <4>1 DEF FileEndsWithin
    <3>3. CASE h \in NamesOf(fileCall[p])
      <4>1. PICK g \in NamesOf(fileCall[p]) : inode[g] = fileCall[q].fd
        BY <2>1, <3>1, <3>3 DEF FileEndsWithin, Unheld
      <4>2. ~fileCall[p].clean
        BY <1>1, <3>1, <4>1 DEF CleanAlone, FileEnds
      <4> QED BY <3>3, <4>2 DEF FileEndsWell
    <3> QED BY <3>2, <3>3
  <2> QED BY <2>1 DEF Elsewhere, NamesOf
<1>11. FileOpened'
  <2>1. ASSUME NEW q \in User, fileCall'[q].fd # 0, fileCall'[q].clean
        PROVE  inode'[fileCall'[q].from] = fileCall'[q].fd /\ data'[fileCall'[q].fd] = Empty
    <3>1. /\ q # p /\ fileCall'[q] = fileCall[q] /\ fileCall[q].fd # 0 /\ fileCall[q] # NoFileCall
          /\ fileCall[q].clean /\ fileCall[q].fd \in Inodes
      BY <1>1, <1>2, <2>1, HasAFile
    <3>2. fileCall[q].from \in NamesOf(fileCall[q])
      BY <1>1, <3>1, NamesAre
    <3>3. inode[fileCall[q].from] = fileCall[q].fd /\ data[fileCall[q].fd] = Empty
      BY <1>1, <3>1 DEF FileOpened
    <3>4. inode'[fileCall[q].from] = inode[fileCall[q].from]
      BY <1>8, <3>1, <3>2
    <3>5. \A g \in NamesOf(fileCall[p]) : inode[g] # fileCall[q].fd
      BY <1>1, <3>1 DEF CleanAlone, FileEnds
    <3>6. fileCall[q].fd # fileCall[p].fd
      BY <1>1, <3>1, <3>2, <3>3 DEF CleanAlone, FileEnds
    <3>7. ~Unheld(fileCall[q].fd)
      BY DEF Unheld
    <3>8. data'[fileCall[q].fd] = data[fileCall[q].fd]
      BY <3>1, <3>5, <3>6, <3>7 DEF FileEndsWithin
    <3> QED BY <3>1, <3>3, <3>4, <3>8
  <2> QED BY <2>1 DEF FileOpened, Empty
<1>12. NamesKept'
  <2>1. ASSUME NEW f \in Name, f \notin blurred', f \notin NamesOf(fileCall[p])
        PROVE  \/ Held(f)' = expected'[f]
               \/ \E q \in User : /\ fileCall'[q] # NoFileCall /\ f \in NamesOf(fileCall'[q])
                                  /\ ~fileCall'[q].clean \/ fileCall'[q].fd # 0
    <3>1. f \notin blurred /\ inode'[f] = inode[f] /\ expected'[f] = expected[f]
      BY <2>1 DEF FileEndsWithin
    <3>2. CASE Held(f) = expected[f]
      <4>1. CASE inode[f] = 0
        BY <3>1, <3>2, <4>1 DEF Held, Absent
      <4>2. CASE inode[f] # 0
        <5>1. inode[f] \in Inodes
          BY <1>1 DEF NamesTyped
        <5>2. \A g \in NamesOf(fileCall[p]) : inode[g] # inode[f]
          BY <1>1, <1>3, <2>1, <4>2 DEF InodesApart
        <5>3. fileCall[p].fd # inode[f]
          BY <1>1, <2>1, <3>1, <4>2 DEF Elsewhere
        <5>4. data'[inode[f]] = data[inode[f]]
          BY <5>1, <5>2, <5>3 DEF FileEndsWithin, Unheld
        <5> QED BY <3>1, <3>2, <4>2, <5>4 DEF Held
      <4> QED BY <4>1, <4>2
    <3>3. CASE \E q \in User : /\ fileCall[q] # NoFileCall /\ f \in NamesOf(fileCall[q])
                               /\ ~fileCall[q].clean \/ fileCall[q].fd # 0
      <4>1. PICK q \in User : /\ fileCall[q] # NoFileCall /\ f \in NamesOf(fileCall[q])
                              /\ ~fileCall[q].clean \/ fileCall[q].fd # 0
        BY <3>3
      <4>2. q # p /\ fileCall'[q] = fileCall[q]
        BY <1>2, <2>1, <4>1
      <4> QED BY <4>1, <4>2
    <3> QED BY <1>1, <3>1, <3>2, <3>3 DEF NamesKept
  <2>2. \A f \in NamesOf(fileCall[p]) : f \in blurred' \/ Held(f)' = expected'[f]
    BY DEF FileEndsWell
  <2> QED BY <2>1, <2>2 DEF NamesKept, NamesOf
<1> QED BY <1>4, <1>5, <1>6, <1>7, <1>9, <1>10, <1>11, <1>12 DEF FilesInv

LEMMA CleanKept ==
  ASSUME FilesInv, NEW p \in User, fileCall[p] # NoFileCall, fileCall[p].clean, fileCall[p].fd = 0,
         NEW f \in NamesOf(fileCall[p]), f \notin blurred
  PROVE  Held(f) = expected[f]
<1>1. NamesTyped /\ CleanAlone /\ NamesKept
  BY DEF FilesInv
<1>2. f \in Name
  BY <1>1, NamesAre
<1>3. ASSUME NEW q \in User, fileCall[q] # NoFileCall, f \in NamesOf(fileCall[q])
      PROVE  q = p
  BY <1>1, <1>3 DEF CleanAlone
<1> QED BY <1>1, <1>2, <1>3 DEF NamesKept

LEMMA NotSpooled ==
  ASSUME FilesInv, NEW p \in User, NEW s, FileAt(p, s), s \notin {"fetch", "unlink"}
  PROVE  temp \ {p} = temp
<1>1. NamesTyped /\ Spooled
  BY DEF FilesInv
<1>2. fileCall[p].todo \notin Uploading
  BY <1>1, FileStepAt
<1> QED BY <1>1, <1>2 DEF Spooled

\* What holds of the new state by types alone, when the files are left alone.
LEMMA SameFiles ==
  ASSUME FilesInv, NEW p \in User, fileCall[p] # NoFileCall,
         fileCall' = [fileCall EXCEPT ![p] = NoFileCall], temp' = temp \ {p}, fileCalls' = fileCalls,
         inode' = inode, data' = data, expected' = expected, blurred' \in SUBSET Name
  PROVE  FileEnds(p)
<1>1. NamesTyped /\ InodesApart
  BY DEF FilesInv
<1>2. InodesApart'
  BY <1>1 DEF InodesApart
<1> QED BY <1>1, <1>2 DEF FileEnds, NamesTyped

\* A request that ends with an error.
LEMMA RefusedKeeps ==
  ASSUME FilesInv, NEW p \in User, fileCall[p] # NoFileCall, fileCall[p].fd = 0, Refused(p),
         temp' = temp \ {p}, fileCalls' = fileCalls, inode' = inode, data' = data
  PROVE  FilesInv'
<1>1. NamesTyped /\ blurred \subseteq Name
  BY DEF FilesInv, NamesTyped
<1>2. NamesOf(fileCall[p]) \subseteq Name
  BY <1>1, NamesAre
<1>3. /\ fileCall' = [fileCall EXCEPT ![p] = NoFileCall] /\ expected' = expected
      /\ fileCall[p].clean => blurred' = blurred
      /\ ~fileCall[p].clean => blurred' = blurred \cup NamesOf(fileCall[p])
  BY DEF Refused, Answered
<1>4. fileCall[p].clean \in BOOLEAN
  BY <1>1, CallIs
<1>5. FileEnds(p)
  BY <1>1, <1>2, <1>3, <1>4, SameFiles
<1>6. FileEndsWithin(p)
  BY <1>3, <1>4 DEF FileEndsWithin
<1>7. FileEndsWell(p)
  <2>1. CASE fileCall[p].clean
    <3>1. \A f \in NamesOf(fileCall[p]) : f \in blurred \/ Held(f) = expected[f]
      BY <2>1, CleanKept
    <3>2. \A f \in NamesOf(fileCall[p]) : f \in blurred' \/ Held(f)' = expected'[f]
      BY <1>3, <2>1, <3>1 DEF Held, Absent
    <3> QED BY <2>1, <3>2 DEF FileEndsWell
  <2>2. CASE ~fileCall[p].clean
    BY <1>3, <2>2 DEF FileEndsWell
  <2> QED BY <2>1, <2>2
<1> QED BY <1>5, <1>6, <1>7, EndKeeps

\* A save of which nobody knows what it has done.
LEMMA InDoubtKeeps ==
  ASSUME FilesInv, NEW p \in User, fileCall[p] # NoFileCall,
         fileCall' = [fileCall EXCEPT ![p] = NoFileCall], blurred' = blurred \cup NamesOf(fileCall[p]),
         expected' = expected, temp' = temp \ {p}, fileCalls' = fileCalls, inode' = inode, data' = data
  PROVE  FilesInv'
<1>1. NamesTyped /\ blurred \subseteq Name
  BY DEF FilesInv, NamesTyped
<1>2. NamesOf(fileCall[p]) \subseteq Name
  BY <1>1, NamesAre
<1>3. FileEnds(p)
  BY <1>2, <1>1, SameFiles
<1>4. FileEndsWithin(p)
  BY DEF FileEndsWithin
<1>5. FileEndsWell(p)
  BY DEF FileEndsWell
<1> QED BY <1>3, <1>4, <1>5, EndKeeps

-----------------------------------------------------------------------------
(* The steps that end a request.                                             *)

LEMMA FillKeeps == ASSUME FilesInv, NEW p \in User, Fill(p) PROVE FilesInv'
<1>1. /\ NamesTyped /\ InodesApart /\ FileOpened /\ blurred \subseteq Name
      /\ inode \in [Name -> Inodes] /\ data \in [Inodes -> 0 .. Mixed] /\ expected \in [Name -> 0 .. Absent]
      /\ fileCalls \in 0 .. MaxFileCalls /\ MaxFileCalls \in Nat
  BY InodesAre DEF FilesInv, NamesTyped
<1>2. PICK c : c = fileCall[p]
  OBVIOUS
<1>3. PICK d : d = [expected EXCEPT ![c.from] = c.new]
  OBVIOUS
<1>4. /\ FileAt(p, "fill") /\ inode' = inode /\ temp' = temp /\ fileCalls' = fileCalls
      /\ data' = [data EXCEPT ![c.fd] = IF @ = Empty THEN c.new ELSE Mixed]
  BY <1>2 DEF Fill
<1>5. /\ fileCall[p] # NoFileCall /\ c.fd # 0 /\ temp \ {p} = temp /\ c.op = "write"
      /\ c.fd \in Inodes /\ c.from \in Name /\ c.new \in 1 .. fileCalls /\ NamesOf(c) = {c.from} /\ c.clean \in BOOLEAN
  <2>1. fileCall[p] # NoFileCall /\ c.fd # 0 /\ temp \ {p} = temp /\ FileCourse(c.op, "fill", Tail(c.todo))
    BY <1>1, <1>2, <1>4, FileStepAt, NotSpooled
  <2>2. c.op = "write"
    BY <2>1 DEF FileCourse, GoingOn
  <2> QED BY <1>1, <1>2, <2>1, <2>2, CallIs, NamesAre
<1>6. /\ fileCall' = [fileCall EXCEPT ![p] = NoFileCall]
      /\ c.clean => expected' = d /\ blurred' = blurred \ {c.from}
      /\ ~c.clean => expected' = expected /\ blurred' = blurred \cup {c.from}
  BY <1>2, <1>3, <1>5 DEF Fill, Answered
<1>7. c.new \in 0 .. Mixed /\ c.new \in 0 .. Absent /\ Mixed \in 0 .. Mixed
  BY <1>1, <1>5 DEF Mixed, Absent
<1>8. FileEnds(p)
  <2>1. data' \in [Inodes -> 0 .. Mixed]
    BY <1>1, <1>4, <1>7
  <2>2. expected' \in [Name -> 0 .. Absent] /\ blurred' \subseteq Name
    BY <1>1, <1>3, <1>5, <1>6, <1>7
  <2>3. InodesApart'
    BY <1>1, <1>4 DEF InodesApart
  <2> QED BY <1>1, <1>4, <1>5, <1>6, <2>1, <2>2, <2>3 DEF FileEnds
<1>9. FileEndsWithin(p)
  <2>1. \A h \in Name \ {c.from} : inode'[h] = inode[h] /\ expected'[h] = expected[h] /\ (h \in blurred <=> h \in blurred')
    BY <1>1, <1>3, <1>4, <1>5, <1>6
  <2>2. \A i \in Inodes : data'[i] # data[i] => i = c.fd
    BY <1>1, <1>4
  <2> QED BY <1>2, <1>4, <1>5, <2>1, <2>2 DEF FileEndsWithin
<1>10. FileEndsWell(p)
  <2>1. CASE c.clean
    <3>1. inode[c.from] = c.fd /\ data[c.fd] = Empty
      BY <1>1, <1>2, <1>5, <2>1 DEF FileOpened
    <3>2. data'[c.fd] = c.new /\ expected'[c.from] = c.new
      BY <1>1, <1>3, <1>4, <1>5, <1>6, <2>1, <3>1
    <3>3. Held(c.from)' = expected'[c.from]
      BY <1>4, <1>5, <3>1, <3>2 DEF Held
    <3> QED BY <1>2, <1>5, <2>1, <3>3 DEF FileEndsWell
  <2>2. CASE ~c.clean
    BY <1>2, <1>5, <1>6, <2>2 DEF FileEndsWell
  <2> QED BY <2>1, <2>2
<1> QED BY <1>8, <1>9, <1>10, EndKeeps

LEMMA RmKeeps == ASSUME FilesInv, NEW p \in User, Rm(p) PROVE FilesInv'
<1>1. /\ NamesTyped /\ InodesApart /\ blurred \subseteq Name
      /\ inode \in [Name -> Inodes] /\ data \in [Inodes -> 0 .. Mixed] /\ expected \in [Name -> 0 .. Absent]
  BY DEF FilesInv, NamesTyped
<1>2. PICK c : c = fileCall[p]
  OBVIOUS
<1>3. PICK d : d = [expected EXCEPT ![c.from] = Absent]
  OBVIOUS
<1>4. /\ FileAt(p, "rm") /\ data' = data /\ temp' = temp /\ fileCalls' = fileCalls
      /\ inode' = [inode EXCEPT ![c.from] = 0]
  BY <1>2 DEF Rm
<1>5. /\ fileCall[p] # NoFileCall /\ temp \ {p} = temp /\ c.op = "delete"
      /\ c.from \in Name /\ NamesOf(c) = {c.from} /\ c.clean \in BOOLEAN
  <2>1. fileCall[p] # NoFileCall /\ temp \ {p} = temp /\ FileCourse(c.op, "rm", Tail(c.todo))
    BY <1>1, <1>2, <1>4, FileStepAt, NotSpooled
  <2>2. c.op = "delete"
    BY <2>1 DEF FileCourse, GoingOn
  <2> QED BY <1>1, <1>2, <2>1, <2>2, CallIs, NamesAre
<1>6. /\ fileCall' = [fileCall EXCEPT ![p] = NoFileCall]
      /\ c.clean => expected' = d /\ blurred' = blurred \ {c.from}
      /\ ~c.clean => expected' = expected /\ blurred' = blurred \cup {c.from}
  BY <1>2, <1>3, <1>5 DEF Rm, Answered
<1>7. 0 \in Inodes /\ Absent \in 0 .. Absent
  BY InodesAre DEF Absent
<1>8. FileEnds(p)
  <2>1. inode' \in [Name -> Inodes]
    BY <1>1, <1>4, <1>7
  <2>2. expected' \in [Name -> 0 .. Absent] /\ blurred' \subseteq Name
    BY <1>1, <1>3, <1>5, <1>6, <1>7
  <2>3. InodesApart'
    BY <1>1, <1>4 DEF InodesApart
  <2> QED BY <1>1, <1>4, <1>5, <1>6, <2>1, <2>2, <2>3 DEF FileEnds
<1>9. FileEndsWithin(p)
  <2>1. \A h \in Name \ {c.from} : inode'[h] = inode[h] /\ expected'[h] = expected[h] /\ (h \in blurred <=> h \in blurred')
    BY <1>1, <1>3, <1>4, <1>5, <1>6
  <2>2. inode'[c.from] = 0
    BY <1>1, <1>4, <1>5
  <2> QED BY <1>2, <1>4, <1>5, <2>1, <2>2 DEF FileEndsWithin
<1>10. FileEndsWell(p)
  <2>1. inode'[c.from] = 0
    BY <1>1, <1>4, <1>5
  <2>2. CASE c.clean
    <3>1. expected'[c.from] = Absent
      BY <1>1, <1>3, <1>5, <1>6, <2>2
    <3>2. Held(c.from)' = expected'[c.from]
      BY <2>1, <3>1 DEF Held, Absent
    <3> QED BY <1>2, <1>5, <2>2, <3>2 DEF FileEndsWell
  <2>3. CASE ~c.clean
    BY <1>2, <1>5, <1>6, <2>3 DEF FileEndsWell
  <2> QED BY <2>2, <2>3
<1> QED BY <1>8, <1>9, <1>10, EndKeeps

LEMMA TakenOverIs ==
  ASSUME NEW B, NEW f \in Name, NEW g \in Name, B = blurred, f # g
  PROVE  /\ g \in TakenOver(f, g) <=> f \in B
         /\ \A h \in Name : h # g => (h \in TakenOver(f, g) <=> h \in B)
BY DEF TakenOver

LEMMA MvKeeps == ASSUME FilesInv, NEW p \in User, Mv(p) PROVE FilesInv'
<1>1. /\ NamesTyped /\ InodesApart /\ blurred \subseteq Name
      /\ inode \in [Name -> Inodes] /\ data \in [Inodes -> 0 .. Mixed] /\ expected \in [Name -> 0 .. Absent]
  BY DEF FilesInv, NamesTyped
<1>2. PICK c : c = fileCall[p]
  OBVIOUS
<1>3. PICK f, g : f = c.from /\ g = c.to
  OBVIOUS
<1>4. PICK d : d = [expected EXCEPT ![g] = expected[f], ![f] = Absent]
  OBVIOUS
<1>5. /\ FileAt(p, "mv") /\ data' = data /\ temp' = temp /\ fileCalls' = fileCalls /\ inode[f] # 0
      /\ inode' = [inode EXCEPT ![g] = inode[f], ![f] = 0]
  BY <1>2, <1>3 DEF Mv
<1>6. /\ fileCall[p] # NoFileCall /\ c.fd = 0 /\ temp \ {p} = temp
      /\ f \in Name /\ g \in Name /\ f # g /\ NamesOf(c) = {f, g} /\ c.clean \in BOOLEAN
  <2>1. fileCall[p] # NoFileCall /\ temp \ {p} = temp /\ FileCourse(c.op, "mv", Tail(c.todo)) /\ c.fd = 0
    BY <1>1, <1>2, <1>5, FileStepAt, NotSpooled
  <2>2. c.op = "move"
    BY <2>1 DEF FileCourse, GoingOn
  <2> QED BY <1>1, <1>2, <1>3, <2>1, <2>2, CallIs, NamesAre
<1>7. /\ fileCall' = [fileCall EXCEPT ![p] = NoFileCall]
      /\ c.clean => expected' = d /\ blurred' = TakenOver(f, g) \ {f}
      /\ ~c.clean => expected' = expected /\ blurred' = blurred \cup {f, g}
  BY <1>2, <1>3, <1>4, <1>6 DEF Mv, Answered
<1>8. /\ 0 \in Inodes /\ Absent \in 0 .. Absent
      /\ inode' \in [Name -> Inodes] /\ inode'[f] = 0 /\ inode'[g] = inode[f]
      /\ \A h \in Name : h \notin {f, g} => inode'[h] = inode[h]
  <2>1. 0 \in Inodes /\ Absent \in 0 .. Absent
    BY InodesAre DEF Absent
  <2> QED BY <1>1, <1>5, <1>6, <2>1
<1>9. d \in [Name -> 0 .. Absent] /\ d[f] = Absent /\ d[g] = expected[f] /\ \A h \in Name : h \notin {f, g} => d[h] = expected[h]
  BY <1>1, <1>4, <1>6, <1>8
<1>10. TakenOver(f, g) \subseteq Name
  BY <1>1, <1>6 DEF TakenOver
<1>11. FileEnds(p)
  <2>1. expected' \in [Name -> 0 .. Absent] /\ blurred' \subseteq Name
    BY <1>1, <1>6, <1>7, <1>9, <1>10
  <2>2. InodesApart'
    BY <1>1, <1>5, <1>6, <1>8 DEF InodesApart
  <2> QED BY <1>1, <1>5, <1>6, <1>7, <1>8, <2>1, <2>2 DEF FileEnds
<1>12. \A h \in Name : h \notin {f, g} => (h \in TakenOver(f, g) \ {f} <=> h \in blurred)
  BY <1>6, TakenOverIs
<1>13. FileEndsWithin(p)
  <2>1. \A h \in Name \ {f, g} : inode'[h] = inode[h] /\ expected'[h] = expected[h] /\ (h \in blurred <=> h \in blurred')
    <3>1. CASE c.clean
      BY <1>7, <1>8, <1>9, <1>12, <3>1
    <3>2. CASE ~c.clean
      BY <1>7, <1>8, <3>2
    <3> QED BY <3>1, <3>2
  <2> QED BY <1>2, <1>5, <1>6, <1>8, <2>1 DEF FileEndsWithin
<1>14. FileEndsWell(p)
  <2>1. CASE c.clean
    <3>1. Held(f)' = expected'[f]
      BY <1>7, <1>8, <1>9, <2>1 DEF Held, Absent
    <3>2. ASSUME g \notin blurred' PROVE Held(g)' = expected'[g]
      <4>1. f \notin blurred
        BY <1>6, <1>7, <2>1, <3>2, TakenOverIs
      <4>2. Held(f) = expected[f]
        BY <1>2, <1>6, <2>1, <4>1, CleanKept
      <4>3. data[inode[f]] = expected[f] /\ expected'[g] = expected[f]
        BY <1>5, <1>7, <1>9, <2>1, <4>2 DEF Held
      <4> QED BY <1>5, <1>8, <4>3 DEF Held
    <3> QED BY <1>2, <1>6, <2>1, <3>1, <3>2 DEF FileEndsWell
  <2>2. CASE ~c.clean
    BY <1>2, <1>6, <1>7, <2>2 DEF FileEndsWell
  <2> QED BY <2>1, <2>2
<1> QED BY <1>11, <1>13, <1>14, EndKeeps

LEMMA CpKeeps == ASSUME FilesInv, NEW p \in User, Cp(p) PROVE FilesInv'
<1>1. /\ NamesTyped /\ InodesApart /\ blurred \subseteq Name
      /\ inode \in [Name -> Inodes] /\ data \in [Inodes -> 0 .. Mixed] /\ expected \in [Name -> 0 .. Absent]
  BY DEF FilesInv, NamesTyped
<1>2. PICK c : c = fileCall[p]
  OBVIOUS
<1>3. PICK f, g : f = c.from /\ g = c.to
  OBVIOUS
<1>4. PICK d : d = [expected EXCEPT ![g] = expected[f]]
  OBVIOUS
<1>5. PICK i : i = IF inode[g] = 0 THEN Fresh ELSE inode[g]
  OBVIOUS
<1>6. /\ FileAt(p, "cp") /\ temp' = temp /\ fileCalls' = fileCalls /\ inode[f] # 0
      /\ inode' = [inode EXCEPT ![g] = i] /\ data' = [data EXCEPT ![i] = data[inode[f]]]
  BY <1>2, <1>3, <1>5 DEF Cp
<1>7. /\ fileCall[p] # NoFileCall /\ c.fd = 0 /\ temp \ {p} = temp
      /\ f \in Name /\ g \in Name /\ f # g /\ NamesOf(c) = {f, g} /\ c.clean \in BOOLEAN
  <2>1. fileCall[p] # NoFileCall /\ temp \ {p} = temp /\ FileCourse(c.op, "cp", Tail(c.todo)) /\ c.fd = 0
    BY <1>1, <1>2, <1>6, FileStepAt, NotSpooled
  <2>2. c.op = "copy"
    BY <2>1 DEF FileCourse, GoingOn
  <2> QED BY <1>1, <1>2, <1>3, <2>1, <2>2, CallIs, NamesAre
<1>8. /\ fileCall' = [fileCall EXCEPT ![p] = NoFileCall]
      /\ c.clean => expected' = d /\ blurred' = TakenOver(f, g)
      /\ ~c.clean => expected' = expected /\ blurred' = blurred \cup {f, g}
  BY <1>2, <1>3, <1>4, <1>7 DEF Cp, Answered
<1>9. i \in Inodes /\ i # 0 /\ (inode[g] # 0 => i = inode[g]) /\ (inode[g] = 0 => Unheld(i))
  <2>1. inode[g] = 0 => Fresh \in Inodes /\ Unheld(Fresh)
    BY <1>7, FreshIs
  <2>2. Unheld(i) => i # 0
    BY DEF Unheld
  <2> QED BY <1>1, <1>5, <1>7, <2>1, <2>2
<1>10. /\ inode' \in [Name -> Inodes] /\ inode'[g] = i /\ \A h \in Name : h # g => inode'[h] = inode[h]
       /\ data' \in [Inodes -> 0 .. Mixed] /\ data'[i] = data[inode[f]] /\ \A j \in Inodes : j # i => data'[j] = data[j]
  <2>1. data[inode[f]] \in 0 .. Mixed
    BY <1>1, <1>7
  <2> QED BY <1>1, <1>6, <1>7, <1>9, <2>1
<1>11. d \in [Name -> 0 .. Absent] /\ d[g] = expected[f] /\ \A h \in Name : h # g => d[h] = expected[h]
  BY <1>1, <1>4, <1>7
<1>12. TakenOver(f, g) \subseteq Name
  BY <1>1, <1>7 DEF TakenOver
<1>13. \A h \in Name : h # g => inode[h] # i
  BY <1>1, <1>7, <1>9 DEF InodesApart, Unheld
<1>14. FileEnds(p)
  <2>1. expected' \in [Name -> 0 .. Absent] /\ blurred' \subseteq Name
    BY <1>1, <1>7, <1>8, <1>11, <1>12
  <2>2. InodesApart'
    BY <1>1, <1>10, <1>13 DEF InodesApart
  <2> QED BY <1>1, <1>6, <1>7, <1>8, <1>10, <2>1, <2>2 DEF FileEnds
<1>15. FileEndsWithin(p)
  <2>1. \A h \in Name \ {f, g} : inode'[h] = inode[h] /\ expected'[h] = expected[h] /\ (h \in blurred <=> h \in blurred')
    <3>1. CASE c.clean
      <4>1. \A h \in Name : h # g => (h \in TakenOver(f, g) <=> h \in blurred)
        BY <1>7, TakenOverIs
      <4> QED BY <1>8, <1>10, <1>11, <3>1, <4>1
    <3>2. CASE ~c.clean
      BY <1>8, <1>10, <3>2
    <3> QED BY <3>1, <3>2
  <2>2. inode'[f] = inode[f] /\ (inode'[g] = inode[g] \/ Unheld(inode'[g]))
    BY <1>7, <1>9, <1>10
  <2>3. \A j \in Inodes : data'[j] # data[j] => inode[g] = j \/ Unheld(j)
    BY <1>9, <1>10
  <2> QED BY <1>2, <1>7, <2>1, <2>2, <2>3 DEF FileEndsWithin
<1>16. FileEndsWell(p)
  <2>1. CASE c.clean
    <3>1. \A h \in {f, g} : h \in blurred \/ Held(h) = expected[h]
      BY <1>2, <1>7, <2>1, CleanKept
    <3>2. ASSUME f \notin blurred' PROVE Held(f)' = expected'[f]
      <4>1. f \notin blurred
        BY <1>7, <1>8, <2>1, <3>2, TakenOverIs
      <4>2. data[inode[f]] = expected[f]
        BY <1>6, <3>1, <4>1 DEF Held
      <4>3. inode[f] \in Inodes /\ inode[f] # i
        BY <1>1, <1>7, <1>13
      <4>4. data'[inode[f]] = data[inode[f]] /\ inode'[f] = inode[f] /\ expected'[f] = expected[f]
        BY <1>7, <1>8, <1>10, <1>11, <2>1, <4>3
      <4> QED BY <1>6, <4>2, <4>4 DEF Held
    <3>3. ASSUME g \notin blurred' PROVE Held(g)' = expected'[g]
      <4>1. f \notin blurred
        BY <1>7, <1>8, <2>1, <3>3, TakenOverIs
      <4>2. data[inode[f]] = expected[f]
        BY <1>6, <3>1, <4>1 DEF Held
      <4>3. expected'[g] = expected[f]
        BY <1>8, <1>11, <2>1
      <4> QED BY <1>9, <1>10, <4>2, <4>3 DEF Held
    <3> QED BY <1>2, <1>7, <2>1, <3>2, <3>3 DEF FileEndsWell
  <2>2. CASE ~c.clean
    BY <1>2, <1>7, <1>8, <2>2 DEF FileEndsWell
  <2> QED BY <2>1, <2>2
<1> QED BY <1>14, <1>15, <1>16, EndKeeps

-----------------------------------------------------------------------------
(* The steps after which a request goes on.                                  *)

\* The call y is what the call c goes on with: t is left, and i is open.
GoesOnAs(c, y, t, i) ==
  y \in [op : {c.op}, from : {c.from}, to : {c.to}, new : {c.new}, todo : {t}, fd : {i}, clean : {c.clean}]

LEMMA GoneOn ==
  ASSUME NEW c, FineCall(c), NEW t \in FileCourses(c.op), NEW i \in Inodes, i # 0 <=> Head(t) = "fill",
         NEW y, GoesOnAs(c, y, t, i)
  PROVE  /\ FineCall(y) /\ y # NoFileCall /\ NamesOf(y) = NamesOf(c) /\ y.op = c.op /\ y.from = c.from
         /\ y.new = c.new /\ y.todo = t /\ y.fd = i /\ y.clean = c.clean /\ y \in FileCallType
<1>1. c \in FileCallType
  BY DEF FineCall
<1>2. c.op \in FileOps
  BY <1>1 DEF FileCallType
<1>3. t \in UNION {FileCourses(o) : o \in FileOps}
  BY <1>2
<1>4. /\ y.op = c.op /\ y.from = c.from /\ y.to = c.to
      /\ y.new = c.new /\ y.todo = t /\ y.fd = i /\ y.clean = c.clean
  BY DEF GoesOnAs
<1>5. y \in FileCallType
  BY <1>1, <1>3 DEF GoesOnAs, FileCallType
<1>6. FineCall(y)
  BY <1>4, <1>5 DEF FineCall
<1>7. y # NoFileCall
  BY <1>2, <1>4, NoFileCallIs
<1> QED BY <1>4, <1>5, <1>6, <1>7 DEF NamesOf

\* Any step short of the last, but for tee.
LEMMA GoingOnKeeps ==
  ASSUME FilesInv, NEW p \in User, NEW s \in GoingOn, FileAt(p, s), FileOn(p),
         inode' = inode, data' = data, fileCalls' = fileCalls,
         temp' = IF s = "spool" THEN temp \cup {p} ELSE temp
  PROVE  FilesInv'
<1>1. /\ NamesTyped /\ InodesApart /\ NumbersApart /\ Spooled /\ CleanAlone /\ Elsewhere /\ FileOpened /\ NamesKept
      /\ fileCall \in [User -> FileCallType \cup {NoFileCall}]
  BY DEF FilesInv, NamesTyped
<1>2. PICK c : c = fileCall[p]
  OBVIOUS
<1>3. /\ fileCall[p] # NoFileCall /\ FineCall(c) /\ c \in FileCallType /\ c.fd = 0 /\ c.new \in 1 .. fileCalls
      /\ FileCourse(c.op, s, Tail(c.todo)) /\ (c.todo \in Uploading => s = "fetch")
  <2>1. s \notin {"fill", "unlink"}
    BY DEF GoingOn
  <2> QED BY <1>1, <1>2, <2>1, FileStepAt, CallIs DEF FineCall
<1>4. PICK t : t = Tail(c.todo)
  OBVIOUS
<1>5. t \in FileCourses(c.op) /\ Head(t) # "fill" /\ (s \in {"spool", "fetch"} => t \in Uploading)
  BY <1>3, <1>4 DEF FileCourse, GoingOn
<1>6. fileCall' = [fileCall EXCEPT ![p] = [c EXCEPT !.todo = t]] /\ expected' = expected /\ blurred' = blurred
  BY <1>2, <1>4 DEF FileOn
<1>7. PICK y : y = [c EXCEPT !.todo = t]
  OBVIOUS
<1>8. GoesOnAs(c, y, t, 0)
  BY <1>3, <1>7 DEF GoesOnAs, FileCallType
<1>9. 0 \in Inodes
  BY InodesAre
<1>10. /\ FineCall(y) /\ y # NoFileCall /\ NamesOf(y) = NamesOf(c) /\ y.from = c.from
       /\ y.new = c.new /\ y.todo = t /\ y.fd = 0 /\ y.clean = c.clean /\ y \in FileCallType
  BY <1>3, <1>5, <1>8, <1>9, GoneOn
<1>11. /\ fileCall' \in [User -> FileCallType \cup {NoFileCall}] /\ fileCall'[p] = y
       /\ \A q \in User : q # p => fileCall'[q] = fileCall[q]
  BY <1>1, <1>6, <1>7, <1>10
<1>12. \A q \in User : /\ NamesOf(fileCall'[q]) = NamesOf(fileCall[q]) /\ fileCall'[q].fd = fileCall[q].fd
                       /\ fileCall'[q].clean = fileCall[q].clean /\ fileCall'[q].new = fileCall[q].new
                       /\ fileCall'[q].from = fileCall[q].from
                       /\ (fileCall'[q] # NoFileCall <=> fileCall[q] # NoFileCall)
  BY <1>2, <1>3, <1>10, <1>11
<1>13. NamesTyped'
  <2>1. \A q \in User : fileCall'[q] # NoFileCall => FineCall(fileCall'[q]) /\ fileCall'[q].new \in 1 .. fileCalls
    BY <1>1, <1>3, <1>10, <1>11 DEF NamesTyped
  <2>2. temp' \subseteq User
    BY <1>1 DEF NamesTyped
  <2> QED BY <1>1, <1>6, <1>11, <2>1, <2>2 DEF NamesTyped
<1>14. InodesApart'
  BY <1>1 DEF InodesApart
<1>15. NumbersApart'
  BY <1>1, <1>12 DEF NumbersApart
<1>16. Spooled'
  <2>1. ASSUME NEW q \in temp' PROVE fileCall'[q] # NoFileCall /\ fileCall'[q].todo \in Uploading
    <3>1. CASE q # p
      <4>1. q \in temp /\ q \in User
        BY <1>1, <2>1, <3>1 DEF NamesTyped
      <4> QED BY <1>1, <1>11, <3>1, <4>1 DEF Spooled
    <3>2. CASE q = p
      <4>1. s \in {"spool", "fetch"}
        BY <1>1, <1>2, <1>3, <2>1, <3>2 DEF Spooled
      <4> QED BY <1>5, <1>10, <1>11, <3>2, <4>1
    <3> QED BY <3>1, <3>2
  <2> QED BY <2>1 DEF Spooled
<1>17. CleanAlone'
  BY <1>1, <1>12 DEF CleanAlone
<1>18. Elsewhere'
  BY <1>1, <1>6, <1>12 DEF Elsewhere
<1>19. FileOpened'
  BY <1>1, <1>12 DEF FileOpened, Empty
<1>20. NamesKept'
  <2>1. \A f : Held(f)' = Held(f)
    BY DEF Held, Absent
  <2> QED BY <1>1, <1>6, <1>12, <2>1 DEF NamesKept
<1> QED BY <1>13, <1>14, <1>15, <1>16, <1>17, <1>18, <1>19, <1>20 DEF FilesInv

LEMMA TeeKeeps == ASSUME FilesInv, NEW p \in User, Tee(p) PROVE FilesInv'
<1>1. /\ NamesTyped /\ InodesApart /\ NumbersApart /\ Spooled /\ CleanAlone /\ Elsewhere /\ FileOpened /\ NamesKept
      /\ fileCall \in [User -> FileCallType \cup {NoFileCall}] /\ temp \subseteq User
      /\ inode \in [Name -> Inodes] /\ data \in [Inodes -> 0 .. Mixed]
  BY DEF FilesInv, NamesTyped
<1>2. PICK c : c = fileCall[p]
  OBVIOUS
<1>3. PICK f : f = c.from
  OBVIOUS
<1>4. PICK i : i = IF inode[f] = 0 THEN Fresh ELSE inode[f]
  OBVIOUS
<1>5. /\ FileAt(p, "tee") /\ inode' = [inode EXCEPT ![f] = i] /\ data' = [data EXCEPT ![i] = Empty]
      /\ fileCall' = [fileCall EXCEPT ![p].todo = Tail(@), ![p].fd = i]
      /\ temp' = temp /\ expected' = expected /\ blurred' = blurred /\ fileCalls' = fileCalls
  BY <1>2, <1>3, <1>4 DEF Tee
<1>6. /\ fileCall[p] # NoFileCall /\ FineCall(c) /\ c \in FileCallType /\ c.fd = 0 /\ c.new \in 1 .. fileCalls
      /\ c.op = "write" /\ Tail(c.todo) = <<"fill">> /\ c.todo \notin Uploading /\ f \in Name /\ NamesOf(c) = {f}
  <2>1. /\ fileCall[p] # NoFileCall /\ FineCall(c) /\ c \in FileCallType /\ c.fd = 0 /\ c.new \in 1 .. fileCalls
        /\ FileCourse(c.op, "tee", Tail(c.todo)) /\ c.todo \notin Uploading /\ f \in Name
    BY <1>1, <1>2, <1>3, <1>5, FileStepAt, CallIs DEF FineCall
  <2>2. c.op = "write" /\ Tail(c.todo) = <<"fill">>
    BY <2>1 DEF FileCourse, GoingOn
  <2> QED BY <1>1, <1>2, <1>3, <2>1, <2>2, NamesAre
<1>7. i \in Inodes /\ i # 0 /\ (inode[f] # 0 => i = inode[f]) /\ (inode[f] = 0 => Unheld(i))
  <2>1. inode[f] = 0 => Fresh \in Inodes /\ Unheld(Fresh)
    BY <1>6, FreshIs
  <2>2. Unheld(i) => i # 0
    BY DEF Unheld
  <2> QED BY <1>1, <1>4, <1>6, <2>1, <2>2
<1>8. /\ inode' \in [Name -> Inodes] /\ inode'[f] = i /\ \A h \in Name : h # f => inode'[h] = inode[h]
      /\ data' \in [Inodes -> 0 .. Mixed] /\ data'[i] = Empty /\ \A j \in Inodes : j # i => data'[j] = data[j]
  <2>1. Empty \in 0 .. Mixed
    BY InodesAre DEF Empty, Mixed
  <2> QED BY <1>1, <1>5, <1>6, <1>7, <2>1
<1>9. \A h \in Name : h # f => inode[h] # i
  BY <1>1, <1>6, <1>7 DEF InodesApart, Unheld
<1>10. PICK t : t = <<"fill">>
  OBVIOUS
<1>11. t \in FileCourses(c.op) /\ Head(t) = "fill" /\ t \notin Uploading
  BY <1>6, <1>10, UploadingIs DEF FileCourses
<1>12. PICK y : y = fileCall'[p]
  OBVIOUS
<1>13. GoesOnAs(c, y, t, i)
  BY <1>1, <1>2, <1>5, <1>6, <1>10, <1>12 DEF GoesOnAs, FileCallType
<1>14. /\ FineCall(y) /\ y # NoFileCall /\ NamesOf(y) = NamesOf(c) /\ y.from = c.from
       /\ y.new = c.new /\ y.todo = t /\ y.fd = i /\ y.clean = c.clean /\ y \in FileCallType
  BY <1>6, <1>7, <1>11, <1>13, GoneOn
<1>15. \A q \in User : q # p => fileCall'[q] = fileCall[q]
  BY <1>1, <1>5
<1>16. fileCall' \in [User -> FileCallType \cup {NoFileCall}]
  BY <1>1, <1>5, <1>12, <1>14, <1>15
<1>17. \A q \in User : /\ NamesOf(fileCall'[q]) = NamesOf(fileCall[q])
                       /\ fileCall'[q].clean = fileCall[q].clean /\ fileCall'[q].new = fileCall[q].new
                       /\ fileCall'[q].from = fileCall[q].from
                       /\ (fileCall'[q] # NoFileCall <=> fileCall[q] # NoFileCall)
  BY <1>2, <1>6, <1>12, <1>14, <1>15
<1>18. NamesTyped'
  <2>1. \A q \in User : fileCall'[q] # NoFileCall => FineCall(fileCall'[q]) /\ fileCall'[q].new \in 1 .. fileCalls
    BY <1>1, <1>6, <1>12, <1>14, <1>15 DEF NamesTyped
  <2> QED BY <1>1, <1>5, <1>8, <1>16, <2>1 DEF NamesTyped
<1>19. InodesApart'
  BY <1>1, <1>8, <1>9 DEF InodesApart
<1>20. NumbersApart'
  BY <1>1, <1>17 DEF NumbersApart
<1>21. Spooled'
  <2>1. p \notin temp
    BY <1>1, <1>2, <1>6 DEF Spooled
  <2> QED BY <1>1, <1>5, <1>15, <2>1 DEF Spooled
\* No other has the file open, unless two requests have met.
<1>22. ASSUME NEW q \in User, q # p, fileCall[q].fd # 0, inode[f] = fileCall[q].fd \/ i = fileCall[q].fd
       PROVE  inode[f] = fileCall[q].fd /\ ~fileCall[q].clean /\ ~fileCall[p].clean /\ fileCall[q] # NoFileCall
  <2>1. fileCall[q] # NoFileCall
    BY <1>1, <1>22, HasAFile
  <2>2. inode[f] = fileCall[q].fd
    BY <1>7, <1>22 DEF Unheld
  <2> QED BY <1>1, <1>2, <1>6, <1>22, <2>1, <2>2 DEF CleanAlone
<1>23. CleanAlone'
  <2>1. ASSUME NEW q \in User, NEW r \in User, q # r, fileCall'[q] # NoFileCall, fileCall'[r] # NoFileCall,
               fileCall'[r].clean
        PROVE  /\ NamesOf(fileCall'[q]) \cap NamesOf(fileCall'[r]) = {}
               /\ fileCall'[q].fd # 0 => \A h \in NamesOf(fileCall'[r]) : inode'[h] # fileCall'[q].fd
               /\ fileCall'[r].fd # 0 => \A h \in NamesOf(fileCall'[q]) : inode'[h] # fileCall'[r].fd
    <3>1. /\ fileCall[q] # NoFileCall /\ fileCall[r] # NoFileCall /\ fileCall[r].clean
          /\ NamesOf(fileCall'[q]) = NamesOf(fileCall[q]) /\ NamesOf(fileCall'[r]) = NamesOf(fileCall[r])
      BY <1>17, <2>1
    <3>2. /\ NamesOf(fileCall[q]) \cap NamesOf(fileCall[r]) = {}
          /\ fileCall[q].fd # 0 => \A h \in NamesOf(fileCall[r]) : inode[h] # fileCall[q].fd
          /\ fileCall[r].fd # 0 => \A h \in NamesOf(fileCall[q]) : inode[h] # fileCall[r].fd
      BY <1>1, <2>1, <3>1 DEF CleanAlone
    <3>3. NamesOf(fileCall[q]) \subseteq Name /\ NamesOf(fileCall[r]) \subseteq Name
      BY <1>1, <3>1, NamesAre
    <3>4. ASSUME fileCall'[q].fd # 0, NEW h \in NamesOf(fileCall[r]) PROVE inode'[h] # fileCall'[q].fd
      <4>1. CASE q = p
        <5>1. h # f /\ h \in Name
          BY <1>2, <1>6, <3>2, <3>3, <3>4, <4>1
        <5> QED BY <1>8, <1>9, <1>12, <1>14, <4>1, <5>1
      <4>2. CASE q # p
        <5>1. fileCall'[q] = fileCall[q] /\ fileCall[q].fd # 0 /\ h \in Name
          BY <1>15, <3>3, <3>4, <4>2
        <5>2. CASE h # f
          BY <1>8, <3>2, <3>4, <5>1, <5>2
        <5>3. CASE h = f
          BY <1>8, <1>22, <3>2, <3>4, <4>2, <5>1, <5>3
        <5> QED BY <5>2, <5>3
      <4> QED BY <4>1, <4>2
    <3>5. ASSUME fileCall'[r].fd # 0, NEW h \in NamesOf(fileCall[q]) PROVE inode'[h] # fileCall'[r].fd
      <4>1. CASE r = p
        <5>1. h # f /\ h \in Name
          BY <1>2, <1>6, <3>2, <3>3, <3>5, <4>1
        <5> QED BY <1>8, <1>9, <1>12, <1>14, <4>1, <5>1
      <4>2. CASE r # p
        <5>1. fileCall'[r] = fileCall[r] /\ fileCall[r].fd # 0 /\ h \in Name
          BY <1>15, <3>3, <3>5, <4>2
        <5>2. CASE h # f
          BY <1>8, <3>2, <3>5, <5>1, <5>2
        <5>3. CASE h = f
          BY <1>8, <1>22, <3>2, <3>5, <4>2, <5>1, <5>3
        <5> QED BY <5>2, <5>3
      <4> QED BY <4>1, <4>2
    <3> QED BY <3>1, <3>2, <3>4, <3>5
  <2> QED BY <2>1 DEF CleanAlone, NamesOf
<1>24. Elsewhere'
  <2>1. ASSUME NEW q \in User, fileCall'[q].fd # 0, NEW h \in Name, h \notin NamesOf(fileCall'[q]),
               inode'[h] = fileCall'[q].fd
        PROVE  h \in blurred'
    <3>1. CASE q = p
      <4>1. h # f
        BY <1>2, <1>6, <1>12, <1>14, <2>1, <3>1
      <4> QED BY <1>8, <1>9, <1>12, <1>14, <2>1, <3>1, <4>1
    <3>2. CASE q # p
      <4>1. fileCall'[q] = fileCall[q] /\ fileCall[q].fd # 0
        BY <1>15, <2>1, <3>2
      <4>2. inode[h] = fileCall[q].fd
        BY <1>8, <1>22, <2>1, <3>2, <4>1
      <4> QED BY <1>1, <1>5, <2>1, <4>1, <4>2 DEF Elsewhere
    <3> QED BY <3>1, <3>2
  <2> QED BY <2>1 DEF Elsewhere, NamesOf
<1>25. FileOpened'
  <2>1. ASSUME NEW q \in User, fileCall'[q].fd # 0, fileCall'[q].clean
        PROVE  inode'[fileCall'[q].from] = fileCall'[q].fd /\ data'[fileCall'[q].fd] = Empty
    <3>1. CASE q = p
      BY <1>3, <1>8, <1>12, <1>14, <3>1
    <3>2. CASE q # p
      <4>1. /\ fileCall'[q] = fileCall[q] /\ fileCall[q].fd # 0 /\ fileCall[q].clean
            /\ fileCall[q] # NoFileCall /\ fileCall[q].fd \in Inodes
        BY <1>1, <1>15, <2>1, <3>2, HasAFile
      <4>2. inode[fileCall[q].from] = fileCall[q].fd /\ data[fileCall[q].fd] = Empty
        BY <1>1, <4>1 DEF FileOpened
      <4>3. fileCall[q].fd # i /\ inode[f] # fileCall[q].fd /\ fileCall[q].from \in Name
        BY <1>1, <1>22, <3>2, <4>1, CallIs
      <4> QED BY <1>8, <4>1, <4>2, <4>3
    <3> QED BY <3>1, <3>2
  <2> QED BY <2>1 DEF FileOpened, Empty
<1>26. NamesKept'
  <2>1. ASSUME NEW h \in Name, h \notin blurred'
        PROVE  \/ Held(h)' = expected'[h]
               \/ \E q \in User : /\ fileCall'[q] # NoFileCall /\ h \in NamesOf(fileCall'[q])
                                  /\ ~fileCall'[q].clean \/ fileCall'[q].fd # 0
    <3>1. CASE h = f
      BY <1>2, <1>6, <1>7, <1>12, <1>14, <3>1
    <3>2. CASE h # f
      <4>1. inode'[h] = inode[h] /\ inode[h] # i /\ inode[h] \in Inodes
        BY <1>1, <1>8, <1>9, <3>2
      <4>2. Held(h)' = Held(h)
        BY <1>8, <4>1 DEF Held, Absent
      <4>3. CASE Held(h) = expected[h]
        BY <1>5, <4>2, <4>3
      <4>4. CASE \E q \in User : /\ fileCall[q] # NoFileCall /\ h \in NamesOf(fileCall[q])
                                 /\ ~fileCall[q].clean \/ fileCall[q].fd # 0
        <5>1. PICK q \in User : /\ fileCall[q] # NoFileCall /\ h \in NamesOf(fileCall[q])
                                /\ ~fileCall[q].clean \/ fileCall[q].fd # 0
          BY <4>4
        <5>2. q # p
          BY <1>2, <1>6, <3>2, <5>1
        <5> QED BY <1>15, <5>1, <5>2
      <4> QED BY <1>1, <1>5, <2>1, <4>3, <4>4 DEF NamesKept
    <3> QED BY <3>1, <3>2
  <2> QED BY <2>1 DEF NamesKept, NamesOf
<1> QED BY <1>18, <1>19, <1>20, <1>21, <1>23, <1>24, <1>25, <1>26 DEF FilesInv

-----------------------------------------------------------------------------
(* Requests that arrive.                                                     *)

FileMade(o, f, g, t, n, b) ==
  [op |-> o, from |-> f, to |-> g, new |-> n, todo |-> t, fd |-> 0, clean |-> b]

LEMMA OpIs == ASSUME NEW o, NEW f, NEW g, NEW t PROVE Op(o, f, g, t) = FileMade(o, f, g, t, 0, FALSE)
<1>1. PICK a : a = [NoFileCall EXCEPT !.op = o]
  OBVIOUS
<1>2. PICK b : b = [a EXCEPT !.from = f]
  OBVIOUS
<1>3. PICK c : c = [b EXCEPT !.to = g]
  OBVIOUS
<1>4. PICK d : d = [c EXCEPT !.todo = t]
  OBVIOUS
<1>5. a = FileMade(o, "none", "none", <<>>, 0, FALSE)
  BY <1>1 DEF NoFileCall, FileMade
<1>6. b = FileMade(o, f, "none", <<>>, 0, FALSE)
  BY <1>2, <1>5 DEF FileMade
<1>7. c = FileMade(o, f, g, <<>>, 0, FALSE)
  BY <1>3, <1>6 DEF FileMade
<1>8. d = FileMade(o, f, g, t, 0, FALSE)
  BY <1>4, <1>7 DEF FileMade
<1>9. Op(o, f, g, t) = d
  BY <1>1, <1>2, <1>3, <1>4 DEF Op
<1> QED BY <1>8, <1>9

LEMMA NoFileCallStays == [NoFileCall EXCEPT !.clean = FALSE] = NoFileCall
<1> DEFINE N == [op : {"none"}, from : {"none"}, to : {"none"}, new : {0}, todo : {<<>>}, fd : {0}, clean : {FALSE}]
<1>1. NoFileCall \in N
  BY DEF NoFileCall
<1>2. ASSUME NEW x \in N PROVE [x EXCEPT !.clean = FALSE] = x
  OBVIOUS
<1> QED BY <1>1, <1>2

\* A request that is met stays what it is.
LEMMA MetIs ==
  ASSUME NEW r, FineCall(r), NEW b \in BOOLEAN, NEW y, y = [r EXCEPT !.clean = b]
  PROVE  /\ FineCall(y) /\ y \in FileCallType /\ NamesOf(y) = NamesOf(r) /\ y.from = r.from /\ y.new = r.new
         /\ y.fd = r.fd /\ y.todo = r.todo /\ y.clean = b /\ y # NoFileCall /\ r # NoFileCall
<1>1. r \in FileCallType
  BY DEF FineCall
<1>2. /\ y.op = r.op /\ y.from = r.from /\ y.to = r.to /\ y.new = r.new /\ y.todo = r.todo /\ y.fd = r.fd
      /\ y.clean = b /\ y \in FileCallType
  BY <1>1 DEF FileCallType
<1>3. FineCall(y)
  BY <1>2 DEF FineCall
<1>4. r.op \in FileOps
  BY <1>1 DEF FileCallType
<1> QED BY <1>2, <1>3, <1>4, NoFileCallIs DEF NamesOf

LEMMA FileOpens ==
  ASSUME FilesInv, NEW p \in User, NEW o \in FileOps, NEW f \in Name, NEW g, NEW t \in FileCourses(o),
         Head(t) # "fill", IF o \in {"move", "copy"} THEN g \in Name /\ g # f ELSE g = "none",
         FileOpen(p, Op(o, f, g, t))
  PROVE  FilesInv'
<1>1. /\ NamesTyped /\ InodesApart /\ NumbersApart /\ Spooled /\ CleanAlone /\ Elsewhere /\ FileOpened /\ NamesKept
      /\ fileCall \in [User -> FileCallType \cup {NoFileCall}] /\ temp \subseteq User
      /\ fileCalls \in 0 .. MaxFileCalls /\ MaxFileCalls \in Nat
  BY InodesAre DEF FilesInv, NamesTyped
<1>2. PICK c : c = Op(o, f, g, t)
  OBVIOUS
<1>3. PICK met : met = {q \in User : /\ fileCall[q] # NoFileCall
                                     /\ \E h \in NamesOf(c) :
                                          h \in NamesOf(fileCall[q]) \/ (inode[h] # 0 /\ inode[h] = fileCall[q].fd)}
  OBVIOUS
<1>4. PICK b \in BOOLEAN : b = (met = {})
  OBVIOUS
<1>5. PICK z : z = FileMade(o, f, g, t, fileCalls + 1, b)
  OBVIOUS
<1>6. c = FileMade(o, f, g, t, 0, FALSE) /\ z = [c EXCEPT !.new = fileCalls + 1, !.clean = (met = {})]
  <2>1. c = FileMade(o, f, g, t, 0, FALSE)
    BY <1>2, OpIs
  <2>2. PICK m : m = FileMade(o, f, g, t, 0, FALSE)
    OBVIOUS
  <2>3. [m EXCEPT !.new = fileCalls + 1, !.clean = b] = z
    <3>1. PICK y : y = [m EXCEPT !.new = fileCalls + 1]
      OBVIOUS
    <3>2. y = FileMade(o, f, g, t, fileCalls + 1, FALSE)
      BY <2>2, <3>1 DEF FileMade
    <3>3. [y EXCEPT !.clean = b] = z
      BY <1>5, <3>2 DEF FileMade
    <3> QED BY <3>1, <3>3
  <2>4. m = c
    BY <2>1, <2>2
  <2> QED BY <1>4, <2>1, <2>3, <2>4
<1>7. /\ fileCall[p] = NoFileCall /\ fileCalls < MaxFileCalls /\ fileCalls' = fileCalls + 1
      /\ fileCall' = [q \in User |-> IF q = p THEN z ELSE [fileCall[q] EXCEPT !.clean = @ /\ q \notin met]]
      /\ inode' = inode /\ data' = data /\ temp' = temp /\ expected' = expected /\ blurred' = blurred
  <2>1. /\ fileCall[p] = NoFileCall /\ fileCalls < MaxFileCalls /\ fileCalls' = fileCalls + 1
        /\ inode' = inode /\ data' = data /\ temp' = temp /\ expected' = expected /\ blurred' = blurred
    BY DEF FileOpen
  <2>2. fileCall' = [q \in User |-> IF q = p THEN [c EXCEPT !.new = fileCalls + 1, !.clean = (met = {})]
                                   ELSE [fileCall[q] EXCEPT !.clean = @ /\ q \notin met]]
    BY ONLY <1>2, <1>3, FileOpen(p, Op(o, f, g, t)) DEF FileOpen
  <2>3. PICK x : x = [c EXCEPT !.new = fileCalls + 1, !.clean = (met = {})]
    OBVIOUS
  <2>4. fileCall' = [q \in User |-> IF q = p THEN x ELSE [fileCall[q] EXCEPT !.clean = @ /\ q \notin met]]
    BY <2>2, <2>3
  <2> QED BY <1>6, <2>1, <2>3, <2>4
<1>8. /\ z.op = o /\ z.from = f /\ z.to = g /\ z.new = fileCalls + 1 /\ z.todo = t /\ z.fd = 0 /\ z.clean = b
      /\ NamesOf(z) = NamesOf(c) /\ NamesOf(c) \subseteq Name
  BY <1>5, <1>6 DEF FileMade, NamesOf
<1>9. FineCall(z) /\ z \in FileCallType /\ z # NoFileCall
  <2>1. t \in UNION {FileCourses(n) : n \in FileOps} /\ g \in Name \cup {"none"} /\ fileCalls + 1 \in Nat /\ 0 \in Inodes
    BY <1>1, InodesAre
  <2>2. z \in FileCallType
    BY <1>5, <2>1 DEF FileMade, FileCallType
  <2>3. FineCall(z)
    BY <1>8, <2>2 DEF FineCall
  <2> QED BY <1>8, <2>2, <2>3, NoFileCallIs
<1>10. fileCall'[p] = z
  BY <1>7
\* The others, as they are after the step.
<1>11. ASSUME NEW q \in User, q # p, fileCall[q] = NoFileCall PROVE fileCall'[q] = NoFileCall
  <2>1. fileCall'[q] = [NoFileCall EXCEPT !.clean = @ /\ q \notin met]
    BY <1>7, <1>11
  <2>2. NoFileCall.clean = FALSE
    BY NoFileCallIs
  <2> QED BY <2>1, <2>2, NoFileCallStays
<1>12. ASSUME NEW q \in User, q # p, fileCall[q] # NoFileCall
       PROVE  /\ FineCall(fileCall'[q]) /\ fileCall'[q] \in FileCallType /\ fileCall'[q] # NoFileCall
              /\ NamesOf(fileCall'[q]) = NamesOf(fileCall[q]) /\ fileCall'[q].from = fileCall[q].from
              /\ fileCall'[q].new = fileCall[q].new /\ fileCall'[q].fd = fileCall[q].fd
              /\ fileCall'[q].todo = fileCall[q].todo
              /\ (fileCall'[q].clean => fileCall[q].clean /\ q \notin met)
  <2>1. PICK x : x = fileCall[q]
    OBVIOUS
  <2>2. FineCall(x) /\ x.clean \in BOOLEAN
    BY <1>1, <1>12, <2>1, CallIs
  <2>3. PICK d \in BOOLEAN : d = (x.clean /\ q \notin met)
    BY <2>2
  <2>4. PICK y : y = [x EXCEPT !.clean = d]
    OBVIOUS
  <2>5. fileCall'[q] = y
    BY <1>7, <1>12, <2>1, <2>3, <2>4
  <2>6. /\ FineCall(y) /\ y \in FileCallType /\ NamesOf(y) = NamesOf(x) /\ y.from = x.from /\ y.new = x.new
        /\ y.fd = x.fd /\ y.todo = x.todo /\ y.clean = d /\ y # NoFileCall
    BY <2>2, <2>4, MetIs
  <2>7. d => x.clean /\ q \notin met
    BY <2>2, <2>3
  <2> QED BY <2>1, <2>5, <2>6, <2>7
<1>13. \A q \in User : q # p /\ fileCall'[q] # NoFileCall => fileCall[q] # NoFileCall
  BY <1>11
<1>14. \A q \in User : q # p /\ (fileCall'[q].fd # 0 \/ fileCall[q].fd # 0) => fileCall[q] # NoFileCall
  BY <1>11, NoFileCallIs
<1>15. NamesTyped'
  <2>1. \A q \in User : fileCall'[q] \in FileCallType \cup {NoFileCall}
    BY <1>9, <1>10, <1>11, <1>12
  <2>2. fileCall' \in [User -> FileCallType \cup {NoFileCall}]
    BY <1>7, <2>1
  <2>3. ASSUME NEW q \in User, fileCall'[q] # NoFileCall
        PROVE  FineCall(fileCall'[q]) /\ fileCall'[q].new \in 1 .. fileCalls'
    <3>1. CASE q = p
      BY <1>1, <1>7, <1>8, <1>9, <1>10, <3>1
    <3>2. CASE q # p
      <4>1. fileCall[q].new \in 1 .. fileCalls
        BY <1>1, <1>13, <2>3, <3>2, CallIs
      <4>2. fileCall[q].new \in 1 .. fileCalls'
        BY <1>1, <1>7, <4>1
      <4> QED BY <1>12, <1>13, <2>3, <3>2, <4>2
    <3> QED BY <3>1, <3>2
  <2>4. fileCalls' \in 0 .. MaxFileCalls
    BY <1>1, <1>7
  <2> QED BY <1>1, <1>7, <2>2, <2>3, <2>4 DEF NamesTyped
<1>16. InodesApart'
  BY <1>1, <1>7 DEF InodesApart
<1>17. NumbersApart'
  <2>1. \A q \in User : q # p /\ fileCall'[q] # NoFileCall =>
          fileCall'[q].new = fileCall[q].new /\ fileCall'[q].new \in 1 .. fileCalls
    BY <1>1, <1>12, <1>13, CallIs
  <2>2. \A q \in User : q # p /\ fileCall'[q] # NoFileCall => fileCall'[q].new # fileCall'[p].new
    BY <1>1, <1>8, <1>10, <2>1
  <2> QED BY <1>1, <1>13, <2>1, <2>2 DEF NumbersApart
<1>18. Spooled'
  <2>1. ASSUME NEW q \in temp PROVE fileCall'[q] # NoFileCall /\ fileCall'[q].todo \in Uploading
    <3>1. q \in User /\ fileCall[q] # NoFileCall /\ fileCall[q].todo \in Uploading
      BY <1>1, <2>1 DEF Spooled
    <3> QED BY <1>7, <1>12, <3>1
  <2> QED BY <1>7, <2>1 DEF Spooled
<1>19. CleanAlone'
  <2>1. ASSUME NEW q \in User, NEW r \in User, q # r, fileCall'[q] # NoFileCall, fileCall'[r] # NoFileCall,
               fileCall'[r].clean
        PROVE  /\ NamesOf(fileCall'[q]) \cap NamesOf(fileCall'[r]) = {}
               /\ fileCall'[q].fd # 0 => \A h \in NamesOf(fileCall'[r]) : inode[h] # fileCall'[q].fd
               /\ fileCall'[r].fd # 0 => \A h \in NamesOf(fileCall'[q]) : inode[h] # fileCall'[r].fd
    <3>1. CASE r = p
      <4>1. /\ fileCall[q] # NoFileCall /\ met = {} /\ q \notin met
            /\ NamesOf(fileCall'[q]) = NamesOf(fileCall[q]) /\ fileCall'[q].fd = fileCall[q].fd
        BY <1>4, <1>8, <1>10, <1>12, <1>13, <2>1, <3>1
      <4>2. \A h \in NamesOf(c) : h \notin NamesOf(fileCall[q]) /\ ~(inode[h] # 0 /\ inode[h] = fileCall[q].fd)
        BY <1>3, <4>1
      <4> QED BY <1>8, <1>10, <3>1, <4>1, <4>2
    <3>2. CASE q = p
      <4>1. /\ fileCall[r] # NoFileCall /\ r \notin met
            /\ NamesOf(fileCall'[r]) = NamesOf(fileCall[r]) /\ fileCall'[r].fd = fileCall[r].fd
        BY <1>12, <1>13, <2>1, <3>2
      <4>2. \A h \in NamesOf(c) : h \notin NamesOf(fileCall[r]) /\ ~(inode[h] # 0 /\ inode[h] = fileCall[r].fd)
        BY <1>3, <4>1
      <4> QED BY <1>8, <1>10, <3>2, <4>1, <4>2
    <3>3. CASE q # p /\ r # p
      <4>1. /\ fileCall[q] # NoFileCall /\ fileCall[r] # NoFileCall /\ fileCall[r].clean
            /\ NamesOf(fileCall'[q]) = NamesOf(fileCall[q]) /\ NamesOf(fileCall'[r]) = NamesOf(fileCall[r])
            /\ fileCall'[q].fd = fileCall[q].fd /\ fileCall'[r].fd = fileCall[r].fd
        BY <1>12, <1>13, <2>1, <3>3
      <4> QED BY <1>1, <2>1, <4>1 DEF CleanAlone
    <3> QED BY <3>1, <3>2, <3>3
  <2> QED BY <1>7, <2>1 DEF CleanAlone, NamesOf
<1>20. Elsewhere'
  <2>1. ASSUME NEW q \in User, fileCall'[q].fd # 0, NEW h \in Name, h \notin NamesOf(fileCall'[q]),
               inode[h] = fileCall'[q].fd
        PROVE  h \in blurred
    <3>1. q # p
      BY <1>8, <1>10, <2>1
    <3>2. fileCall'[q].fd = fileCall[q].fd /\ NamesOf(fileCall'[q]) = NamesOf(fileCall[q])
      BY <1>12, <1>14, <2>1, <3>1
    <3> QED BY <1>1, <2>1, <3>2 DEF Elsewhere
  <2> QED BY <1>7, <2>1 DEF Elsewhere, NamesOf
<1>21. FileOpened'
  <2>1. ASSUME NEW q \in User, fileCall'[q].fd # 0, fileCall'[q].clean
        PROVE  inode[fileCall'[q].from] = fileCall'[q].fd /\ data[fileCall'[q].fd] = Empty
    <3>1. q # p
      BY <1>8, <1>10, <2>1
    <3>2. fileCall'[q].fd = fileCall[q].fd /\ fileCall'[q].from = fileCall[q].from /\ fileCall[q].clean
      BY <1>12, <1>14, <2>1, <3>1
    <3> QED BY <1>1, <2>1, <3>2 DEF FileOpened
  <2> QED BY <1>7, <2>1 DEF FileOpened, Empty
<1>22. NamesKept'
  <2>1. ASSUME NEW h \in Name, h \notin blurred
        PROVE  \/ Held(h)' = expected[h]
               \/ \E q \in User : /\ fileCall'[q] # NoFileCall /\ h \in NamesOf(fileCall'[q])
                                  /\ ~fileCall'[q].clean \/ fileCall'[q].fd # 0
    <3>1. Held(h)' = Held(h)
      BY <1>7 DEF Held, Absent
    <3>2. CASE \E q \in User : /\ fileCall[q] # NoFileCall /\ h \in NamesOf(fileCall[q])
                               /\ ~fileCall[q].clean \/ fileCall[q].fd # 0
      <4>1. PICK q \in User : /\ fileCall[q] # NoFileCall /\ h \in NamesOf(fileCall[q])
                              /\ ~fileCall[q].clean \/ fileCall[q].fd # 0
        BY <3>2
      <4>2. q # p
        BY <1>7, <4>1
      <4> QED BY <1>12, <4>1, <4>2
    <3> QED BY <1>1, <2>1, <3>1, <3>2 DEF NamesKept
  <2> QED BY <1>7, <2>1 DEF NamesKept, NamesOf
<1> QED BY <1>15, <1>16, <1>17, <1>18, <1>19, <1>20, <1>21, <1>22 DEF FilesInv

-----------------------------------------------------------------------------
(* Every step keeps the invariant.                                           *)

LEMMA RequestKeeps ==
  ASSUME FilesInv, NEW p \in User, NEW f \in Name,
         \/ WriteFile(p, f) \/ CreateFile(p, f) \/ DeleteFile(p, f) \/ UploadFile(p, f)
         \/ SetPermissions(p, f) \/ ExtractArchive(p, f)
         \/ \E g \in Name : MoveFile(p, f, g) \/ CopyFile(p, f, g)
  PROVE  FilesInv'
<1> DEFINE CourseOf(o, t) == /\ t \in FileCourses(o) /\ Head(t) # "fill"
                           /\ o \in FileOps
<1>1. CASE WriteFile(p, f)
  <2>1. PICK t : t = <<"tee", "fill">>
    OBVIOUS
  <2>2. CourseOf("write", t) /\ FileOpen(p, Op("write", f, "none", t))
    BY <1>1, <2>1, Two DEF WriteFile, FileCourses, FileOps
  <2> QED BY <2>2, FileOpens
<1>2. CASE CreateFile(p, f)
  <2>1. PICK t : t = <<"absent", "mkdir", "touch">>
    OBVIOUS
  <2>2. CourseOf("create", t) /\ FileOpen(p, Op("create", f, "none", t))
    BY <1>2, <2>1, Three DEF CreateFile, FileCourses, FileOps
  <2> QED BY <2>2, FileOpens
<1>3. CASE DeleteFile(p, f)
  <2>1. PICK t : t = <<"present", "rm">>
    OBVIOUS
  <2>2. CourseOf("delete", t) /\ FileOpen(p, Op("delete", f, "none", t))
    BY <1>3, <2>1, Two DEF DeleteFile, FileCourses, FileOps
  <2> QED BY <2>2, FileOpens
<1>4. CASE UploadFile(p, f)
  <2>1. PICK t : t = <<"base64", "spool", "fetch", "unlink">>
    OBVIOUS
  <2>2. CourseOf("upload", t) /\ FileOpen(p, Op("upload", f, "none", t))
    BY <1>4, <2>1, Four DEF UploadFile, FileCourses, FileOps
  <2> QED BY <2>2, FileOpens
<1>5. CASE SetPermissions(p, f)
  <2>1. PICK t : t = <<"chmod">>
    OBVIOUS
  <2>2. CourseOf("mode", t) /\ FileOpen(p, Op("mode", f, "none", t))
    BY <1>5, <2>1, One DEF SetPermissions, FileCourses, FileOps
  <2> QED BY <2>2, FileOpens
<1>6. CASE ExtractArchive(p, f)
  <2>1. PICK t : t = <<"present", "unpack">>
    OBVIOUS
  <2>2. CourseOf("extract", t) /\ FileOpen(p, Op("extract", f, "none", t))
    BY <1>6, <2>1, Two DEF ExtractArchive, FileCourses, FileOps
  <2> QED BY <2>2, FileOpens
<1>7. ASSUME NEW g \in Name, MoveFile(p, f, g) PROVE FilesInv'
  <2>1. PICK t : t = <<"present", "mv">>
    OBVIOUS
  <2>2. CourseOf("move", t) /\ FileOpen(p, Op("move", f, g, t)) /\ g # f
    BY <1>7, <2>1, Two DEF MoveFile, FileCourses, FileOps
  <2> QED BY <2>2, FileOpens
<1>8. ASSUME NEW g \in Name, CopyFile(p, f, g) PROVE FilesInv'
  <2>1. PICK t : t = <<"present", "cp">>
    OBVIOUS
  <2>2. CourseOf("copy", t) /\ FileOpen(p, Op("copy", f, g, t)) /\ g # f
    BY <1>8, <2>1, Two DEF CopyFile, FileCourses, FileOps
  <2> QED BY <2>2, FileOpens
<1> QED BY <1>1, <1>2, <1>3, <1>4, <1>5, <1>6, <1>7, <1>8

\* A step that a request ends at, with an error.
LEMMA EndsRefused ==
  ASSUME FilesInv, NEW p \in User, NEW s, FileAt(p, s), s # "fill", Refused(p),
         temp' = IF s = "unlink" THEN temp \ {p} ELSE temp, s # "fetch",
         fileCalls' = fileCalls, inode' = inode, data' = data
  PROVE  FilesInv'
<1>1. NamesTyped
  BY DEF FilesInv
<1>2. fileCall[p] # NoFileCall /\ fileCall[p].fd = 0
  <2>1. fileCall[p] # NoFileCall /\ (fileCall[p].fd # 0 <=> s = "fill")
    BY <1>1, FileStepAt
  <2> QED BY <2>1
<1>3. temp' = temp \ {p}
  <2>1. CASE s = "unlink"
    BY <2>1
  <2>2. CASE s # "unlink"
    <3>1. temp \ {p} = temp
      BY <2>2, NotSpooled
    <3> QED BY <2>2, <3>1
  <2> QED BY <2>1, <2>2
<1> QED BY <1>2, <1>3, RefusedKeeps

LEMMA LookKeeps == ASSUME FilesInv, NEW p \in User, Look(p) PROVE FilesInv'
<1>1. PICK s : s \in {"present", "absent"} /\ FileAt(p, s)
  BY DEF Look
<1>2. s \in GoingOn /\ s \notin {"fill", "fetch", "unlink", "spool"}
  BY <1>1 DEF GoingOn
<1>3. temp' = temp /\ fileCalls' = fileCalls /\ inode' = inode /\ data' = data /\ (FileOn(p) \/ Refused(p))
  BY DEF Look
<1> QED BY <1>1, <1>2, <1>3, GoingOnKeeps, EndsRefused

LEMMA OtherKeeps == ASSUME FilesInv, NEW p \in User, Other(p) PROVE FilesInv'
<1>1. temp' = temp /\ fileCalls' = fileCalls /\ inode' = inode /\ data' = data
  BY DEF Other
<1>2. CASE FileAt(p, "chmod")
  <2>1. PICK s : s = "chmod"
    OBVIOUS
  <2>2. FileAt(p, s) /\ s \notin {"fill", "fetch", "unlink"} /\ Refused(p)
    BY <1>2, <2>1 DEF Other
  <2> QED BY <1>1, <2>2, EndsRefused
<1>3. CASE ~FileAt(p, "chmod")
  <2>1. PICK s : s = "mkdir"
    OBVIOUS
  <2>2. FileAt(p, s) /\ s # "spool" /\ s \in GoingOn /\ FileOn(p)
    BY <1>3, <2>1 DEF Other, GoingOn
  <2> QED BY <1>1, <2>2, GoingOnKeeps
<1> QED BY <1>2, <1>3

LEMMA SpoolKeeps == ASSUME FilesInv, NEW p \in User, Spool(p) PROVE FilesInv'
<1>1. PICK s : s = "spool"
  OBVIOUS
<1>2. /\ FileAt(p, s) /\ s \in GoingOn /\ FileOn(p) /\ temp' = temp \cup {p}
      /\ fileCalls' = fileCalls /\ inode' = inode /\ data' = data
  BY <1>1 DEF Spool, GoingOn
<1> QED BY <1>1, <1>2, GoingOnKeeps

LEMMA UnlinkKeeps == ASSUME FilesInv, NEW p \in User, Unlink(p) PROVE FilesInv'
<1>1. PICK s : s = "unlink"
  OBVIOUS
<1>2. /\ FileAt(p, s) /\ Refused(p) /\ temp' = temp \ {p} /\ s # "fill" /\ s # "fetch"
      /\ fileCalls' = fileCalls /\ inode' = inode /\ data' = data
  BY <1>1 DEF Unlink
<1> QED BY <1>1, <1>2, EndsRefused

\* A save that is answered though it did not reach the file.
LEMMA SaveInDoubt ==
  ASSUME FilesInv, NEW p \in User, NEW s \in {"tee", "fill"}, FileAt(p, s),
         fileCall' = [fileCall EXCEPT ![p] = NoFileCall], blurred' = blurred \cup NamesOf(fileCall[p]),
         expected' = expected, temp' = temp, fileCalls' = fileCalls, inode' = inode, data' = data
  PROVE  FilesInv'
<1>1. NamesTyped
  BY DEF FilesInv
<1>2. fileCall[p] # NoFileCall /\ temp \ {p} = temp
  BY <1>1, FileStepAt, NotSpooled
<1>3. temp' = temp \ {p}
  BY <1>2
<1> QED BY <1>2, <1>3, InDoubtKeeps

LEMMA NotAllowedKeeps == ASSUME FilesInv, NEW p \in User, NotAllowed(p) PROVE FilesInv'
<1>1. /\ temp' = temp /\ fileCalls' = fileCalls /\ inode' = inode /\ data' = data
      /\ \/ FileAt(p, "tee") \/ FileAt(p, "mkdir") \/ FileAt(p, "rm") \/ FileAt(p, "mv")
         \/ FileAt(p, "cp") \/ FileAt(p, "chmod")
         \/ \E s \in {"touch", "base64", "fetch", "unpack"} : FileAt(p, s)
  BY DEF NotAllowed, Ran
<1>2. PICK s : /\ FileAt(p, s)
               /\ s \in {"tee", "mkdir", "rm", "mv", "cp", "chmod", "touch", "base64", "fetch", "unpack"}
  BY <1>1
<1>3. \A r \in {"tee", "mkdir", "base64", "fetch"} : FileAt(p, r) <=> s = r
  BY <1>2 DEF FileAt
<1>4. CASE s = "tee"
  <2>1. /\ fileCall' = [fileCall EXCEPT ![p] = NoFileCall] /\ blurred' = blurred \cup NamesOf(fileCall[p])
        /\ expected' = expected
    BY <1>3, <1>4 DEF NotAllowed
  <2> QED BY <1>1, <1>2, <1>4, <2>1, SaveInDoubt
<1>5. CASE s \in {"mkdir", "base64", "fetch"}
  <2>1. s \in GoingOn /\ s # "spool" /\ FileOn(p)
    BY <1>3, <1>5 DEF NotAllowed, GoingOn
  <2> QED BY <1>1, <1>2, <2>1, GoingOnKeeps
<1>6. CASE s \notin {"tee", "mkdir", "base64", "fetch"}
  <2>1. Refused(p)
    BY <1>3, <1>6 DEF NotAllowed
  <2>2. s # "fill" /\ s # "unlink" /\ s # "fetch"
    BY <1>2, <1>6
  <2> QED BY <1>1, <1>2, <2>1, <2>2, EndsRefused
<1> QED BY <1>4, <1>5, <1>6

LEMMA FileCommandFailsKeeps == ASSUME FilesInv, NEW p \in User, FileCommandFails(p) PROVE FilesInv'
<1>1. temp' = temp /\ fileCalls' = fileCalls /\ inode' = inode /\ data' = data
  BY DEF FileCommandFails
<1>2. CASE /\ FileAt(p, "tee") \/ FileAt(p, "fill")
           /\ fileCall' = [fileCall EXCEPT ![p] = NoFileCall]
           /\ blurred' = blurred \cup NamesOf(fileCall[p]) /\ expected' = expected
  <2>1. PICK s \in {"tee", "fill"} : FileAt(p, s)
    BY <1>2
  <2> QED BY <1>1, <1>2, <2>1, SaveInDoubt
<1>3. CASE (FileAt(p, "rm") \/ FileAt(p, "mv") \/ FileAt(p, "cp") \/ FileAt(p, "chmod")) /\ Refused(p)
  <2>1. PICK s \in {"rm", "mv", "cp", "chmod"} : FileAt(p, s)
    BY <1>3
  <2>2. s # "fill" /\ s # "unlink" /\ s # "fetch"
    BY <2>1
  <2> QED BY <1>1, <1>3, <2>1, <2>2, EndsRefused
<1>4. CASE FileAt(p, "mkdir") /\ FileOn(p)
  <2>1. PICK s : s = "mkdir"
    OBVIOUS
  <2>2. s \in GoingOn /\ s # "spool" /\ FileAt(p, s)
    BY <1>4, <2>1 DEF GoingOn
  <2> QED BY <1>1, <1>4, <2>2, GoingOnKeeps
<1> QED BY <1>2, <1>3, <1>4 DEF FileCommandFails

LEMMA SourceGoneKeeps == ASSUME FilesInv, NEW p \in User, SourceGone(p) PROVE FilesInv'
<1>1. temp' = temp /\ fileCalls' = fileCalls /\ inode' = inode /\ data' = data /\ Refused(p)
  BY DEF SourceGone
<1>2. PICK s \in {"mv", "cp"} : FileAt(p, s)
  BY DEF SourceGone
<1>3. s # "fill" /\ s # "unlink" /\ s # "fetch"
  BY <1>2
<1> QED BY <1>1, <1>2, <1>3, EndsRefused

LEMMA FilesInitInv == FileInit => FilesInv
<1> SUFFICES ASSUME FileInit PROVE FilesInv
  OBVIOUS
<1>1. PICK g \in Name : inode = [f \in Name |-> IF f = g THEN 1 ELSE 0]
  BY DEF FileInit
<1>2. /\ data = [i \in Inodes |-> 0] /\ expected = [f \in Name |-> IF inode[f] = 1 THEN 0 ELSE Absent]
      /\ fileCall = [p \in User |-> NoFileCall] /\ temp = {} /\ blurred = {} /\ fileCalls = 0
  BY DEF FileInit
<1>3. 0 \in Inodes /\ 1 \in Inodes /\ 0 \in 0 .. Mixed /\ Absent \in 0 .. Absent /\ 0 \in 0 .. Absent /\ MaxFileCalls \in Nat
  <2>1. Cardinality(Name) # 0
    BY FileAssumption, FS_EmptySet
  <2>2. MaxFileCalls \in Nat /\ Cardinality(Name) \in Nat /\ Cardinality(Name) > 0
    BY <2>1, InodesAre
  <2> QED BY <2>2 DEF Inodes, Mixed, Absent
<1>4. NamesTyped
  <2>1. inode \in [Name -> Inodes] /\ data \in [Inodes -> 0 .. Mixed] /\ expected \in [Name -> 0 .. Absent]
    BY <1>1, <1>2, <1>3
  <2> QED BY <1>2, <1>3, <2>1 DEF NamesTyped
<1>5. InodesApart
  BY <1>1 DEF InodesApart
<1>6. NumbersApart /\ Spooled /\ CleanAlone
  BY <1>2 DEF NumbersApart, Spooled, CleanAlone
<1>7. Elsewhere /\ FileOpened
  BY <1>2, NoFileCallIs DEF Elsewhere, FileOpened
<1>8. NamesKept
  <2>1. \A f \in Name : Held(f) = expected[f]
    <3>1. ASSUME NEW f \in Name, inode[f] = 0 PROVE Held(f) = expected[f]
      BY <1>2, <3>1 DEF Held
    <3>2. ASSUME NEW f \in Name, inode[f] # 0 PROVE Held(f) = expected[f]
      <4>1. inode[f] = 1
        BY <1>1, <3>2
      <4> QED BY <1>2, <1>3, <4>1 DEF Held
    <3> QED BY <3>1, <3>2
  <2> QED BY <2>1 DEF NamesKept
<1> QED BY <1>4, <1>5, <1>6, <1>7, <1>8 DEF FilesInv

LEMMA FilesNextInv == FilesInv /\ [FileNext]_fileVars => FilesInv'
<1> SUFFICES ASSUME FilesInv, [FileNext]_fileVars PROVE FilesInv'
  OBVIOUS
<1>1. CASE UNCHANGED fileVars
  <2>1. /\ inode' = inode /\ data' = data /\ fileCall' = fileCall /\ temp' = temp /\ expected' = expected
        /\ blurred' = blurred /\ fileCalls' = fileCalls
    BY <1>1 DEF fileVars
  <2>2. NamesTyped' /\ InodesApart' /\ NumbersApart' /\ Spooled'
    BY <2>1 DEF FilesInv, NamesTyped, InodesApart, NumbersApart, Spooled
  <2>3. CleanAlone' /\ Elsewhere' /\ FileOpened' /\ NamesKept'
    BY <2>1 DEF FilesInv, CleanAlone, Elsewhere, FileOpened, NamesKept, Held, Absent, Empty
  <2> QED BY <2>2, <2>3 DEF FilesInv
<1>2. CASE FileNext
  <2>1. PICK p \in User :
          \/ \E f \in Name :
               \/ WriteFile(p, f) \/ CreateFile(p, f) \/ DeleteFile(p, f) \/ UploadFile(p, f)
               \/ SetPermissions(p, f) \/ ExtractArchive(p, f)
               \/ \E g \in Name : MoveFile(p, f, g) \/ CopyFile(p, f, g)
          \/ Look(p) \/ Tee(p) \/ Fill(p) \/ Rm(p) \/ Mv(p) \/ Cp(p) \/ Other(p)
          \/ Spool(p) \/ Unlink(p) \/ NotAllowed(p) \/ FileCommandFails(p) \/ SourceGone(p)
    BY <1>2 DEF FileNext
  <2>2. ASSUME NEW f \in Name,
               \/ WriteFile(p, f) \/ CreateFile(p, f) \/ DeleteFile(p, f) \/ UploadFile(p, f)
               \/ SetPermissions(p, f) \/ ExtractArchive(p, f)
               \/ \E g \in Name : MoveFile(p, f, g) \/ CopyFile(p, f, g)
        PROVE  FilesInv'
    BY <2>2, RequestKeeps
  <2>3. CASE Look(p) \/ Tee(p) \/ Fill(p) \/ Rm(p) \/ Mv(p) \/ Cp(p)
    BY <2>3, LookKeeps, TeeKeeps, FillKeeps, RmKeeps, MvKeeps, CpKeeps
  <2>4. CASE Other(p) \/ Spool(p) \/ Unlink(p) \/ NotAllowed(p) \/ FileCommandFails(p) \/ SourceGone(p)
    BY <2>4, OtherKeeps, SpoolKeeps, UnlinkKeeps, NotAllowedKeeps, FileCommandFailsKeeps, SourceGoneKeeps
  <2> QED BY <2>1, <2>2, <2>3, <2>4
<1> QED BY <1>1, <1>2

LEMMA FilesAlways == FileSpec => []FilesInv
BY FilesInitInv, FilesNextInv, PTL DEF FileSpec

LEMMA FilesInvTypes == FilesInv => FileTypeOK
BY DEF FilesInv, NamesTyped, InodesApart, FileTypeOK

\* The types, and that two names never lead to one inode: a file that tee or cp makes
\* takes an inode that no name and no running tee has, of which there always is one.
THEOREM FileManagerTyped == FileSpec => []FileTypeOK
BY FilesAlways, FilesInvTypes, PTL

LEMMA FilesInvAnswered == FilesInv => FilesAsAnswered
<1> SUFFICES ASSUME FilesInv, FileQuiet PROVE temp = {} /\ \A f \in Name \ blurred : Held(f) = expected[f]
  BY DEF FilesAsAnswered
<1>1. \A p \in User : fileCall[p] = NoFileCall
  BY DEF FileQuiet
<1>2. temp = {}
  BY <1>1 DEF FilesInv, NamesTyped, Spooled
<1>3. \A f \in Name \ blurred : Held(f) = expected[f]
  BY <1>1 DEF FilesInv, NamesKept
<1> QED BY <1>2, <1>3

\* For any number of names and requests, however many commands fail or are refused: once
\* no request is in flight a name that is not in doubt leads to what the answered
\* requests have made of it (modules/file-manager), and /tmp holds no upload.
THEOREM FilesInStep == FileSpec => []FilesAsAnswered
BY FilesAlways, FilesInvAnswered, PTL

-----------------------------------------------------------------------------
(* The services beside each other, as they are checked.                      *)

\* The services have no state in common: a behaviour of all of them is one of each, which
\* moves as that service alone would, or stands still.
LEMMA EachOnItsOwn ==
  MCSpec => MailSpec /\ AccountSpec /\ DatabasesSpec /\ FileSpec /\ DnsSpec
<1>1. MCInit => MailInit /\ AccountInit /\ DatabasesInit /\ FileInit /\ DnsInit
  BY DEF MCInit
<1> DEFINE moved == [MCNext]_<<mailVars, accountVars, databaseVars, fileVars, dnsVars, part>>
<1>2. moved => [MailNext]_mailVars
  BY DEF MCNext
<1>3. moved => [AccountNext]_accountVars
  BY DEF MCNext
<1>4. moved => [DatabasesNext]_databaseVars
  BY DEF MCNext
<1>5. moved => [FileNext]_fileVars
  BY DEF MCNext
<1>6. moved => [DnsNext]_dnsVars
  BY DEF MCNext
<1> QED BY <1>1, <1>2, <1>3, <1>4, <1>5, <1>6, PTL
        DEF MCSpec, MailSpec, AccountSpec, DatabasesSpec, FileSpec, DnsSpec

PartIs == part \in {"mail", "account", "databases", "files", "zones"}

\* The types of every service, however they are mixed, in every state.
THEOREM HostingTyped ==
  ASSUME "unconfig" \notin Fragile
  PROVE  MCSpec => []HostingTypeOK
<1>1. MailTypeOK /\ AccountTypeOK /\ DatabasesTypeOK /\ FileTypeOK /\ DnsTypeOK /\ PartIs => HostingTypeOK
  BY DEF HostingTypeOK, PartIs
<1>2. MCSpec => []PartIs
  <2>1. MCInit => PartIs
    BY DEF MCInit, PartIs
  <2>2. PartIs /\ [MCNext]_<<mailVars, accountVars, databaseVars, fileVars, dnsVars, part>> => PartIs'
    BY DEF MCNext, PartIs
  <2> QED BY <2>1, <2>2, PTL DEF MCSpec
<1>3. DnsSpec => []DnsTypeOK
  BY DnsTyped
<1> QED BY <1>1, <1>2, <1>3, EachOnItsOwn, MailTyped, AccountTyped, DatabasesTyped, FileManagerTyped, PTL
=============================================================================
