----------------------------- MODULE MCHosting -----------------------------
(***************************************************************************)
(* The services that keep rows of the panel and something on the server in *)
(* step, each with no state in common with the others: a behaviour         *)
(* exercises one of them, chosen at the start.                             *)
(***************************************************************************)
EXTENDS MailMaps, AccountFiles, Databases, FileManager, DnsZones

VARIABLE part

\* The file that is there at the start: of the plain ones any is as good as another.
Present == {CHOOSE f \in Name : f \in Plain} \cup (IF part = "files" THEN Name \ Plain ELSE {})

MCInit ==
  /\ part \in {"mail", "account", "databases", "files", "zones"}
  /\ MailInit /\ AccountInit /\ DatabasesInit /\ FileInit /\ DnsInit
  /\ part # "account" => refused = {}
  /\ part # "databases" => ~sqlDown
  /\ \E f \in Present : inode[f] = 1

MCNext ==
  /\ UNCHANGED part
  /\ \/ part = "mail"      /\ MailNext      /\ UNCHANGED <<accountVars, databaseVars, fileVars, dnsVars>>
     \/ part = "account"   /\ AccountNext   /\ UNCHANGED <<mailVars, databaseVars, fileVars, dnsVars>>
     \/ part = "databases" /\ DatabasesNext /\ UNCHANGED <<mailVars, accountVars, fileVars, dnsVars>>
     \/ part = "files"     /\ FileNext      /\ UNCHANGED <<mailVars, accountVars, databaseVars, dnsVars>>
     \/ part = "zones"     /\ DnsNext       /\ UNCHANGED <<mailVars, accountVars, databaseVars, fileVars>>

MCSpec == MCInit /\ [][MCNext]_<<mailVars, accountVars, databaseVars, fileVars, dnsVars, part>>

\* The others never move: two states are told apart by this part.
Moving ==
  CASE part = "mail"      -> <<part, mailVars>>
    [] part = "account"   -> <<part, accountVars>>
    [] part = "databases" -> <<part, databaseVars>>
    [] part = "files"     -> <<part, fileVars>>
    [] part = "zones"     -> <<part, dnsVars>>

\* The type invariant of the part that moves; the others keep their first state.
HostingTypeOK ==
  CASE part = "mail"      -> MailTypeOK
    [] part = "account"   -> AccountTypeOK
    [] part = "databases" -> DatabasesTypeOK
    [] part = "files"     -> FileTypeOK
    [] part = "zones"     -> DnsTypeOK
=============================================================================
