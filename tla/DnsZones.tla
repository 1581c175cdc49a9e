------------------------------ MODULE DnsZones ------------------------------
(***************************************************************************)
(* The zones the panel serves with BIND (modules/dns): the rows of a zone  *)
(* and of its records, the zone file, the entry in named.conf, and what    *)
(* named answers.  Requests interleave between any two awaits, on one zone *)
(* too; only a zone that is still PENDING has one request at a time.       *)
(***************************************************************************)
EXTENDS Naturals, Sequences, FiniteSets

CONSTANTS Zone,        \* zones that may be created
          Record,      \* records that may be added besides the default ones
          Broken,      \* those that named-checkzone refuses
          Requester,      \* requests that may be in flight at once
          Fragile,     \* steps that may fail
          MaxZoneRequests, \* bound on requests
          MaxZoneFaults    \* bound on steps that fail

ASSUME ZoneAssumption   == "none" \notin Zone
ASSUME BrokenAssumption == Broken \subseteq Record
ASSUME RequesterAssumption == Requester \subseteq Nat
ASSUME DnsBoundAssumption  == {MaxZoneRequests, MaxZoneFaults} \subseteq Nat

VARIABLES
  status,  \* DnsZone.status, or none without a row
  records, \* the rows of its records, besides the default ones
  file,    \* what the zone file holds
  conf,    \* how many entries of the zone named.conf has
  served,  \* what named answers
  op,      \* the requests in flight, each with what it has loaded
  mixed,   \* history: zones whose last requests overlapped
  skipped, \* history: zones a deletion of which went on past a failure
  requests, faults

counters == <<requests, faults>>
history  == <<mixed, skipped>>
dnsVars == <<status, records, file, conf, served, op, history, counters>>

None == {"none"}
NoRequest == [zone |-> "none", todo |-> <<>>, seen |-> "none", loaded |-> {}]

Row(z)   == status[z] # "none"
Quiet(z) == \A p \in Requester : op[p].zone # z
At(p, s) == op[p].todo # <<>> /\ Head(op[p].todo) = s

Sound(content) == content # None /\ content \cap Broken = {}

\* The steps of writeAndReloadZone(): the file is written before it is checked.
Publish == <<"load", "write", "check", "config", "reload", "active">>

\* The steps of deleteZone().
Withdraw == <<"unconfig", "unlink", "reloadAll", "remove">>

DnsInit ==
  /\ status  = [z \in Zone |-> "none"]
  /\ records = [z \in Zone |-> {}]
  /\ file    = [z \in Zone |-> None]
  /\ conf    = [z \in Zone |-> 0]
  /\ served  = [z \in Zone |-> None]
  /\ op      = [p \in Requester |-> NoRequest]
  /\ mixed = {} /\ skipped = {}
  /\ requests = 0 /\ faults = 0

-----------------------------------------------------------------------------
(* Requests.                                                                *)

\* Requests in flight are numbered: a new one takes the first number that is free.
Ask(p) ==
  /\ op[p] = NoRequest /\ \A q \in Requester : q < p => op[q] # NoRequest
  /\ requests < MaxZoneRequests /\ requests' = requests + 1

\* The zone is loaded once: its status of that moment says whether it is new.  A
\* request that runs alone makes good what earlier ones have mixed up.
Open(p, z, steps, seen) ==
  /\ op' = [op EXCEPT ![p] = [NoRequest EXCEPT !.zone = z, !.todo = steps, !.seen = seen]]
  /\ mixed' = CASE ~Quiet(z) -> mixed \cup {z}
                [] Quiet(z) /\ Row(z) -> mixed \ {z}
                [] OTHER -> mixed

CreateZone(p, z) ==
  /\ Ask(p) /\ ~Row(z) /\ Quiet(z)
  /\ Open(p, z, <<"insert", "defaults">> \o Publish, "PENDING")
  /\ UNCHANGED <<status, records, file, conf, served, skipped, faults>>

\* createRecord(), deleteRecord(), updateRecord(), applyTemplate() and, with the
\* same records, updateZone(): rows of records are saved, then the zone with its
\* next serial; then it is published.
ChangeRecords(p, z) ==
  /\ Ask(p) /\ Row(z) /\ (status[z] = "PENDING" => Quiet(z))
  /\ \E rs \in SUBSET Record : records' = [records EXCEPT ![z] = rs]
  /\ Open(p, z, <<"serial">> \o Publish, status[z])
  /\ UNCHANGED <<status, file, conf, served, skipped, faults>>

DeleteZone(p, z) ==
  /\ Ask(p) /\ Row(z) /\ (status[z] = "PENDING" => Quiet(z))
  /\ Open(p, z, Withdraw, status[z])
  /\ UNCHANGED <<status, records, file, conf, served, skipped, faults>>

-----------------------------------------------------------------------------
(* The steps of a request.                                                  *)

Advance(p) ==
  op' = [op EXCEPT ![p] = IF Len(op[p].todo) = 1 THEN NoRequest ELSE [op[p] EXCEPT !.todo = Tail(@)]]

End(p) == op' = [op EXCEPT ![p] = NoRequest]

\* save() of the zone inserts it again when its row was deleted meanwhile.
Saves(p, value) == status' = [status EXCEPT ![op[p].zone] = value]

Insert(p) ==
  /\ At(p, "insert")
  /\ Saves(p, "PENDING")
  /\ Advance(p)
  /\ UNCHANGED <<records, file, conf, served, history, counters>>

\* The default records are in every file and left out of the sets.
Defaults(p) ==
  /\ At(p, "defaults")
  /\ Advance(p)
  /\ UNCHANGED <<status, records, file, conf, served, history, counters>>

\* The zone is saved with its next serial, and with the status it was loaded with.
Serial(p) ==
  /\ At(p, "serial")
  /\ Saves(p, op[p].seen)
  /\ Advance(p)
  /\ UNCHANGED <<records, file, conf, served, history, counters>>

Load(p) ==
  LET z == op[p].zone IN
  /\ At(p, "load")
  /\ op' = [op EXCEPT ![p] = IF Row(z) THEN [op[p] EXCEPT !.todo = Tail(@), !.loaded = records[z]]
                                       ELSE NoRequest]
  /\ UNCHANGED <<status, records, file, conf, served, history, counters>>

Write(p) ==
  /\ At(p, "write")
  /\ file' = [file EXCEPT ![op[p].zone] = op[p].loaded]
  /\ Advance(p)
  /\ UNCHANGED <<status, records, conf, served, history, counters>>

\* Mutant: the result of named-checkzone is not looked at.
Passes_Always(z) == TRUE

Passes(z) == Sound(file[z])

Check(p) ==
  /\ At(p, "check") /\ Passes(op[p].zone)
  /\ Advance(p)
  /\ UNCHANGED <<status, records, file, conf, served, history, counters>>

IsNew(p) == op[p].seen = "PENDING"

\* What tee returns is not looked at.
Config(p) ==
  LET z == op[p].zone IN
  /\ At(p, "config")
  /\ \/ conf' = [conf EXCEPT ![z] = IF IsNew(p) THEN @ + 1 ELSE @] /\ UNCHANGED faults
     \/ /\ IsNew(p) /\ "config" \in Fragile /\ faults < MaxZoneFaults
        /\ faults' = faults + 1 /\ UNCHANGED conf
  /\ Advance(p)
  /\ UNCHANGED <<status, records, file, served, history, requests>>

\* named reads the file of a zone it is asked to reload; a file that is not
\* sound leaves it with what it had, and rndc does not tell.
Reload(p) ==
  LET z == op[p].zone IN
  /\ At(p, "reload") /\ (served[z] # None \/ conf[z] = 1)
  /\ served' = [served EXCEPT ![z] = IF Sound(file[z]) THEN file[z] ELSE @]
  /\ Advance(p)
  /\ UNCHANGED <<status, records, file, conf, history, counters>>

\* named does not know the zone: named.conf has none, or named has not read it
\* since the entry was added.
ReloadUnknown(p) ==
  /\ At(p, "reload") /\ served[op[p].zone] = None
  /\ Saves(p, "ERROR") /\ End(p)
  /\ UNCHANGED <<records, file, conf, served, history, counters>>

Activate(p) ==
  /\ At(p, "active")
  /\ Saves(p, "ACTIVE")
  /\ Advance(p)
  /\ UNCHANGED <<records, file, conf, served, history, counters>>

\* The file is refused, or a command fails: the row says so.
PublishFails(p) ==
  /\ \/ At(p, "check") /\ ~Passes(op[p].zone) /\ UNCHANGED faults
     \/ /\ \E s \in {"write", "check", "reload"} \cap Fragile : At(p, s)
        /\ faults < MaxZoneFaults /\ faults' = faults + 1
  /\ Saves(p, "ERROR") /\ End(p)
  /\ UNCHANGED <<records, file, conf, served, history, requests>>

\* The database fails while a zone is created: nothing is taken back.
CreateFails(p) ==
  /\ \E s \in {"insert", "defaults"} \cap Fragile : At(p, s)
  /\ faults < MaxZoneFaults /\ faults' = faults + 1
  /\ End(p)
  /\ UNCHANGED <<status, records, file, conf, served, history, requests>>

\* sed deletes every entry of the zone.
Unconfig(p) ==
  /\ At(p, "unconfig")
  /\ conf' = [conf EXCEPT ![op[p].zone] = 0]
  /\ Advance(p)
  /\ UNCHANGED <<status, records, file, served, history, counters>>

UnlinkZone(p) ==
  /\ At(p, "unlink")
  /\ file' = [file EXCEPT ![op[p].zone] = None]
  /\ Advance(p)
  /\ UNCHANGED <<status, records, conf, served, history, counters>>

\* What named answers once it has read named.conf and every file: a zone whose
\* file is missing or not sound keeps what it had, if it had anything.
Read(kept) ==
  [z \in Zone |-> IF conf[z] = 0 THEN None ELSE IF Sound(file[z]) THEN file[z] ELSE kept[z]]

\* An entry that is there twice makes named refuse its configuration.
ReloadAll(p) ==
  /\ At(p, "reloadAll")
  /\ served' = IF \A y \in Zone : conf[y] <= 1 THEN Read(served) ELSE served
  /\ Advance(p)
  /\ UNCHANGED <<status, records, file, conf, history, counters>>

\* Results of the commands of a deletion are not looked at.
WithdrawFails(p) ==
  /\ \E s \in {"unconfig", "unlink", "reloadAll"} \cap Fragile : At(p, s)
  /\ faults < MaxZoneFaults /\ faults' = faults + 1
  /\ skipped' = skipped \cup {op[p].zone}
  /\ Advance(p)
  /\ UNCHANGED <<status, records, file, conf, served, mixed, requests>>

\* onDelete: CASCADE.
Cascade(z) == {}

Remove(p) ==
  LET z == op[p].zone IN
  /\ At(p, "remove")
  /\ status'  = [status EXCEPT ![z] = "none"]
  /\ records' = [records EXCEPT ![z] = Cascade(z)]
  /\ Advance(p)
  /\ UNCHANGED <<file, conf, served, history, counters>>

\* named restarts, with the machine or by hand: it answers nothing when it
\* refuses its configuration.
NamedRestarts ==
  /\ LET nothing == [z \in Zone |-> None] IN
       served' = IF \A z \in Zone : conf[z] <= 1 THEN Read(nothing) ELSE nothing
  /\ UNCHANGED <<status, records, file, conf, op, history, counters>>

Step(p) ==
  \/ Insert(p) \/ Defaults(p) \/ Serial(p) \/ Load(p) \/ Write(p) \/ Check(p) \/ Config(p)
  \/ Reload(p) \/ Activate(p) \/ ReloadUnknown(p) \/ PublishFails(p) \/ CreateFails(p)
  \/ Unconfig(p) \/ UnlinkZone(p) \/ ReloadAll(p) \/ Remove(p) \/ WithdrawFails(p)

DnsNext ==
  \/ \E p \in Requester :
       \/ \E z \in Zone : CreateZone(p, z) \/ ChangeRecords(p, z) \/ DeleteZone(p, z)
       \/ Step(p)
  \/ NamedRestarts

DnsSpec == DnsInit /\ [][DnsNext]_dnsVars

-----------------------------------------------------------------------------
\* Types; a zone without a row has no records.
DnsTypeOK ==
  /\ status \in [Zone -> {"none", "PENDING", "ACTIVE", "ERROR"}]
  /\ records \in [Zone -> SUBSET Record]
  /\ file \in [Zone -> (SUBSET Record) \cup {None}] /\ served \in [Zone -> (SUBSET Record) \cup {None}]
  /\ conf \in [Zone -> Nat]
  /\ \A p \in Requester : op[p].todo = <<>> => op[p] = NoRequest
  /\ \A z \in Zone : ~Row(z) => records[z] = {}

\* Once no request on it is in flight, a zone that says ACTIVE is answered as
\* its rows say and would be so after a restart of named, and one without a row has
\* no entry, no file and no answers, whatever failed before and whatever named was
\* told meanwhile for other zones; after requests that overlapped, from the next one
\* on that runs alone.  A zone a deletion of which went on past a failure is left
\* out: named may still know the old one when a creation fails before its entry is
\* added, and no later request adds it.  named.conf never has two entries of a zone:
\* that would take every zone down at the next restart of named.
ServedAsRowsSay ==
  \A z \in Zone :
    /\ conf[z] <= 1
    /\ z \notin skipped \cup mixed /\ Quiet(z) =>
         /\ status[z] = "ACTIVE" =>
              conf[z] = 1 /\ file[z] = records[z] /\ Sound(file[z]) /\ served[z] = records[z]
         /\ ~Row(z) => conf[z] = 0 /\ file[z] = None /\ served[z] = None
=============================================================================
