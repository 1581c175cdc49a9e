---------------------------- MODULE FileManager ----------------------------
(***************************************************************************)
(* Requests on the files of one home directory (modules/file-manager).     *)
(* Each looks first with fs.access() or fs.stat(), then runs one command   *)
(* as the user; tee truncates the file and writes what it is given, so two *)
(* saves may be in one file at a time.  A name leads to an inode, as in    *)
(* the file system: what is moved or removed under a running tee, tee goes *)
(* on writing.  Who may reach which directory is left out, and directories *)
(* are named by the files in them.                                         *)
(***************************************************************************)
EXTENDS Naturals, Sequences, FiniteSets

CONSTANTS Name,           \* names of files in the home directory
          Plain,          \* those whose characters the whitelist admits
          User,           \* requests that may be in flight at once
          MaxFileCalls,   \* bound on requests
          MaxFileFaults   \* bound on commands that fail

ASSUME FileAssumption ==
  /\ Plain \subseteq Name /\ "none" \notin Name /\ Name # {} /\ IsFiniteSet(Name)
  /\ User \subseteq Nat /\ {MaxFileCalls, MaxFileFaults} \subseteq Nat

VARIABLES
  inode,     \* the inode of each name, 0 for none
  data,      \* what each inode holds
  fileCall,  \* requests in flight
  temp,      \* uploads waiting in /tmp
  expected,  \* history: what answered requests have made of each name
  blurred,   \* history: names that a failed request or two at once have touched
  fileCalls, fileFaults

fileVars == <<inode, data, fileCall, temp, expected, blurred, fileCalls, fileFaults>>

Inodes   == 0..(MaxFileCalls + Cardinality(Name))
\* What a file holds: what the request of that number has saved, or one of these.
Empty  == MaxFileCalls + 1
Mixed  == MaxFileCalls + 2
Absent == MaxFileCalls + 3

NoFileCall == [op |-> "none", from |-> "none", to |-> "none", new |-> 0, todo |-> <<>>,
               fd |-> 0, clean |-> FALSE]

FileQuiet    == \A p \in User : fileCall[p] = NoFileCall
FileAt(p, s) == fileCall[p].todo # <<>> /\ Head(fileCall[p].todo) = s
NamesOf(c)   == {c.from, c.to} \cap Name
Held(f)      == IF inode[f] = 0 THEN Absent ELSE data[inode[f]]

\* One of the names has a file that was put there by other means.
FileInit ==
  /\ inode \in {[f \in Name |-> IF f = g THEN 1 ELSE 0] : g \in Name}
  /\ data = [i \in Inodes |-> 0]
  /\ expected = [f \in Name |-> IF inode[f] = 1 THEN 0 ELSE Absent]
  /\ fileCall = [p \in User |-> NoFileCall]
  /\ temp = {} /\ blurred = {} /\ fileCalls = 0 /\ fileFaults = 0

-----------------------------------------------------------------------------
(* Requests.                                                                *)

\* Two requests meet that name one file, or of which one has a file of the other open.
FileOpen(p, c) ==
  LET met == {q \in User : /\ fileCall[q] # NoFileCall
                           /\ \E f \in NamesOf(c) :
                                f \in NamesOf(fileCall[q]) \/ (inode[f] # 0 /\ inode[f] = fileCall[q].fd)} IN
  /\ fileCall[p] = NoFileCall /\ \A q \in User : q < p => fileCall[q] # NoFileCall
  /\ fileCalls < MaxFileCalls /\ fileCalls' = fileCalls + 1
  /\ fileCall' = [q \in User |->
       IF q = p THEN [c EXCEPT !.new = fileCalls + 1, !.clean = (met = {})]
       ELSE [fileCall[q] EXCEPT !.clean = @ /\ q \notin met]]
  /\ UNCHANGED <<inode, data, temp, expected, blurred, fileFaults>>

Op(o, f, g, steps) == [NoFileCall EXCEPT !.op = o, !.from = f, !.to = g, !.todo = steps]

\* Saving a file needs no look at it.
WriteFile(p, f) == FileOpen(p, Op("write", f, "none", <<"tee", "fill">>))

\* touch is not in the whitelist, so that no file is ever made here.
CreateFile(p, f) == FileOpen(p, Op("create", f, "none", <<"absent", "mkdir", "touch">>))

\* rm removes a name; so does deleteDirectory(), for all names below.
DeleteFile(p, f) == FileOpen(p, Op("delete", f, "none", <<"present", "rm">>))

MoveFile(p, f, g) == f # g /\ FileOpen(p, Op("move", f, g, <<"present", "mv">>))
CopyFile(p, f, g) == f # g /\ FileOpen(p, Op("copy", f, g, <<"present", "cp">>))

\* base64 is not in the whitelist; the way around it is a file in /tmp, and mv is
\* not allowed to take it from there.
UploadFile(p, f) == FileOpen(p, Op("upload", f, "none", <<"base64", "spool", "fetch", "unlink">>))

\* chmod, for the mode; unzip, tar, gunzip and stat are not in the whitelist.
SetPermissions(p, f) == FileOpen(p, Op("mode", f, "none", <<"chmod">>))
ExtractArchive(p, f) == FileOpen(p, Op("extract", f, "none", <<"present", "unpack">>))

-----------------------------------------------------------------------------
(* Steps.                                                                   *)

Ran(p)     == FileAt(p, "tee") \/ FileAt(p, "mkdir") \/ FileAt(p, "rm") \/ FileAt(p, "mv")
                \/ FileAt(p, "cp") \/ FileAt(p, "chmod")
Allowed(p) == Ran(p) /\ NamesOf(fileCall[p]) \subseteq Plain
FileOn(p)  == fileCall' = [fileCall EXCEPT ![p].todo = Tail(@)] /\ UNCHANGED <<expected, blurred>>

\* A request ends: what it has made of its names is known unless it met another,
\* and what it leaves in doubt is taken over from the source of a move or a copy.
Answered(p, now, doubtful) ==
  /\ fileCall' = [fileCall EXCEPT ![p] = NoFileCall]
  /\ IF fileCall[p].clean
     THEN expected' = now /\ blurred' = doubtful
     ELSE blurred' = blurred \cup NamesOf(fileCall[p]) /\ UNCHANGED expected

\* An error is answered.
Refused(p) == Answered(p, expected, blurred)

TakenOver(f, g) == (blurred \ {g}) \cup (IF f \in blurred THEN {g} ELSE {})

\* fs.access() and fs.stat().
Look(p) ==
  /\ FileAt(p, "present") \/ FileAt(p, "absent")
  /\ IF FileAt(p, "present") = (inode[fileCall[p].from] # 0) THEN FileOn(p) ELSE Refused(p)
  /\ UNCHANGED <<inode, data, temp, fileCalls, fileFaults>>

Fresh == CHOOSE i \in Inodes \ {0} : \A f \in Name : inode[f] # i /\ \A p \in User : fileCall[p].fd # i

\* Mutant: tee -a.
Tee_Append(p) ==
  LET f == fileCall[p].from
      i == IF inode[f] = 0 THEN Fresh ELSE inode[f] IN
  /\ FileAt(p, "tee") /\ Allowed(p)
  /\ inode' = [inode EXCEPT ![f] = i] /\ data' = IF inode[f] = 0 THEN [data EXCEPT ![i] = Empty] ELSE data
  /\ fileCall' = [fileCall EXCEPT ![p].todo = Tail(@), ![p].fd = i]
  /\ UNCHANGED <<temp, expected, blurred, fileCalls, fileFaults>>

\* tee opens the file, and makes it if there is none.
Tee(p) ==
  LET f == fileCall[p].from
      i == IF inode[f] = 0 THEN Fresh ELSE inode[f] IN
  /\ FileAt(p, "tee") /\ Allowed(p)
  /\ inode' = [inode EXCEPT ![f] = i] /\ data' = [data EXCEPT ![i] = Empty]
  /\ fileCall' = [fileCall EXCEPT ![p].todo = Tail(@), ![p].fd = i]
  /\ UNCHANGED <<temp, expected, blurred, fileCalls, fileFaults>>

\* What is written over what another tee has written meanwhile is neither.
Fill(p) ==
  LET c == fileCall[p] IN
  /\ FileAt(p, "fill")
  /\ data' = [data EXCEPT ![c.fd] = IF @ = Empty THEN c.new ELSE Mixed]
  /\ Answered(p, [expected EXCEPT ![c.from] = c.new], blurred \ {c.from})
  /\ UNCHANGED <<inode, temp, fileCalls, fileFaults>>

Rm(p) ==
  LET f == fileCall[p].from IN
  /\ FileAt(p, "rm") /\ Allowed(p)
  /\ inode' = [inode EXCEPT ![f] = 0]
  /\ Answered(p, [expected EXCEPT ![f] = Absent], blurred \ {f})
  /\ UNCHANGED <<data, temp, fileCalls, fileFaults>>

\* The name it is moved to is taken from whoever has it.
Mv(p) ==
  LET f == fileCall[p].from  g == fileCall[p].to IN
  /\ FileAt(p, "mv") /\ Allowed(p) /\ inode[f] # 0
  /\ inode' = [inode EXCEPT ![g] = inode[f], ![f] = 0]
  /\ Answered(p, [expected EXCEPT ![g] = expected[f], ![f] = Absent], TakenOver(f, g) \ {f})
  /\ UNCHANGED <<data, temp, fileCalls, fileFaults>>

\* cp writes into the file that is there, in one step.
Cp(p) ==
  LET f == fileCall[p].from  g == fileCall[p].to
      i == IF inode[g] = 0 THEN Fresh ELSE inode[g] IN
  /\ FileAt(p, "cp") /\ Allowed(p) /\ inode[f] # 0
  /\ inode' = [inode EXCEPT ![g] = i] /\ data' = [data EXCEPT ![i] = data[inode[f]]]
  /\ Answered(p, [expected EXCEPT ![g] = expected[f]], TakenOver(f, g))
  /\ UNCHANGED <<temp, fileCalls, fileFaults>>

\* Commands that change nothing a name leads to.
Other(p) ==
  /\ FileAt(p, "mkdir") \/ FileAt(p, "chmod")
  /\ Allowed(p)
  /\ IF FileAt(p, "chmod") THEN Refused(p) ELSE FileOn(p)
  /\ UNCHANGED <<inode, data, temp, fileCalls, fileFaults>>

Spool(p) ==
  /\ FileAt(p, "spool")
  /\ temp' = temp \cup {p}
  /\ FileOn(p)
  /\ UNCHANGED <<inode, data, fileCalls, fileFaults>>

Unlink(p) ==
  /\ FileAt(p, "unlink")
  /\ temp' = temp \ {p}
  /\ Refused(p)
  /\ UNCHANGED <<inode, data, fileCalls, fileFaults>>

\* A command that the whitelist refuses: those it does not know, and any on a name
\* that is not plain.  A save looks at no result, and answers that all is well.
NotAllowed(p) ==
  LET c == fileCall[p] IN
  /\ \/ Ran(p) /\ ~Allowed(p)
     \/ \E s \in {"touch", "base64", "fetch", "unpack"} : FileAt(p, s)
  /\ CASE FileAt(p, "tee") -> /\ fileCall' = [fileCall EXCEPT ![p] = NoFileCall]
                              /\ blurred' = blurred \cup NamesOf(c) /\ UNCHANGED expected
       [] FileAt(p, "mkdir") \/ FileAt(p, "base64") \/ FileAt(p, "fetch") -> FileOn(p)
       [] OTHER -> Refused(p)
  /\ UNCHANGED <<inode, data, temp, fileCalls, fileFaults>>

\* A command fails: tee may have emptied the file, and it is not noticed.
FileCommandFails(p) ==
  /\ fileFaults < MaxFileFaults /\ fileFaults' = fileFaults + 1
  /\ \/ /\ (FileAt(p, "tee") /\ Allowed(p)) \/ FileAt(p, "fill")
        /\ fileCall' = [fileCall EXCEPT ![p] = NoFileCall]
        /\ blurred' = blurred \cup NamesOf(fileCall[p]) /\ UNCHANGED expected
     \/ (FileAt(p, "rm") \/ FileAt(p, "mv") \/ FileAt(p, "cp") \/ FileAt(p, "chmod")) /\ Refused(p)
     \/ FileAt(p, "mkdir") /\ FileOn(p)
  /\ UNCHANGED <<inode, data, temp, fileCalls>>

\* The source has gone since it was looked at.
SourceGone(p) ==
  /\ FileAt(p, "mv") \/ FileAt(p, "cp")
  /\ Allowed(p) /\ inode[fileCall[p].from] = 0
  /\ Refused(p)
  /\ UNCHANGED <<inode, data, temp, fileCalls, fileFaults>>

FileNext == \E p \in User :
  \/ \E f \in Name :
       \/ WriteFile(p, f) \/ CreateFile(p, f) \/ DeleteFile(p, f) \/ UploadFile(p, f)
       \/ SetPermissions(p, f) \/ ExtractArchive(p, f)
       \/ \E g \in Name : MoveFile(p, f, g) \/ CopyFile(p, f, g)
  \/ Look(p) \/ Tee(p) \/ Fill(p) \/ Rm(p) \/ Mv(p) \/ Cp(p) \/ Other(p)
  \/ Spool(p) \/ Unlink(p) \/ NotAllowed(p) \/ FileCommandFails(p) \/ SourceGone(p)

FileSpec == FileInit /\ [][FileNext]_fileVars

-----------------------------------------------------------------------------
\* Types; two names never lead to one inode.
FileTypeOK ==
  /\ inode \in [Name -> Inodes] /\ data \in [Inodes -> 0..Mixed]
  /\ temp \subseteq User /\ blurred \subseteq Name
  /\ \A f, g \in Name : f # g /\ inode[f] # 0 => inode[f] # inode[g]

\* Once no request is in flight a name leads to what the requests answered so far
\* have made of it, whole: what was saved last, also after a move or a copy, and
\* nothing after a removal; requests answered with an error have changed nothing, and
\* no upload is left in /tmp.  Excepted are names that two requests had in hand at
\* once, or that a save named which did not reach the file though it was answered.
FilesAsAnswered ==
  FileQuiet => temp = {} /\ \A f \in Name \ blurred : Held(f) = expected[f]
=============================================================================
